-------------------------- MODULE InventoryProofs --------------------------
(***************************************************************************)
(* Theorems about the stock of a product, for any branches, documents,     *)
(* screens, clerks, terminals and quantities.                              *)
(***************************************************************************)
EXTENDS Inventory, SumLemmas

-----------------------------------------------------------------------------
(* What the library makes of a sum of quantities, or of differences.       *)
QtySums(F, f, D) ==
  F = [s \in D |-> IF s = {} THEN 0 ELSE LET x == CHOOSE x \in s : TRUE IN f[x].qty + F[s \ {x}]]
DifferenceSums(F, f, D) ==
  F = [s \in D |-> IF s = {} THEN 0 ELSE LET x == CHOOSE x \in s : TRUE IN f[x].difference + F[s \ {x}]]

LEMMA QtySum ==
  ASSUME NEW S, IsFiniteSet(S), NEW f, \A x \in S : f[x].qty \in Int
  PROVE  (CHOOSE F : QtySums(F, f, SUBSET S))[S] = SumFunctionOnSet([x \in S |-> f[x].qty], S)
<1> DEFINE g == [x \in S |-> f[x].qty]
<1>1. \A x \in S : g[x] \in Int /\ g[x] = f[x].qty
  OBVIOUS
<1>2. ASSUME NEW F PROVE QtySums(F, f, SUBSET S) <=> IsSum(F, g, SUBSET S)
  <2>1. ASSUME NEW s \in SUBSET S
        PROVE  (IF s = {} THEN 0 ELSE LET x == CHOOSE x \in s : TRUE IN f[x].qty + F[s \ {x}])
             = (IF s = {} THEN 0 ELSE LET x == CHOOSE x \in s : TRUE IN g[x] + F[s \ {x}])
    OBVIOUS
  <2> HIDE DEF g
  <2> QED BY <2>1 DEF QtySums, IsSum
<1> HIDE DEF g
<1>3. PICK F : IsSum(F, g, SUBSET S) /\ SumFunctionOnSet(g, S) = F[S]
  BY SumIsSum
<1> DEFINE H == CHOOSE G : QtySums(G, f, SUBSET S)
<1>4. QtySums(H, f, SUBSET S)
  BY <1>2, <1>3
<1> HIDE DEF H
<1>5. H[S] = F[S]
  BY <1>1, <1>2, <1>3, <1>4, SumsAgree
<1> QED BY <1>3, <1>5 DEF g, H

LEMMA DifferenceSum ==
  ASSUME NEW S, IsFiniteSet(S), NEW f, \A x \in S : f[x].difference \in Int
  PROVE  (CHOOSE F : DifferenceSums(F, f, SUBSET S))[S] = SumFunctionOnSet([x \in S |-> f[x].difference], S)
<1> DEFINE g == [x \in S |-> f[x].difference]
<1>1. \A x \in S : g[x] \in Int /\ g[x] = f[x].difference
  OBVIOUS
<1>2. ASSUME NEW F PROVE DifferenceSums(F, f, SUBSET S) <=> IsSum(F, g, SUBSET S)
  <2>1. ASSUME NEW s \in SUBSET S
        PROVE  (IF s = {} THEN 0 ELSE LET x == CHOOSE x \in s : TRUE IN f[x].difference + F[s \ {x}])
             = (IF s = {} THEN 0 ELSE LET x == CHOOSE x \in s : TRUE IN g[x] + F[s \ {x}])
    OBVIOUS
  <2> HIDE DEF g
  <2> QED BY <2>1 DEF DifferenceSums, IsSum
<1> HIDE DEF g
<1>3. PICK F : IsSum(F, g, SUBSET S) /\ SumFunctionOnSet(g, S) = F[S]
  BY SumIsSum
<1> DEFINE H == CHOOSE G : DifferenceSums(G, f, SUBSET S)
<1>4. DifferenceSums(H, f, SUBSET S)
  BY <1>2, <1>3
<1> HIDE DEF H
<1>5. H[S] = F[S]
  BY <1>1, <1>2, <1>3, <1>4, SumsAgree
<1> QED BY <1>3, <1>5 DEF g, H

(* What a document counts for while it stands, and a discrepancy once it   *)
(* is resolved, and the sums of these.                                     *)
Worth(doc) == IF doc.status = "completed" THEN doc.qty ELSE 0
Correction(doc) == IF doc.status = "resolved" THEN doc.difference ELSE 0
Worths(f, S) == SumFunctionOnSet([x \in S |-> Worth(f[x])], S)
Corrections(f, S) == SumFunctionOnSet([x \in S |-> Correction(f[x])], S)

LEMMA WorthsAreSum ==
  ASSUME NEW S, IsFiniteSet(S), NEW f, \A x \in S : f[x].qty \in Int
  PROVE  LET C == Completed(S, f) IN (CHOOSE F : QtySums(F, f, SUBSET C))[C] = Worths(f, S)
<1> DEFINE C == Completed(S, f)
           q == [x \in C |-> f[x].qty]
           w == [x \in S |-> Worth(f[x])]
<1>1. C \in SUBSET S /\ IsFiniteSet(C) /\ \A x \in C : f[x].qty \in Int
  BY FS_Subset DEF Completed
<1>2. (CHOOSE F : QtySums(F, f, SUBSET C))[C] = SumFunctionOnSet(q, C)
  <2> HIDE DEF C
  <2> QED BY <1>1, QtySum
<1>3. \A x \in C : w[x] \in Int /\ q[x] = w[x]
  BY DEF Worth, Completed
<1>4. \A x \in S : w[x] \in Int
  BY DEF Worth
<1>5. \A x \in S \ C : w[x] = 0
  BY DEF Worth, Completed
<1> HIDE DEF q, w, C
<1>6. SumFunctionOnSet(q, C) = SumFunctionOnSet(w, C)
  BY <1>1, <1>3, SumSame
<1>7. SumFunctionOnSet(w, S) = SumFunctionOnSet(w, C)
  BY <1>1, <1>4, <1>5, SumSupport
<1>8. (CHOOSE F : QtySums(F, f, SUBSET C))[C] = Worths(f, S)
  BY <1>2, <1>6, <1>7 DEF Worths, w
<1> QED BY <1>8 DEF C

LEMMA CorrectionsAreSum ==
  ASSUME NEW S, IsFiniteSet(S), NEW f, \A x \in S : f[x].difference \in Int
  PROVE  LET C == {d \in S : f[d].status = "resolved"}
         IN  (CHOOSE F : DifferenceSums(F, f, SUBSET C))[C] = Corrections(f, S)
<1> DEFINE C == {d \in S : f[d].status = "resolved"}
           q == [x \in C |-> f[x].difference]
           w == [x \in S |-> Correction(f[x])]
<1>1. C \in SUBSET S /\ IsFiniteSet(C) /\ \A x \in C : f[x].difference \in Int
  BY FS_Subset
<1>2. (CHOOSE F : DifferenceSums(F, f, SUBSET C))[C] = SumFunctionOnSet(q, C)
  <2> HIDE DEF C
  <2> QED BY <1>1, DifferenceSum
<1>3. \A x \in C : w[x] \in Int /\ q[x] = w[x]
  BY DEF Correction
<1>4. \A x \in S : w[x] \in Int
  BY DEF Correction
<1>5. \A x \in S \ C : w[x] = 0
  BY DEF Correction
<1> HIDE DEF q, w, C
<1>6. SumFunctionOnSet(q, C) = SumFunctionOnSet(w, C)
  BY <1>1, <1>3, SumSame
<1>7. SumFunctionOnSet(w, S) = SumFunctionOnSet(w, C)
  BY <1>1, <1>4, <1>5, SumSupport
<1>8. (CHOOSE F : DifferenceSums(F, f, SUBSET C))[C] = Corrections(f, S)
  BY <1>2, <1>6, <1>7 DEF Corrections, w
<1> QED BY <1>8 DEF C

(* One document is written.                                                *)
Gains(f, g, S, m, n) == Worths(f, S) \in Int /\ Worths(g, S) = Worths(f, S) - m + n
Corrects(f, g, S, m, n) == Corrections(f, S) \in Int /\ Corrections(g, S) = Corrections(f, S) - m + n
LEMMA WorthMoves ==
  ASSUME NEW S, IsFiniteSet(S), NEW P, NEW f \in [S -> P], NEW x \in S, NEW v,
         \A y \in S : Worth(f[y]) \in Int, Worth(v) \in Int
  PROVE  Gains(f, [f EXCEPT ![x] = v], S, Worth(f[x]), Worth(v))
<1> DEFINE g == [f EXCEPT ![x] = v]
           old == [y \in S |-> Worth(f[y])]
           new == [y \in S |-> Worth(g[y])]
<1>1. \A y \in S : old[y] \in Int
  OBVIOUS
<1>2. g[x] = v /\ \A y \in S \ {x} : g[y] = f[y]
  OBVIOUS
<1> HIDE DEF g
<1>3. new[x] \in Int /\ old[x] = Worth(f[x]) /\ new[x] = Worth(v) /\ \A y \in S \ {x} : new[y] = old[y]
  BY <1>2
<1> HIDE DEF old, new
<1>4. /\ SumFunctionOnSet(old, S) \in Int
      /\ SumFunctionOnSet(new, S) = SumFunctionOnSet(old, S) - old[x] + new[x]
  BY <1>1, <1>3, SumUpdate
<1>5. old[x] \in Int
  BY <1>1
<1>6. Worths(f, S) = SumFunctionOnSet(old, S) /\ Worths(g, S) = SumFunctionOnSet(new, S)
  BY DEF Worths, old, new
<1>7. Gains(f, g, S, Worth(f[x]), Worth(v))
  BY <1>3, <1>4, <1>5, <1>6 DEF Gains
<1> QED BY <1>7 DEF g

LEMMA CorrectionMoves ==
  ASSUME NEW S, IsFiniteSet(S), NEW P, NEW f \in [S -> P], NEW x \in S, NEW v,
         \A y \in S : Correction(f[y]) \in Int, Correction(v) \in Int
  PROVE  Corrects(f, [f EXCEPT ![x] = v], S, Correction(f[x]), Correction(v))
<1> DEFINE g == [f EXCEPT ![x] = v]
           old == [y \in S |-> Correction(f[y])]
           new == [y \in S |-> Correction(g[y])]
<1>1. \A y \in S : old[y] \in Int
  OBVIOUS
<1>2. g[x] = v /\ \A y \in S \ {x} : g[y] = f[y]
  OBVIOUS
<1> HIDE DEF g
<1>3. new[x] \in Int /\ old[x] = Correction(f[x]) /\ new[x] = Correction(v) /\ \A y \in S \ {x} : new[y] = old[y]
  BY <1>2
<1> HIDE DEF old, new
<1>4. /\ SumFunctionOnSet(old, S) \in Int
      /\ SumFunctionOnSet(new, S) = SumFunctionOnSet(old, S) - old[x] + new[x]
  BY <1>1, <1>3, SumUpdate
<1>5. old[x] \in Int
  BY <1>1
<1>6. Corrections(f, S) = SumFunctionOnSet(old, S) /\ Corrections(g, S) = SumFunctionOnSet(new, S)
  BY DEF Corrections, old, new
<1>7. Corrects(f, g, S, Correction(f[x]), Correction(v))
  BY <1>3, <1>4, <1>5, <1>6 DEF Corrects
<1> QED BY <1>7 DEF g

LEMMA BooksAreSums ==
  /\ Received = (LET C == Completed(Receipts, receipt) IN (CHOOSE F : QtySums(F, receipt, SUBSET C))[C])
  /\ Received' = (LET C == Completed(Receipts, receipt') IN (CHOOSE F : QtySums(F, receipt', SUBSET C))[C])
  /\ Shipped = (LET C == Completed(Transfers, transfer) IN (CHOOSE F : QtySums(F, transfer, SUBSET C))[C])
  /\ Shipped' = (LET C == Completed(Transfers, transfer') IN (CHOOSE F : QtySums(F, transfer', SUBSET C))[C])
  /\ Corrected = (LET C == {d \in Discrepancies : discrepancy[d].status = "resolved"}
                  IN (CHOOSE F : DifferenceSums(F, discrepancy, SUBSET C))[C])
  /\ Corrected' = (LET C == {d \in Discrepancies : discrepancy'[d].status = "resolved"}
                   IN (CHOOSE F : DifferenceSums(F, discrepancy', SUBSET C))[C])
BY DEF Received, Shipped, Corrected, SumOver, MapThenSumSet, MapThenFoldSet, QtySums, DifferenceSums

-----------------------------------------------------------------------------
(* The books of the shop: their documents, what a screen has read and what *)
(* a clerk has listed, and the counters.  Lots are left alone: no total is *)
(* computed from them.                                                     *)
ReceiptDocs(L) == [status : {"none", "draft", "completed", "cancelled"}, qty : Int, lot : L, updatedAt : Nat]
TransferDocs(D) == [status : {"none", "completed", "cancelled"}, qty : Int, details : D, updatedAt : Nat]
DiscrepancyDocs == [status : {"none"}, difference : {0}]
                     \cup [status : {"reported", "resolved"}, difference : Int, of : Transfers]
ReceiptsTyped == \E L : receipt \in [Receipts -> ReceiptDocs(L)]
TransfersTyped == \E D : transfer \in [Transfers -> TransferDocs(D)]
CountsTyped == /\ counter \in [Branches -> Int] /\ adjusted \in [Branches -> Int] /\ sold \in [Branches -> Int]
               /\ discrepancy \in [Discrepancies -> DiscrepancyDocs] /\ clobbered \in BOOLEAN
DesksSound == \E P : desk \in [Desks -> P] /\ \A d \in Desks :
  /\ desk[d].doing = "draft" => desk[d].of \in Receipts /\ desk[d].saw.receipt.status = "draft"
  /\ desk[d].doing \in {"update", "cancel"} =>
       /\ desk[d].of \in Receipts /\ desk[d].saw.receipt.status = "completed"
       /\ desk[d].saw.receipt.qty \in Int /\ desk[d].saw.counter \in Int
PlansSound == \E P : plan \in [Clerks -> P] /\ \A k \in Clerks :
  /\ plan[k].to \in {"confirm", "cancel"} => plan[k].of \in Transfers
  /\ plan[k].to = "cancel" => transfer[plan[k].of].status # "none"
  /\ plan[k].to = "adjust" => plan[k].of \in Branches
BookTyped == ReceiptsTyped /\ TransfersTyped /\ CountsTyped
BookInv == BookTyped /\ DesksSound /\ PlansSound /\ DocumentedOrClobbered

LEMMA FieldsTyped ==
  ASSUME BookTyped
  PROVE  /\ \A r \in Receipts : receipt[r].qty \in Int
         /\ \A t \in Transfers : transfer[t].qty \in Int
         /\ \A d \in Discrepancies : discrepancy[d].difference \in Int
BY DEF BookTyped, ReceiptsTyped, TransfersTyped, CountsTyped, ReceiptDocs, TransferDocs, DiscrepancyDocs

LEMMA WorthsInt ==
  ASSUME NEW S, IsFiniteSet(S), NEW f
  PROVE  /\ (\A x \in S : f[x].qty \in Int) => Worths(f, S) \in Int
         /\ (\A x \in S : f[x].difference \in Int) => Corrections(f, S) \in Int
<1>1. ASSUME \A x \in S : f[x].qty \in Int PROVE Worths(f, S) \in Int
  <2> DEFINE w == [x \in S |-> Worth(f[x])]
  <2>1. \A x \in S : w[x] \in Int
    BY <1>1 DEF Worth
  <2> HIDE DEF w
  <2> QED BY <2>1, SumOne DEF Worths, w
<1>2. ASSUME \A x \in S : f[x].difference \in Int PROVE Corrections(f, S) \in Int
  <2> DEFINE w == [x \in S |-> Correction(f[x])]
  <2>1. \A x \in S : w[x] \in Int
    BY <1>2 DEF Correction
  <2> HIDE DEF w
  <2> QED BY <2>1, SumOne DEF Corrections, w
<1> QED BY <1>1, <1>2

LEMMA WorthsNone ==
  ASSUME NEW S, IsFiniteSet(S), NEW f
  PROVE  /\ (\A x \in S : Worth(f[x]) = 0) => Worths(f, S) = 0
         /\ (\A x \in S : Correction(f[x]) = 0) => Corrections(f, S) = 0
<1>1. ASSUME \A x \in S : Worth(f[x]) = 0 PROVE Worths(f, S) = 0
  <2> DEFINE w == [x \in S |-> Worth(f[x])]
  <2>1. \A x \in S : w[x] = 0
    BY <1>1
  <2> HIDE DEF w
  <2> QED BY <2>1, SumZero DEF Worths, w
<1>2. ASSUME \A x \in S : Correction(f[x]) = 0 PROVE Corrections(f, S) = 0
  <2> DEFINE w == [x \in S |-> Correction(f[x])]
  <2>1. \A x \in S : w[x] = 0
    BY <1>2
  <2> HIDE DEF w
  <2> QED BY <2>1, SumZero DEF Corrections, w
<1> QED BY <1>1, <1>2

(* What the documents say of a branch, said with the sums.                 *)
Says(b, rs, ts, ds, adj, sales) ==
  If(b = Home, rs) + If(b = To, ts + ds) - If(b = From, ts) + adj - sales
LEMMA BookSaysSo ==
  ASSUME InventoryAssumption, BookTyped
  PROVE  CounterIsDocumented <=> \A b \in Branches : counter[b] =
           Says(b, Worths(receipt, Receipts), Worths(transfer, Transfers), Corrections(discrepancy, Discrepancies),
                adjusted[b], sold[b])
<1>1. /\ Received = Worths(receipt, Receipts) /\ Shipped = Worths(transfer, Transfers)
      /\ Corrected = Corrections(discrepancy, Discrepancies)
  BY BooksAreSums, WorthsAreSum, CorrectionsAreSum, FieldsTyped DEF InventoryAssumption
<1> QED BY <1>1 DEF CounterIsDocumented, Says

LEMMA BookSaysSoAfter ==
  ASSUME InventoryAssumption, BookTyped'
  PROVE  CounterIsDocumented' <=> \A b \in Branches : counter'[b] =
           Says(b, Worths(receipt', Receipts), Worths(transfer', Transfers), Corrections(discrepancy', Discrepancies),
                adjusted'[b], sold'[b])
<1>1. /\ \A r \in Receipts : receipt'[r].qty \in Int
      /\ \A t \in Transfers : transfer'[t].qty \in Int
      /\ \A d \in Discrepancies : discrepancy'[d].difference \in Int
  BY DEF BookTyped, ReceiptsTyped, TransfersTyped, CountsTyped, ReceiptDocs, TransferDocs, DiscrepancyDocs
<1>2. /\ Received' = Worths(receipt', Receipts) /\ Shipped' = Worths(transfer', Transfers)
      /\ Corrected' = Corrections(discrepancy', Discrepancies)
  BY <1>1, BooksAreSums, WorthsAreSum, CorrectionsAreSum DEF InventoryAssumption
<1> QED BY <1>2 DEF CounterIsDocumented, Says

(* The counters move by what the documents move by.                        *)
LEMMA Balanced ==
  ASSUME InventoryAssumption, BookTyped, BookTyped', CounterIsDocumented, NEW r \in Int, NEW t \in Int, NEW d \in Int,
         Worths(receipt', Receipts) = Worths(receipt, Receipts) + r,
         Worths(transfer', Transfers) = Worths(transfer, Transfers) + t,
         Corrections(discrepancy', Discrepancies) = Corrections(discrepancy, Discrepancies) + d,
         \A b \in Branches : counter'[b] = counter[b] + Says(b, r, t, d, adjusted'[b] - adjusted[b], sold'[b] - sold[b])
  PROVE  CounterIsDocumented'
<1> DEFINE R == Worths(receipt, Receipts)
           T == Worths(transfer, Transfers)
           D == Corrections(discrepancy, Discrepancies)
<1>1. R \in Int /\ T \in Int /\ D \in Int
  BY FieldsTyped, WorthsInt DEF InventoryAssumption
<1>2. \A b \in Branches : counter[b] = Says(b, R, T, D, adjusted[b], sold[b])
  BY BookSaysSo
<1>3. \A b \in Branches : adjusted[b] \in Int /\ sold[b] \in Int /\ adjusted'[b] \in Int /\ sold'[b] \in Int
  BY DEF BookTyped, CountsTyped
<1> HIDE DEF R, T, D
<1>4. \A b \in Branches : counter'[b] = Says(b, R + r, T + t, D + d, adjusted'[b], sold'[b])
  BY <1>1, <1>2, <1>3 DEF Says, If
<1> QED BY <1>4, BookSaysSoAfter DEF R, T, D

(* A receipt, a transfer or a discrepancy is written.                      *)
LEMMA ReceiptWritten ==
  ASSUME InventoryAssumption, BookTyped, NEW r \in Receipts, NEW v, NEW l, v \in ReceiptDocs({l}),
         receipt' = [receipt EXCEPT ![r] = v]
  PROVE  /\ ReceiptsTyped' /\ Worths(receipt', Receipts) = Worths(receipt, Receipts) + (Worth(v) - Worth(receipt[r]))
         /\ Worth(v) \in Int /\ Worth(receipt[r]) \in Int
<1>1. PICK L : receipt \in [Receipts -> ReceiptDocs(L)]
  BY DEF BookTyped, ReceiptsTyped
<1>2. receipt' \in [Receipts -> ReceiptDocs(L \cup {l})]
  BY <1>1 DEF ReceiptDocs
<1>3. \A x \in Receipts : receipt[x].qty \in Int
  BY <1>1 DEF ReceiptDocs
<1>4. v.qty \in Int /\ receipt'[r].qty \in Int /\ receipt'[r] = v /\ \A x \in Receipts \ {r} : receipt'[x] = receipt[x]
  BY <1>1 DEF ReceiptDocs
<1>5. /\ Worths(receipt, Receipts) \in Int
      /\ Worths(receipt', Receipts) = Worths(receipt, Receipts) - Worth(receipt[r]) + Worth(v)
  <2>1. IsFiniteSet(Receipts)
    BY DEF InventoryAssumption
  <2>2. Worth(v) \in Int /\ \A y \in Receipts : Worth(receipt[y]) \in Int
    BY <1>3, <1>4 DEF Worth
  <2>3. Gains(receipt, receipt', Receipts, Worth(receipt[r]), Worth(v))
    BY <1>1, <2>1, <2>2, WorthMoves
  <2> QED BY <2>3 DEF Gains
<1>6. Worth(v) \in Int /\ Worth(receipt[r]) \in Int
  BY <1>3, <1>4 DEF Worth
<1>7. Worths(receipt', Receipts) = Worths(receipt, Receipts) + (Worth(v) - Worth(receipt[r]))
  BY <1>4, <1>5, <1>6
<1>8. ReceiptsTyped'
  BY <1>2 DEF ReceiptsTyped
<1> QED BY <1>4, <1>6, <1>7, <1>8

LEMMA TransferWritten ==
  ASSUME InventoryAssumption, BookTyped, NEW t \in Transfers, NEW v, NEW l, v \in TransferDocs({l}),
         transfer' = [transfer EXCEPT ![t] = v]
  PROVE  /\ TransfersTyped' /\ Worths(transfer', Transfers) = Worths(transfer, Transfers) + (Worth(v) - Worth(transfer[t]))
         /\ Worth(v) \in Int /\ Worth(transfer[t]) \in Int
         /\ transfer'[t] = v /\ \A x \in Transfers : x # t => transfer'[x] = transfer[x]
<1>1. PICK D : transfer \in [Transfers -> TransferDocs(D)]
  BY DEF BookTyped, TransfersTyped
<1>2. transfer' \in [Transfers -> TransferDocs(D \cup {l})]
  BY <1>1 DEF TransferDocs
<1>3. \A x \in Transfers : transfer[x].qty \in Int
  BY <1>1 DEF TransferDocs
<1>4. v.qty \in Int /\ transfer'[t].qty \in Int /\ transfer'[t] = v /\ \A x \in Transfers \ {t} : transfer'[x] = transfer[x]
  BY <1>1 DEF TransferDocs
<1>5. /\ Worths(transfer, Transfers) \in Int
      /\ Worths(transfer', Transfers) = Worths(transfer, Transfers) - Worth(transfer[t]) + Worth(v)
  <2>1. IsFiniteSet(Transfers)
    BY DEF InventoryAssumption
  <2>2. Worth(v) \in Int /\ \A y \in Transfers : Worth(transfer[y]) \in Int
    BY <1>3, <1>4 DEF Worth
  <2>3. Gains(transfer, transfer', Transfers, Worth(transfer[t]), Worth(v))
    BY <1>1, <2>1, <2>2, WorthMoves
  <2> QED BY <2>3 DEF Gains
<1>6. Worth(v) \in Int /\ Worth(transfer[t]) \in Int
  BY <1>3, <1>4 DEF Worth
<1>7. Worths(transfer', Transfers) = Worths(transfer, Transfers) + (Worth(v) - Worth(transfer[t]))
  BY <1>4, <1>5, <1>6
<1>8. TransfersTyped'
  BY <1>2 DEF TransfersTyped
<1> QED BY <1>4, <1>6, <1>7, <1>8

LEMMA DiscrepancyWritten ==
  ASSUME InventoryAssumption, BookTyped, NEW d \in Discrepancies, NEW v \in DiscrepancyDocs,
         discrepancy' = [discrepancy EXCEPT ![d] = v]
  PROVE  /\ discrepancy' \in [Discrepancies -> DiscrepancyDocs]
         /\ Corrections(discrepancy', Discrepancies) =
              Corrections(discrepancy, Discrepancies) + (Correction(v) - Correction(discrepancy[d]))
         /\ Correction(v) \in Int /\ Correction(discrepancy[d]) \in Int
<1>1. discrepancy \in [Discrepancies -> DiscrepancyDocs]
  BY DEF BookTyped, CountsTyped
<1>2. discrepancy' \in [Discrepancies -> DiscrepancyDocs]
  BY <1>1
<1>3. \A x \in Discrepancies : discrepancy[x].difference \in Int
  BY FieldsTyped
<1>4. v.difference \in Int /\ discrepancy'[d].difference \in Int /\ discrepancy'[d] = v /\ \A x \in Discrepancies \ {d} : discrepancy'[x] = discrepancy[x]
  BY <1>1 DEF DiscrepancyDocs
<1>5. /\ Corrections(discrepancy, Discrepancies) \in Int
      /\ Corrections(discrepancy', Discrepancies) = Corrections(discrepancy, Discrepancies) - Correction(discrepancy[d]) + Correction(v)
  <2>1. IsFiniteSet(Discrepancies)
    BY DEF InventoryAssumption
  <2>2. Correction(v) \in Int /\ \A y \in Discrepancies : Correction(discrepancy[y]) \in Int
    BY <1>3, <1>4 DEF Correction
  <2>3. Corrects(discrepancy, discrepancy', Discrepancies, Correction(discrepancy[d]), Correction(v))
    BY <1>1, <2>1, <2>2, CorrectionMoves
  <2> QED BY <2>3 DEF Corrects
<1>6. Correction(v) \in Int /\ Correction(discrepancy[d]) \in Int
  BY <1>3, <1>4 DEF Correction
<1>7. Corrections(discrepancy', Discrepancies) = Corrections(discrepancy, Discrepancies) + (Correction(v) - Correction(discrepancy[d]))
  BY <1>4, <1>5, <1>6
<1> QED BY <1>2, <1>6, <1>7
(* What is left alone.                                                     *)
LEMMA Unmoved ==
  ASSUME InventoryAssumption, BookTyped
  PROVE  /\ receipt' = receipt => ReceiptsTyped' /\ Worths(receipt', Receipts) = Worths(receipt, Receipts) + 0
         /\ transfer' = transfer => TransfersTyped' /\ Worths(transfer', Transfers) = Worths(transfer, Transfers) + 0
         /\ discrepancy' = discrepancy =>
              Corrections(discrepancy', Discrepancies) = Corrections(discrepancy, Discrepancies) + 0
<1>1. /\ Worths(receipt, Receipts) \in Int /\ Worths(transfer, Transfers) \in Int
      /\ Corrections(discrepancy, Discrepancies) \in Int
  BY FieldsTyped, WorthsInt DEF InventoryAssumption
<1>2. Worths(receipt, Receipts) + 0 = Worths(receipt, Receipts) /\ Worths(transfer, Transfers) + 0 = Worths(transfer, Transfers)
      /\ Corrections(discrepancy, Discrepancies) + 0 = Corrections(discrepancy, Discrepancies)
  BY <1>1
<1>3. ReceiptsTyped /\ TransfersTyped
  BY DEF BookTyped
<1>4. receipt' = receipt => ReceiptsTyped' /\ Worths(receipt', Receipts) = Worths(receipt, Receipts)
  BY <1>3 DEF ReceiptsTyped
<1>5. transfer' = transfer => TransfersTyped' /\ Worths(transfer', Transfers) = Worths(transfer, Transfers)
  BY <1>3 DEF TransfersTyped
<1> QED BY <1>2, <1>4, <1>5

LEMMA DesksUnmoved == desk' = desk /\ DesksSound => DesksSound'
BY DEF DesksSound
LEMMA PlansUnmoved == plan' = plan /\ transfer' = transfer /\ PlansSound => PlansSound'
BY DEF PlansSound

(* A step that moves the counters by what it moves the documents by, or    *)
(* that writes over something it had not read, keeps the books.            *)
LEMMA Kept ==
  ASSUME InventoryAssumption, BookInv, BookTyped', DesksSound', PlansSound', clobbered => clobbered',
         NEW r \in Int, NEW t \in Int, NEW d \in Int,
         Worths(receipt', Receipts) = Worths(receipt, Receipts) + r,
         Worths(transfer', Transfers) = Worths(transfer, Transfers) + t,
         Corrections(discrepancy', Discrepancies) = Corrections(discrepancy, Discrepancies) + d,
         ~clobbered' => \A b \in Branches :
           counter'[b] = counter[b] + Says(b, r, t, d, adjusted'[b] - adjusted[b], sold'[b] - sold[b])
  PROVE  BookInv'
<1>1. CASE clobbered'
  BY <1>1 DEF BookInv, DocumentedOrClobbered
<1>2. CASE ~clobbered'
  <2>1. CounterIsDocumented /\ BookTyped
    BY <1>2 DEF BookInv, DocumentedOrClobbered
  <2>2. CounterIsDocumented'
    BY <1>2, <2>1, Balanced
  <2> QED BY <2>2 DEF BookInv, DocumentedOrClobbered
<1> QED BY <1>1, <1>2

(* A step that writes a receipt and leaves the stock alone.                *)
LEMMA DraftMoves ==
  ASSUME InventoryAssumption, BookInv, ReceiptsTyped', Worths(receipt', Receipts) = Worths(receipt, Receipts) + 0,
         UNCHANGED <<counter, desk, clobbered, transfer, plan, discrepancy, adjusted, sold>>
  PROVE  BookInv'
<1>1. BookTyped
  BY DEF BookInv
<1>2. /\ Worths(transfer', Transfers) = Worths(transfer, Transfers) + 0
      /\ Corrections(discrepancy', Discrepancies) = Corrections(discrepancy, Discrepancies) + 0
      /\ TransfersTyped' /\ DesksSound' /\ PlansSound'
  BY <1>1, Unmoved, DesksUnmoved, PlansUnmoved DEF BookInv
<1>3. CountsTyped'
  BY <1>1 DEF BookTyped, CountsTyped
<1>4. \A b \in Branches : counter'[b] = counter[b] + Says(b, 0, 0, 0, adjusted'[b] - adjusted[b], sold'[b] - sold[b])
  BY <1>1 DEF Says, If, BookTyped, CountsTyped
<1> QED BY <1>2, <1>3, <1>4, Kept DEF BookTyped

-----------------------------------------------------------------------------
(* Goods received.                                                         *)
LEMMA ConfirmReceivingKeeps ==
  ASSUME InventoryAssumption, BookInv, NEW r \in Receipts, NEW q \in Quantities,
         ConfirmReceiving(r, q), UNCHANGED <<transferVars, sold>>
  PROVE  BookInv'
<1> DEFINE v == [status |-> "completed", qty |-> q, lot |-> Len(lots) + 1, updatedAt |-> receipt[r].updatedAt + 1]
<1>1. BookTyped /\ q \in Int /\ counter \in [Branches -> Int] /\ Home \in Branches
  BY DEF BookInv, BookTyped, CountsTyped, InventoryAssumption
<1>2. receipt[r].updatedAt \in Nat /\ receipt' = [receipt EXCEPT ![r] = v]
  BY <1>1 DEF BookTyped, ReceiptsTyped, ReceiptDocs, ConfirmReceiving
<1>3. v \in ReceiptDocs({Len(lots) + 1}) /\ Worth(v) = q /\ Worth(receipt[r]) = 0
  BY <1>1, <1>2 DEF ReceiptDocs, Worth, ConfirmReceiving, MayBeConfirmed
<1> HIDE DEF v
<1>4. ReceiptsTyped' /\ Worths(receipt', Receipts) = Worths(receipt, Receipts) + q
  <2>1. ReceiptsTyped' /\ Worths(receipt', Receipts) = Worths(receipt, Receipts) + (Worth(v) - Worth(receipt[r]))
    BY <1>1, <1>2, <1>3, ReceiptWritten
  <2> QED BY <1>1, <1>3, <2>1
<1>5. counter' = [counter EXCEPT ![Home] = @ + q] /\ UNCHANGED <<desk, clobbered, transfer, plan, discrepancy, adjusted, sold>>
  BY DEF ConfirmReceiving, transferVars
<1>6. TransfersTyped' /\ CountsTyped' /\ DesksSound' /\ PlansSound'
  <2>1. TransfersTyped' /\ DesksSound' /\ PlansSound'
    BY <1>1, <1>5, Unmoved, DesksUnmoved, PlansUnmoved DEF BookInv
  <2>2. CountsTyped'
    BY <1>1, <1>5 DEF BookTyped, CountsTyped
  <2> QED BY <2>1, <2>2
<1>7. \A b \in Branches : counter'[b] = counter[b] + Says(b, q, 0, 0, adjusted'[b] - adjusted[b], sold'[b] - sold[b])
  BY <1>1, <1>5 DEF Says, If, BookTyped, CountsTyped
<1>8. /\ Worths(transfer', Transfers) = Worths(transfer, Transfers) + 0
      /\ Corrections(discrepancy', Discrepancies) = Corrections(discrepancy, Discrepancies) + 0
  BY <1>1, <1>5, Unmoved
<1> QED BY <1>1, <1>4, <1>5, <1>6, <1>7, <1>8, Kept DEF BookTyped

LEMMA NewDraftKeeps ==
  ASSUME InventoryAssumption, BookInv, NEW r \in Receipts, NEW q \in Quantities,
         NewDraft(r, q), UNCHANGED <<transferVars, sold>>
  PROVE  BookInv'
<1> DEFINE v == [NoReceipt EXCEPT !.status = "draft", !.qty = q, !.updatedAt = 1]
<1>1. BookTyped /\ q \in Int
  BY DEF BookInv, InventoryAssumption
<1>2. receipt' = [receipt EXCEPT ![r] = v]
  BY DEF NewDraft
<1>3. v \in ReceiptDocs({NoLot}) /\ Worth(v) = 0 /\ Worth(receipt[r]) = 0
  BY <1>1 DEF NoReceipt, ReceiptDocs, Worth, NewDraft
<1> HIDE DEF v
<1>4. ReceiptsTyped' /\ Worths(receipt', Receipts) = Worths(receipt, Receipts) + 0
  <2>1. ReceiptsTyped' /\ Worths(receipt', Receipts) = Worths(receipt, Receipts) + (Worth(v) - Worth(receipt[r]))
    BY <1>1, <1>2, <1>3, ReceiptWritten
  <2> QED BY <1>3, <2>1
<1>5. UNCHANGED <<counter, desk, clobbered, transfer, plan, discrepancy, adjusted, sold>>
  BY DEF NewDraft, transferVars, stockVars
<1> QED BY <1>1, <1>4, <1>5, DraftMoves

LEMMA ReadKeeps ==
  ASSUME InventoryAssumption, BookInv, NEW d \in Desks, NEW r \in Receipts,
         ReadForDraft(d, r) \/ ReadForUpdate(d, r) \/ ReadForCancel(d, r), UNCHANGED <<transferVars, sold>>
  PROVE  BookInv'
<1>1. UNCHANGED <<counter, receipt, clobbered, transfer, plan, discrepancy, adjusted, sold>>
  BY DEF ReadForDraft, ReadForUpdate, ReadForCancel, Read, transferVars, stockVars
<1>2. BookTyped /\ counter[Home] \in Int /\ receipt[r].qty \in Int
  BY FieldsTyped DEF BookInv, BookTyped, CountsTyped, InventoryAssumption
<1>3. PICK doing, statuses : /\ Read(d, r, doing, statuses)
                             /\ \/ doing = "draft" /\ statuses = {"draft"}
                                \/ doing \in {"update", "cancel"} /\ statuses = {"completed"}
  BY DEF ReadForDraft, ReadForUpdate, ReadForCancel
<1> DEFINE u == [doing |-> doing, of |-> r, saw |-> Snapshot(r)]
<1>4. /\ u.doing = doing /\ u.of = r /\ u.saw.receipt = receipt[r] /\ u.saw.counter = counter[Home]
      /\ receipt[r].status \in statuses /\ desk' = [desk EXCEPT ![d] = u]
  BY <1>3 DEF Read, Snapshot
<1> HIDE DEF u
<1>5. DesksSound'
  <2>1. PICK P : desk \in [Desks -> P]
    BY DEF BookInv, DesksSound
  <2>2. desk' \in [Desks -> P \cup {u}] /\ desk'[d] = u /\ \A e \in Desks : e # d => desk'[e] = desk[e]
    BY <1>4, <2>1
  <2>3. ASSUME NEW e \in Desks
        PROVE  /\ desk'[e].doing = "draft" => desk'[e].of \in Receipts /\ desk'[e].saw.receipt.status = "draft"
               /\ desk'[e].doing \in {"update", "cancel"} =>
                    /\ desk'[e].of \in Receipts /\ desk'[e].saw.receipt.status = "completed"
                    /\ desk'[e].saw.receipt.qty \in Int /\ desk'[e].saw.counter \in Int
    <3>1. CASE e = d
      BY <1>2, <1>3, <1>4, <2>2, <3>1
    <3>2. CASE e # d
      BY <2>2, <3>2 DEF BookInv, DesksSound
    <3> QED BY <3>1, <3>2
  <2> QED BY <2>2, <2>3 DEF DesksSound
<1>6. /\ Worths(receipt', Receipts) = Worths(receipt, Receipts) + 0
      /\ Worths(transfer', Transfers) = Worths(transfer, Transfers) + 0
      /\ Corrections(discrepancy', Discrepancies) = Corrections(discrepancy, Discrepancies) + 0
      /\ ReceiptsTyped' /\ TransfersTyped' /\ PlansSound'
  BY <1>1, <1>2, Unmoved, PlansUnmoved DEF BookInv
<1>7. CountsTyped'
  BY <1>1, <1>2 DEF BookTyped, CountsTyped
<1>8. \A b \in Branches : counter'[b] = counter[b] + Says(b, 0, 0, 0, adjusted'[b] - adjusted[b], sold'[b] - sold[b])
  BY <1>1, <1>2 DEF Says, If, BookTyped, CountsTyped
<1> QED BY <1>1, <1>5, <1>6, <1>7, <1>8, Kept DEF BookTyped

(* A screen writes, and is away again.                                     *)
LEMMA DeskLeft ==
  ASSUME DesksSound, NEW d \in Desks, desk' = [desk EXCEPT ![d] = Away]
  PROVE  DesksSound'
<1>1. PICK P : desk \in [Desks -> P]
  BY DEF DesksSound
<1>2. desk' \in [Desks -> P \cup {Away}] /\ desk'[d] = Away /\ \A e \in Desks : e # d => desk'[e] = desk[e]
  BY <1>1
<1>3. desk'[d].doing = "nothing"
  BY <1>2 DEF Away
<1> QED BY <1>2, <1>3 DEF DesksSound

LEMMA WriteDraftKeeps ==
  ASSUME InventoryAssumption, BookInv, NEW d \in Desks, NEW q \in Quantities,
         WriteDraft(d, q), UNCHANGED <<transferVars, sold>>
  PROVE  BookInv'
<1> DEFINE r == desk[d].of
           v == [status |-> "draft", qty |-> q, lot |-> NoLot, updatedAt |-> receipt[r].updatedAt + 1]
<1>1. BookTyped /\ r \in Receipts /\ desk[d].saw.receipt.status = "draft" /\ q \in Int
  <2>1. DesksSound /\ BookTyped /\ q \in Int
    BY DEF BookInv, InventoryAssumption
  <2> QED BY <2>1 DEF DesksSound, WriteDraft
<1>2. /\ receipt' = [receipt EXCEPT ![r] = v] /\ receipt[r].updatedAt \in Nat
      /\ desk' = [desk EXCEPT ![d] = Away] /\ clobbered' = (clobbered \/ receipt[r] # desk[d].saw.receipt)
      /\ UNCHANGED <<counter, transfer, plan, discrepancy, adjusted, sold>>
  BY <1>1 DEF BookTyped, ReceiptsTyped, ReceiptDocs, WriteDraft, Leave, transferVars, stockVars
<1>3. v \in ReceiptDocs({NoLot}) /\ Worth(v) = 0 /\ (~clobbered' => Worth(receipt[r]) = 0)
  <2>1. ~clobbered' => receipt[r] = desk[d].saw.receipt
    BY <1>2
  <2>2. v \in ReceiptDocs({NoLot}) /\ Worth(v) = 0
    BY <1>1, <1>2 DEF ReceiptDocs, Worth
  <2> QED BY <1>1, <2>1, <2>2 DEF Worth
<1>4. /\ TransfersTyped' /\ PlansSound' /\ DesksSound' /\ Worths(transfer', Transfers) = Worths(transfer, Transfers) + 0
      /\ Corrections(discrepancy', Discrepancies) = Corrections(discrepancy, Discrepancies) + 0
  BY <1>1, <1>2, Unmoved, PlansUnmoved, DeskLeft DEF BookInv
<1>5. CountsTyped'
  BY <1>1, <1>2 DEF BookTyped, CountsTyped
<1> HIDE DEF v, r
<1> DEFINE n == Worth(v) - Worth(receipt[r])
<1>6. ReceiptsTyped' /\ Worths(receipt', Receipts) = Worths(receipt, Receipts) + n /\ n \in Int
  <2>1. /\ ReceiptsTyped' /\ Worths(receipt', Receipts) = Worths(receipt, Receipts) + (Worth(v) - Worth(receipt[r]))
        /\ Worth(v) \in Int /\ Worth(receipt[r]) \in Int
    BY <1>1, <1>2, <1>3, ReceiptWritten
  <2> QED BY <2>1
<1>7. ~clobbered' => n = 0
  BY <1>3
<1> HIDE DEF n
<1>8. ~clobbered' => \A b \in Branches :
         counter'[b] = counter[b] + Says(b, n, 0, 0, adjusted'[b] - adjusted[b], sold'[b] - sold[b])
  BY <1>1, <1>2, <1>7 DEF Says, If, BookTyped, CountsTyped
<1>9. clobbered => clobbered'
  BY <1>2
<1> QED BY <1>4, <1>5, <1>6, <1>8, <1>9, Kept DEF BookTyped

(* A document is edited or cancelled: one field, then the time.            *)
LEMMA EditedFields ==
  ASSUME NEW l, NEW s \in {"none", "draft", "completed", "cancelled"}, NEW n \in Int, NEW u \in Nat, NEW q \in Int,
         NEW v, v = [status |-> s, qty |-> n, lot |-> l, updatedAt |-> u]
  PROVE  /\ Edited(v, q) = [status |-> s, qty |-> q, lot |-> l, updatedAt |-> u + 1]
         /\ Cancelled(v) = [status |-> "cancelled", qty |-> n, lot |-> l, updatedAt |-> u + 1]
<1> DEFINE e == [v EXCEPT !.qty = q]
           gone == "cancelled"
           c == [v EXCEPT !.status = gone]
           w == u + 1
<1>1. v.updatedAt + 1 = w
  OBVIOUS
<1>2. e = [status |-> s, qty |-> q, lot |-> l, updatedAt |-> u]
  OBVIOUS
<1>3. /\ Edited(v, q) = [e EXCEPT !.updatedAt = v.updatedAt + 1]
      /\ Cancelled(v) = [c EXCEPT !.updatedAt = v.updatedAt + 1]
  BY DEF Edited, Cancelled
<1> HIDE DEF gone, w
<1>4. c = [status |-> gone, qty |-> n, lot |-> l, updatedAt |-> u]
  OBVIOUS
<1> HIDE DEF e, c
<1>5. /\ Edited(v, q) = [status |-> s, qty |-> q, lot |-> l, updatedAt |-> w]
      /\ Cancelled(v) = [status |-> gone, qty |-> n, lot |-> l, updatedAt |-> w]
  BY <1>1, <1>2, <1>3, <1>4
<1> QED BY <1>5 DEF gone, w

LEMMA EditedReceipt ==
  ASSUME NEW l, NEW v \in ReceiptDocs({l}), NEW q \in Int
  PROVE  /\ Edited(v, q) \in ReceiptDocs({l}) /\ Edited(v, q).status = v.status /\ Edited(v, q).qty = q
<1>1. PICK s \in {"none", "draft", "completed", "cancelled"}, n \in Int, u \in Nat :
        v = [status |-> s, qty |-> n, lot |-> l, updatedAt |-> u]
  BY DEF ReceiptDocs
<1>2. Edited(v, q) = [status |-> s, qty |-> q, lot |-> l, updatedAt |-> u + 1]
  BY <1>1, EditedFields
<1> QED BY <1>1, <1>2 DEF ReceiptDocs

LEMMA CancelledReceipt ==
  ASSUME NEW l, NEW v \in ReceiptDocs({l})
  PROVE  Cancelled(v) \in ReceiptDocs({l}) /\ Cancelled(v).status = "cancelled"
<1>1. PICK s \in {"none", "draft", "completed", "cancelled"}, n \in Int, u \in Nat :
        v = [status |-> s, qty |-> n, lot |-> l, updatedAt |-> u]
  BY DEF ReceiptDocs
<1>2. Cancelled(v) = [status |-> "cancelled", qty |-> n, lot |-> l, updatedAt |-> u + 1]
  BY <1>1, EditedFields
<1> QED BY <1>1, <1>2 DEF ReceiptDocs

LEMMA CancelledTransfer ==
  ASSUME NEW D, NEW v \in TransferDocs({D})
  PROVE  Cancelled(v) \in TransferDocs({D}) /\ Cancelled(v).status = "cancelled"
<1>1. PICK s \in {"none", "completed", "cancelled"}, n \in Int, u \in Nat :
        v = [status |-> s, qty |-> n, details |-> D, updatedAt |-> u]
  BY DEF TransferDocs
<1> DEFINE gone == "cancelled"
           c == [v EXCEPT !.status = gone]
           w == u + 1
<1>2. v.updatedAt + 1 = w
  BY <1>1
<1>3. Cancelled(v) = [c EXCEPT !.updatedAt = v.updatedAt + 1]
  BY DEF Cancelled
<1> HIDE DEF gone, w
<1>4. c = [status |-> gone, qty |-> n, details |-> D, updatedAt |-> u]
  BY <1>1
<1> HIDE DEF c
<1>5. Cancelled(v) = [status |-> gone, qty |-> n, details |-> D, updatedAt |-> w]
  BY <1>2, <1>3, <1>4
<1>6. Cancelled(v) = [status |-> "cancelled", qty |-> n, details |-> D, updatedAt |-> u + 1]
  BY <1>5 DEF gone, w
<1> QED BY <1>6 DEF TransferDocs

LEMMA WriteUpdateKeeps ==
  ASSUME InventoryAssumption, BookInv, NEW d \in Desks, NEW q \in Quantities,
         WriteUpdate(d, q), UNCHANGED <<transferVars, sold>>
  PROVE  BookInv'
<1> DEFINE r == desk[d].of
           saw == desk[d].saw
           delta == q - saw.receipt.qty
           v == Edited(receipt[r], q)
<1>1. /\ BookTyped /\ r \in Receipts /\ saw.receipt.status = "completed" /\ saw.receipt.qty \in Int /\ saw.counter \in Int
      /\ counter \in [Branches -> Int] /\ Home \in Branches /\ q \in Int
  <2>1. DesksSound /\ BookTyped /\ counter \in [Branches -> Int]
    BY DEF BookInv, BookTyped, CountsTyped
  <2>2. Home \in Branches /\ q \in Int
    BY DEF InventoryAssumption
  <2>3. desk[d].doing = "update"
    BY DEF WriteUpdate
  <2> QED BY <2>1, <2>2, <2>3 DEF DesksSound
<1>2. /\ receipt' = [receipt EXCEPT ![r] = v] /\ counter' = [counter EXCEPT ![Home] = saw.counter + delta]
      /\ desk' = [desk EXCEPT ![d] = Away] /\ clobbered' = (clobbered \/ Outdated(d))
      /\ UNCHANGED <<transfer, plan, discrepancy, adjusted, sold>>
  BY DEF WriteUpdate, SetAsRead, Leave, transferVars
<1>3. v \in ReceiptDocs({receipt[r].lot}) /\ delta \in Int
  <2>1. receipt[r] \in ReceiptDocs({receipt[r].lot})
    BY <1>1 DEF BookTyped, ReceiptsTyped, ReceiptDocs
  <2> DEFINE w == receipt[r]
  <2>2. delta \in Int /\ w \in ReceiptDocs({w.lot})
    BY <1>1, <2>1
  <2> HIDE DEF w
  <2>3. Edited(w, q) \in ReceiptDocs({w.lot})
    BY <1>1, <2>2, EditedReceipt
  <2> QED BY <2>2, <2>3 DEF w
<1>4. ~Outdated(d) => receipt[r] = saw.receipt /\ counter[Home] = saw.counter
  BY DEF Outdated, Snapshot
<1>5. ~Outdated(d) => Worth(v) - Worth(receipt[r]) = delta
  BY <1>1, <1>4, <1>3 DEF Worth, ReceiptDocs, Edited
<1>6. DesksSound'
  BY <1>2, DeskLeft DEF BookInv
<1>7. /\ TransfersTyped' /\ PlansSound' /\ Worths(transfer', Transfers) = Worths(transfer, Transfers) + 0
      /\ Corrections(discrepancy', Discrepancies) = Corrections(discrepancy, Discrepancies) + 0
  BY <1>1, <1>2, Unmoved, PlansUnmoved DEF BookInv
<1> HIDE DEF v, delta, r, saw
<1> DEFINE n == Worth(v) - Worth(receipt[r])
<1>8. ReceiptsTyped' /\ Worths(receipt', Receipts) = Worths(receipt, Receipts) + n /\ n \in Int
  <2>1. /\ ReceiptsTyped' /\ Worths(receipt', Receipts) = Worths(receipt, Receipts) + (Worth(v) - Worth(receipt[r]))
        /\ Worth(v) \in Int /\ Worth(receipt[r]) \in Int
    BY <1>1, <1>2, <1>3, ReceiptWritten
  <2> QED BY <2>1
<1>9. ~clobbered' => n = delta /\ counter[Home] = saw.counter
  BY <1>2, <1>4, <1>5
<1> HIDE DEF n
<1>10. CountsTyped'
  <2>1. counter' \in [Branches -> Int]
    BY <1>1, <1>2, <1>3
  <2>2. clobbered' \in BOOLEAN
    BY <1>1, <1>2 DEF Outdated, BookTyped, CountsTyped
  <2> QED BY <1>1, <1>2, <2>1, <2>2 DEF BookTyped, CountsTyped
<1>11. ~clobbered' => \A b \in Branches :
         counter'[b] = counter[b] + Says(b, n, 0, 0, adjusted'[b] - adjusted[b], sold'[b] - sold[b])
  <2>1. \A b \in Branches : adjusted'[b] - adjusted[b] = 0 /\ sold'[b] - sold[b] = 0
    BY <1>1, <1>2 DEF BookTyped, CountsTyped
  <2> QED BY <1>1, <1>2, <1>3, <1>9, <2>1 DEF Says, If
<1>12. clobbered => clobbered'
  BY <1>2
<1> QED BY <1>12, <1>6, <1>7, <1>8, <1>10, <1>11, Kept DEF BookTyped

LEMMA WriteCancelKeeps ==
  ASSUME InventoryAssumption, BookInv, NEW d \in Desks,
         WriteCancel(d), UNCHANGED <<transferVars, sold>>
  PROVE  BookInv'
<1> DEFINE r == desk[d].of
           saw == desk[d].saw
           delta == -saw.receipt.qty
           v == Cancelled(receipt[r])
<1>1. /\ BookTyped /\ r \in Receipts /\ saw.receipt.status = "completed" /\ saw.receipt.qty \in Int /\ saw.counter \in Int
      /\ counter \in [Branches -> Int] /\ Home \in Branches
  <2>1. DesksSound /\ BookTyped /\ counter \in [Branches -> Int]
    BY DEF BookInv, BookTyped, CountsTyped
  <2>2. Home \in Branches
    BY DEF InventoryAssumption
  <2>3. desk[d].doing = "cancel"
    BY DEF WriteCancel
  <2> QED BY <2>1, <2>2, <2>3 DEF DesksSound
<1>2. /\ receipt' = [receipt EXCEPT ![r] = v] /\ counter' = [counter EXCEPT ![Home] = saw.counter + delta]
      /\ desk' = [desk EXCEPT ![d] = Away] /\ clobbered' = (clobbered \/ Outdated(d))
      /\ UNCHANGED <<transfer, plan, discrepancy, adjusted, sold>>
  BY DEF WriteCancel, SetAsRead, Leave, transferVars
<1>3. v \in ReceiptDocs({receipt[r].lot}) /\ delta \in Int
  <2>1. receipt[r] \in ReceiptDocs({receipt[r].lot})
    BY <1>1 DEF BookTyped, ReceiptsTyped, ReceiptDocs
  <2> DEFINE w == receipt[r]
  <2>2. delta \in Int /\ w \in ReceiptDocs({w.lot})
    BY <1>1, <2>1
  <2> HIDE DEF w
  <2>3. Cancelled(w) \in ReceiptDocs({w.lot})
    BY <2>2, CancelledReceipt
  <2> QED BY <2>2, <2>3 DEF w
<1>4. ~Outdated(d) => receipt[r] = saw.receipt /\ counter[Home] = saw.counter
  BY DEF Outdated, Snapshot
<1>5. ~Outdated(d) => Worth(v) - Worth(receipt[r]) = delta
  BY <1>1, <1>4, <1>3 DEF Worth, ReceiptDocs, Cancelled
<1>6. DesksSound'
  BY <1>2, DeskLeft DEF BookInv
<1>7. /\ TransfersTyped' /\ PlansSound' /\ Worths(transfer', Transfers) = Worths(transfer, Transfers) + 0
      /\ Corrections(discrepancy', Discrepancies) = Corrections(discrepancy, Discrepancies) + 0
  BY <1>1, <1>2, Unmoved, PlansUnmoved DEF BookInv
<1> HIDE DEF v, delta, r, saw
<1> DEFINE n == Worth(v) - Worth(receipt[r])
<1>8. ReceiptsTyped' /\ Worths(receipt', Receipts) = Worths(receipt, Receipts) + n /\ n \in Int
  <2>1. /\ ReceiptsTyped' /\ Worths(receipt', Receipts) = Worths(receipt, Receipts) + (Worth(v) - Worth(receipt[r]))
        /\ Worth(v) \in Int /\ Worth(receipt[r]) \in Int
    BY <1>1, <1>2, <1>3, ReceiptWritten
  <2> QED BY <2>1
<1>9. ~clobbered' => n = delta /\ counter[Home] = saw.counter
  BY <1>2, <1>4, <1>5
<1> HIDE DEF n
<1>10. CountsTyped'
  <2>1. counter' \in [Branches -> Int]
    BY <1>1, <1>2, <1>3
  <2>2. clobbered' \in BOOLEAN
    BY <1>1, <1>2 DEF Outdated, BookTyped, CountsTyped
  <2> QED BY <1>1, <1>2, <2>1, <2>2 DEF BookTyped, CountsTyped
<1>11. ~clobbered' => \A b \in Branches :
         counter'[b] = counter[b] + Says(b, n, 0, 0, adjusted'[b] - adjusted[b], sold'[b] - sold[b])
  <2>1. \A b \in Branches : adjusted'[b] - adjusted[b] = 0 /\ sold'[b] - sold[b] = 0
    BY <1>1, <1>2 DEF BookTyped, CountsTyped
  <2> QED BY <1>1, <1>2, <1>3, <1>9, <2>1 DEF Says, If
<1>12. clobbered => clobbered'
  BY <1>2
<1> QED BY <1>12, <1>6, <1>7, <1>8, <1>10, <1>11, Kept DEF BookTyped

-----------------------------------------------------------------------------
(* Transfers, their discrepancies, and counts.                             *)
LEMMA PlanWritten ==
  ASSUME PlansSound, NEW k \in Clerks, NEW w, plan' = [plan EXCEPT ![k] = w],
         \A t \in Transfers : transfer[t].status # "none" => transfer'[t].status # "none",
         w.to \in {"confirm", "cancel"} => w.of \in Transfers,
         w.to = "cancel" => transfer'[w.of].status # "none",
         w.to = "adjust" => w.of \in Branches
  PROVE  PlansSound'
<1>1. PICK P : plan \in [Clerks -> P]
  BY DEF PlansSound
<1>2. plan' \in [Clerks -> P \cup {w}] /\ plan'[k] = w /\ \A c \in Clerks : c # k => plan'[c] = plan[c]
  BY <1>1
<1>3. ASSUME NEW c \in Clerks
      PROVE  /\ plan'[c].to \in {"confirm", "cancel"} => plan'[c].of \in Transfers
             /\ plan'[c].to = "cancel" => transfer'[plan'[c].of].status # "none"
             /\ plan'[c].to = "adjust" => plan'[c].of \in Branches
  <2>1. CASE c = k
    BY <1>2, <2>1
  <2>2. CASE c # k
    BY <1>2, <2>2 DEF PlansSound
  <2> QED BY <2>1, <2>2
<1> QED BY <1>2, <1>3 DEF PlansSound

LEMMA PlanDropped ==
  ASSUME PlansSound, NEW k \in Clerks, plan' = [plan EXCEPT ![k] = NoPlan],
         \A t \in Transfers : transfer[t].status # "none" => transfer'[t].status # "none"
  PROVE  PlansSound'
<1>1. NoPlan.to = "nothing"
  BY DEF NoPlan
<1> QED BY <1>1, PlanWritten

(* The counters c are those of now, moved by q from one branch to another. *)
Moved(c, from, to, q) ==
  c \in [Branches -> Int] /\ \A b \in Branches : c[b] = counter[b] + If(b = to, q) - If(b = from, q)

LEMMA PlansStay ==
  ASSUME PlansSound, plan' = plan, \A t \in Transfers : transfer[t].status # "none" => transfer'[t].status # "none"
  PROVE  PlansSound'
BY DEF PlansSound

LEMMA Shifted ==
  ASSUME counter \in [Branches -> Int], NEW from \in Branches, NEW to \in Branches, from # to, NEW q \in Int
  PROVE  Moved(Shift(from, to, q), from, to, q)
<1> DEFINE c == [counter EXCEPT ![from] = @ - q]
<1>1. c \in [Branches -> Int] /\ c[to] = counter[to] /\ \A b \in Branches : c[b] = counter[b] - If(b = from, q)
  BY DEF If
<1>2. Shift(from, to, q) = [c EXCEPT ![to] = counter[to] + q]
  BY DEF Shift
<1> HIDE DEF c
<1>3. Shift(from, to, q) \in [Branches -> Int]
  BY <1>1, <1>2
<1>4. \A b \in Branches : Shift(from, to, q)[b] = c[b] + If(b = to, q)
  BY <1>1, <1>2 DEF If
<1>5. \A b \in Branches : If(b = to, q) \in Int /\ If(b = from, q) \in Int
  BY DEF If
<1> QED BY <1>1, <1>3, <1>4, <1>5 DEF Moved

LEMMA ListKeeps ==
  ASSUME InventoryAssumption, BookInv, NEW k \in Clerks,
         \/ \E t \in Transfers : ListToConfirm(k, t) \/ ListToCancel(k, t)
         \/ \E b \in Branches : ListToAdjust(k, b)
         \/ GiveUp(k),
         UNCHANGED <<receivingVars, sold>>
  PROVE  BookInv'
<1>1. BookTyped /\ PlansSound /\ DesksSound
  BY DEF BookInv
<1>2. UNCHANGED <<counter, receipt, desk, clobbered, transfer, discrepancy, adjusted, sold>>
  BY DEF ListToConfirm, ListToCancel, ListToAdjust, List, GiveUp, receivingVars, stockVars
<1>3. PlansSound'
  <2>1. CASE \E t \in Transfers : ListToConfirm(k, t) \/ ListToCancel(k, t)
    <3>1. PICK t \in Transfers : ListToConfirm(k, t) \/ ListToCancel(k, t)
      BY <2>1
    <3>2. CASE ListToConfirm(k, t)
      <4> DEFINE w == [to |-> "confirm", of |-> t, refs |-> Active(From)]
      <4>1. plan' = [plan EXCEPT ![k] = w] /\ w.to = "confirm" /\ w.of = t
        BY <3>2 DEF ListToConfirm, List
      <4> HIDE DEF w
      <4> QED BY <1>1, <1>2, <4>1, PlanWritten
    <3>3. CASE ListToCancel(k, t)
      <4> DEFINE w == [to |-> "cancel", of |-> t, refs |-> Active(To)]
      <4>1. plan' = [plan EXCEPT ![k] = w] /\ w.to = "cancel" /\ w.of = t /\ transfer[t].status # "none"
        BY <3>3 DEF ListToCancel, List
      <4> HIDE DEF w
      <4> QED BY <1>1, <1>2, <4>1, PlanWritten
    <3> QED BY <3>1, <3>2, <3>3
  <2>2. CASE \E b \in Branches : ListToAdjust(k, b)
    <3>1. PICK b \in Branches : ListToAdjust(k, b)
      BY <2>2
    <3> DEFINE w == [to |-> "adjust", of |-> b, refs |-> Active(b)]
    <3>2. plan' = [plan EXCEPT ![k] = w] /\ w.to = "adjust" /\ w.of = b
      BY <3>1 DEF ListToAdjust, List
    <3> HIDE DEF w
    <3> QED BY <1>1, <1>2, <3>2, PlanWritten
  <2>3. CASE GiveUp(k)
    BY <1>1, <1>2, <2>3, PlanDropped DEF GiveUp
  <2> QED BY <2>1, <2>2, <2>3
<1>4. /\ Worths(receipt', Receipts) = Worths(receipt, Receipts) + 0
      /\ Worths(transfer', Transfers) = Worths(transfer, Transfers) + 0
      /\ Corrections(discrepancy', Discrepancies) = Corrections(discrepancy, Discrepancies) + 0
      /\ ReceiptsTyped' /\ TransfersTyped' /\ DesksSound'
  BY <1>1, <1>2, Unmoved, DesksUnmoved
<1>5. CountsTyped'
  BY <1>1, <1>2 DEF BookTyped, CountsTyped
<1>6. \A b \in Branches : counter'[b] = counter[b] + Says(b, 0, 0, 0, adjusted'[b] - adjusted[b], sold'[b] - sold[b])
  BY <1>1, <1>2 DEF Says, If, BookTyped, CountsTyped
<1> QED BY <1>2, <1>3, <1>4, <1>5, <1>6, Kept DEF BookTyped

(* Stock that moves between the branches, with the transfer that moves it. *)
LEMMA TransferMoves ==
  ASSUME InventoryAssumption, BookInv, PlansSound', TransfersTyped', NEW q \in Int,
         Worths(transfer', Transfers) = Worths(transfer, Transfers) + q,
         Moved(counter', From, To, q), UNCHANGED <<receivingVars, discrepancy, adjusted, sold>>
  PROVE  BookInv'
<1>1. BookTyped /\ DesksSound /\ UNCHANGED <<receipt, desk, clobbered, discrepancy, adjusted, sold>>
  BY DEF BookInv, receivingVars
<1>2. /\ Worths(receipt', Receipts) = Worths(receipt, Receipts) + 0
      /\ Corrections(discrepancy', Discrepancies) = Corrections(discrepancy, Discrepancies) + 0
      /\ ReceiptsTyped' /\ DesksSound'
  BY <1>1, Unmoved, DesksUnmoved
<1>3. CountsTyped'
  BY <1>1 DEF BookTyped, CountsTyped, Moved
<1>4. \A b \in Branches : counter'[b] = counter[b] + Says(b, 0, q, 0, adjusted'[b] - adjusted[b], sold'[b] - sold[b])
  BY <1>1 DEF Says, If, BookTyped, CountsTyped, Moved
<1> QED BY <1>1, <1>2, <1>3, <1>4, Kept DEF BookTyped

(* A transfer that stands is cancelled.                                    *)
TransferCancels(t) ==
  /\ TransfersTyped' /\ Worths(transfer', Transfers) = Worths(transfer, Transfers) - transfer[t].qty
  /\ \A x \in Transfers : transfer[x].status # "none" => transfer'[x].status # "none"
LEMMA TransferIsCancelled ==
  ASSUME InventoryAssumption, BookTyped, NEW t \in Transfers, transfer[t] \in TransferDocs({transfer[t].details}),
         transfer[t].status # "none", transfer[t].status # "cancelled",
         transfer' = [transfer EXCEPT ![t] = Cancelled(transfer[t])]
  PROVE  TransferCancels(t)
<1> DEFINE D == transfer[t].details
           v == Cancelled(transfer[t])
<1>1. v \in TransferDocs({D}) /\ v.status = "cancelled"
  BY CancelledTransfer
<1>2. Worth(transfer[t]) = transfer[t].qty /\ transfer[t].qty \in Int
  BY DEF Worth, TransferDocs
<1> HIDE DEF v, D
<1>3. Worth(v) = 0
  BY <1>1 DEF Worth
<1>4. /\ TransfersTyped' /\ Worths(transfer', Transfers) = Worths(transfer, Transfers) + (Worth(v) - Worth(transfer[t]))
      /\ transfer'[t] = v /\ \A x \in Transfers : x # t => transfer'[x] = transfer[x]
  BY <1>1, TransferWritten DEF v
<1>5. Worths(transfer, Transfers) \in Int
  BY FieldsTyped, WorthsInt DEF InventoryAssumption
<1>6. Worths(transfer', Transfers) = Worths(transfer, Transfers) - transfer[t].qty
  BY <1>2, <1>3, <1>4, <1>5
<1> QED BY <1>1, <1>4, <1>6 DEF TransferCancels

LEMMA TransferMovesBack ==
  ASSUME InventoryAssumption, BookInv, PlansSound', TransfersTyped', NEW q \in Int,
         Worths(transfer', Transfers) = Worths(transfer, Transfers) - q,
         Moved(counter', To, From, q), UNCHANGED <<receivingVars, discrepancy, adjusted, sold>>
  PROVE  BookInv'
<1> DEFINE n == -q
<1>1. n \in Int /\ Worths(transfer, Transfers) \in Int
  BY FieldsTyped, WorthsInt DEF InventoryAssumption, BookInv
<1>2. counter' \in [Branches -> Int] /\ counter \in [Branches -> Int]
  BY DEF Moved, BookInv, BookTyped, CountsTyped
<1>3. Worths(transfer', Transfers) = Worths(transfer, Transfers) + n
  BY <1>1
<1>4. Moved(counter', From, To, n)
  BY <1>2 DEF Moved, If
<1> HIDE DEF n
<1> QED BY <1>1, <1>3, <1>4, TransferMoves

LEMMA ConfirmTransferKeeps ==
  ASSUME InventoryAssumption, BookInv, NEW k \in Clerks, NEW q \in Amounts,
         ConfirmTransfer(k, q), UNCHANGED <<receivingVars, sold>>
  PROVE  BookInv'
<1> DEFINE t == plan[k].of
           details == Details(FifoTake(Listed(k), q), Lacking(Listed(k), q))
           v == [status |-> "completed", qty |-> q, details |-> details, updatedAt |-> 1]
<1>1. /\ BookTyped /\ PlansSound /\ q \in Int /\ counter \in [Branches -> Int] /\ From \in Branches /\ To \in Branches
      /\ Transfers = {} \/ From # To
  BY DEF BookInv, BookTyped, CountsTyped, InventoryAssumption
<1>2. t \in Transfers /\ From # To
  BY <1>1 DEF PlansSound, ConfirmTransfer
<1>3. /\ transfer[t].status = "none" /\ transfer' = [transfer EXCEPT ![t] = v] /\ counter' = Shift(From, To, q)
      /\ plan' = [plan EXCEPT ![k] = NoPlan] /\ UNCHANGED <<discrepancy, adjusted>>
  BY DEF ConfirmTransfer
<1> HIDE DEF details
<1>4. v \in TransferDocs({details}) /\ Worth(v) = q /\ Worth(transfer[t]) = 0 /\ v.status # "none"
  BY <1>1, <1>3 DEF TransferDocs, Worth
<1> HIDE DEF v, t
<1>5. /\ TransfersTyped' /\ Worths(transfer', Transfers) = Worths(transfer, Transfers) + (Worth(v) - Worth(transfer[t]))
      /\ transfer'[t] = v /\ \A x \in Transfers : x # t => transfer'[x] = transfer[x]
  BY <1>1, <1>2, <1>3, <1>4, TransferWritten
<1>6. Worths(transfer', Transfers) = Worths(transfer, Transfers) + q
  BY <1>1, <1>4, <1>5
<1>7. PlansSound'
  <2>1. \A x \in Transfers : transfer[x].status # "none" => transfer'[x].status # "none"
    BY <1>4, <1>5
  <2> QED BY <1>1, <1>3, <2>1, PlanDropped
<1>8. Moved(counter', From, To, q)
  BY <1>1, <1>2, <1>3, Shifted
<1> QED BY <1>1, <1>3, <1>5, <1>6, <1>7, <1>8, TransferMoves

LEMMA CancelTransferKeeps ==
  ASSUME InventoryAssumption, BookInv, NEW k \in Clerks,
         CancelTransfer(k), UNCHANGED <<receivingVars, sold>>
  PROVE  BookInv'
<1> DEFINE t == plan[k].of
           old == transfer[t]
           v == Cancelled(old)
<1>1. /\ BookTyped /\ PlansSound /\ counter \in [Branches -> Int] /\ From \in Branches /\ To \in Branches
      /\ Transfers = {} \/ From # To
  BY DEF BookInv, BookTyped, CountsTyped, InventoryAssumption
<1>2. t \in Transfers /\ From # To /\ old.status # "none" /\ old.status # "cancelled"
  BY <1>1 DEF PlansSound, CancelTransfer, MayBeCancelled
<1>3. /\ transfer' = [transfer EXCEPT ![t] = v] /\ counter' = Shift(To, From, old.qty)
      /\ plan' = [plan EXCEPT ![k] = NoPlan] /\ UNCHANGED <<discrepancy, adjusted>>
  BY DEF CancelTransfer
<1>4. old \in TransferDocs({old.details})
  BY <1>1, <1>2 DEF BookTyped, TransfersTyped, TransferDocs
<1> HIDE DEF t, old
<1>5. TransferCancels(t)
  BY <1>1, <1>2, <1>3, <1>4, TransferIsCancelled DEF old
<1>6. PlansSound'
  BY <1>1, <1>3, <1>5, PlanDropped DEF TransferCancels
<1>7. Moved(counter', To, From, old.qty) /\ old.qty \in Int
  BY <1>1, <1>2, <1>3, <1>4, Shifted DEF TransferDocs
<1> QED BY <1>1, <1>3, <1>5, <1>6, <1>7, TransferMovesBack DEF old, TransferCancels

LEMMA ConfirmAdjustmentKeeps ==
  ASSUME InventoryAssumption, BookInv, NEW k \in Clerks, NEW n \in Differences,
         ConfirmAdjustment(k, n), UNCHANGED <<receivingVars, sold>>
  PROVE  BookInv'
<1> DEFINE b == plan[k].of
<1>1. BookTyped /\ PlansSound /\ DesksSound /\ n \in Int
  BY DEF BookInv, InventoryAssumption
<1>2. b \in Branches
  BY <1>1 DEF PlansSound, ConfirmAdjustment
<1>3. /\ counter' = [counter EXCEPT ![b] = @ + n] /\ adjusted' = [adjusted EXCEPT ![b] = @ + n]
      /\ plan' = [plan EXCEPT ![k] = NoPlan] /\ UNCHANGED <<transfer, discrepancy, receipt, desk, clobbered, sold>>
  BY DEF ConfirmAdjustment, MoveStock, receivingVars
<1> HIDE DEF b
<1>4. /\ Worths(receipt', Receipts) = Worths(receipt, Receipts) + 0
      /\ Worths(transfer', Transfers) = Worths(transfer, Transfers) + 0
      /\ Corrections(discrepancy', Discrepancies) = Corrections(discrepancy, Discrepancies) + 0
      /\ ReceiptsTyped' /\ TransfersTyped' /\ DesksSound'
  BY <1>1, <1>3, Unmoved, DesksUnmoved
<1>5. PlansSound'
  BY <1>1, <1>3, PlanDropped
<1>6. CountsTyped'
  BY <1>1, <1>2, <1>3 DEF BookTyped, CountsTyped
<1>7. \A c \in Branches : counter'[c] = counter[c] + Says(c, 0, 0, 0, adjusted'[c] - adjusted[c], sold'[c] - sold[c])
  BY <1>1, <1>2, <1>3 DEF Says, If, BookTyped, CountsTyped
<1> QED BY <1>3, <1>4, <1>5, <1>6, <1>7, Kept DEF BookTyped

(* A discrepancy is written, and the destination moves by what it counts   *)
(* for.                                                                    *)
LEMMA DiscrepancyMoves ==
  ASSUME InventoryAssumption, BookInv, NEW n \in Int, discrepancy' \in [Discrepancies -> DiscrepancyDocs],
         Corrections(discrepancy', Discrepancies) = Corrections(discrepancy, Discrepancies) + n,
         counter' \in [Branches -> Int], \A b \in Branches : counter'[b] = counter[b] + If(b = To, n),
         UNCHANGED <<receivingVars, transfer, plan, adjusted, sold>>
  PROVE  BookInv'
<1>1. BookTyped /\ UNCHANGED <<receipt, desk, clobbered>>
  BY DEF BookInv, receivingVars
<1>2. /\ Worths(receipt', Receipts) = Worths(receipt, Receipts) + 0
      /\ Worths(transfer', Transfers) = Worths(transfer, Transfers) + 0
      /\ ReceiptsTyped' /\ TransfersTyped' /\ DesksSound' /\ PlansSound'
  BY <1>1, Unmoved, DesksUnmoved, PlansUnmoved DEF BookInv
<1>3. CountsTyped'
  BY <1>1 DEF BookTyped, CountsTyped
<1>4. \A b \in Branches : counter'[b] = counter[b] + Says(b, 0, 0, n, adjusted'[b] - adjusted[b], sold'[b] - sold[b])
  BY <1>1 DEF Says, If, BookTyped, CountsTyped
<1> QED BY <1>1, <1>2, <1>3, <1>4, Kept DEF BookTyped

LEMMA ReportDiscrepancyKeeps ==
  ASSUME InventoryAssumption, BookInv, NEW d \in Discrepancies, NEW t \in Transfers, NEW n \in Differences,
         ReportDiscrepancy(d, t, n), UNCHANGED <<receivingVars, sold>>
  PROVE  BookInv'
<1> DEFINE v == [status |-> "reported", difference |-> n, of |-> t]
<1>1. BookTyped /\ n \in Int /\ counter \in [Branches -> Int]
  BY DEF BookInv, BookTyped, CountsTyped, InventoryAssumption
<1>2. /\ discrepancy' = [discrepancy EXCEPT ![d] = v] /\ discrepancy[d].status = "none"
      /\ UNCHANGED <<counter, transfer, plan, adjusted>>
  BY DEF ReportDiscrepancy, stockVars
<1>3. v \in DiscrepancyDocs /\ Correction(v) = 0 /\ Correction(discrepancy[d]) = 0
  BY <1>1, <1>2 DEF DiscrepancyDocs, Correction
<1> HIDE DEF v
<1>4. /\ discrepancy' \in [Discrepancies -> DiscrepancyDocs]
      /\ Corrections(discrepancy', Discrepancies) =
           Corrections(discrepancy, Discrepancies) + (Correction(v) - Correction(discrepancy[d]))
  BY <1>1, <1>2, <1>3, DiscrepancyWritten
<1> DEFINE zero == 0
<1>5. zero \in Int /\ Corrections(discrepancy', Discrepancies) = Corrections(discrepancy, Discrepancies) + zero
  BY <1>3, <1>4
<1>6. counter' \in [Branches -> Int] /\ \A b \in Branches : counter'[b] = counter[b] + If(b = To, zero)
  BY <1>1, <1>2 DEF If
<1> HIDE DEF zero
<1> QED BY <1>2, <1>4, <1>5, <1>6, DiscrepancyMoves

LEMMA ResolveDiscrepancyKeeps ==
  ASSUME InventoryAssumption, BookInv, NEW d \in Discrepancies,
         ResolveDiscrepancy(d), UNCHANGED <<receivingVars, sold>>
  PROVE  BookInv'
<1> DEFINE old == discrepancy[d]
           n == old.difference
           done == "resolved"
           v == [old EXCEPT !.status = done]
<1>1. BookTyped /\ counter \in [Branches -> Int] /\ discrepancy \in [Discrepancies -> DiscrepancyDocs] /\ To \in Branches
  BY DEF BookInv, BookTyped, CountsTyped, InventoryAssumption
<1>2. /\ discrepancy' = [discrepancy EXCEPT ![d] = v] /\ old.status = "reported"
      /\ counter' = [counter EXCEPT ![To] = @ + n] /\ UNCHANGED <<transfer, plan, adjusted>>
  BY DEF ResolveDiscrepancy, IsOpen, MoveStock
<1>3. PICK m \in Int, t \in Transfers : old = [status |-> "reported", difference |-> m, of |-> t]
  <2>1. old \in DiscrepancyDocs
    BY <1>1
  <2> QED BY <1>2, <2>1 DEF DiscrepancyDocs
<1>4. n = m /\ n \in Int
  BY <1>3
<1>5. v \in DiscrepancyDocs /\ Correction(v) = n /\ Correction(old) = 0
  <2> HIDE DEF done
  <2>1. v = [status |-> done, difference |-> n, of |-> t]
    BY <1>3, <1>4
  <2> HIDE DEF v, n
  <2> QED BY <1>2, <1>4, <2>1 DEF DiscrepancyDocs, Correction, done
<1> HIDE DEF v, n, old
<1>6. /\ discrepancy' \in [Discrepancies -> DiscrepancyDocs]
      /\ Corrections(discrepancy', Discrepancies) = Corrections(discrepancy, Discrepancies) + (Correction(v) - Correction(old))
  BY <1>1, <1>2, <1>5, DiscrepancyWritten DEF old
<1>7. Corrections(discrepancy', Discrepancies) = Corrections(discrepancy, Discrepancies) + n
  BY <1>4, <1>5, <1>6
<1>8. counter' \in [Branches -> Int] /\ \A b \in Branches : counter'[b] = counter[b] + If(b = To, n)
  BY <1>1, <1>2, <1>4 DEF If
<1> QED BY <1>2, <1>4, <1>6, <1>7, <1>8, DiscrepancyMoves

-----------------------------------------------------------------------------
(* Sales, and what the server reverses.                                    *)
LEMMA SellKeeps ==
  ASSUME InventoryAssumption, BookInv, NEW b \in Branches, Sell(b)
  PROVE  BookInv'
<1>1. BookTyped
  BY DEF BookInv
<1>2. /\ counter' = [counter EXCEPT ![b] = @ - 1] /\ sold' = [sold EXCEPT ![b] = @ + 1]
      /\ UNCHANGED <<transfer, plan, discrepancy, adjusted, receipt, desk, clobbered>>
  BY DEF Sell, receivingVars, transferVars
<1>3. /\ Worths(receipt', Receipts) = Worths(receipt, Receipts) + 0
      /\ Worths(transfer', Transfers) = Worths(transfer, Transfers) + 0
      /\ Corrections(discrepancy', Discrepancies) = Corrections(discrepancy, Discrepancies) + 0
      /\ ReceiptsTyped' /\ TransfersTyped' /\ DesksSound' /\ PlansSound'
  BY <1>1, <1>2, Unmoved, DesksUnmoved, PlansUnmoved DEF BookInv
<1>4. CountsTyped'
  BY <1>1, <1>2 DEF BookTyped, CountsTyped
<1>5. \A c \in Branches : counter'[c] = counter[c] + Says(c, 0, 0, 0, adjusted'[c] - adjusted[c], sold'[c] - sold[c])
  BY <1>1, <1>2 DEF Says, If, BookTyped, CountsTyped
<1> QED BY <1>2, <1>3, <1>4, <1>5, Kept DEF BookTyped

LEMMA ReverseReceivingKeeps ==
  ASSUME InventoryAssumption, BookInv, NEW t, NEW r \in Receipts, NEW n, ReverseReceiving(t, r, n), UNCHANGED sold
  PROVE  BookInv'
<1> DEFINE old == receipt[r]
           v == Cancelled(old)
           m == -old.qty
<1>1. BookTyped /\ counter \in [Branches -> Int] /\ Home \in Branches
  BY DEF BookInv, BookTyped, CountsTyped, InventoryAssumption
<1>2. /\ receipt' = [receipt EXCEPT ![r] = v] /\ counter' = [counter EXCEPT ![Home] = @ - old.qty]
      /\ UNCHANGED <<desk, clobbered, transfer, plan, discrepancy, adjusted, sold>> /\ old.status = "completed"
  BY DEF ReverseReceiving, Admits, Reversible, Document, transferVars
<1>3. old \in ReceiptDocs({old.lot}) /\ old.qty \in Int
  BY <1>1 DEF BookTyped, ReceiptsTyped, ReceiptDocs
<1>4. m \in Int /\ Worth(old) = old.qty
  BY <1>2, <1>3 DEF Worth
<1> HIDE DEF old
<1>5. v \in ReceiptDocs({old.lot}) /\ v.status = "cancelled"
  BY <1>3, CancelledReceipt
<1> HIDE DEF v
<1>6. Worth(v) = 0
  BY <1>5 DEF Worth
<1>7. ReceiptsTyped' /\ Worths(receipt', Receipts) = Worths(receipt, Receipts) + m
  <2>1. ReceiptsTyped' /\ Worths(receipt', Receipts) = Worths(receipt, Receipts) + (Worth(v) - Worth(old))
    BY <1>1, <1>2, <1>5, ReceiptWritten DEF old
  <2> QED BY <1>3, <1>4, <1>6, <2>1
<1>8. /\ TransfersTyped' /\ PlansSound' /\ DesksSound' /\ Worths(transfer', Transfers) = Worths(transfer, Transfers) + 0
      /\ Corrections(discrepancy', Discrepancies) = Corrections(discrepancy, Discrepancies) + 0
  BY <1>1, <1>2, Unmoved, PlansUnmoved, DesksUnmoved DEF BookInv
<1>9. CountsTyped'
  BY <1>1, <1>2, <1>3 DEF BookTyped, CountsTyped
<1>10. \A b \in Branches : counter'[b] = counter[b] + Says(b, m, 0, 0, adjusted'[b] - adjusted[b], sold'[b] - sold[b])
  BY <1>1, <1>2, <1>3 DEF Says, If, BookTyped, CountsTyped
<1>11. clobbered => clobbered'
  BY <1>2
<1> HIDE DEF m
<1> QED BY <1>4, <1>11, <1>7, <1>8, <1>9, <1>10, Kept DEF BookTyped

LEMMA ReverseTransferKeeps ==
  ASSUME InventoryAssumption, BookInv, NEW t, NEW x \in Transfers, NEW n, ReverseTransfer(t, x, n), UNCHANGED sold
  PROVE  BookInv'
<1> DEFINE old == transfer[x]
<1>1. /\ BookTyped /\ PlansSound /\ counter \in [Branches -> Int] /\ From \in Branches /\ To \in Branches /\ From # To
      /\ x \notin Receipts
  BY DEF BookInv, BookTyped, CountsTyped, InventoryAssumption, ReversalAssumption
<1>2. /\ transfer' = [transfer EXCEPT ![x] = Cancelled(old)] /\ counter' = Shift(To, From, old.qty)
      /\ UNCHANGED <<receivingVars, plan, discrepancy, adjusted>>
  BY DEF ReverseTransfer
<1>3. old.status = "completed"
  BY <1>1 DEF ReverseTransfer, Admits, Reversible, Document
<1>4. old \in TransferDocs({old.details}) /\ old.status # "none" /\ old.status # "cancelled"
  BY <1>1, <1>3 DEF BookTyped, TransfersTyped, TransferDocs
<1> HIDE DEF old
<1>5. TransferCancels(x)
  BY <1>1, <1>2, <1>4, TransferIsCancelled DEF old
<1>6. PlansSound'
  BY <1>1, <1>2, <1>5, PlansStay DEF TransferCancels
<1>7. Moved(counter', To, From, old.qty) /\ old.qty \in Int
  BY <1>1, <1>2, <1>4, Shifted DEF TransferDocs
<1> QED BY <1>1, <1>2, <1>5, <1>6, <1>7, TransferMovesBack DEF old, TransferCancels

LEMMA BookUnmoved ==
  ASSUME InventoryAssumption, BookInv, UNCHANGED <<stockVars, receivingVars, transferVars, sold>>
  PROVE  BookInv'
<1>1. BookTyped
  BY DEF BookInv
<1>2. UNCHANGED <<counter, receipt, desk, clobbered, transfer, plan, discrepancy, adjusted, sold>>
  BY DEF stockVars, receivingVars, transferVars
<1>3. /\ Worths(receipt', Receipts) = Worths(receipt, Receipts) + 0
      /\ ReceiptsTyped'
  BY <1>1, <1>2, Unmoved
<1> QED BY <1>2, <1>3, DraftMoves

LEMMA BookInit ==
  ASSUME InventoryAssumption, InvInit
  PROVE  BookInv
<1>1. /\ counter = [b \in Branches |-> 0] /\ receipt = [r \in Receipts |-> NoReceipt]
      /\ transfer = [t \in Transfers |-> NoTransfer] /\ discrepancy = [d \in Discrepancies |-> NoDiscrepancy]
      /\ adjusted = [b \in Branches |-> 0] /\ sold = [b \in Branches |-> 0] /\ clobbered = FALSE
      /\ desk = [d \in Desks |-> Away] /\ plan = [k \in Clerks |-> NoPlan]
  BY DEF InvInit, StockInit, ReceivingInit, TransferInit
<1>2. ReceiptsTyped
  <2>1. NoReceipt \in ReceiptDocs({NoLot})
    BY DEF NoReceipt, ReceiptDocs
  <2>2. receipt \in [Receipts -> ReceiptDocs({NoLot})]
    BY <1>1, <2>1
  <2> QED BY <2>2 DEF ReceiptsTyped
<1>3. TransfersTyped
  <2>1. NoTransfer \in TransferDocs({NoTransfer.details})
    BY DEF NoTransfer, TransferDocs
  <2>2. transfer \in [Transfers -> TransferDocs({NoTransfer.details})]
    BY <1>1, <2>1
  <2> QED BY <2>2 DEF TransfersTyped
<1>4. CountsTyped
  <2>1. NoDiscrepancy \in DiscrepancyDocs
    BY DEF NoDiscrepancy, DiscrepancyDocs
  <2>2. discrepancy \in [Discrepancies -> DiscrepancyDocs] /\ clobbered \in BOOLEAN
    BY <1>1, <2>1
  <2>3. counter \in [Branches -> Int] /\ adjusted \in [Branches -> Int] /\ sold \in [Branches -> Int]
    BY <1>1
  <2> QED BY <2>2, <2>3 DEF CountsTyped
<1>5. DesksSound
  <2>1. desk \in [Desks -> {Away}] /\ Away.doing = "nothing"
    BY <1>1 DEF Away
  <2> QED BY <2>1 DEF DesksSound
<1>6. PlansSound
  <2>1. plan \in [Clerks -> {NoPlan}] /\ NoPlan.to = "nothing"
    BY <1>1 DEF NoPlan
  <2> QED BY <2>1 DEF PlansSound
<1>7. CounterIsDocumented
  <2>1. /\ \A r \in Receipts : Worth(receipt[r]) = 0
        /\ \A t \in Transfers : Worth(transfer[t]) = 0
        /\ \A d \in Discrepancies : Correction(discrepancy[d]) = 0
    BY <1>1 DEF Worth, Correction, NoReceipt, NoTransfer, NoDiscrepancy
  <2>2. /\ Worths(receipt, Receipts) = 0 /\ Worths(transfer, Transfers) = 0
        /\ Corrections(discrepancy, Discrepancies) = 0
    BY <2>1, WorthsNone DEF InventoryAssumption
  <2>3. \A b \in Branches : counter[b] = Says(b, 0, 0, 0, adjusted[b], sold[b])
    BY <1>1 DEF Says, If
  <2> QED BY <1>2, <1>3, <1>4, <2>2, <2>3, BookSaysSo DEF BookTyped
<1> QED BY <1>2, <1>3, <1>4, <1>5, <1>6, <1>7 DEF BookInv, BookTyped, DocumentedOrClobbered

LEMMA ReceivingKeeps ==
  ASSUME InventoryAssumption, BookInv, ReceivingNext, UNCHANGED <<transferVars, sold>>
  PROVE  BookInv'
<1>1. CASE \E r \in Receipts, q \in Quantities : ConfirmReceiving(r, q) \/ NewDraft(r, q)
  BY <1>1, ConfirmReceivingKeeps, NewDraftKeeps
<1>2. CASE \E d \in Desks, r \in Receipts : ReadForDraft(d, r) \/ ReadForUpdate(d, r) \/ ReadForCancel(d, r)
  BY <1>2, ReadKeeps
<1>3. CASE \E d \in Desks, q \in Quantities : WriteDraft(d, q) \/ WriteUpdate(d, q)
  BY <1>3, WriteDraftKeeps, WriteUpdateKeeps
<1>4. CASE \E d \in Desks : WriteCancel(d)
  BY <1>4, WriteCancelKeeps
<1> QED BY <1>1, <1>2, <1>3, <1>4 DEF ReceivingNext

LEMMA TransferKeeps ==
  ASSUME InventoryAssumption, BookInv, TransferNext, UNCHANGED <<receivingVars, sold>>
  PROVE  BookInv'
<1>1. CASE \/ \E k \in Clerks, t \in Transfers : ListToConfirm(k, t) \/ ListToCancel(k, t)
           \/ \E k \in Clerks, b \in Branches : ListToAdjust(k, b)
           \/ \E k \in Clerks : GiveUp(k)
  BY <1>1, ListKeeps
<1>2. CASE \E k \in Clerks, q \in Amounts : ConfirmTransfer(k, q)
  BY <1>2, ConfirmTransferKeeps
<1>3. CASE \E k \in Clerks, n \in Differences : ConfirmAdjustment(k, n)
  BY <1>3, ConfirmAdjustmentKeeps
<1>4. CASE \E k \in Clerks : CancelTransfer(k)
  BY <1>4, CancelTransferKeeps
<1>5. CASE \E d \in Discrepancies, t \in Transfers, n \in Differences : ReportDiscrepancy(d, t, n)
  BY <1>5, ReportDiscrepancyKeeps
<1>6. CASE \E d \in Discrepancies : ResolveDiscrepancy(d)
  BY <1>6, ResolveDiscrepancyKeeps
<1> QED BY <1>1, <1>2, <1>3, <1>4, <1>5, <1>6 DEF TransferNext

LEMMA ReversalKeeps ==
  ASSUME InventoryAssumption, BookInv, ReversalNext, UNCHANGED sold
  PROVE  BookInv'
<1>1. CASE \E t \in Terminals, x \in Documents :
             CreateOfflineReversal(t, x) \/ ClaimForSync(t, x) \/ ResolveManualReview(t, x)
  BY <1>1, BookUnmoved DEF CreateOfflineReversal, ClaimForSync, ResolveManualReview
<1>2. CASE \E t \in Terminals, x \in Documents, n \in Attempts :
             Lose(t, x, n) \/ ApplyServerResult(t, x, n) \/ AnswerFromLedger(t, x, n) \/ Reject(t, x, n)
  BY <1>2, BookUnmoved DEF Lose, ApplyServerResult, AnswerFromLedger, Reject
<1>3. CASE \E t \in Terminals, r \in Receipts, n \in Attempts : ReverseReceiving(t, r, n)
  BY <1>3, ReverseReceivingKeeps
<1>4. CASE \E t \in Terminals, x \in Transfers, n \in Attempts : ReverseTransfer(t, x, n)
  BY <1>4, ReverseTransferKeeps
<1> QED BY <1>1, <1>2, <1>3, <1>4 DEF ReversalNext

LEMMA BookStep ==
  ASSUME InventoryAssumption, BookInv, [InvNext]_invVars
  PROVE  BookInv'
<1>1. CASE Sell(From) \/ Sell(To)
  BY <1>1, SellKeeps DEF InventoryAssumption
<1>2. CASE ReceivingNext /\ UNCHANGED <<transferVars, reversalVars, sold>>
  BY <1>2, ReceivingKeeps
<1>3. CASE TransferNext /\ UNCHANGED <<receivingVars, reversalVars, sold>>
  BY <1>3, TransferKeeps
<1>4. CASE ReversalNext /\ UNCHANGED sold
  BY <1>4, ReversalKeeps
<1>5. CASE UNCHANGED invVars
  BY <1>5, BookUnmoved DEF invVars
<1> QED BY <1>1, <1>2, <1>3, <1>4, <1>5 DEF InvNext

(* The counter of every branch is what its documents, counts and sales     *)
(* say, however receivings, transfers, discrepancies, adjustments, sales   *)
(* and reversals interleave, unless a screen has written a total over      *)
(* something it had not read.                                              *)
THEOREM StockIsDocumented ==
  ASSUME InventoryAssumption
  PROVE  InvSpec => []DocumentedOrClobbered
<1>1. InvInit => BookInv
  BY BookInit
<1>2. BookInv /\ [InvNext]_invVars => BookInv'
  BY BookStep
<1>3. BookInv => DocumentedOrClobbered
  BY DEF BookInv
<1> QED BY <1>1, <1>2, <1>3, PTL DEF InvSpec

-----------------------------------------------------------------------------
(* What a terminal was told: nobody is told yes of a document that another *)
(* reversed, and an answer is told once.                                   *)
Shaped ==
  /\ ledger \in [Documents -> Terminals \cup {Nobody}]
  /\ \E P : intent \in [Terminals -> [Documents -> P]]
  /\ \E P : request \in [Terminals -> [Documents -> [Attempts -> P]]]
AnswersOwned == \A t \in Terminals, x \in Documents, n \in Attempts : request[t][x][n] = "confirmed" => ledger[x] = t
AnswerInv == Shaped /\ AnswersOwned /\ AcceptedIsReversed

Settled == {"server_accepted", "manual_review_resolved"}
(* A step writes the queue of one terminal at most, never over what is     *)
(* settled, and accepts on an answer only.                                 *)
QueueStep ==
  \/ intent' = intent
  \/ \E t \in Terminals, x \in Documents : \E i :
       /\ intent' = [intent EXCEPT ![t][x] = i] /\ intent[t][x].status \notin Settled
       /\ i.status = "server_accepted" => \E n \in Attempts : request[t][x][n] = "confirmed"
(* A step answers one request at most, and confirms what is its own.       *)
AnswerStep ==
  \/ ledger' = ledger /\ request' = request
  \/ \E t \in Terminals, x \in Documents, n \in Attempts : \E a :
       /\ request' = [request EXCEPT ![t][x][n] = a]
       /\ \/ ledger' = ledger
          \/ ledger[x] = Nobody /\ ledger' = [ledger EXCEPT ![x] = t]
       /\ a = "confirmed" => ledger'[x] = t

LEMMA QueueSteps ==
  ASSUME InventoryAssumption, [InvNext]_invVars, Shaped
  PROVE  QueueStep
<1>1. ASSUME NEW t \in Terminals, NEW x \in Documents, CreateOfflineReversal(t, x) PROVE QueueStep
  <2>1. PICK seen : SetIntent(t, x, [NoIntent EXCEPT !.status = "queued", !.observed = seen]) /\ intent[t][x] = NoIntent
    BY <1>1 DEF CreateOfflineReversal
  <2> DEFINE o == [NoIntent EXCEPT !.status = "queued"]
             i == [NoIntent EXCEPT !.status = "queued", !.observed = seen]
  <2>2. i.status = "queued" /\ intent[t][x].status = "none" /\ intent' = [intent EXCEPT ![t][x] = i]
    BY <2>1 DEF SetIntent, NoIntent
  <2> HIDE DEF i
  <2> QED BY <2>2 DEF QueueStep, Settled
<1>2. ASSUME NEW t \in Terminals, NEW x \in Documents, ClaimForSync(t, x) PROVE QueueStep
  <2> DEFINE i == [intent[t][x] EXCEPT !.status = "syncing", !.attempt = intent[t][x].attempt + 1]
  <2>1. intent' = [intent EXCEPT ![t][x] = i] /\ intent[t][x].status \notin Settled
    BY <1>2 DEF ClaimForSync, SetIntent, IsClaimable, Settled
  <2>2. i.status # "server_accepted"
    OBVIOUS
  <2> HIDE DEF i
  <2> QED BY <2>1, <2>2 DEF QueueStep
<1>3. ASSUME NEW t \in Terminals, NEW x \in Documents, ResolveManualReview(t, x) PROVE QueueStep
  <2> DEFINE i == [intent[t][x] EXCEPT !.status = "manual_review_resolved"]
  <2>1. intent' = [intent EXCEPT ![t][x] = i] /\ intent[t][x].status \notin Settled
    BY <1>3 DEF ResolveManualReview, SetIntent, Settled
  <2>2. i.status # "server_accepted"
    OBVIOUS
  <2> HIDE DEF i
  <2> QED BY <2>1, <2>2 DEF QueueStep
<1>4. ASSUME NEW t \in Terminals, NEW x \in Documents, NEW n \in Attempts, ApplyServerResult(t, x, n) PROVE QueueStep
  <2> DEFINE c == ClassifyServerResult(request[t][x][n])
             i == [intent[t][x] EXCEPT !.status = c]
  <2>1. \/ intent' = intent
        \/ intent' = [intent EXCEPT ![t][x] = i] /\ intent[t][x].status = "syncing"
    BY <1>4 DEF ApplyServerResult, SetIntent, TokenMatches
  <2>2. c = "server_accepted" => request[t][x][n] = "confirmed"
    BY <1>4 DEF ClassifyServerResult, ApplyServerResult
  <2> HIDE DEF c
  <2>3. i.status = "server_accepted" => c = "server_accepted"
    OBVIOUS
  <2> HIDE DEF i
  <2> QED BY <2>1, <2>2, <2>3 DEF QueueStep, Settled
<1>5. CASE intent' = intent
  BY <1>5 DEF QueueStep
<1>6. \/ intent' = intent
      \/ \E t \in Terminals, x \in Documents : CreateOfflineReversal(t, x) \/ ClaimForSync(t, x) \/ ResolveManualReview(t, x)
      \/ \E t \in Terminals, x \in Documents, n \in Attempts : ApplyServerResult(t, x, n)
  <2>1. CASE ReversalNext
    BY <2>1 DEF ReversalNext, Lose, AnswerFromLedger, Reject, ReverseReceiving, ReverseTransfer
  <2>2. CASE ~ReversalNext
    BY <2>2 DEF InvNext, Sell, reversalVars, invVars
  <2> QED BY <2>1, <2>2
<1> QED BY <1>1, <1>2, <1>3, <1>4, <1>5, <1>6

LEMMA OneAnswer ==
  ASSUME NEW t \in Terminals, NEW x \in Documents, NEW n \in Attempts, NEW a, request' = [request EXCEPT ![t][x][n] = a],
         ledger' = ledger \/ (ledger[x] = Nobody /\ ledger' = [ledger EXCEPT ![x] = t]), a = "confirmed" => ledger'[x] = t
  PROVE  AnswerStep
BY Zenon DEF AnswerStep

LEMMA AnswerOnly ==
  ASSUME NEW t \in Terminals, NEW x \in Documents, NEW n \in Attempts, NEW a, request' = [request EXCEPT ![t][x][n] = a],
         ledger' = ledger, a = "confirmed" => ledger[x] = t
  PROVE  AnswerStep
<1>1. a = "confirmed" => ledger'[x] = t
  OBVIOUS
<1> QED BY <1>1, OneAnswer

LEMMA AnswerSteps ==
  ASSUME InventoryAssumption, [InvNext]_invVars, Shaped
  PROVE  AnswerStep
<1>1. ASSUME NEW t \in Terminals, NEW x \in Documents, ClaimForSync(t, x) PROVE AnswerStep
  <2> DEFINE n == intent[t][x].attempt + 1
  <2>1. PICK a : request' = [request EXCEPT ![t][x][n] = a] /\ ledger' = ledger /\ (a = "confirmed" => ledger[x] = t)
    <3>1. request' = [request EXCEPT ![t][x][n] = "sent"] /\ ledger' = ledger
      BY <1>1 DEF ClaimForSync
    <3>2. "sent" = "confirmed" => ledger[x] = t
      OBVIOUS
    <3> HIDE DEF n
    <3> QED BY <3>1, <3>2, Zenon
  <2> HIDE DEF n
  <2>2. n \in Attempts \/ request' = request
    BY <2>1 DEF Shaped
  <2>3. CASE n \in Attempts
    BY <2>1, <2>3, AnswerOnly
  <2> QED BY <2>1, <2>2, <2>3 DEF AnswerStep
<1>2. ASSUME NEW t \in Terminals, NEW x \in Documents, NEW n \in Attempts,
             Lose(t, x, n) \/ ApplyServerResult(t, x, n) \/ AnswerFromLedger(t, x, n) \/ Reject(t, x, n)
      PROVE  AnswerStep
  <2>1. PICK a : /\ request' = [request EXCEPT ![t][x][n] = a] /\ ledger' = ledger
                 /\ a = "confirmed" => ledger[x] = t
    BY <1>2 DEF Lose, ApplyServerResult, AnswerFromLedger, Answer, SamePayload, Reject
  <2> QED BY <2>1, AnswerOnly
<1>3. ASSUME NEW t \in Terminals, NEW x \in Documents, NEW n \in Attempts, Record(t, x, n), ~Recorded(x) PROVE AnswerStep
  <2> DEFINE a == "confirmed"
  <2>1. /\ request' = [request EXCEPT ![t][x][n] = a] /\ ledger' = [ledger EXCEPT ![x] = t] /\ ledger[x] = Nobody
        /\ ledger'[x] = t
    BY <1>3 DEF Record, Recorded, Answer, Shaped
  <2> HIDE DEF a
  <2> QED BY <2>1, OneAnswer
<1>4. CASE ledger' = ledger /\ request' = request
  BY <1>4 DEF AnswerStep
<1>5. \/ ledger' = ledger /\ request' = request
      \/ \E t \in Terminals, x \in Documents : ClaimForSync(t, x)
      \/ \E t \in Terminals, x \in Documents, n \in Attempts :
           \/ Lose(t, x, n) \/ ApplyServerResult(t, x, n) \/ AnswerFromLedger(t, x, n) \/ Reject(t, x, n)
           \/ Record(t, x, n) /\ ~Recorded(x)
  <2>1. CASE ReversalNext
    BY <2>1 DEF ReversalNext, CreateOfflineReversal, ResolveManualReview, ReverseReceiving, ReverseTransfer, Documents
  <2>2. CASE ~ReversalNext
    BY <2>2 DEF InvNext, Sell, reversalVars, invVars
  <2> QED BY <2>1, <2>2
<1> QED BY <1>1, <1>2, <1>3, <1>4, <1>5

LEMMA QueueWritten ==
  ASSUME NEW P, intent \in [Terminals -> [Documents -> P]], NEW t \in Terminals, NEW x \in Documents, NEW i,
         intent' = [intent EXCEPT ![t][x] = i]
  PROVE  /\ intent' \in [Terminals -> [Documents -> P \cup {i}]] /\ intent'[t][x] = i
         /\ \A u \in Terminals, y \in Documents : u # t \/ y # x => intent'[u][y] = intent[u][y]
<1>1. [intent[t] EXCEPT ![x] = i] \in [Documents -> P \cup {i}]
  OBVIOUS
<1> QED BY <1>1

LEMMA RequestWritten ==
  ASSUME NEW P, request \in [Terminals -> [Documents -> [Attempts -> P]]], NEW t \in Terminals, NEW x \in Documents,
         NEW n \in Attempts, NEW a, request' = [request EXCEPT ![t][x][n] = a]
  PROVE  /\ request' \in [Terminals -> [Documents -> [Attempts -> P \cup {a}]]] /\ request'[t][x][n] = a
         /\ \A u \in Terminals, y \in Documents, m \in Attempts :
              u # t \/ y # x \/ m # n => request'[u][y][m] = request[u][y][m]
<1>1. [request[t][x] EXCEPT ![n] = a] \in [Attempts -> P \cup {a}]
  OBVIOUS
<1>2. [request[t] EXCEPT ![x][n] = a] \in [Documents -> [Attempts -> P \cup {a}]]
  BY <1>1
<1> QED BY <1>1, <1>2

LEMMA AnswersKeep ==
  ASSUME InventoryAssumption, [InvNext]_invVars, AnswerInv
  PROVE  AnswerInv'
<1>1. Shaped /\ Nobody \notin Terminals /\ QueueStep /\ AnswerStep
  BY QueueSteps, AnswerSteps DEF AnswerInv, InventoryAssumption, ReversalAssumption
<1>2. /\ (\E P : intent' \in [Terminals -> [Documents -> P]])
      /\ \A t \in Terminals, x \in Documents : intent'[t][x].status = "server_accepted" =>
           \/ intent[t][x].status = "server_accepted"
           \/ \E n \in Attempts : request[t][x][n] = "confirmed"
  <2>1. PICK P : intent \in [Terminals -> [Documents -> P]]
    BY <1>1 DEF Shaped
  <2>2. CASE intent' = intent
    BY <2>1, <2>2
  <2>3. ASSUME NEW t \in Terminals, NEW x \in Documents, NEW i, intent' = [intent EXCEPT ![t][x] = i],
               i.status = "server_accepted" => \E n \in Attempts : request[t][x][n] = "confirmed"
        PROVE  <1>2!1 /\ <1>2!2
    <3>1. /\ intent' \in [Terminals -> [Documents -> P \cup {i}]] /\ intent'[t][x] = i
          /\ \A u \in Terminals, y \in Documents : u # t \/ y # x => intent'[u][y] = intent[u][y]
      BY <2>1, <2>3, QueueWritten
    <3> QED BY <2>3, <3>1
  <2> QED BY <1>1, <2>2, <2>3 DEF QueueStep
<1>3. /\ ledger' \in [Documents -> Terminals \cup {Nobody}]
      /\ \E P : request' \in [Terminals -> [Documents -> [Attempts -> P]]]
      /\ \A t \in Terminals, x \in Documents : ledger[x] = t => ledger'[x] = t
      /\ AnswersOwned'
  <2>1. PICK P : request \in [Terminals -> [Documents -> [Attempts -> P]]]
    BY <1>1 DEF Shaped
  <2>2. CASE ledger' = ledger /\ request' = request
    BY <1>1, <2>1, <2>2 DEF Shaped, AnswerInv, AnswersOwned
  <2>3. ASSUME NEW t \in Terminals, NEW x \in Documents, NEW n \in Attempts, NEW a,
               request' = [request EXCEPT ![t][x][n] = a],
               ledger' = ledger \/ (ledger[x] = Nobody /\ ledger' = [ledger EXCEPT ![x] = t]),
               a = "confirmed" => ledger'[x] = t
        PROVE  <1>3!1 /\ <1>3!2 /\ <1>3!3 /\ <1>3!4
    <3>1. ledger' \in [Documents -> Terminals \cup {Nobody}]
      BY <1>1, <2>3 DEF Shaped
    <3>2. \A u \in Terminals, y \in Documents : ledger[y] = u => ledger'[y] = u
      BY <1>1, <2>3 DEF Shaped
    <3>3. /\ request' \in [Terminals -> [Documents -> [Attempts -> P \cup {a}]]] /\ request'[t][x][n] = a
          /\ \A u \in Terminals, y \in Documents, m \in Attempts :
               u # t \/ y # x \/ m # n => request'[u][y][m] = request[u][y][m]
      BY <2>1, <2>3, RequestWritten
    <3>4. AnswersOwned'
      BY <2>3, <3>2, <3>3 DEF AnswerInv, AnswersOwned
    <3> QED BY <3>1, <3>2, <3>3, <3>4
  <2> QED BY <1>1, <2>2, <2>3 DEF AnswerStep
<1>4. AcceptedIsReversed'
  BY <1>2, <1>3 DEF AnswerInv, AnswersOwned, AcceptedIsReversed
<1> QED BY <1>2, <1>3, <1>4 DEF AnswerInv, Shaped

LEMMA AnswersInit == ASSUME InvInit PROVE AnswerInv
<1>1. /\ ledger = [x \in Documents |-> Nobody]
      /\ intent = [t \in Terminals |-> [x \in Documents |-> NoIntent]]
      /\ request = [t \in Terminals |-> [x \in Documents |-> [n \in Attempts |-> "none"]]]
      /\ NoIntent.status = "none"
  BY DEF InvInit, ReversalInit, NoIntent
<1>2. Shaped
  <2>1. intent \in [Terminals -> [Documents -> {NoIntent}]]
    BY <1>1
  <2>2. request \in [Terminals -> [Documents -> [Attempts -> {"none"}]]]
    BY <1>1
  <2> QED BY <1>1, <2>1, <2>2 DEF Shaped
<1> QED BY <1>1, <1>2 DEF AnswerInv, AnswersOwned, AcceptedIsReversed

(* A terminal that was told its reversal went through is the one whose     *)
(* payload the server recorded and carried out.                            *)
THEOREM AcceptedWasReversed ==
  ASSUME InventoryAssumption
  PROVE  InvSpec => []AcceptedIsReversed
<1>1. InvInit => AnswerInv
  BY AnswersInit
<1>2. AnswerInv /\ [InvNext]_invVars => AnswerInv'
  BY AnswersKeep
<1>3. AnswerInv => AcceptedIsReversed
  BY DEF AnswerInv
<1> QED BY <1>1, <1>2, <1>3, PTL DEF InvSpec

(* A late answer, or a late failure, undoes nothing that was settled.      *)
THEOREM SettledStays ==
  ASSUME InventoryAssumption
  PROVE  InvSpec => [][StaysSettled]_invVars
<1>1. InvInit => AnswerInv
  BY AnswersInit
<1>2. AnswerInv /\ [InvNext]_invVars => AnswerInv'
  BY AnswersKeep
<1>3. AnswerInv /\ [InvNext]_invVars => StaysSettled
  <2> SUFFICES ASSUME AnswerInv, [InvNext]_invVars, NEW t \in Terminals, NEW x \in Documents, intent[t][x].status \in Settled
               PROVE  intent'[t][x].status = intent[t][x].status
    BY DEF StaysSettled, Settled
  <2>1. Shaped /\ QueueStep
    BY QueueSteps DEF AnswerInv
  <2>2. PICK P : intent \in [Terminals -> [Documents -> P]]
    BY <2>1 DEF Shaped
  <2>3. ASSUME NEW u \in Terminals, NEW y \in Documents, NEW i, intent' = [intent EXCEPT ![u][y] = i],
               intent[u][y].status \notin Settled
        PROVE  intent'[t][x] = intent[t][x]
    BY <2>2, <2>3, QueueWritten
  <2> QED BY <2>1, <2>3 DEF QueueStep
<1> QED BY <1>1, <1>2, <1>3, PTL DEF InvSpec

-----------------------------------------------------------------------------
(* A first-in first-out cut.  Lots are typed by how many there are.        *)
LotDocs(n) == [branch : Branches, qty : Int, at : 1..n]

(* The units of some lots are the sum of what is in them.                  *)
LEMMA UnitsAreSum ==
  ASSUME NEW refs, IsFiniteSet(refs), \A l \in refs : lots[l].qty \in Int
  PROVE  Units(refs) = SumFunctionOnSet([l \in refs |-> lots[l].qty], refs)
<1>1. Units(refs) = (CHOOSE F : QtySums(F, lots, SUBSET refs))[refs]
  BY DEF Units, MapThenSumSet, MapThenFoldSet, QtySums
<1> QED BY <1>1, QtySum

(* Nothing is left of no lots; one lot more adds what is in it.            *)
LEMMA UnitsNat ==
  ASSUME NEW refs, IsFiniteSet(refs), \A l \in refs : lots[l].qty \in Nat
  PROVE  /\ Units(refs) \in Nat /\ (refs = {} => Units(refs) = 0)
         /\ \A l \in refs : Units(refs) = lots[l].qty + Units(refs \ {l}) /\ Units(refs \ {l}) \in Nat
<1> DEFINE g == [l \in refs |-> lots[l].qty]
<1>1. \A l \in refs : g[l] \in Nat /\ g[l] \in Int /\ g[l] = lots[l].qty
  OBVIOUS
<1>2. Units(refs) = SumFunctionOnSet(g, refs)
  BY <1>1, UnitsAreSum
<1> HIDE DEF g
<1>3. Units(refs) \in Nat /\ (refs = {} => Units(refs) = 0)
  BY <1>1, <1>2, SumNat, SumEmpty
<1>4. ASSUME NEW l \in refs
      PROVE  Units(refs) = lots[l].qty + Units(refs \ {l}) /\ Units(refs \ {l}) \in Nat
  <2>1. IsFiniteSet(refs \ {l})
    BY FS_RemoveElement
  <2> DEFINE h == [k \in refs \ {l} |-> lots[k].qty]
  <2>2. \A k \in refs \ {l} : g[k] \in Int /\ h[k] = g[k] /\ h[k] \in Nat /\ lots[k].qty \in Int
    BY <1>1
  <2>3. Units(refs \ {l}) = SumFunctionOnSet(h, refs \ {l})
    BY <2>1, <2>2, UnitsAreSum
  <2> HIDE DEF h
  <2>4. SumFunctionOnSet(h, refs \ {l}) = SumFunctionOnSet(g, refs \ {l}) /\ SumFunctionOnSet(h, refs \ {l}) \in Nat
    BY <2>1, <2>2, SumSame, SumNat
  <2>5. SumFunctionOnSet(g, refs) = g[l] + SumFunctionOnSet(g, refs \ {l})
    BY <1>1, SumOne
  <2> QED BY <1>1, <1>2, <2>3, <2>4, <2>5
<1> QED BY <1>3, <1>4

(* Of two lots one is the older; a set of lots has a youngest one.         *)
LEMMA OlderOrders ==
  ASSUME NEW refs, refs \subseteq Nat, \A l \in refs : lots[l].at \in Int
  PROVE  \A j, k, l \in refs : /\ ~Older(k, k)
                               /\ k = l \/ Older(k, l) \/ Older(l, k)
                               /\ ~(Older(k, l) /\ Older(l, k))
                               /\ Older(j, k) /\ Older(k, l) => Older(j, l)
<1>1. \A l \in refs : l \in Int
  OBVIOUS
<1>2. ASSUME NEW j \in refs, NEW k \in refs, NEW l \in refs
      PROVE  /\ ~Older(k, k) /\ (k = l \/ Older(k, l) \/ Older(l, k)) /\ ~(Older(k, l) /\ Older(l, k))
             /\ Older(j, k) /\ Older(k, l) => Older(j, l)
  <2>1. j \in Int /\ k \in Int /\ l \in Int /\ lots[j].at \in Int /\ lots[k].at \in Int /\ lots[l].at \in Int
    <3>1. lots[j].at \in Int /\ lots[k].at \in Int /\ lots[l].at \in Int
      OBVIOUS
    <3> QED BY <1>1, <3>1
  <2> QED BY <2>1 DEF Older
<1> QED BY <1>2

LEMMA YoungestExists ==
  ASSUME NEW S, IsFiniteSet(S), S \subseteq Nat, \A l \in S : lots[l].at \in Int
  PROVE  \A refs \in SUBSET S : refs # {} => \E m \in refs : \A k \in refs : k = m \/ Older(k, m)
<1> DEFINE G == {refs \in SUBSET S : refs # {} => \E m \in refs : \A k \in refs : k = m \/ Older(k, m)}
<1>1. {} \in G
  OBVIOUS
<1>2. ASSUME NEW refs \in SUBSET S, refs # {}, \A x \in refs : refs \ {x} \in G PROVE refs \in G
  <2>1. PICK x \in refs : TRUE
    BY <1>2
  <2>2. CASE refs = {x}
    BY <2>1, <2>2
  <2>3. CASE refs # {x}
    <3>1. PICK m \in refs \ {x} : \A k \in refs \ {x} : k = m \/ Older(k, m)
      BY <1>2, <2>1, <2>3
    <3>2. CASE Older(x, m)
      BY <3>1, <3>2
    <3>3. CASE ~Older(x, m)
      <4>1. Older(m, x)
        BY <2>1, <3>1, <3>3, OlderOrders
      <4>2. \A k \in refs : k = x \/ Older(k, x)
        BY <2>1, <3>1, <4>1, OlderOrders
      <4> QED BY <2>1, <4>2
    <3> QED BY <3>2, <3>3
  <2> QED BY <2>2, <2>3
<1> HIDE DEF G
<1>3. \A refs \in SUBSET S : refs \in G
  BY <1>1, <1>2, SubsetInduction
<1> QED BY <1>3 DEF G

(* The cut takes from each lot no more than is in it, and in all what was  *)
(* asked for, or all there is.                                             *)
LEMMA CutIsWhole ==
  ASSUME NEW S, IsFiniteSet(S), S \subseteq Nat, NEW q \in Nat,
         \A l \in S : lots[l].at \in Int /\ lots[l].qty \in Nat
  PROVE  \A refs \in SUBSET S :
           /\ FifoTake(refs, q) \in [refs -> Nat]
           /\ \A l \in refs : FifoTake(refs, q)[l] <= lots[l].qty
           /\ SumFunctionOnSet(FifoTake(refs, q), refs) = Least(q, Units(refs))
<1>0. ASSUME NEW refs \in SUBSET S
      PROVE  IsFiniteSet(refs) /\ Units(refs) \in Nat /\ Lacking(refs, q) \in Nat /\ Lacking(refs, q) = q - Least(q, Units(refs))
  <2>1. IsFiniteSet(refs) /\ \A l \in refs : lots[l].qty \in Nat
    BY FS_Subset
  <2>2. Units(refs) \in Nat
    BY <2>1, UnitsNat
  <2> QED BY <2>1, <2>2 DEF Lacking, Least
<1>1. ASSUME NEW refs \in SUBSET S
      PROVE  /\ FifoTake(refs, q) \in [refs -> Nat]
             /\ \A l \in refs : FifoTake(refs, q)[l] <= lots[l].qty
  <2>1. ASSUME NEW l \in refs
        PROVE  /\ Least(lots[l].qty, Lacking({k \in refs : Older(k, l)}, q)) \in Nat
               /\ Least(lots[l].qty, Lacking({k \in refs : Older(k, l)}, q)) <= lots[l].qty
    <3>1. Lacking({k \in refs : Older(k, l)}, q) \in Nat /\ lots[l].qty \in Nat
      BY <1>0
    <3> QED BY <3>1 DEF Least
  <2> QED BY <2>1 DEF FifoTake
<1> DEFINE G == {refs \in SUBSET S : SumFunctionOnSet(FifoTake(refs, q), refs) = Least(q, Units(refs))}
<1>2. {} \in G
  <2>1. Units({}) = 0
    BY UnitsNat, FS_EmptySet
  <2> QED BY <2>1, SumEmpty DEF Least
<1>3. ASSUME NEW refs \in SUBSET S, refs # {}, \A x \in refs : refs \ {x} \in G PROVE refs \in G
  <2>1. PICK m \in refs : \A k \in refs : k = m \/ Older(k, m)
    BY <1>3, YoungestExists
  <2> DEFINE rest == refs \ {m}
             take == FifoTake(refs, q)
             part == FifoTake(rest, q)
  <2>2. {k \in refs : Older(k, m)} = rest
    BY <2>1, OlderOrders
  <2>3. ASSUME NEW l \in rest PROVE {k \in refs : Older(k, l)} = {k \in rest : Older(k, l)}
    BY <2>1, OlderOrders
  <2>4. /\ \A l \in rest : take[l] = part[l]
        /\ take[m] = Least(lots[m].qty, q - Least(q, Units(rest)))
    BY <2>2, <2>3 DEF FifoTake, Lacking
  <2>5. /\ IsFiniteSet(refs) /\ IsFiniteSet(rest) /\ rest \in SUBSET S /\ Units(rest) \in Nat
        /\ Units(refs) = lots[m].qty + Units(rest) /\ lots[m].qty \in Nat
    BY <1>0, <2>1, UnitsNat, FS_RemoveElement
  <2>6. SumFunctionOnSet(part, rest) = Least(q, Units(rest))
    BY <1>3
  <2>7. (\A l \in refs : take[l] \in Int) /\ \A l \in rest : part[l] \in Int
    BY <1>1, <2>5
  <2> HIDE DEF take, part
  <2>8. SumFunctionOnSet(take, refs) = take[m] + SumFunctionOnSet(take, rest)
    BY <2>5, <2>7, SumOne
  <2>9. SumFunctionOnSet(take, rest) = SumFunctionOnSet(part, rest)
    BY <2>4, <2>5, <2>7, SumSame
  <2>10. SumFunctionOnSet(take, refs) = Least(q, Units(refs))
    BY <2>4, <2>5, <2>6, <2>8, <2>9 DEF Least
  <2> QED BY <2>10 DEF take
<1> HIDE DEF G
<1>4. \A refs \in SUBSET S : refs \in G
  BY <1>2, <1>3, SubsetInduction
<1> QED BY <1>1, <1>4 DEF G

-----------------------------------------------------------------------------
(* The touched lots are each named once.                                   *)
Rank(cut) == [l \in cut |-> Cardinality({k \in cut : Older(k, l)}) + 1]
LEMMA RanksOrder ==
  ASSUME NEW cut, IsFiniteSet(cut), cut \subseteq Nat, \A l \in cut : lots[l].at \in Int
  PROVE  Cardinality(cut) \in Nat /\ Rank(cut) \in Bijection(cut, 1..Cardinality(cut))
<1> DEFINE N == Cardinality(cut)
           before(l) == {k \in cut : Older(k, l)}
<1>1. N \in Nat
  BY FS_CardinalityType
<1>2. ASSUME NEW l \in cut
      PROVE  IsFiniteSet(before(l)) /\ Cardinality(before(l)) \in Nat /\ Cardinality(before(l)) + 1 \in 1..N
  <2>1. before(l) \in SUBSET (cut \ {l})
    BY OlderOrders
  <2>2. IsFiniteSet(cut \ {l}) /\ Cardinality(cut \ {l}) = N - 1
    BY FS_RemoveElement
  <2> HIDE DEF before
  <2>3. IsFiniteSet(before(l)) /\ Cardinality(before(l)) <= N - 1 /\ Cardinality(before(l)) \in Nat
    BY <2>1, <2>2, FS_Subset, FS_CardinalityType
  <2> QED BY <1>1, <2>3
<1>3. ASSUME NEW k \in cut, NEW l \in cut, Older(k, l)
      PROVE  Cardinality(before(k)) # Cardinality(before(l))
  <2>1. before(k) \in SUBSET before(l) /\ k \in before(l) /\ k \notin before(k)
    <3>1. ~Older(k, k) /\ \A j \in cut : Older(j, k) => Older(j, l)
      BY <1>3, OlderOrders
    <3> QED BY <1>3, <3>1
  <2>2. IsFiniteSet(before(l))
    BY <1>2
  <2> HIDE DEF before
  <2> QED BY <2>1, <2>2, FS_Subset
<1>4. ASSUME NEW k \in cut, NEW l \in cut, Rank(cut)[k] = Rank(cut)[l] PROVE k = l
  <2>1. Cardinality(before(k)) + 1 = Cardinality(before(l)) + 1
    BY <1>4 DEF Rank
  <2>2. Cardinality(before(k)) \in Nat /\ Cardinality(before(l)) \in Nat
    BY <1>2
  <2> HIDE DEF before
  <2>3. Cardinality(before(k)) = Cardinality(before(l))
    BY <2>1, <2>2
  <2>4. ~Older(k, l) /\ ~Older(l, k)
    BY <1>3, <2>3
  <2> QED BY <2>4, OlderOrders
<1>5. Rank(cut) \in [cut -> 1..N]
  BY <1>2 DEF Rank
<1>6. Rank(cut) \in Injection(cut, 1..N)
  BY <1>4, <1>5 DEF Injection, IsInjective
<1>7. IsFiniteSet(1..N) /\ Cardinality(1..N) = N
  BY <1>1, FS_Interval
<1> QED BY <1>1, <1>6, <1>7, FS_Injection DEF Bijection

CutOf(take) == {l \in DOMAIN take : take[l] > 0}
LEMMA TouchedOnce ==
  ASSUME NEW take, IsFiniteSet(CutOf(take)), CutOf(take) \subseteq Nat, \A l \in CutOf(take) : lots[l].at \in Int
  PROVE  /\ Cardinality(CutOf(take)) \in Nat
         /\ Touched(take) \in [1..Cardinality(CutOf(take)) -> CutOf(take)]
         /\ \A i, j \in 1..Cardinality(CutOf(take)) : Touched(take)[i] = Touched(take)[j] => i = j
         /\ CutOf(take) = {Touched(take)[i] : i \in 1..Cardinality(CutOf(take))}
<1> DEFINE cut == CutOf(take)
           N == Cardinality(cut)
           T == [i \in 1..N |-> CHOOSE l \in cut : Cardinality({k \in cut : Older(k, l)}) = i - 1]
<1>1. N \in Nat /\ Rank(cut) \in [cut -> 1..N] /\ (\A i \in 1..N : \E l \in cut : Rank(cut)[l] = i)
      /\ \A k, l \in cut : Rank(cut)[k] = Rank(cut)[l] => k = l
  <2>1. N \in Nat /\ Rank(cut) \in Bijection(cut, 1..N)
    BY RanksOrder
  <2> HIDE DEF cut, N
  <2> QED BY <2>1 DEF Bijection, Injection, Surjection, IsInjective
<1>2. T = Touched(take)
  BY DEF Touched, CutOf
<1> HIDE DEF cut
<1>3. \A l \in cut : Cardinality({k \in cut : Older(k, l)}) \in Int
                     /\ Rank(cut)[l] = Cardinality({k \in cut : Older(k, l)}) + 1
  <2> TAKE l \in cut
  <2>1. IsFiniteSet({k \in cut : Older(k, l)})
    BY FS_Subset DEF cut
  <2> QED BY <2>1, FS_CardinalityType DEF Rank
<1>4. ASSUME NEW i \in 1..N PROVE T[i] \in cut /\ Rank(cut)[T[i]] = i
  <2>1. PICK l \in cut : Rank(cut)[l] = i
    BY <1>1
  <2>2. Cardinality({k \in cut : Older(k, l)}) = i - 1
    BY <1>3, <2>1
  <2>3. T[i] \in cut /\ Cardinality({k \in cut : Older(k, T[i])}) = i - 1
    BY <2>2
  <2>4. Rank(cut)[T[i]] = Cardinality({k \in cut : Older(k, T[i])}) + 1
    BY <1>3, <2>3
  <2> QED BY <1>1, <2>3, <2>4
<1> HIDE DEF T
<1>5. T \in [1..N -> cut]
  BY <1>4 DEF T
<1>6. \A i, j \in 1..N : T[i] = T[j] => i = j
  BY <1>4
<1>7. cut \subseteq {T[i] : i \in 1..N}
  <2> SUFFICES ASSUME NEW l \in cut PROVE l \in {T[i] : i \in 1..N}
    OBVIOUS
  <2>1. Rank(cut)[l] \in 1..N
    BY <1>1
  <2>2. T[Rank(cut)[l]] = l
    BY <1>1, <1>4, <2>1
  <2> QED BY <2>1, <2>2
<1>8. cut = {T[i] : i \in 1..N}
  BY <1>4, <1>7
<1> QED BY <1>1, <1>2, <1>5, <1>6, <1>8 DEF cut

(* A sum over the image of a set under a one-to-one function.              *)
Image(t, S) == {t[x] : x \in S}
LEMMA SumOnto ==
  ASSUME NEW S, IsFiniteSet(S), NEW f, \A x \in S : f[x] \in Int, NEW g, NEW t,
         \A x \in S : g[t[x]] = f[x],
         \A x, y \in S : t[x] = t[y] => x = y
  PROVE  SumFunctionOnSet(g, Image(t, S)) = SumFunctionOnSet(f, S)
<1>1. SumFunctionOnSet(g, {t[x] : x \in S}) = SumFunctionOnSet(f, S)
  BY SumInjected
<1> QED BY <1>1 DEF Image

(* What the lines of a transfer add up to.                                 *)
AddsUp(details) == FoldSeq(LAMBDA d, n : d.qty + n, 0, details)
LEMMA AddsUpIsSum ==
  ASSUME NEW details, IsFiniteSet(DOMAIN details), \A i \in DOMAIN details : details[i].qty \in Int
  PROVE  AddsUp(details) = SumFunctionOnSet([i \in DOMAIN details |-> details[i].qty], DOMAIN details)
<1>1. AddsUp(details) = (CHOOSE F : QtySums(F, details, SUBSET DOMAIN details))[DOMAIN details]
  BY DEF AddsUp, FoldSeq, FoldFunction, FoldFunctionOnSet, MapThenFoldSet, QtySums
<1> QED BY <1>1, QtySum

LEMMA CutTakes ==
  ASSUME NEW refs, IsFiniteSet(refs), refs \subseteq Nat, NEW q \in Nat,
         \A l \in refs : lots[l].at \in Int /\ lots[l].qty \in Nat
  PROVE  /\ FifoTake(refs, q) \in [refs -> Nat]
         /\ \A l \in refs : FifoTake(refs, q)[l] <= lots[l].qty
         /\ SumFunctionOnSet(FifoTake(refs, q), refs) = Least(q, Units(refs))
         /\ Units(refs) \in Nat /\ Lacking(refs, q) \in Nat /\ Lacking(refs, q) = q - Least(q, Units(refs))
<1>1. \A s \in SUBSET refs : /\ FifoTake(s, q) \in [s -> Nat]
                             /\ \A l \in s : FifoTake(s, q)[l] <= lots[l].qty
                             /\ SumFunctionOnSet(FifoTake(s, q), s) = Least(q, Units(s))
  BY CutIsWhole
<1>2. Units(refs) \in Nat
  BY UnitsNat
<1>3. Lacking(refs, q) \in Nat /\ Lacking(refs, q) = q - Least(q, Units(refs))
  BY <1>2 DEF Lacking, Least
<1> QED BY <1>1, <1>2, <1>3

DetailForms(n) == [qty : Nat, at : 0..n]

(* The lines of a transfer of q units are q units, whatever was listed.    *)
LEMMA DetailsOf ==
  ASSUME NEW n \in Nat, NEW refs, IsFiniteSet(refs), refs \subseteq Nat, NEW q \in Nat,
         \A l \in refs : lots[l].at \in 0..n /\ lots[l].qty \in Nat
  PROVE  /\ Details(FifoTake(refs, q), Lacking(refs, q)) \in Seq(DetailForms(n))
         /\ AddsUp(Details(FifoTake(refs, q), Lacking(refs, q))) = q
<1> DEFINE take == FifoTake(refs, q)
           rest == Lacking(refs, q)
           cut == CutOf(take)
           N == Cardinality(cut)
           T == Touched(take)
           lines == [i \in 1..N |-> [qty |-> take[T[i]], at |-> lots[T[i]].at]]
           last == IF rest = 0 THEN <<>> ELSE <<[qty |-> rest, at |-> NoTime]>>
<1>1. /\ take \in [refs -> Nat] /\ (\A l \in refs : take[l] <= lots[l].qty)
      /\ SumFunctionOnSet(take, refs) = Least(q, Units(refs))
  <2>1. \A l \in refs : lots[l].at \in Int /\ lots[l].qty \in Nat
    OBVIOUS
  <2> QED BY <2>1, CutTakes
<1>2. Units(refs) \in Nat /\ rest \in Nat /\ rest = q - Least(q, Units(refs))
  <2>1. \A l \in refs : lots[l].at \in Int /\ lots[l].qty \in Nat
    OBVIOUS
  <2> QED BY <2>1, CutTakes
<1>3. cut \in SUBSET refs /\ cut \subseteq Nat /\ IsFiniteSet(cut) /\ \A l \in cut : lots[l].at \in Int /\ take[l] \in Nat
  <2>1. cut \in SUBSET refs
    BY <1>1 DEF CutOf
  <2> HIDE DEF cut
  <2>2. IsFiniteSet(cut) /\ cut \subseteq Nat
    BY <2>1, FS_Subset
  <2>3. \A l \in cut : lots[l].at \in Int /\ take[l] \in Nat
    <3> TAKE l \in cut
    <3>1. l \in refs
      BY <2>1
    <3>2. lots[l].at \in 0..n
      BY <3>1
    <3>3. take[l] \in Nat
      BY <1>1, <3>1
    <3> QED BY <3>2, <3>3
  <2> QED BY <2>1, <2>2, <2>3
<1>4. N \in Nat /\ T \in [1..N -> cut] /\ (\A i, j \in 1..N : T[i] = T[j] => i = j) /\ cut = {T[i] : i \in 1..N}
  BY <1>3, TouchedOnce
<1>5. Details(take, rest) = lines \o last
  <2>1. DOMAIN T = 1..N
    BY <1>4
  <2> QED BY <2>1 DEF Details
<1> HIDE DEF take, rest, cut, N, T
<1>6. lines \in Seq(DetailForms(n)) /\ Len(lines) = N
  <2>1. \A i \in 1..N : [qty |-> take[T[i]], at |-> lots[T[i]].at] \in DetailForms(n)
    <3> TAKE i \in 1..N
    <3>1. T[i] \in refs /\ take[T[i]] \in Nat /\ lots[T[i]].at \in 0..n
      BY <1>1, <1>3, <1>4
    <3> QED BY <3>1 DEF DetailForms
  <2> QED BY <1>4, <2>1
<1>7. last \in Seq(DetailForms(n)) /\ (rest = 0 => last = <<>>) /\ (rest # 0 => last = <<[qty |-> rest, at |-> NoTime]>>)
  <2>1. [qty |-> rest, at |-> NoTime] \in DetailForms(n)
    BY <1>2 DEF DetailForms, NoTime
  <2>2. CASE rest = 0
    BY <2>2
  <2>3. CASE rest # 0
    BY <2>1, <2>3
  <2> QED BY <2>2, <2>3
<1> HIDE DEF last
<1> DEFINE d == lines \o last
           g == [i \in DOMAIN d |-> d[i].qty]
<1>8. d \in Seq(DetailForms(n))
  BY <1>6, <1>7
<1>9. \A i \in 1..N : d[i].qty = take[T[i]]
  <2> TAKE i \in 1..N
  <2>1. d[i] = lines[i]
    <3> HIDE DEF lines
    <3> QED BY <1>4, <1>6, <1>7
  <2>2. lines[i].qty = take[T[i]]
    OBVIOUS
  <2> HIDE DEF lines, d
  <2> QED BY <2>1, <2>2
<1>10. /\ rest = 0 => DOMAIN d = 1..N
       /\ rest # 0 => DOMAIN d = 1..(N + 1) /\ d[N + 1].qty = rest
  <2>1. CASE rest = 0
    <3>1. last = <<>>
      BY <1>7, <2>1
    <3> HIDE DEF lines
    <3> QED BY <1>4, <1>6, <3>1, <2>1
  <2>2. CASE rest # 0
    <3>1. last = <<[qty |-> rest, at |-> NoTime]>>
      BY <1>7, <2>2
    <3> HIDE DEF lines
    <3> QED BY <1>4, <1>6, <3>1, <2>2
  <2> QED BY <2>1, <2>2
<1> HIDE DEF lines, d
<1>11. SumFunctionOnSet([i \in 1..N |-> take[T[i]]], 1..N) = Least(q, Units(refs)) /\ IsFiniteSet(1..N)
  <2> DEFINE f == [i \in 1..N |-> take[T[i]]]
  <2>1. IsFiniteSet(1..N)
    BY <1>4, FS_Interval
  <2>2. (\A i \in 1..N : f[i] \in Int) /\ \A i \in 1..N : take[T[i]] = f[i]
    <3>1. \A i \in 1..N : take[T[i]] \in Nat
      BY <1>3, <1>4
    <3> QED BY <3>1
  <2> HIDE DEF f
  <2>3. SumFunctionOnSet(take, cut) = SumFunctionOnSet(f, 1..N)
    <3>1. \A i, j \in 1..N : T[i] = T[j] => i = j
      BY <1>4
    <3>2. cut = Image(T, 1..N)
      BY <1>4 DEF Image
    <3> QED BY <2>1, <2>2, <3>1, <3>2, SumOnto
  <2>4. SumFunctionOnSet(take, refs) = SumFunctionOnSet(take, cut)
    <3>1. (\A l \in refs : take[l] \in Int) /\ \A l \in refs \ cut : take[l] = 0
      BY <1>1 DEF cut, CutOf
    <3> QED BY <1>3, <3>1, SumSupport
  <2> QED BY <1>1, <1>4, <2>1, <2>3, <2>4 DEF f
<1>12. AddsUp(d) = q
  <2>1. IsFiniteSet(DOMAIN d)
    <3>1. N \in Int /\ N + 1 \in Int
      BY <1>4
    <3>2. IsFiniteSet(1..N) /\ IsFiniteSet(1..(N + 1))
      BY <3>1, FS_Interval
    <3> QED BY <1>10, <3>2
  <2>2. \A i \in DOMAIN d : d[i].qty \in Nat
    <3>1. \A i \in DOMAIN d : d[i] \in DetailForms(n)
      BY <1>8
    <3> QED BY <3>1 DEF DetailForms
  <2>3. AddsUp(d) = SumFunctionOnSet(g, DOMAIN d)
    BY <2>1, <2>2, AddsUpIsSum
  <2>4. \A i \in DOMAIN d : g[i] = d[i].qty /\ g[i] \in Int
    BY <2>2
  <2> HIDE DEF g
  <2>5. SumFunctionOnSet(g, 1..N) = Least(q, Units(refs))
    <3> DEFINE f == [i \in 1..N |-> take[T[i]]]
    <3>1. \A i \in 1..N : f[i] \in Int /\ g[i] = f[i]
      <4> TAKE i \in 1..N
      <4>1. i \in DOMAIN d
        BY <1>4, <1>10
      <4> QED BY <1>9, <2>4, <4>1
    <3> HIDE DEF f
    <3> QED BY <1>11, <3>1, SumSame DEF f
  <2>6. CASE rest = 0
    BY <1>2, <1>10, <2>3, <2>5, <2>6 DEF Least
  <2>7. CASE rest # 0
    <3>1. N + 1 \in DOMAIN d /\ DOMAIN d \ {N + 1} = 1..N
      BY <1>4, <1>10, <2>7
    <3>2. SumFunctionOnSet(g, DOMAIN d) = g[N + 1] + SumFunctionOnSet(g, DOMAIN d \ {N + 1})
      BY <2>1, <2>4, <3>1, SumOne
    <3>3. g[N + 1] = rest
      BY <1>10, <2>4, <2>7, <3>1
    <3>4. AddsUp(d) = rest + Least(q, Units(refs))
      BY <2>3, <2>5, <3>1, <3>2, <3>3
    <3> QED BY <1>2, <3>4 DEF Least
  <2> QED BY <2>6, <2>7
<1> QED BY <1>5, <1>8, <1>12 DEF d, take, rest

-----------------------------------------------------------------------------
(* The forms of what is written, when there are n lots.                    *)
ReceiptForms(n) == [status : {"none", "draft", "completed", "cancelled"}, qty : Nat, lot : 0..n, updatedAt : Nat]
SawForms(n) == [receipt : ReceiptForms(n), counter : Int, lotQty : Int]
DeskForms(n) == {Away} \cup [doing : {"draft", "update", "cancel"}, of : Receipts, saw : SawForms(n)]
TransferForms(n) ==
  {t \in [status : {"none", "completed", "cancelled"}, qty : Nat, details : Seq(DetailForms(n)), updatedAt : Nat] :
     AddsUp(t.details) = t.qty}
PlanForms(n) == {NoPlan} \cup [to : {"confirm", "cancel"}, of : Transfers, refs : SUBSET (1..n)]
                         \cup [to : {"adjust"}, of : Branches, refs : SUBSET (1..n)]
StockTyped(n) == lots \in Seq(LotDocs(n)) /\ Len(lots) = n /\ counter \in [Branches -> Int]
ReceivingTyped(n) == /\ receipt \in [Receipts -> ReceiptForms(n)] /\ desk \in [Desks -> DeskForms(n)]
                     /\ clobbered \in BOOLEAN
TransferTyped(n) == /\ transfer \in [Transfers -> TransferForms(n)] /\ plan \in [Clerks -> PlanForms(n)]
                    /\ discrepancy \in [Discrepancies -> DiscrepancyDocs] /\ adjusted \in [Branches -> Int]
BooksTyped(n) == StockTyped(n) /\ ReceivingTyped(n) /\ TransferTyped(n)
RestTyped == ReversalTypeOK /\ sold \in [Branches -> 0..MaxSold] /\ restocked \in BOOLEAN
TypeInv == (\E n \in Nat : BooksTyped(n)) /\ RestTyped

(* A lot more leaves what was written in form.                             *)
LEMMA FormsGrow ==
  ASSUME NEW n \in Nat, NEW m \in Nat, n <= m
  PROVE  /\ LotDocs(n) \subseteq LotDocs(m) /\ ReceiptForms(n) \subseteq ReceiptForms(m)
         /\ SawForms(n) \subseteq SawForms(m) /\ DeskForms(n) \subseteq DeskForms(m)
         /\ DetailForms(n) \subseteq DetailForms(m) /\ TransferForms(n) \subseteq TransferForms(m)
         /\ PlanForms(n) \subseteq PlanForms(m)
<1>1. 0..n \subseteq 0..m /\ 1..n \subseteq 1..m
  OBVIOUS
<1>2. LotDocs(n) \subseteq LotDocs(m) /\ ReceiptForms(n) \subseteq ReceiptForms(m) /\ DetailForms(n) \subseteq DetailForms(m)
  BY <1>1 DEF LotDocs, ReceiptForms, DetailForms
<1>3. SawForms(n) \subseteq SawForms(m)
  BY <1>2 DEF SawForms
<1>4. DeskForms(n) \subseteq DeskForms(m)
  BY <1>3 DEF DeskForms
<1>5. Seq(DetailForms(n)) \subseteq Seq(DetailForms(m))
  BY <1>2
<1>6. TransferForms(n) \subseteq TransferForms(m)
  BY <1>5 DEF TransferForms
<1>7. PlanForms(n) \subseteq PlanForms(m)
  BY <1>1 DEF PlanForms
<1> QED BY <1>2, <1>3, <1>4, <1>6, <1>7

LEMMA ReceivingStays ==
  ASSUME NEW n \in Nat, NEW m \in Nat, n <= m, ReceivingTyped(n), UNCHANGED receivingVars
  PROVE  ReceivingTyped(m)'
<1>1. receipt' = receipt /\ desk' = desk /\ clobbered' = clobbered
  BY DEF receivingVars
<1>2. receipt \in [Receipts -> ReceiptForms(m)] /\ desk \in [Desks -> DeskForms(m)] /\ clobbered \in BOOLEAN
  BY FormsGrow DEF ReceivingTyped
<1> QED BY <1>1, <1>2 DEF ReceivingTyped, ReceiptForms, DeskForms, SawForms

LEMMA TransfersStay ==
  ASSUME NEW n \in Nat, NEW m \in Nat, n <= m, TransferTyped(n), UNCHANGED transferVars
  PROVE  TransferTyped(m)'
<1>1. transfer' = transfer /\ plan' = plan /\ discrepancy' = discrepancy /\ adjusted' = adjusted
  BY DEF transferVars
<1>2. /\ transfer \in [Transfers -> TransferForms(m)] /\ plan \in [Clerks -> PlanForms(m)]
      /\ discrepancy \in [Discrepancies -> DiscrepancyDocs] /\ adjusted \in [Branches -> Int]
  BY FormsGrow DEF TransferTyped
<1> QED BY <1>1, <1>2 DEF TransferTyped, TransferForms, PlanForms, DetailForms

(* The lots that may be cut, and what cutting them leaves.                 *)
LEMMA Cuttable ==
  ASSUME NEW n \in Nat, StockTyped(n), NEW refs, refs \subseteq 1..n, \A l \in refs : lots[l].qty > 0
  PROVE  /\ IsFiniteSet(refs) /\ refs \subseteq Nat
         /\ \A l \in refs : lots[l].at \in 1..n /\ lots[l].at \in 0..n /\ lots[l].at \in Int /\ lots[l].qty \in Nat
<1>1. IsFiniteSet(1..n)
  BY FS_Interval
<1>2. IsFiniteSet(refs)
  BY <1>1, FS_Subset
<1>3. \A l \in 1..n : lots[l] \in LotDocs(n)
  BY DEF StockTyped
<1>4. \A l \in refs : lots[l].at \in 1..n /\ lots[l].qty \in Int
  BY <1>3 DEF LotDocs
<1> QED BY <1>2, <1>4

LEMMA CutsTyped ==
  ASSUME NEW n \in Nat, StockTyped(n), NEW take, \A l \in DOMAIN take : take[l] \in Int
  PROVE  CutLots(take) \in Seq(LotDocs(n)) /\ Len(CutLots(take)) = n
<1>1. \A l \in 1..n : lots[l] \in LotDocs(n)
  BY DEF StockTyped
<1>2. ASSUME NEW l \in 1..n, l \in DOMAIN take PROVE [lots[l] EXCEPT !.qty = @ - take[l]] \in LotDocs(n)
  BY <1>1, <1>2 DEF LotDocs
<1>3. CutLots(take) = [l \in 1..n |-> IF l \in DOMAIN take THEN [lots[l] EXCEPT !.qty = @ - take[l]] ELSE lots[l]]
  BY DEF CutLots, StockTyped
<1> DEFINE C == [l \in 1..n |-> IF l \in DOMAIN take THEN [lots[l] EXCEPT !.qty = @ - take[l]] ELSE lots[l]]
<1>4. C \in [1..n -> LotDocs(n)]
  BY <1>1, <1>2
<1>5. C \in Seq(LotDocs(n)) /\ Len(C) = n
  <2> HIDE DEF C
  <2> QED BY <1>4
<1> QED BY <1>3, <1>5

LEMMA FifoTyped ==
  ASSUME NEW n \in Nat, StockTyped(n), NEW refs, refs \subseteq 1..n, \A l \in refs : lots[l].qty > 0, NEW q \in Nat
  PROVE  /\ CutLots(FifoTake(refs, q)) \in Seq(LotDocs(n)) /\ Len(CutLots(FifoTake(refs, q))) = n
         /\ Details(FifoTake(refs, q), Lacking(refs, q)) \in Seq(DetailForms(n))
         /\ AddsUp(Details(FifoTake(refs, q), Lacking(refs, q))) = q
<1>1. /\ IsFiniteSet(refs) /\ refs \subseteq Nat
      /\ \A l \in refs : lots[l].at \in Int /\ lots[l].qty \in Nat
      /\ \A l \in refs : lots[l].at \in 0..n /\ lots[l].qty \in Nat
  BY Cuttable
<1>2. FifoTake(refs, q) \in [refs -> Nat]
  BY <1>1, CutTakes
<1>3. \A l \in DOMAIN FifoTake(refs, q) : FifoTake(refs, q)[l] \in Int
  <2> DEFINE take == FifoTake(refs, q)
  <2>1. take \in [refs -> Nat]
    BY <1>2
  <2> HIDE DEF take
  <2>2. \A l \in DOMAIN take : take[l] \in Int
    BY <2>1
  <2> QED BY <2>2 DEF take
<1> QED BY <1>1, <1>3, CutsTyped, DetailsOf

LEMMA MirrorsTyped ==
  ASSUME NEW n \in Nat, StockTyped(n), NEW b \in Branches, NEW details \in Seq(DetailForms(n)), NEW old \in Seq(LotDocs(n)),
         Len(old) = n
  PROVE  /\ n + Len(details) \in Nat /\ Len(old \o LotsAt(b, details)) = n + Len(details)
         /\ old \o LotsAt(b, details) \in Seq(LotDocs(n + Len(details)))
<1> DEFINE m == n + Len(details)
           more == LotsAt(b, details)
<1>1. m \in Nat /\ n <= m /\ Len(details) \in Nat /\ DOMAIN details = 1..Len(details)
  OBVIOUS
<1>2. ASSUME NEW i \in 1..Len(details)
      PROVE  Lot(b, details[i].qty, IF details[i].at = NoTime THEN Len(lots) + i ELSE details[i].at) \in LotDocs(m)
  <2>1. details[i].qty \in Nat /\ details[i].at \in 0..n
    <3>1. details[i] \in DetailForms(n)
      OBVIOUS
    <3> QED BY <3>1 DEF DetailForms
  <2>2. (IF details[i].at = NoTime THEN Len(lots) + i ELSE details[i].at) \in 1..m
    BY <1>1, <2>1 DEF NoTime, StockTyped
  <2> HIDE DEF m
  <2> QED BY <2>1, <2>2 DEF Lot, LotDocs
<1>3. more \in [1..Len(details) -> LotDocs(m)]
  BY <1>1, <1>2 DEF LotsAt
<1>4. more \in Seq(LotDocs(m)) /\ Len(more) = Len(details)
  <2> HIDE DEF more, m
  <2> QED BY <1>1, <1>3
<1>5. old \in Seq(LotDocs(m))
  <2>1. LotDocs(n) \subseteq LotDocs(m)
    BY <1>1, FormsGrow
  <2> HIDE DEF m
  <2> QED BY <2>1
<1>6. old \o more \in Seq(LotDocs(m)) /\ Len(old \o more) = n + Len(details)
  <2> HIDE DEF more, m
  <2> QED BY <1>4, <1>5
<1> QED BY <1>1, <1>6

LEMMA LotAppended ==
  ASSUME NEW n \in Nat, StockTyped(n), NEW b \in Branches, NEW q \in Int
  PROVE  /\ Append(lots, Lot(b, q, Len(lots) + 1)) \in Seq(LotDocs(n + 1))
         /\ Len(Append(lots, Lot(b, q, Len(lots) + 1))) = n + 1
<1>1. Lot(b, q, Len(lots) + 1) \in LotDocs(n + 1)
  BY DEF Lot, LotDocs, StockTyped
<1>2. lots \in Seq(LotDocs(n + 1))
  <2>1. LotDocs(n) \subseteq LotDocs(n + 1)
    BY FormsGrow
  <2> QED BY <2>1 DEF StockTyped
<1> QED BY <1>1, <1>2 DEF StockTyped

(* Documents that are edited or cancelled.                                 *)
LEMMA WrittenReceipts ==
  ASSUME NEW n \in Nat, NEW v \in ReceiptForms(n), NEW q \in Nat
  PROVE  /\ Edited(v, q) \in ReceiptForms(n) /\ Edited(v, q).qty = q /\ Edited(v, q).status = v.status
         /\ Edited(v, q).updatedAt = v.updatedAt + 1 /\ Edited(v, q).lot = v.lot
         /\ Cancelled(v) \in ReceiptForms(n) /\ Cancelled(v).qty = v.qty /\ Cancelled(v).status = "cancelled"
         /\ Cancelled(v).updatedAt = v.updatedAt + 1 /\ Cancelled(v).lot = v.lot
<1> DEFINE gone == "cancelled"
           e == [v EXCEPT !.qty = q]
           c == [v EXCEPT !.status = gone]
           k == v.updatedAt + 1
<1>1. k \in Nat
  BY DEF ReceiptForms
<1>2. e \in ReceiptForms(n) /\ e.qty = q /\ e.status = v.status /\ e.updatedAt = v.updatedAt /\ e.lot = v.lot
  BY DEF ReceiptForms
<1>3. gone \in {"none", "draft", "completed", "cancelled"} /\ gone = "cancelled"
  OBVIOUS
<1>4. Edited(v, q) = [e EXCEPT !.updatedAt = k] /\ Cancelled(v) = [c EXCEPT !.updatedAt = k]
  BY DEF Edited, Cancelled
<1> HIDE DEF gone, k
<1>5. c \in ReceiptForms(n) /\ c.qty = v.qty /\ c.status = gone /\ c.updatedAt = v.updatedAt /\ c.lot = v.lot
  BY <1>3 DEF ReceiptForms
<1> HIDE DEF e, c
<1>6. /\ Edited(v, q) \in ReceiptForms(n) /\ Edited(v, q).qty = q /\ Edited(v, q).status = v.status
      /\ Edited(v, q).updatedAt = k /\ Edited(v, q).lot = v.lot
  BY <1>1, <1>2, <1>4 DEF ReceiptForms
<1>7. /\ Cancelled(v) \in ReceiptForms(n) /\ Cancelled(v).qty = v.qty /\ Cancelled(v).status = gone
      /\ Cancelled(v).updatedAt = k /\ Cancelled(v).lot = v.lot
  BY <1>1, <1>4, <1>5 DEF ReceiptForms
<1> QED BY <1>3, <1>6, <1>7 DEF k

LEMMA CancelledTransfers ==
  ASSUME NEW n \in Nat, NEW v \in TransferForms(n)
  PROVE  /\ Cancelled(v) \in TransferForms(n) /\ Cancelled(v).qty = v.qty /\ Cancelled(v).details = v.details
         /\ Cancelled(v).status = "cancelled" /\ Cancelled(v).updatedAt = v.updatedAt + 1
<1>1. PICK s \in {"none", "completed", "cancelled"}, c \in Nat, d \in Seq(DetailForms(n)), u \in Nat :
        v = [status |-> s, qty |-> c, details |-> d, updatedAt |-> u]
  BY DEF TransferForms
<1>2. AddsUp(d) = c
  BY <1>1 DEF TransferForms
<1> DEFINE gone == "cancelled"
           w == [v EXCEPT !.status = gone]
           k == u + 1
<1>2a. v.updatedAt + 1 = k /\ k \in Nat
  BY <1>1
<1>3. Cancelled(v) = [w EXCEPT !.updatedAt = v.updatedAt + 1]
  BY DEF Cancelled
<1>6. gone \in {"none", "completed", "cancelled"} /\ gone = "cancelled"
  OBVIOUS
<1> HIDE DEF gone, k
<1>4. w = [status |-> gone, qty |-> c, details |-> d, updatedAt |-> u]
  BY <1>1
<1> HIDE DEF w
<1>5. Cancelled(v) = [status |-> gone, qty |-> c, details |-> d, updatedAt |-> k]
  BY <1>2a, <1>3, <1>4
<1>7. Cancelled(v) \in [status : {"none", "completed", "cancelled"}, qty : Nat, details : Seq(DetailForms(n)), updatedAt : Nat]
  BY <1>2a, <1>5, <1>6
<1>8. /\ Cancelled(v).qty = c /\ Cancelled(v).details = d /\ Cancelled(v).status = gone /\ Cancelled(v).updatedAt = k
      /\ v.qty = c /\ v.details = d /\ k = v.updatedAt + 1
  BY <1>1, <1>2a, <1>5
<1> QED BY <1>2, <1>6, <1>7, <1>8 DEF TransferForms

(* What a step has written is in form.                                     *)
LEMMA StockWrites ==
  ASSUME NEW m \in Nat, lots' \in Seq(LotDocs(m)), Len(lots') = m, counter' \in [Branches -> Int]
  PROVE  StockTyped(m)'
BY DEF StockTyped, LotDocs
LEMMA ReceivingWrites ==
  ASSUME NEW m \in Nat, receipt' \in [Receipts -> ReceiptForms(m)], desk' \in [Desks -> DeskForms(m)], clobbered' \in BOOLEAN
  PROVE  ReceivingTyped(m)'
BY DEF ReceivingTyped, ReceiptForms, DeskForms, SawForms
LEMMA TransferWrites ==
  ASSUME NEW m \in Nat, transfer' \in [Transfers -> TransferForms(m)], plan' \in [Clerks -> PlanForms(m)],
         discrepancy' \in [Discrepancies -> DiscrepancyDocs], adjusted' \in [Branches -> Int]
  PROVE  TransferTyped(m)'
BY DEF TransferTyped, TransferForms, PlanForms, DetailForms

LEMMA StockStays ==
  ASSUME NEW n \in Nat, StockTyped(n), UNCHANGED stockVars
  PROVE  StockTyped(n)'
<1>1. lots' = lots /\ counter' = counter
  BY DEF stockVars
<1> QED BY <1>1 DEF StockTyped, LotDocs

(* Receipts, and the screens that read and write them.                     *)
LEMMA ConfirmReceivingTyped ==
  ASSUME InventoryAssumption, NEW n \in Nat, BooksTyped(n), NEW r \in Receipts, NEW q \in Quantities, ConfirmReceiving(r, q)
  PROVE  StockTyped(n + 1)' /\ ReceivingTyped(n + 1)'
<1> DEFINE v == [status |-> "completed", qty |-> q, lot |-> Len(lots) + 1, updatedAt |-> receipt[r].updatedAt + 1]
<1>1. q \in Nat /\ q \in Int /\ Home \in Branches /\ n + 1 \in Nat /\ n <= n + 1
  BY DEF InventoryAssumption
<1>2. StockTyped(n) /\ ReceivingTyped(n)
  BY DEF BooksTyped
<1>3. /\ lots' = Append(lots, Lot(Home, q, Len(lots) + 1)) /\ counter' = [counter EXCEPT ![Home] = @ + q]
      /\ receipt' = [receipt EXCEPT ![r] = v] /\ desk' = desk /\ clobbered' = clobbered
  BY DEF ConfirmReceiving
<1>4. lots' \in Seq(LotDocs(n + 1)) /\ Len(lots') = n + 1
  BY <1>1, <1>2, <1>3, LotAppended
<1>5. counter' \in [Branches -> Int]
  BY <1>1, <1>2, <1>3 DEF StockTyped
<1>6. v \in ReceiptForms(n + 1)
  <2>1. receipt[r].updatedAt \in Nat
    BY <1>2 DEF ReceivingTyped, ReceiptForms
  <2>2. Len(lots) = n
    BY <1>2 DEF StockTyped
  <2> QED BY <1>1, <2>1, <2>2 DEF ReceiptForms
<1> HIDE DEF v
<1>7. receipt \in [Receipts -> ReceiptForms(n + 1)] /\ desk \in [Desks -> DeskForms(n + 1)] /\ clobbered \in BOOLEAN
  BY <1>1, <1>2, FormsGrow DEF ReceivingTyped
<1>8. receipt' \in [Receipts -> ReceiptForms(n + 1)]
  BY <1>3, <1>6, <1>7
<1> QED BY <1>1, <1>3, <1>4, <1>5, <1>7, <1>8, StockWrites, ReceivingWrites

LEMMA DraftsTyped ==
  ASSUME InventoryAssumption, NEW n \in Nat, BooksTyped(n), NEW r \in Receipts, NEW v \in ReceiptForms(n),
         receipt' = [receipt EXCEPT ![r] = v], desk' \in [Desks -> DeskForms(n)], clobbered' \in BOOLEAN
  PROVE  ReceivingTyped(n)'
<1>1. receipt' \in [Receipts -> ReceiptForms(n)]
  BY DEF BooksTyped, ReceivingTyped
<1> QED BY <1>1, ReceivingWrites

LEMMA NewDraftTyped ==
  ASSUME InventoryAssumption, NEW n \in Nat, BooksTyped(n), NEW r \in Receipts, NEW q \in Quantities, NewDraft(r, q)
  PROVE  StockTyped(n)' /\ ReceivingTyped(n)'
<1> DEFINE v == [NoReceipt EXCEPT !.status = "draft", !.qty = q, !.updatedAt = 1]
           draft == "draft"
           w == [NoReceipt EXCEPT !.status = draft]
<1>0. v = [[w EXCEPT !.qty = q] EXCEPT !.updatedAt = 1] /\ draft \in {"none", "draft", "completed", "cancelled"}
  OBVIOUS
<1>0a. q \in Nat
  BY DEF InventoryAssumption
<1>0b. NoReceipt \in ReceiptForms(n)
  BY DEF NoReceipt, ReceiptForms, NoLot
<1>2. v \in ReceiptForms(n)
  <2> HIDE DEF draft
  <2>1. w \in ReceiptForms(n)
    BY <1>0, <1>0b DEF ReceiptForms
  <2> HIDE DEF v, w
  <2>2. [w EXCEPT !.qty = q] \in ReceiptForms(n)
    BY <1>0a, <2>1 DEF ReceiptForms
  <2> DEFINE u == [w EXCEPT !.qty = q]
  <2>3. u \in ReceiptForms(n) /\ v = [u EXCEPT !.updatedAt = 1]
    BY <1>0, <2>2
  <2> HIDE DEF u
  <2> QED BY <2>3 DEF ReceiptForms
<1>3. receipt' = [receipt EXCEPT ![r] = v] /\ desk' = desk /\ clobbered' = clobbered /\ UNCHANGED stockVars
  BY DEF NewDraft
<1> HIDE DEF v
<1>4. desk' \in [Desks -> DeskForms(n)] /\ clobbered' \in BOOLEAN
  BY <1>3 DEF BooksTyped, ReceivingTyped
<1> QED BY <1>2, <1>3, <1>4, DraftsTyped, StockStays DEF BooksTyped

LEMMA ReadTyped ==
  ASSUME InventoryAssumption, NEW n \in Nat, BooksTyped(n), NEW d \in Desks, NEW r \in Receipts,
         ReadForDraft(d, r) \/ ReadForUpdate(d, r) \/ ReadForCancel(d, r)
  PROVE  StockTyped(n)' /\ ReceivingTyped(n)'
<1>1. PICK doing \in {"draft", "update", "cancel"} :
        desk' = [desk EXCEPT ![d] = [doing |-> doing, of |-> r, saw |-> Snapshot(r)]]
  BY DEF ReadForDraft, ReadForUpdate, ReadForCancel, Read
<1>2. receipt' = receipt /\ clobbered' = clobbered /\ UNCHANGED stockVars
  BY DEF ReadForDraft, ReadForUpdate, ReadForCancel, Read
<1>3. StockTyped(n) /\ ReceivingTyped(n)
  BY DEF BooksTyped
<1>4. Snapshot(r) \in SawForms(n)
  <2>1. receipt[r] \in ReceiptForms(n) /\ receipt[r].lot \in 0..n /\ counter[Home] \in Int
    BY <1>3 DEF ReceivingTyped, StockTyped, InventoryAssumption, ReceiptForms
  <2>2. LotQty(receipt[r].lot) \in Int
    <3>1. CASE receipt[r].lot = NoLot
      BY <3>1 DEF LotQty
    <3>2. CASE receipt[r].lot # NoLot
      <4>1. lots[receipt[r].lot] \in LotDocs(n)
        BY <1>3, <2>1, <3>2 DEF StockTyped, NoLot
      <4> QED BY <3>2, <4>1 DEF LotQty, LotDocs
    <3> QED BY <3>1, <3>2
  <2> QED BY <2>1, <2>2 DEF Snapshot, SawForms
<1>5. [doing |-> doing, of |-> r, saw |-> Snapshot(r)] \in DeskForms(n)
  BY <1>4 DEF DeskForms
<1>6. desk' \in [Desks -> DeskForms(n)]
  BY <1>1, <1>3, <1>5 DEF ReceivingTyped
<1>7. receipt' \in [Receipts -> ReceiptForms(n)] /\ clobbered' \in BOOLEAN
  BY <1>2, <1>3 DEF ReceivingTyped
<1> QED BY <1>2, <1>3, <1>6, <1>7, ReceivingWrites, StockStays

LEMMA WorkingDesk ==
  ASSUME NEW n \in Nat, ReceivingTyped(n), NEW d \in Desks, desk[d].doing \in {"draft", "update", "cancel"}
  PROVE  /\ desk[d].of \in Receipts /\ desk[d].saw \in SawForms(n) /\ desk[d].saw.receipt \in ReceiptForms(n)
         /\ desk[d].saw.receipt.lot \in 0..n /\ desk[d].saw.receipt.qty \in Nat /\ desk[d].saw.counter \in Int
         /\ desk[d].saw.lotQty \in Int
<1>1. desk[d] \in [doing : {"draft", "update", "cancel"}, of : Receipts, saw : SawForms(n)]
  BY DEF ReceivingTyped, DeskForms, Away
<1>2. desk[d].of \in Receipts /\ desk[d].saw \in SawForms(n)
  BY <1>1
<1>3. desk[d].saw.receipt \in ReceiptForms(n) /\ desk[d].saw.counter \in Int /\ desk[d].saw.lotQty \in Int
  BY <1>2 DEF SawForms
<1>4. desk[d].saw.receipt.lot \in 0..n /\ desk[d].saw.receipt.qty \in Nat
  BY <1>3 DEF ReceiptForms
<1> QED BY <1>2, <1>3, <1>4

LEMMA LeaveTyped ==
  ASSUME NEW n \in Nat, ReceivingTyped(n), NEW d \in Desks, NEW outdated \in BOOLEAN, Leave(d, outdated)
  PROVE  desk' \in [Desks -> DeskForms(n)] /\ clobbered' \in BOOLEAN
<1>1. Away \in DeskForms(n)
  BY DEF DeskForms
<1> QED BY <1>1 DEF ReceivingTyped, Leave

LEMMA WriteDraftTyped ==
  ASSUME InventoryAssumption, NEW n \in Nat, BooksTyped(n), NEW d \in Desks, NEW q \in Quantities, WriteDraft(d, q)
  PROVE  StockTyped(n)' /\ ReceivingTyped(n)'
<1> DEFINE r == desk[d].of
           v == [status |-> "draft", qty |-> q, lot |-> NoLot, updatedAt |-> receipt[r].updatedAt + 1]
           out == receipt[desk[d].of] # desk[d].saw.receipt
<1>1. StockTyped(n) /\ ReceivingTyped(n)
  BY DEF BooksTyped
<1>2. desk[d].doing = "draft" /\ receipt' = [receipt EXCEPT ![r] = v] /\ Leave(d, out) /\ UNCHANGED stockVars
  BY DEF WriteDraft
<1>3. r \in Receipts
  BY <1>1, <1>2, WorkingDesk
<1>4. receipt[r].updatedAt \in Nat
  BY <1>1, <1>3 DEF ReceivingTyped, ReceiptForms
<1>5. v \in ReceiptForms(n)
  BY <1>4 DEF ReceiptForms, InventoryAssumption, NoLot
<1>6. out \in BOOLEAN
  OBVIOUS
<1> HIDE DEF v, out, r
<1> QED BY <1>1, <1>2, <1>3, <1>5, <1>6, LeaveTyped, DraftsTyped, StockStays

LEMMA SetAsReadTyped ==
  ASSUME InventoryAssumption, NEW n \in Nat, StockTyped(n), ReceivingTyped(n), NEW d \in Desks,
         desk[d].doing \in {"update", "cancel"}, NEW delta \in Int, SetAsRead(d, delta)
  PROVE  StockTyped(n)'
<1> DEFINE s == desk[d].saw
<1>1. s.receipt.lot \in 0..n /\ s.counter \in Int /\ s.lotQty \in Int
  BY WorkingDesk
<1>2. /\ counter' = [counter EXCEPT ![Home] = s.counter + delta]
      /\ lots' = IF s.receipt.lot = NoLot THEN lots ELSE [lots EXCEPT ![s.receipt.lot].qty = s.lotQty + delta]
  BY DEF SetAsRead
<1>3. s.counter + delta \in Int /\ s.lotQty + delta \in Int
  BY <1>1
<1> DEFINE l == s.receipt.lot
           c == s.counter + delta
           k == s.lotQty + delta
<1> HIDE DEF s
<1>4. counter' \in [Branches -> Int]
  <2> HIDE DEF c
  <2> QED BY <1>2, <1>3 DEF StockTyped
<1>5. lots' \in Seq(LotDocs(n)) /\ Len(lots') = n
  <2> HIDE DEF l, k
  <2>1. CASE l = NoLot
    BY <1>2, <2>1 DEF StockTyped, l
  <2>2. CASE l # NoLot
    <3>1. l \in 1..n /\ k \in Int
      BY <1>1, <1>3, <2>2 DEF NoLot, l, k
    <3>2. lots \in Seq(LotDocs(n)) /\ Len(lots) = n /\ DOMAIN lots = 1..n
      BY DEF StockTyped
    <3>3. [lots[l] EXCEPT !.qty = k] \in LotDocs(n)
      <4>1. lots[l] \in LotDocs(n)
        BY <3>1, <3>2
      <4> QED BY <3>1, <4>1 DEF LotDocs
    <3> DEFINE w == [lots[l] EXCEPT !.qty = k]
    <3>4. lots' = [lots EXCEPT ![l] = w]
      BY <1>2, <2>2 DEF l, k
    <3> HIDE DEF w
    <3> QED BY <3>1, <3>2, <3>3, <3>4 DEF w
  <2> QED BY <2>1, <2>2
<1> QED BY <1>4, <1>5, StockWrites

LEMMA WriteUpdateTyped ==
  ASSUME InventoryAssumption, NEW n \in Nat, BooksTyped(n), NEW d \in Desks, NEW q \in Quantities, WriteUpdate(d, q)
  PROVE  StockTyped(n)' /\ ReceivingTyped(n)'
<1> DEFINE r == desk[d].of
           v == Edited(receipt[r], q)
           delta == q - desk[d].saw.receipt.qty
<1>1. StockTyped(n) /\ ReceivingTyped(n) /\ q \in Nat
  BY DEF BooksTyped, InventoryAssumption
<1>2. desk[d].doing = "update" /\ receipt' = [receipt EXCEPT ![r] = v] /\ Leave(d, Outdated(d)) /\ SetAsRead(d, delta)
  BY DEF WriteUpdate
<1>3. r \in Receipts /\ desk[d].saw.receipt.qty \in Nat
  BY <1>1, <1>2, WorkingDesk
<1>4. receipt[r] \in ReceiptForms(n) /\ delta \in Int
  BY <1>1, <1>3 DEF ReceivingTyped
<1>5. v \in ReceiptForms(n)
  BY <1>1, <1>4, WrittenReceipts
<1>6. Outdated(d) \in BOOLEAN
  BY DEF Outdated
<1> HIDE DEF v, r, delta
<1>7. StockTyped(n)'
  BY <1>1, <1>2, <1>4, SetAsReadTyped
<1> QED BY <1>1, <1>2, <1>3, <1>5, <1>6, <1>7, LeaveTyped, DraftsTyped

LEMMA WriteCancelTyped ==
  ASSUME InventoryAssumption, NEW n \in Nat, BooksTyped(n), NEW d \in Desks, WriteCancel(d)
  PROVE  StockTyped(n)' /\ ReceivingTyped(n)'
<1> DEFINE r == desk[d].of
           v == Cancelled(receipt[r])
           delta == -desk[d].saw.receipt.qty
<1>1. StockTyped(n) /\ ReceivingTyped(n)
  BY DEF BooksTyped
<1>2. desk[d].doing = "cancel" /\ receipt' = [receipt EXCEPT ![r] = v] /\ Leave(d, Outdated(d)) /\ SetAsRead(d, delta)
  BY DEF WriteCancel
<1>3. r \in Receipts /\ desk[d].saw.receipt.qty \in Nat
  BY <1>1, <1>2, WorkingDesk
<1>4. receipt[r] \in ReceiptForms(n) /\ delta \in Int
  BY <1>1, <1>3 DEF ReceivingTyped
<1>5. v \in ReceiptForms(n)
  <2>1. 0 \in Nat
    OBVIOUS
  <2> QED BY <1>4, <2>1, WrittenReceipts
<1>6. Outdated(d) \in BOOLEAN
  BY DEF Outdated
<1> HIDE DEF v, r, delta
<1>7. StockTyped(n)'
  BY <1>1, <1>2, <1>4, SetAsReadTyped
<1> QED BY <1>1, <1>2, <1>3, <1>5, <1>6, <1>7, LeaveTyped, DraftsTyped

(* Transfers: what is listed is there, and may be cut.                     *)
LEMMA Undepleted ==
  ASSUME NEW n \in Nat, StockTyped(n)
  PROVE  /\ \A refs \in SUBSET (1..n) : StillActive(refs) \subseteq 1..n /\ \A l \in StillActive(refs) : lots[l].qty > 0
         /\ \A b \in Branches : Active(b) \subseteq 1..n /\ \A l \in Active(b) : lots[l].qty > 0
<1>1. DOMAIN lots = 1..n
  BY DEF StockTyped
<1> QED BY <1>1 DEF StillActive, Active

LEMMA PlanInHand ==
  ASSUME NEW n \in Nat, TransferTyped(n), NEW k \in Clerks
  PROVE  /\ plan[k].to \in {"confirm", "cancel"} => plan[k].of \in Transfers /\ plan[k].refs \in SUBSET (1..n)
         /\ plan[k].to = "adjust" => plan[k].of \in Branches /\ plan[k].refs \in SUBSET (1..n)
<1>1. plan[k] \in PlanForms(n)
  BY DEF TransferTyped
<1>2. CASE plan[k] = NoPlan
  BY <1>2 DEF NoPlan
<1>3. CASE plan[k] \in [to : {"confirm", "cancel"}, of : Transfers, refs : SUBSET (1..n)]
  BY <1>3
<1>4. CASE plan[k] \in [to : {"adjust"}, of : Branches, refs : SUBSET (1..n)]
  BY <1>4
<1> QED BY <1>1, <1>2, <1>3, <1>4 DEF PlanForms

LEMMA PlanDone ==
  ASSUME NEW n \in Nat, NEW m \in Nat, n <= m, TransferTyped(n), NEW k \in Clerks, plan' = [plan EXCEPT ![k] = NoPlan]
  PROVE  plan' \in [Clerks -> PlanForms(m)]
<1>1. plan \in [Clerks -> PlanForms(m)]
  BY FormsGrow DEF TransferTyped
<1>2. NoPlan \in PlanForms(m)
  BY DEF PlanForms
<1> QED BY <1>1, <1>2

LEMMA ListTyped ==
  ASSUME InventoryAssumption, NEW n \in Nat, BooksTyped(n), NEW k \in Clerks,
         \/ \E t \in Transfers : ListToConfirm(k, t) \/ ListToCancel(k, t)
         \/ \E b \in Branches : ListToAdjust(k, b)
         \/ GiveUp(k)
  PROVE  StockTyped(n)' /\ TransferTyped(n)'
<1>1. StockTyped(n) /\ TransferTyped(n)
  BY DEF BooksTyped
<1>2. /\ UNCHANGED <<transfer, discrepancy, adjusted, stockVars>>
      /\ \E w \in PlanForms(n) : plan' = [plan EXCEPT ![k] = w]
  <2>1. GiveUp(k) => \E w \in PlanForms(n) : plan' = [plan EXCEPT ![k] = w]
    BY DEF GiveUp, PlanForms
  <2>4. UNCHANGED <<transfer, discrepancy, adjusted, stockVars>>
    BY DEF GiveUp, ListToConfirm, ListToCancel, ListToAdjust, List
  <2>2. ASSUME NEW what \in {"confirm", "cancel"}, NEW t \in Transfers, NEW b \in {From, To}, List(k, what, t, b)
        PROVE  \E w \in PlanForms(n) : plan' = [plan EXCEPT ![k] = w]
    <3>1. Active(b) \in SUBSET (1..n)
      BY <1>1, <2>2, Undepleted DEF InventoryAssumption
    <3>2. [to |-> what, of |-> t, refs |-> Active(b)] \in PlanForms(n)
      BY <3>1 DEF PlanForms
    <3> QED BY <2>2, <3>2 DEF List
  <2>3. ASSUME NEW b \in Branches, List(k, "adjust", b, b)
        PROVE  \E w \in PlanForms(n) : plan' = [plan EXCEPT ![k] = w]
    <3>1. Active(b) \in SUBSET (1..n)
      BY <1>1, Undepleted
    <3>2. [to |-> "adjust", of |-> b, refs |-> Active(b)] \in PlanForms(n)
      BY <3>1 DEF PlanForms
    <3> QED BY <2>3, <3>2 DEF List
  <2> QED BY <2>1, <2>2, <2>3, <2>4 DEF ListToConfirm, ListToCancel, ListToAdjust
<1>3. plan' \in [Clerks -> PlanForms(n)]
  BY <1>1, <1>2 DEF TransferTyped
<1>4. /\ transfer' \in [Transfers -> TransferForms(n)] /\ discrepancy' \in [Discrepancies -> DiscrepancyDocs]
      /\ adjusted' \in [Branches -> Int]
  BY <1>1, <1>2 DEF TransferTyped
<1> QED BY <1>1, <1>2, <1>3, <1>4, TransferWrites, StockStays

(* The lots that a transfer leaves, whichever way it goes.                 *)
LEMMA ShiftTyped ==
  ASSUME NEW n \in Nat, StockTyped(n), NEW from \in Branches, NEW to \in Branches, NEW q \in Int
  PROVE  Shift(from, to, q) \in [Branches -> Int]
<1>1. counter \in [Branches -> Int]
  BY DEF StockTyped
<1> QED BY <1>1 DEF Shift

LEMMA CarriedTyped ==
  ASSUME NEW n \in Nat, StockTyped(n), NEW from \in Branches, NEW to \in Branches, NEW refs \in SUBSET (1..n),
         \A l \in refs : lots[l].qty > 0, NEW q \in Nat, NEW details \in Seq(DetailForms(n)),
         lots' = CutLots(FifoTake(refs, q)) \o LotsAt(to, details), counter' = Shift(from, to, q)
  PROVE  \E m \in Nat : n <= m /\ StockTyped(m)'
<1> DEFINE old == CutLots(FifoTake(refs, q))
<1>0. PICK m \in Nat : m = n + Len(details)
  OBVIOUS
<1>1. old \in Seq(LotDocs(n)) /\ Len(old) = n
  BY FifoTyped
<1>2. n <= m
  BY <1>0
<1>3. Len(lots') = m /\ lots' \in Seq(LotDocs(m))
  <2> HIDE DEF old
  <2> QED BY <1>0, <1>1, MirrorsTyped DEF old
<1>4. counter' \in [Branches -> Int]
  BY ShiftTyped
<1> QED BY <1>2, <1>3, <1>4, StockWrites

LEMMA ConfirmTransferTyped ==
  ASSUME InventoryAssumption, NEW n \in Nat, BooksTyped(n), NEW k \in Clerks, NEW q \in Amounts, ConfirmTransfer(k, q)
  PROVE  \E m \in Nat : n <= m /\ StockTyped(m)' /\ TransferTyped(m)'
<1> DEFINE refs == Listed(k)
           details == Details(FifoTake(refs, q), Lacking(refs, q))
           x == plan[k].of
           v == [status |-> "completed", qty |-> q, details |-> details, updatedAt |-> 1]
<1>1. StockTyped(n) /\ TransferTyped(n) /\ q \in Nat /\ q \in Int /\ From \in Branches /\ To \in Branches
  BY DEF BooksTyped, InventoryAssumption
<1>2. /\ plan[k].to = "confirm" /\ lots' = CutLots(FifoTake(refs, q)) \o LotsAt(To, details)
      /\ counter' = Shift(From, To, q) /\ transfer' = [transfer EXCEPT ![x] = v]
      /\ plan' = [plan EXCEPT ![k] = NoPlan] /\ discrepancy' = discrepancy /\ adjusted' = adjusted
  BY DEF ConfirmTransfer
<1>3. x \in Transfers /\ plan[k].refs \in SUBSET (1..n)
  BY <1>1, <1>2, PlanInHand
<1>4. refs \in SUBSET (1..n) /\ \A l \in refs : lots[l].qty > 0
  BY <1>1, <1>3, Undepleted DEF Listed
<1> HIDE DEF refs
<1>5. details \in Seq(DetailForms(n)) /\ AddsUp(details) = q
  BY <1>1, <1>4, FifoTyped
<1> HIDE DEF details, x
<1>6. PICK m \in Nat : n <= m /\ StockTyped(m)'
  BY <1>1, <1>2, <1>4, <1>5, CarriedTyped
<1>7. v \in TransferForms(m)
  <2>1. v \in TransferForms(n)
    BY <1>1, <1>5 DEF TransferForms
  <2> HIDE DEF v
  <2> QED BY <1>6, <2>1, FormsGrow
<1> HIDE DEF v
<1>8. transfer' \in [Transfers -> TransferForms(m)]
  <2>1. transfer \in [Transfers -> TransferForms(m)]
    BY <1>1, <1>6, FormsGrow DEF TransferTyped
  <2> QED BY <1>2, <1>7, <2>1
<1>9. plan' \in [Clerks -> PlanForms(m)]
  BY <1>1, <1>2, <1>6, PlanDone
<1>10. discrepancy' \in [Discrepancies -> DiscrepancyDocs] /\ adjusted' \in [Branches -> Int]
  BY <1>1, <1>2 DEF TransferTyped
<1> QED BY <1>6, <1>8, <1>9, <1>10, TransferWrites

LEMMA TransferIsBack ==
  ASSUME InventoryAssumption, NEW n \in Nat, BooksTyped(n), NEW x \in Transfers, NEW refs \in SUBSET (1..n),
         \A l \in refs : lots[l].qty > 0,
         lots' = CutLots(FifoTake(refs, transfer[x].qty)) \o LotsAt(From, transfer[x].details),
         counter' = Shift(To, From, transfer[x].qty), transfer' = [transfer EXCEPT ![x] = Cancelled(@)],
         plan' = plan \/ \E k \in Clerks : plan' = [plan EXCEPT ![k] = NoPlan],
         discrepancy' = discrepancy, adjusted' = adjusted
  PROVE  \E m \in Nat : n <= m /\ StockTyped(m)' /\ TransferTyped(m)'
<1> DEFINE q == transfer[x].qty
           details == transfer[x].details
           v == Cancelled(transfer[x])
<1>1. StockTyped(n) /\ TransferTyped(n) /\ From \in Branches /\ To \in Branches
  BY DEF BooksTyped, InventoryAssumption
<1>2. transfer[x] \in TransferForms(n)
  BY <1>1 DEF TransferTyped
<1>3. q \in Nat /\ q \in Int /\ details \in Seq(DetailForms(n)) /\ v \in TransferForms(n)
  <2>1. q \in Nat /\ q \in Int /\ details \in Seq(DetailForms(n))
    BY <1>2 DEF TransferForms
  <2>2. v \in TransferForms(n)
    BY <1>2, CancelledTransfers
  <2> QED BY <2>1, <2>2
<1>4. transfer' = [transfer EXCEPT ![x] = v]
  OBVIOUS
<1> HIDE DEF q, details, v
<1>6. PICK m \in Nat : n <= m /\ StockTyped(m)'
  BY <1>1, <1>3, CarriedTyped DEF q, details
<1>8. transfer' \in [Transfers -> TransferForms(m)]
  <2>1. transfer \in [Transfers -> TransferForms(m)] /\ v \in TransferForms(m)
    BY <1>1, <1>3, <1>6, FormsGrow DEF TransferTyped
  <2> QED BY <1>4, <2>1
<1>9. plan' \in [Clerks -> PlanForms(m)]
  <2>1. CASE plan' = plan
    BY <1>1, <1>6, <2>1, FormsGrow DEF TransferTyped
  <2>2. CASE \E k \in Clerks : plan' = [plan EXCEPT ![k] = NoPlan]
    BY <1>1, <1>6, <2>2, PlanDone
  <2> QED BY <2>1, <2>2
<1>10. discrepancy' \in [Discrepancies -> DiscrepancyDocs] /\ adjusted' \in [Branches -> Int]
  BY <1>1 DEF TransferTyped
<1> QED BY <1>6, <1>8, <1>9, <1>10, TransferWrites

LEMMA CancelTransferTyped ==
  ASSUME InventoryAssumption, NEW n \in Nat, BooksTyped(n), NEW k \in Clerks, CancelTransfer(k)
  PROVE  \E m \in Nat : n <= m /\ StockTyped(m)' /\ TransferTyped(m)'
<1>1. StockTyped(n) /\ TransferTyped(n) /\ plan[k].to = "cancel"
  BY DEF BooksTyped, CancelTransfer
<1>2. plan[k].of \in Transfers /\ plan[k].refs \in SUBSET (1..n)
  BY <1>1, PlanInHand
<1>3. Listed(k) \in SUBSET (1..n) /\ \A l \in Listed(k) : lots[l].qty > 0
  BY <1>1, <1>2, Undepleted DEF Listed
<1>4. /\ lots' = CutLots(FifoTake(Listed(k), transfer[plan[k].of].qty)) \o LotsAt(From, transfer[plan[k].of].details)
      /\ counter' = Shift(To, From, transfer[plan[k].of].qty)
      /\ transfer' = [transfer EXCEPT ![plan[k].of] = Cancelled(@)]
      /\ plan' = [plan EXCEPT ![k] = NoPlan] /\ discrepancy' = discrepancy /\ adjusted' = adjusted
  BY DEF CancelTransfer
<1> QED BY <1>2, <1>3, <1>4, TransferIsBack

(* Counts and corrections.                                                 *)
LEMMA MoveStockTyped ==
  ASSUME InventoryAssumption, NEW n \in Nat, StockTyped(n), NEW b \in Branches, NEW i \in Int, NEW refs \in SUBSET (1..n),
         \A l \in refs : lots[l].qty > 0, MoveStock(b, i, refs)
  PROVE  \E m \in Nat : n <= m /\ StockTyped(m)'
<1>1. counter' \in [Branches -> Int]
  BY DEF MoveStock, StockTyped
<1>2. CASE i < 0
  <2>1. -i \in Nat
    BY <1>2
  <2> DEFINE j == -i
  <2>2. lots' = CutLots(FifoTake(refs, j)) /\ j \in Nat
    BY <1>2, <2>1 DEF MoveStock
  <2> HIDE DEF j
  <2>3. lots' \in Seq(LotDocs(n)) /\ Len(lots') = n
    BY <2>2, FifoTyped
  <2>4. StockTyped(n)'
    BY <1>1, <2>3, StockWrites
  <2>5. n <= n
    OBVIOUS
  <2> QED BY <2>4, <2>5
<1>3. CASE ~(i < 0)
  <2>1. lots' = Append(lots, Lot(b, i, Len(lots) + 1))
    BY <1>3 DEF MoveStock
  <2>2. lots' \in Seq(LotDocs(n + 1)) /\ Len(lots') = n + 1 /\ n + 1 \in Nat /\ n <= n + 1
    BY <2>1, LotAppended
  <2> QED BY <1>1, <2>2, StockWrites
<1> QED BY <1>2, <1>3

LEMMA ConfirmAdjustmentTyped ==
  ASSUME InventoryAssumption, NEW n \in Nat, BooksTyped(n), NEW k \in Clerks, NEW i \in Differences, ConfirmAdjustment(k, i)
  PROVE  \E m \in Nat : n <= m /\ StockTyped(m)' /\ TransferTyped(m)'
<1> DEFINE b == plan[k].of
<1>1. StockTyped(n) /\ TransferTyped(n) /\ plan[k].to = "adjust" /\ i \in Int
  BY DEF BooksTyped, ConfirmAdjustment, InventoryAssumption
<1>2. b \in Branches /\ plan[k].refs \in SUBSET (1..n)
  BY <1>1, PlanInHand
<1>3. Listed(k) \in SUBSET (1..n) /\ \A l \in Listed(k) : lots[l].qty > 0
  BY <1>1, <1>2, Undepleted DEF Listed
<1>4. /\ MoveStock(b, i, Listed(k)) /\ adjusted' = [adjusted EXCEPT ![b] = @ + i]
      /\ plan' = [plan EXCEPT ![k] = NoPlan] /\ transfer' = transfer /\ discrepancy' = discrepancy
  BY DEF ConfirmAdjustment
<1> HIDE DEF b
<1>5. PICK m \in Nat : n <= m /\ StockTyped(m)'
  BY <1>1, <1>2, <1>3, <1>4, MoveStockTyped
<1>6. plan' \in [Clerks -> PlanForms(m)]
  BY <1>1, <1>4, <1>5, PlanDone
<1>7. transfer' \in [Transfers -> TransferForms(m)]
  BY <1>1, <1>4, <1>5, FormsGrow DEF TransferTyped
<1>8. discrepancy' \in [Discrepancies -> DiscrepancyDocs] /\ adjusted' \in [Branches -> Int]
  BY <1>1, <1>2, <1>4 DEF TransferTyped
<1> QED BY <1>5, <1>6, <1>7, <1>8, TransferWrites

LEMMA ReportDiscrepancyTyped ==
  ASSUME InventoryAssumption, NEW n \in Nat, BooksTyped(n), NEW d \in Discrepancies, NEW t \in Transfers,
         NEW i \in Differences, ReportDiscrepancy(d, t, i)
  PROVE  StockTyped(n)' /\ TransferTyped(n)'
<1>1. StockTyped(n) /\ TransferTyped(n) /\ i \in Int
  BY DEF BooksTyped, InventoryAssumption
<1>2. /\ discrepancy' = [discrepancy EXCEPT ![d] = [status |-> "reported", difference |-> i, of |-> t]]
      /\ UNCHANGED <<transfer, plan, adjusted, stockVars>>
  BY DEF ReportDiscrepancy
<1>3. [status |-> "reported", difference |-> i, of |-> t] \in DiscrepancyDocs
  BY <1>1 DEF DiscrepancyDocs
<1>4. discrepancy' \in [Discrepancies -> DiscrepancyDocs]
  BY <1>1, <1>2, <1>3 DEF TransferTyped
<1>5. transfer' \in [Transfers -> TransferForms(n)] /\ plan' \in [Clerks -> PlanForms(n)] /\ adjusted' \in [Branches -> Int]
  BY <1>1, <1>2 DEF TransferTyped
<1> QED BY <1>1, <1>2, <1>4, <1>5, TransferWrites, StockStays

LEMMA ResolveDiscrepancyTyped ==
  ASSUME InventoryAssumption, NEW n \in Nat, BooksTyped(n), NEW d \in Discrepancies, ResolveDiscrepancy(d)
  PROVE  \E m \in Nat : n <= m /\ StockTyped(m)' /\ TransferTyped(m)'
<1> DEFINE i == discrepancy[d].difference
<1>1. StockTyped(n) /\ TransferTyped(n) /\ To \in Branches
  BY DEF BooksTyped, InventoryAssumption
<1>2. /\ discrepancy[d].status = "reported" /\ MoveStock(To, i, Active(To))
      /\ discrepancy' = [discrepancy EXCEPT ![d] = [discrepancy[d] EXCEPT !.status = "resolved"]]
      /\ transfer' = transfer /\ plan' = plan /\ adjusted' = adjusted
  BY DEF ResolveDiscrepancy, IsOpen
<1>3. discrepancy[d] \in [status : {"reported", "resolved"}, difference : Int, of : Transfers]
  BY <1>1, <1>2 DEF TransferTyped, DiscrepancyDocs
<1>4. i \in Int /\ [discrepancy[d] EXCEPT !.status = "resolved"] \in DiscrepancyDocs
  <2>1. [discrepancy[d] EXCEPT !.status = "resolved"] \in [status : {"reported", "resolved"}, difference : Int, of : Transfers]
    BY <1>3
  <2> QED BY <1>3, <2>1 DEF DiscrepancyDocs
<1>5. Active(To) \in SUBSET (1..n) /\ \A l \in Active(To) : lots[l].qty > 0
  BY <1>1, Undepleted
<1> HIDE DEF i
<1>6. PICK m \in Nat : n <= m /\ StockTyped(m)'
  BY <1>1, <1>2, <1>4, <1>5, MoveStockTyped
<1>7. transfer' \in [Transfers -> TransferForms(m)] /\ plan' \in [Clerks -> PlanForms(m)]
  BY <1>1, <1>2, <1>6, FormsGrow DEF TransferTyped
<1>8. discrepancy' \in [Discrepancies -> DiscrepancyDocs] /\ adjusted' \in [Branches -> Int]
  <2> DEFINE w == [discrepancy[d] EXCEPT !.status = "resolved"]
  <2>1. discrepancy' = [discrepancy EXCEPT ![d] = w] /\ w \in DiscrepancyDocs
    BY <1>2, <1>4
  <2> HIDE DEF w
  <2> QED BY <1>1, <1>2, <2>1 DEF TransferTyped
<1> QED BY <1>6, <1>7, <1>8, TransferWrites

LEMMA SellTyped ==
  ASSUME InventoryAssumption, NEW n \in Nat, BooksTyped(n), NEW b \in Branches, Sell(b)
  PROVE  StockTyped(n)'
<1>1. StockTyped(n) /\ 1 \in Nat
  BY DEF BooksTyped
<1>2. Active(b) \in SUBSET (1..n) /\ \A l \in Active(b) : lots[l].qty > 0
  BY <1>1, Undepleted
<1>3. lots' = CutLots(FifoTake(Active(b), 1)) /\ counter' = [counter EXCEPT ![b] = @ - 1]
  BY DEF Sell
<1>4. lots' \in Seq(LotDocs(n)) /\ Len(lots') = n
  BY <1>1, <1>2, <1>3, FifoTyped
<1>5. counter' \in [Branches -> Int]
  BY <1>1, <1>3 DEF StockTyped
<1> QED BY <1>4, <1>5, StockWrites

LEMMA ReverseReceivingTyped ==
  ASSUME InventoryAssumption, NEW n \in Nat, BooksTyped(n), NEW t, NEW r \in Receipts, NEW k, ReverseReceiving(t, r, k)
  PROVE  StockTyped(n)' /\ ReceivingTyped(n)'
<1> DEFINE take == [l \in {receipt[r].lot} |-> receipt[r].qty]
           v == Cancelled(receipt[r])
<1>1. StockTyped(n) /\ ReceivingTyped(n) /\ 0 \in Nat /\ Home \in Branches
  BY DEF BooksTyped, InventoryAssumption
<1>2. receipt[r] \in ReceiptForms(n) /\ receipt[r].qty \in Int
  BY <1>1 DEF ReceivingTyped, ReceiptForms
<1>3. /\ lots' = CutLots(take) /\ counter' = [counter EXCEPT ![Home] = @ - receipt[r].qty]
      /\ receipt' = [receipt EXCEPT ![r] = v] /\ desk' = desk /\ clobbered' = clobbered
  BY DEF ReverseReceiving
<1>4. lots' \in Seq(LotDocs(n)) /\ Len(lots') = n
  <2>1. \A l \in DOMAIN take : take[l] \in Int
    BY <1>2
  <2> HIDE DEF take
  <2> QED BY <1>1, <1>3, <2>1, CutsTyped
<1>5. counter' \in [Branches -> Int]
  BY <1>1, <1>2, <1>3 DEF StockTyped
<1>6. v \in ReceiptForms(n)
  BY <1>1, <1>2, WrittenReceipts
<1> HIDE DEF v
<1>7. desk' \in [Desks -> DeskForms(n)] /\ clobbered' \in BOOLEAN
  BY <1>1, <1>3 DEF ReceivingTyped
<1> QED BY <1>3, <1>4, <1>5, <1>6, <1>7, StockWrites, DraftsTyped

LEMMA ReverseTransferTyped ==
  ASSUME InventoryAssumption, NEW n \in Nat, BooksTyped(n), NEW t, NEW x \in Transfers, NEW k, ReverseTransfer(t, x, k)
  PROVE  \E m \in Nat : n <= m /\ StockTyped(m)' /\ TransferTyped(m)'
<1>1. /\ lots' = CutLots(FifoTake(Active(To), transfer[x].qty)) \o LotsAt(From, transfer[x].details)
      /\ counter' = Shift(To, From, transfer[x].qty) /\ transfer' = [transfer EXCEPT ![x] = Cancelled(@)]
      /\ plan' = plan /\ discrepancy' = discrepancy /\ adjusted' = adjusted
  BY DEF ReverseTransfer
<1>2. Active(To) \in SUBSET (1..n) /\ \A l \in Active(To) : lots[l].qty > 0
  BY Undepleted DEF BooksTyped, InventoryAssumption
<1> QED BY <1>1, <1>2, TransferIsBack

(* The queue of a terminal and the answers it gets.                        *)
IntentForms == [status : Statuses, observed : Nat, attempt : 0..MaxAttempts]

LEMMA IntentEdits ==
  ASSUME NEW v \in IntentForms, NEW s \in Statuses
  PROVE  /\ [v EXCEPT !.status = s] \in IntentForms
         /\ \A k \in 0..MaxAttempts : [v EXCEPT !.status = s, !.attempt = k] \in IntentForms
         /\ \A o \in Nat : [v EXCEPT !.status = s, !.observed = o] \in IntentForms
<1> DEFINE w == [v EXCEPT !.status = s]
<1>1. w \in IntentForms
  BY DEF IntentForms
<1>2. /\ \A k : [v EXCEPT !.status = s, !.attempt = k] = [w EXCEPT !.attempt = k]
      /\ \A o : [v EXCEPT !.status = s, !.observed = o] = [w EXCEPT !.observed = o]
  OBVIOUS
<1> HIDE DEF w
<1>3. ASSUME NEW k \in 0..MaxAttempts PROVE [w EXCEPT !.attempt = k] \in IntentForms
  BY <1>1 DEF IntentForms
<1>4. ASSUME NEW o \in Nat PROVE [w EXCEPT !.observed = o] \in IntentForms
  BY <1>1 DEF IntentForms
<1> QED BY <1>1, <1>2, <1>3, <1>4 DEF w

LEMMA IntentTyped ==
  ASSUME ReversalTypeOK, NEW t \in Terminals, NEW x \in Documents, NEW i \in IntentForms, SetIntent(t, x, i)
  PROVE  intent' \in [Terminals -> [Documents -> IntentForms]]
<1>1. intent \in [Terminals -> [Documents -> IntentForms]] /\ IntentForms \cup {i} = IntentForms
  BY DEF ReversalTypeOK, IntentForms
<1> QED BY <1>1, QueueWritten DEF SetIntent

LEMMA RequestTyped ==
  ASSUME ReversalTypeOK, NEW t \in Terminals, NEW x \in Documents, NEW n \in Attempts, NEW a \in Answers,
         request' = [request EXCEPT ![t][x][n] = a]
  PROVE  request' \in [Terminals -> [Documents -> [Attempts -> Answers]]]
<1>1. request \in [Terminals -> [Documents -> [Attempts -> Answers]]] /\ Answers \cup {a} = Answers
  BY DEF ReversalTypeOK
<1> QED BY <1>1, RequestWritten

LEMMA ReversalWrites ==
  ASSUME ledger' \in [Documents -> Terminals \cup {Nobody}], intent' \in [Terminals -> [Documents -> IntentForms]],
         request' \in [Terminals -> [Documents -> [Attempts -> Answers]]]
  PROVE  ReversalTypeOK'
BY DEF ReversalTypeOK, IntentForms

LEMMA DocumentsTyped ==
  ASSUME NEW n \in Nat, BooksTyped(n), NEW x \in Documents
  PROVE  Document(x).updatedAt \in Nat /\ Document(x).qty \in Nat
<1>1. CASE x \in Receipts
  BY <1>1 DEF BooksTyped, ReceivingTyped, ReceiptForms, Document
<1>2. CASE x \notin Receipts
  <2>1. transfer[x] \in TransferForms(n)
    BY <1>2 DEF BooksTyped, TransferTyped, Documents
  <2> QED BY <1>2, <2>1 DEF TransferForms, Document
<1> QED BY <1>1, <1>2

LEMMA ReversalTyped ==
  ASSUME InventoryAssumption, NEW n \in Nat, BooksTyped(n), ReversalTypeOK, ReversalNext
  PROVE  ReversalTypeOK'
<1>1. /\ ledger \in [Documents -> Terminals \cup {Nobody}] /\ intent \in [Terminals -> [Documents -> IntentForms]]
      /\ request \in [Terminals -> [Documents -> [Attempts -> Answers]]] /\ MaxAttempts \in Nat
  BY DEF ReversalTypeOK, IntentForms, InventoryAssumption, ReversalAssumption
<1>2. ASSUME NEW t \in Terminals, NEW x \in Documents, CreateOfflineReversal(t, x) PROVE ReversalTypeOK'
  <2>1. PICK seen \in {Document(x).updatedAt, Unobserved} :
          SetIntent(t, x, [NoIntent EXCEPT !.status = "queued", !.observed = seen])
    BY <1>2 DEF CreateOfflineReversal
  <2>2. seen \in Nat
    BY DocumentsTyped DEF Unobserved
  <2>3. NoIntent \in IntentForms /\ "queued" \in Statuses
    BY <1>1 DEF NoIntent, IntentForms, Statuses, Unobserved
  <2> DEFINE i == [NoIntent EXCEPT !.status = "queued", !.observed = seen]
  <2>4. i \in IntentForms
    BY <2>2, <2>3, IntentEdits
  <2> HIDE DEF i
  <2>5. intent' \in [Terminals -> [Documents -> IntentForms]]
    BY <2>1, <2>4, IntentTyped DEF i
  <2> QED BY <1>1, <1>2, <2>5, ReversalWrites DEF CreateOfflineReversal
<1>3. ASSUME NEW t \in Terminals, NEW x \in Documents, ClaimForSync(t, x) PROVE ReversalTypeOK'
  <2> DEFINE k == intent[t][x].attempt + 1
             i == [intent[t][x] EXCEPT !.status = "syncing", !.attempt = k]
  <2>1. /\ SetIntent(t, x, i) /\ request' = [request EXCEPT ![t][x][k] = "sent"] /\ ledger' = ledger
        /\ intent[t][x].attempt < MaxAttempts
    BY <1>3 DEF ClaimForSync
  <2>2. intent[t][x] \in IntentForms /\ intent[t][x].attempt \in 0..MaxAttempts
    <3>1. intent[t][x] \in IntentForms
      BY <1>1
    <3> QED BY <3>1 DEF IntentForms
  <2>3. k \in 0..MaxAttempts /\ k \in Attempts
    BY <1>1, <2>1, <2>2 DEF Attempts
  <2> HIDE DEF k
  <2>4. "syncing" \in Statuses /\ "sent" \in Answers
    BY DEF Statuses, Answers
  <2>5. i \in IntentForms
    BY <2>2, <2>3, <2>4, IntentEdits
  <2> HIDE DEF i
  <2>6. intent' \in [Terminals -> [Documents -> IntentForms]]
    BY <2>1, <2>5, IntentTyped
  <2>7. request' \in [Terminals -> [Documents -> [Attempts -> Answers]]]
    BY <2>1, <2>3, <2>4, RequestTyped
  <2> QED BY <1>1, <2>1, <2>6, <2>7, ReversalWrites
<1>4. ASSUME NEW t \in Terminals, NEW x \in Documents, ResolveManualReview(t, x) PROVE ReversalTypeOK'
  <2> DEFINE i == [intent[t][x] EXCEPT !.status = "manual_review_resolved"]
  <2>1. SetIntent(t, x, i) /\ request' = request /\ ledger' = ledger
    BY <1>4 DEF ResolveManualReview
  <2>2. intent[t][x] \in IntentForms /\ "manual_review_resolved" \in Statuses
    BY <1>1 DEF Statuses
  <2>3. i \in IntentForms
    BY <2>2, IntentEdits
  <2> HIDE DEF i
  <2>4. intent' \in [Terminals -> [Documents -> IntentForms]]
    BY <2>1, <2>3, IntentTyped
  <2> QED BY <1>1, <2>1, <2>4, ReversalWrites
<1>5. ASSUME NEW t \in Terminals, NEW x \in Documents, NEW k \in Attempts, ApplyServerResult(t, x, k) PROVE ReversalTypeOK'
  <2> DEFINE c == ClassifyServerResult(request[t][x][k])
             i == [intent[t][x] EXCEPT !.status = c]
  <2>1. /\ SetIntent(t, x, i) \/ intent' = intent
        /\ request' = [request EXCEPT ![t][x][k] = "over"] /\ ledger' = ledger
    BY <1>5 DEF ApplyServerResult
  <2>2. intent[t][x] \in IntentForms /\ c \in Statuses /\ "over" \in Answers
    BY <1>1 DEF Statuses, ClassifyServerResult, Answers
  <2> HIDE DEF c
  <2>3. i \in IntentForms
    BY <2>2, IntentEdits
  <2> HIDE DEF i
  <2>4. intent' \in [Terminals -> [Documents -> IntentForms]]
    BY <1>1, <2>1, <2>3, IntentTyped
  <2>5. request' \in [Terminals -> [Documents -> [Attempts -> Answers]]]
    BY <2>1, <2>2, RequestTyped
  <2> QED BY <1>1, <2>1, <2>4, <2>5, ReversalWrites
<1>6. ASSUME NEW t \in Terminals, NEW x \in Documents, NEW k \in Attempts,
             Lose(t, x, k) \/ AnswerFromLedger(t, x, k) \/ Reject(t, x, k)
      PROVE  ReversalTypeOK'
  <2>1. PICK a \in Answers : request' = [request EXCEPT ![t][x][k] = a] /\ ledger' = ledger /\ intent' = intent
    BY <1>6 DEF Lose, AnswerFromLedger, Reject, Answer, Answers
  <2>2. request' \in [Terminals -> [Documents -> [Attempts -> Answers]]]
    BY <2>1, RequestTyped
  <2> QED BY <1>1, <2>1, <2>2, ReversalWrites
<1>7. ASSUME NEW t \in Terminals, NEW x \in Documents, NEW k \in Attempts, Record(t, x, k), intent' = intent
      PROVE  ReversalTypeOK'
  <2>1. request' = [request EXCEPT ![t][x][k] = "confirmed"] /\ ledger' = [ledger EXCEPT ![x] = t] /\ "confirmed" \in Answers
    BY <1>7 DEF Record, Answer, Answers
  <2>2. request' \in [Terminals -> [Documents -> [Attempts -> Answers]]]
    BY <2>1, RequestTyped
  <2>3. ledger' \in [Documents -> Terminals \cup {Nobody}]
    BY <1>1, <2>1
  <2> QED BY <1>1, <1>7, <2>2, <2>3, ReversalWrites
<1> QED BY <1>2, <1>3, <1>4, <1>5, <1>6, <1>7 DEF ReversalNext, ReverseReceiving, ReverseTransfer, Documents

(* What the inductive form says of the state.                              *)
LEMMA BooksAreTyped ==
  ASSUME NEW n \in Nat, BooksTyped(n)
  PROVE  StockTypeOK /\ ReceivingTypeOK /\ TransferTypeOK
<1>1. StockTyped(n) /\ ReceivingTyped(n) /\ TransferTyped(n) /\ DOMAIN lots = 1..n
  BY DEF BooksTyped, StockTyped
<1>2. StockTypeOK
  <2>1. \A l \in 1..n : lots[l] \in LotDocs(n)
    BY <1>1 DEF StockTyped
  <2> QED BY <1>1, <2>1 DEF StockTypeOK, StockTyped, LotDocs
<1>3. ReceivingTypeOK
  <2>1. \A d \in Desks : desk[d] = Away \/ desk[d].doing \in {"draft", "update", "cancel"}
    BY <1>1 DEF ReceivingTyped, DeskForms
  <2> QED BY <1>1, <2>1 DEF ReceivingTypeOK, ReceivingTyped, ReceiptForms, StockTyped
<1>4. TransferTypeOK
  <2>1. \A t \in Transfers : transfer[t] \in TransferForms(n)
    BY <1>1 DEF TransferTyped
  <2>2. \A t \in Transfers : /\ transfer[t].status \in {"none", "completed", "cancelled"}
                             /\ transfer[t].qty = AddsUp(transfer[t].details)
    BY <2>1 DEF TransferForms
  <2>3. \A k \in Clerks : plan[k] = NoPlan \/ plan[k].refs \subseteq DOMAIN lots
    BY <1>1 DEF TransferTyped, PlanForms
  <2>4. \A d \in Discrepancies : discrepancy[d].status \in {"none", "reported", "resolved"}
    BY <1>1 DEF TransferTyped, DiscrepancyDocs
  <2>5. adjusted \in [Branches -> Int]
    BY <1>1 DEF TransferTyped
  <2> QED BY <2>2, <2>3, <2>4, <2>5 DEF TransferTypeOK, AddsUp
<1> QED BY <1>2, <1>3, <1>4

LEMMA BooksTypedStep ==
  ASSUME InventoryAssumption, NEW n \in Nat, BooksTyped(n), ReversalTypeOK, InvNext
  PROVE  \E m \in Nat : BooksTyped(m)'
<1>1. StockTyped(n) /\ ReceivingTyped(n) /\ TransferTyped(n) /\ n <= n
  BY DEF BooksTyped
<1>2. ASSUME NEW b \in Branches, Sell(b) PROVE \E m \in Nat : BooksTyped(m)'
  <2>1. UNCHANGED receivingVars /\ UNCHANGED transferVars
    BY <1>2 DEF Sell
  <2> QED BY <1>1, <1>2, <2>1, SellTyped, ReceivingStays, TransfersStay DEF BooksTyped
<1>3. CASE ReceivingNext /\ UNCHANGED transferVars
  <2>1. \/ StockTyped(n)' /\ ReceivingTyped(n)'
        \/ StockTyped(n + 1)' /\ ReceivingTyped(n + 1)'
    BY <1>3, ConfirmReceivingTyped, NewDraftTyped, ReadTyped, WriteDraftTyped, WriteUpdateTyped, WriteCancelTyped
       DEF ReceivingNext
  <2>2. TransferTyped(n)' /\ TransferTyped(n + 1)' /\ n + 1 \in Nat
    <3>1. n + 1 \in Nat /\ n <= n + 1
      OBVIOUS
    <3> QED BY <1>1, <1>3, <3>1, TransfersStay
  <2> QED BY <2>1, <2>2 DEF BooksTyped
<1>4. CASE TransferNext /\ UNCHANGED receivingVars
  <2>1. PICK m \in Nat : n <= m /\ StockTyped(m)' /\ TransferTyped(m)'
    <3>1. ASSUME NEW k \in Clerks,
                 \/ \E t \in Transfers : ListToConfirm(k, t) \/ ListToCancel(k, t)
                 \/ \E b \in Branches : ListToAdjust(k, b)
                 \/ GiveUp(k)
          PROVE  StockTyped(n)' /\ TransferTyped(n)'
      BY <3>1, ListTyped
    <3> QED BY <1>1, <1>4, <3>1, ConfirmTransferTyped, ConfirmAdjustmentTyped, CancelTransferTyped, ReportDiscrepancyTyped,
               ResolveDiscrepancyTyped DEF TransferNext
  <2> QED BY <1>1, <1>4, <2>1, ReceivingStays DEF BooksTyped
<1>5. CASE ReversalNext
  <2>1. ASSUME NEW t \in Terminals, NEW r \in Receipts, NEW k \in Attempts, ReverseReceiving(t, r, k)
        PROVE  \E m \in Nat : BooksTyped(m)'
    <3>1. UNCHANGED transferVars
      BY <2>1 DEF ReverseReceiving
    <3> QED BY <1>1, <2>1, <3>1, ReverseReceivingTyped, TransfersStay DEF BooksTyped
  <2>2. ASSUME NEW t \in Terminals, NEW x \in Transfers, NEW k \in Attempts, ReverseTransfer(t, x, k)
        PROVE  \E m \in Nat : BooksTyped(m)'
    <3>1. UNCHANGED receivingVars
      BY <2>2 DEF ReverseTransfer
    <3>2. PICK m \in Nat : n <= m /\ StockTyped(m)' /\ TransferTyped(m)'
      BY <2>2, ReverseTransferTyped
    <3> QED BY <1>1, <3>1, <3>2, ReceivingStays DEF BooksTyped
  <2>3. CASE UNCHANGED <<stockVars, receivingVars, transferVars>>
    BY <1>1, <2>3, StockStays, ReceivingStays, TransfersStay DEF BooksTyped
  <2> QED BY <1>5, <2>1, <2>2, <2>3 DEF ReversalNext, CreateOfflineReversal, ClaimForSync, ResolveManualReview, Lose,
             ApplyServerResult, AnswerFromLedger, Reject
<1> QED BY <1>2, <1>3, <1>4, <1>5 DEF InvNext, InventoryAssumption

LEMMA RestTypedStep ==
  ASSUME InventoryAssumption, NEW n \in Nat, BooksTyped(n), RestTyped, InvNext
  PROVE  RestTyped'
<1>1. ReversalTypeOK'
  <2>1. CASE ReversalNext
    BY <2>1, ReversalTyped DEF RestTyped
  <2>2. CASE ~ReversalNext
    <3>1. ledger' = ledger /\ intent' = intent /\ request' = request
      BY <2>2 DEF InvNext, Sell, reversalVars
    <3> QED BY <3>1 DEF RestTyped, ReversalTypeOK
  <2> QED BY <2>1, <2>2
<1>2. sold' \in [Branches -> 0..MaxSold]
  <2>1. ASSUME NEW b \in Branches, Sell(b) PROVE sold' \in [Branches -> 0..MaxSold]
    BY <2>1 DEF Sell, RestTyped, InventoryAssumption
  <2>2. CASE sold' = sold
    BY <2>2 DEF RestTyped
  <2> QED BY <2>1, <2>2 DEF InvNext, InventoryAssumption
<1>3. restocked' \in BOOLEAN
  BY DEF InvNext, RestTyped, Asked, Grows
<1> QED BY <1>1, <1>2, <1>3 DEF RestTyped

LEMMA TypeStep ==
  ASSUME InventoryAssumption, TypeInv, [InvNext]_invVars
  PROVE  TypeInv'
<1>1. PICK n \in Nat : BooksTyped(n)
  BY DEF TypeInv
<1>2. CASE InvNext
  BY <1>1, <1>2, BooksTypedStep, RestTypedStep DEF TypeInv, RestTyped
<1>3. CASE UNCHANGED invVars
  <2>1. UNCHANGED stockVars /\ UNCHANGED receivingVars /\ UNCHANGED transferVars /\ UNCHANGED reversalVars
        /\ sold' = sold /\ restocked' = restocked /\ n <= n
    BY <1>3 DEF invVars
  <2>2. BooksTyped(n)'
    BY <1>1, <2>1, StockStays, ReceivingStays, TransfersStay DEF BooksTyped
  <2>3. RestTyped'
    BY <2>1 DEF TypeInv, RestTyped, ReversalTypeOK, reversalVars
  <2> QED BY <2>2, <2>3 DEF TypeInv
<1> QED BY <1>2, <1>3

LEMMA TypeInit ==
  ASSUME InventoryAssumption, InvInit
  PROVE  TypeInv
<1>1. StockTyped(0)
  BY DEF InvInit, StockInit, StockTyped, LotDocs
<1>2. ReceivingTyped(0)
  <2>1. NoReceipt \in ReceiptForms(0)
    BY DEF NoReceipt, ReceiptForms, NoLot
  <2>2. Away \in DeskForms(0)
    BY DEF DeskForms
  <2> QED BY <2>1, <2>2 DEF InvInit, ReceivingInit, ReceivingTyped
<1>3. TransferTyped(0)
  <2>1. AddsUp(<<>>) = 0
    <3> DEFINE s == << >>
    <3>1. DOMAIN s = {} /\ IsFiniteSet(DOMAIN s)
      BY FS_EmptySet
    <3> HIDE DEF s
    <3>2. AddsUp(s) = SumFunctionOnSet([i \in DOMAIN s |-> s[i].qty], DOMAIN s)
      BY <3>1, AddsUpIsSum
    <3>3. SumFunctionOnSet([i \in DOMAIN s |-> s[i].qty], {}) = 0
      BY SumEmpty
    <3> QED BY <3>1, <3>2, <3>3 DEF s
  <2>2. NoTransfer \in TransferForms(0)
    BY <2>1 DEF NoTransfer, TransferForms
  <2>3. NoPlan \in PlanForms(0)
    BY DEF PlanForms
  <2>4. NoDiscrepancy \in DiscrepancyDocs
    BY DEF NoDiscrepancy, DiscrepancyDocs
  <2> QED BY <2>2, <2>3, <2>4 DEF InvInit, TransferInit, TransferTyped
<1>4. RestTyped
  <2>1. NoIntent \in IntentForms /\ "none" \in Answers
    BY DEF NoIntent, IntentForms, Unobserved, Statuses, Answers, InventoryAssumption, ReversalAssumption
  <2>2. intent \in [Terminals -> [Documents -> IntentForms]]
    BY <2>1 DEF InvInit, ReversalInit
  <2>3. request \in [Terminals -> [Documents -> [Attempts -> Answers]]]
    BY <2>1 DEF InvInit, ReversalInit
  <2>4. ledger \in [Documents -> Terminals \cup {Nobody}]
    BY DEF InvInit, ReversalInit
  <2>5. sold \in [Branches -> 0..MaxSold] /\ restocked \in BOOLEAN
    <3>1. 0 \in 0..MaxSold
      BY DEF InventoryAssumption
    <3> QED BY <3>1 DEF InvInit
  <2> QED BY <2>2, <2>3, <2>4, <2>5 DEF RestTyped, ReversalTypeOK, IntentForms
<1> QED BY <1>1, <1>2, <1>3, <1>4 DEF TypeInv, BooksTyped

(* Every document, screen, plan and request keeps its form, whatever moves *)
(* the stock: a receipt's lot and the lots a clerk has listed are there,   *)
(* and the lots a transfer carries add up to what it moves.                *)
THEOREM InventoryTyped ==
  ASSUME InventoryAssumption
  PROVE  InvSpec => []InvTypeOK
<1>1. InvInit => TypeInv
  BY TypeInit
<1>2. TypeInv /\ [InvNext]_invVars => TypeInv'
  BY TypeStep
<1>3. TypeInv => InvTypeOK
  BY BooksAreTyped DEF TypeInv, RestTyped, InvTypeOK
<1> QED BY <1>1, <1>2, <1>3, PTL DEF InvSpec

-----------------------------------------------------------------------------
(* A refusal stands: while no counter grows and no screen writes over what *)
(* it had not read, what the server refused it will refuse again.          *)
Firm(x) == Document(x).status \in {"completed", "cancelled"}
Falls == \A b \in Branches : counter'[b] <= counter[b]
LotsFall ==
  /\ \A l \in DOMAIN lots : l \in DOMAIN lots' /\ lots'[l].branch = lots[l].branch /\ lots'[l].qty <= lots[l].qty
  /\ \A l \in DOMAIN lots' : l \notin DOMAIN lots => lots'[l].branch # To \/ lots'[l].qty <= 0
(* A receipt is edited: what the counter and the lot have over its quantity *)
(* stays what it was.                                                       *)
Edits(x) ==
  /\ x \in Receipts /\ receipt'[x].status = receipt[x].status /\ receipt'[x].lot = receipt[x].lot
  /\ counter'[Home] - receipt'[x].qty = counter[Home] - receipt[x].qty
  /\ receipt[x].lot # NoLot => lots'[receipt[x].lot].qty - receipt'[x].qty = lots[receipt[x].lot].qty - receipt[x].qty
Keeps(x) ==
  \/ Document(x)' = Document(x)
  \/ /\ Document(x)'.updatedAt >= Document(x).updatedAt
     /\ Document(x)'.status = "cancelled" \/ Edits(x)
Declines == LotsFall /\ \A x \in Documents : Firm(x) => Keeps(x)

(* Lots that are cut, with others behind them.                             *)
LEMMA CutFalls ==
  ASSUME NEW n \in Nat, StockTyped(n), NEW take, \A l \in DOMAIN take : take[l] \in Nat, NEW S, NEW more \in Seq(S),
         lots' = CutLots(take) \o more, \A i \in DOMAIN more : more[i].branch # To \/ more[i].qty <= 0
  PROVE  LotsFall
<1> DEFINE old == CutLots(take)
<1>1. \A l \in DOMAIN take : take[l] \in Int
  OBVIOUS
<1>2. old \in Seq(LotDocs(n)) /\ Len(old) = n /\ DOMAIN lots = 1..n /\ \A l \in 1..n : lots[l] \in LotDocs(n)
  BY <1>1, CutsTyped DEF StockTyped
<1>3. ASSUME NEW l \in 1..n
      PROVE  old[l].branch = lots[l].branch /\ old[l].qty <= lots[l].qty
  <2>1. lots[l] \in LotDocs(n)
    BY <1>2
  <2>2. CASE l \in DOMAIN take
    <3>1. old[l] = [lots[l] EXCEPT !.qty = @ - take[l]]
      BY <1>2, <2>2 DEF CutLots
    <3>2. take[l] \in Nat /\ lots[l].qty \in Int
      BY <2>1, <2>2 DEF LotDocs
    <3>3. old[l].branch = lots[l].branch /\ old[l].qty = lots[l].qty - take[l]
      <4> HIDE DEF old
      <4> QED BY <2>1, <3>1 DEF LotDocs
    <3> QED BY <3>2, <3>3
  <2>3. CASE l \notin DOMAIN take
    <3>1. old[l] = lots[l]
      BY <1>2, <2>3 DEF CutLots
    <3>2. lots[l].qty \in Int
      BY <2>1 DEF LotDocs
    <3> QED BY <3>1, <3>2
  <2> QED BY <2>2, <2>3
<1> HIDE DEF old
<1>4. lots' = old \o more
  BY DEF old
<1>5. /\ DOMAIN lots' = 1..(n + Len(more))
      /\ \A l \in 1..n : lots'[l] = old[l]
      /\ \A l \in (1..(n + Len(more))) \ (1..n) : lots'[l] = more[l - n] /\ l - n \in DOMAIN more
  <2> DEFINE both == old \o more
  <2>1. /\ DOMAIN both = 1..(n + Len(more)) /\ \A l \in 1..n : both[l] = old[l]
        /\ \A l \in (1..(n + Len(more))) \ (1..n) : both[l] = more[l - n] /\ l - n \in DOMAIN more
    BY <1>2
  <2> HIDE DEF both
  <2>2. lots' = both
    BY <1>4 DEF both
  <2> QED BY <2>1, <2>2
<1>6. \A l \in 1..n : l \in 1..(n + Len(more))
  OBVIOUS
<1> QED BY <1>2, <1>3, <1>5, <1>6 DEF LotsFall

LEMMA OnlyCutFalls ==
  ASSUME NEW n \in Nat, StockTyped(n), NEW take, \A l \in DOMAIN take : take[l] \in Nat, lots' = CutLots(take)
  PROVE  LotsFall
<1> DEFINE old == CutLots(take)
           more == << >>
<1>1. \A l \in DOMAIN take : take[l] \in Int
  OBVIOUS
<1>2. old \in Seq(LotDocs(n))
  BY <1>1, CutsTyped
<1>3. more \in Seq(Nat) /\ DOMAIN more = {}
  OBVIOUS
<1>4. lots' = old \o more
  <2> HIDE DEF old
  <2>1. old \o << >> = old
    BY <1>2
  <2> QED BY <2>1 DEF old
<1> HIDE DEF more
<1> QED BY <1>3, <1>4, CutFalls

LEMMA FifoCuts ==
  ASSUME NEW n \in Nat, StockTyped(n), NEW refs \in SUBSET (1..n), \A l \in refs : lots[l].qty > 0, NEW q \in Nat
  PROVE  \A l \in DOMAIN FifoTake(refs, q) : FifoTake(refs, q)[l] \in Nat
<1>1. IsFiniteSet(refs) /\ refs \subseteq Nat /\ \A l \in refs : lots[l].at \in Int /\ lots[l].qty \in Nat
  BY Cuttable
<1> DEFINE take == FifoTake(refs, q)
<1>2. take \in [refs -> Nat]
  BY <1>1, CutTakes
<1> HIDE DEF take
<1>3. \A l \in DOMAIN take : take[l] \in Nat
  BY <1>2
<1> QED BY <1>3 DEF take

LEMMA AppendFalls ==
  ASSUME NEW n \in Nat, StockTyped(n), NEW b, NEW q \in Int, q <= 0, lots' = Append(lots, Lot(b, q, Len(lots) + 1))
  PROVE  LotsFall
<1> DEFINE w == Lot(b, q, n + 1)
<1>1. lots \in Seq(LotDocs(n)) /\ DOMAIN lots = 1..n /\ Len(lots) = n /\ \A l \in 1..n : lots[l] \in LotDocs(n)
  BY DEF StockTyped
<1>2. w.qty <= 0 /\ lots' = Append(lots, w)
  BY <1>1 DEF Lot
<1> HIDE DEF w
<1>3. DOMAIN lots' = 1..(n + 1) /\ lots'[n + 1] = w /\ \A l \in 1..n : lots'[l] = lots[l]
  BY <1>1, <1>2
<1>4. \A l \in 1..n : lots[l].qty <= lots[l].qty /\ l \in 1..(n + 1)
  BY <1>1 DEF LotDocs
<1>5. \A l \in 1..(n + 1) : l \notin 1..n => l = n + 1
  OBVIOUS
<1> QED BY <1>1, <1>2, <1>3, <1>4, <1>5 DEF LotsFall

LEMMA LotsRest ==
  ASSUME NEW n \in Nat, StockTyped(n), lots' = lots
  PROVE  LotsFall
<1>0. \A l \in DOMAIN lots : lots[l] \in LotDocs(n)
  BY DEF StockTyped
<1>1. \A l \in DOMAIN lots : lots[l].qty \in Int
  BY <1>0 DEF LotDocs
<1>2. \A l \in DOMAIN lots : lots[l].qty <= lots[l].qty
  BY <1>1
<1> QED BY <1>2 DEF LotsFall

LEMMA NothingMoved ==
  ASSUME NEW n \in Nat, StockTyped(n), lots' = lots, receipt' = receipt, transfer' = transfer
  PROVE  Declines
<1>1. LotsFall
  BY LotsRest
<1>2. \A x \in Documents : Document(x)' = Document(x)
  BY DEF Document
<1> QED BY <1>1, <1>2 DEF Declines, Keeps

LEMMA OneReceipt ==
  ASSUME NEW n \in Nat, ReceivingTyped(n), NEW r \in Receipts, NEW v, receipt' = [receipt EXCEPT ![r] = v],
         transfer' = transfer, LotsFall,
         Firm(r) => v.updatedAt >= receipt[r].updatedAt /\ (v.status = "cancelled" \/ Edits(r))
  PROVE  Declines
<1>1. receipt'[r] = v /\ \A x \in Receipts : x # r => receipt'[x] = receipt[x]
  BY DEF ReceivingTyped
<1>2. Document(r) = receipt[r] /\ Document(r)' = v
  BY <1>1 DEF Document
<1>3. \A x \in Documents : x # r => Document(x)' = Document(x)
  BY <1>1 DEF Document
<1>4. Firm(r) => Keeps(r)
  BY <1>2 DEF Keeps
<1> QED BY <1>3, <1>4 DEF Declines, Keeps

LEMMA OneTransfer ==
  ASSUME InventoryAssumption, NEW n \in Nat, TransferTyped(n), NEW t \in Transfers, NEW v, transfer' = [transfer EXCEPT ![t] = v],
         receipt' = receipt, LotsFall, Firm(t) => v.updatedAt >= transfer[t].updatedAt /\ v.status = "cancelled"
  PROVE  Declines
<1>1. transfer'[t] = v /\ \A x \in Transfers : x # t => transfer'[x] = transfer[x]
  BY DEF TransferTyped
<1>0. t \notin Receipts
  BY DEF InventoryAssumption, ReversalAssumption
<1>2. Document(t) = transfer[t] /\ Document(t)' = v
  BY <1>0, <1>1 DEF Document
<1>3. \A x \in Documents : x # t => Document(x)' = Document(x)
  BY <1>1 DEF Document, Documents
<1>4. Firm(t) => Keeps(t)
  BY <1>2 DEF Keeps
<1> QED BY <1>3, <1>4 DEF Declines, Keeps

(* Receipts.                                                               *)
LEMMA ConfirmReceivingDeclines ==
  ASSUME InventoryAssumption, NEW n \in Nat, BooksTyped(n), NEW r \in Receipts, NEW q \in Quantities,
         ConfirmReceiving(r, q), transfer' = transfer, Falls
  PROVE  Declines
<1> DEFINE v == [status |-> "completed", qty |-> q, lot |-> Len(lots) + 1, updatedAt |-> receipt[r].updatedAt + 1]
<1>1. StockTyped(n) /\ ReceivingTyped(n) /\ q \in Nat /\ q \in Int /\ Home \in Branches
  BY DEF BooksTyped, InventoryAssumption
<1>2. /\ lots' = Append(lots, Lot(Home, q, Len(lots) + 1)) /\ counter' = [counter EXCEPT ![Home] = @ + q]
      /\ receipt' = [receipt EXCEPT ![r] = v] /\ receipt[r].status \in {"none", "draft"}
  BY DEF ConfirmReceiving, MayBeConfirmed
<1>3. counter[Home] \in Int /\ counter'[Home] = counter[Home] + q /\ counter'[Home] <= counter[Home]
  BY <1>1, <1>2 DEF StockTyped, Falls
<1>4. q <= 0
  BY <1>1, <1>3
<1>5. LotsFall
  BY <1>1, <1>2, <1>4, AppendFalls
<1>6. ~Firm(r)
  BY <1>2 DEF Firm, Document
<1> HIDE DEF v
<1> QED BY <1>1, <1>2, <1>5, <1>6, OneReceipt

LEMMA NewDraftDeclines ==
  ASSUME InventoryAssumption, NEW n \in Nat, BooksTyped(n), NEW r \in Receipts, NEW q \in Quantities,
         NewDraft(r, q), transfer' = transfer
  PROVE  Declines
<1> DEFINE v == [NoReceipt EXCEPT !.status = "draft", !.qty = q, !.updatedAt = 1]
<1>1. StockTyped(n) /\ ReceivingTyped(n)
  BY DEF BooksTyped
<1>2. lots' = lots /\ receipt' = [receipt EXCEPT ![r] = v] /\ receipt[r].status = "none"
  BY DEF NewDraft, stockVars
<1>3. LotsFall
  BY <1>1, <1>2, LotsRest
<1>4. ~Firm(r)
  BY <1>2 DEF Firm, Document
<1> HIDE DEF v
<1> QED BY <1>1, <1>2, <1>3, <1>4, OneReceipt

(* A draft that is written over what was read is no document that stands.  *)
LEMMA WriteDraftDeclines ==
  ASSUME InventoryAssumption, NEW n \in Nat, BooksTyped(n), DesksSound, NEW d \in Desks, NEW q \in Quantities,
         WriteDraft(d, q), ~clobbered', transfer' = transfer
  PROVE  Declines
<1> DEFINE r == desk[d].of
           v == [status |-> "draft", qty |-> q, lot |-> NoLot, updatedAt |-> receipt[r].updatedAt + 1]
<1>1. StockTyped(n) /\ ReceivingTyped(n)
  BY DEF BooksTyped
<1>2. /\ desk[d].doing = "draft" /\ lots' = lots /\ receipt' = [receipt EXCEPT ![r] = v]
      /\ receipt[r] = desk[d].saw.receipt
  BY DEF WriteDraft, Leave, stockVars
<1>3. r \in Receipts /\ desk[d].saw.receipt.status = "draft"
  BY <1>2 DEF DesksSound
<1>4. LotsFall
  BY <1>1, <1>2, LotsRest
<1>5. ~Firm(r)
  BY <1>2, <1>3 DEF Firm, Document
<1> HIDE DEF v, r
<1> QED BY <1>1, <1>2, <1>3, <1>4, <1>5, OneReceipt

(* A total is written over what was read: with delta, or with less.        *)
LEMMA SetAsReadDeclines ==
  ASSUME InventoryAssumption, NEW n \in Nat, BooksTyped(n), NEW d \in Desks, desk[d].doing \in {"update", "cancel"},
         NEW delta \in Int, SetAsRead(d, delta), ~Outdated(d), Falls
  PROVE  LET r == desk[d].of IN
         /\ LotsFall /\ r \in Receipts /\ counter'[Home] = counter[Home] + delta /\ counter[Home] \in Int
         /\ desk[d].saw.receipt = receipt[r]
         /\ receipt[r].lot # NoLot => /\ lots'[receipt[r].lot].qty = lots[receipt[r].lot].qty + delta
                                      /\ lots[receipt[r].lot].qty \in Int
<1> DEFINE r == desk[d].of
           l == receipt[r].lot
<1>1. StockTyped(n) /\ ReceivingTyped(n) /\ Home \in Branches
  BY DEF BooksTyped, InventoryAssumption
<1>2. r \in Receipts /\ Snapshot(r) = desk[d].saw
  BY <1>1, WorkingDesk DEF Outdated
<1>3. desk[d].saw.receipt = receipt[r] /\ desk[d].saw.counter = counter[Home] /\ desk[d].saw.lotQty = LotQty(l)
  BY <1>2 DEF Snapshot
<1>4. l \in 0..n /\ counter[Home] \in Int
  BY <1>1, <1>2 DEF ReceivingTyped, ReceiptForms, StockTyped
<1>5. /\ counter' = [counter EXCEPT ![Home] = counter[Home] + delta]
      /\ lots' = IF l = NoLot THEN lots ELSE [lots EXCEPT ![l].qty = LotQty(l) + delta]
  BY <1>3 DEF SetAsRead
<1>6. counter'[Home] = counter[Home] + delta /\ counter'[Home] <= counter[Home]
  BY <1>1, <1>4, <1>5 DEF StockTyped, Falls
<1>7. delta <= 0
  BY <1>4, <1>6
<1> HIDE DEF l, r
<1>8. LotsFall /\ (l # NoLot => lots'[l].qty = lots[l].qty + delta /\ lots[l].qty \in Int)
  <2>1. CASE l = NoLot
    BY <1>1, <1>5, <2>1, LotsRest
  <2>2. CASE l # NoLot
    <3>1. l \in 1..n /\ DOMAIN lots = 1..n /\ lots \in Seq(LotDocs(n)) /\ \A k \in 1..n : lots[k] \in LotDocs(n)
      BY <1>1, <1>4, <2>2 DEF StockTyped, NoLot
    <3>2. lots[l] \in LotDocs(n)
      BY <3>1
    <3>3. lots[l].qty \in Int
      BY <3>2 DEF LotDocs
    <3>4. LotQty(l) = lots[l].qty
      BY <2>2 DEF LotQty
    <3> DEFINE k == lots[l].qty + delta
               w == [lots[l] EXCEPT !.qty = k]
    <3>5. w.qty = k /\ w.branch = lots[l].branch
      BY <3>2 DEF LotDocs
    <3>6. lots' = [lots EXCEPT ![l] = w]
      BY <1>5, <2>2, <3>4
    <3>7. k = lots[l].qty + delta /\ k <= lots[l].qty
      BY <1>7, <3>3
    <3> HIDE DEF k, w
    <3>8. DOMAIN lots' = 1..n /\ lots'[l] = w /\ \A j \in 1..n : j # l => lots'[j] = lots[j]
      BY <3>1, <3>6
    <3>9. \A j \in 1..n : lots[j].qty <= lots[j].qty
      BY <3>1 DEF LotDocs
    <3> QED BY <3>1, <3>3, <3>5, <3>7, <3>8, <3>9 DEF LotsFall
  <2> QED BY <2>1, <2>2
<1> QED BY <1>2, <1>3, <1>4, <1>6, <1>8 DEF l, r

LEMMA WriteUpdateDeclines ==
  ASSUME InventoryAssumption, NEW n \in Nat, BooksTyped(n), NEW d \in Desks, NEW q \in Quantities,
         WriteUpdate(d, q), ~clobbered', transfer' = transfer, Falls
  PROVE  Declines
<1> DEFINE r == desk[d].of
           m == desk[d].saw.receipt.qty
           v == Edited(receipt[r], q)
           delta == q - m
<1>1. StockTyped(n) /\ ReceivingTyped(n) /\ q \in Nat
  BY DEF BooksTyped, InventoryAssumption
<1>2. desk[d].doing = "update" /\ receipt' = [receipt EXCEPT ![r] = v] /\ ~Outdated(d) /\ SetAsRead(d, delta)
  BY DEF WriteUpdate, Leave
<1>3. m \in Nat /\ delta \in Int
  BY <1>1, <1>2, WorkingDesk
<1> HIDE DEF delta
<1>4. /\ LotsFall /\ r \in Receipts /\ counter'[Home] = counter[Home] + delta /\ counter[Home] \in Int
      /\ desk[d].saw.receipt = receipt[r]
      /\ receipt[r].lot # NoLot => /\ lots'[receipt[r].lot].qty = lots[receipt[r].lot].qty + delta
                                   /\ lots[receipt[r].lot].qty \in Int
  BY <1>2, <1>3, SetAsReadDeclines
<1>5. receipt[r] \in ReceiptForms(n)
  BY <1>1, <1>4 DEF ReceivingTyped
<1>6. v.qty = q /\ v.status = receipt[r].status /\ v.updatedAt = receipt[r].updatedAt + 1 /\ v.lot = receipt[r].lot
  BY <1>1, <1>5, WrittenReceipts
<1>7. receipt[r].updatedAt \in Nat /\ receipt[r].qty = m
  BY <1>4, <1>5 DEF ReceiptForms
<1> HIDE DEF v, m
<1>8. receipt'[r] = v
  BY <1>1, <1>2, <1>4 DEF ReceivingTyped
<1>9. counter'[Home] - q = counter[Home] - m
  BY <1>1, <1>3, <1>4 DEF delta
<1>10. receipt[r].lot # NoLot => lots'[receipt[r].lot].qty - q = lots[receipt[r].lot].qty - m
  BY <1>1, <1>3, <1>4 DEF delta
<1>11. Edits(r)
  BY <1>4, <1>6, <1>7, <1>8, <1>9, <1>10 DEF Edits
<1>12. v.updatedAt >= receipt[r].updatedAt
  BY <1>6, <1>7
<1> HIDE DEF r
<1> QED BY <1>1, <1>2, <1>4, <1>11, <1>12, OneReceipt

LEMMA WriteCancelDeclines ==
  ASSUME InventoryAssumption, NEW n \in Nat, BooksTyped(n), NEW d \in Desks,
         WriteCancel(d), ~clobbered', transfer' = transfer, Falls
  PROVE  Declines
<1> DEFINE r == desk[d].of
           v == Cancelled(receipt[r])
           delta == -desk[d].saw.receipt.qty
<1>1. StockTyped(n) /\ ReceivingTyped(n) /\ 0 \in Nat
  BY DEF BooksTyped
<1>2. desk[d].doing = "cancel" /\ receipt' = [receipt EXCEPT ![r] = v] /\ ~Outdated(d) /\ SetAsRead(d, delta)
  BY DEF WriteCancel, Leave
<1>3. desk[d].saw.receipt.qty \in Nat
  BY <1>1, <1>2, WorkingDesk
<1>4. delta \in Int
  BY <1>3
<1> HIDE DEF delta
<1>5. LotsFall /\ r \in Receipts
  BY <1>2, <1>4, SetAsReadDeclines
<1>6. receipt[r] \in ReceiptForms(n)
  BY <1>1, <1>5 DEF ReceivingTyped
<1>7. v.status = "cancelled" /\ v.updatedAt = receipt[r].updatedAt + 1 /\ receipt[r].updatedAt \in Nat
  <2>1. v.status = "cancelled" /\ v.updatedAt = receipt[r].updatedAt + 1
    BY <1>1, <1>6, WrittenReceipts
  <2>2. receipt[r].updatedAt \in Nat
    BY <1>6 DEF ReceiptForms
  <2> QED BY <2>1, <2>2
<1> HIDE DEF v
<1>8. v.updatedAt >= receipt[r].updatedAt
  BY <1>7
<1> HIDE DEF r
<1> QED BY <1>1, <1>2, <1>5, <1>7, <1>8, OneReceipt

LEMMA ReverseReceivingDeclines ==
  ASSUME InventoryAssumption, NEW n \in Nat, BooksTyped(n), NEW t, NEW r \in Receipts, NEW k, ReverseReceiving(t, r, k)
  PROVE  Declines
<1> DEFINE take == [l \in {receipt[r].lot} |-> receipt[r].qty]
           v == Cancelled(receipt[r])
<1>1. StockTyped(n) /\ ReceivingTyped(n) /\ 0 \in Nat
  BY DEF BooksTyped
<1>2. receipt[r] \in ReceiptForms(n) /\ receipt[r].qty \in Nat /\ receipt[r].updatedAt \in Nat
  BY <1>1 DEF ReceivingTyped, ReceiptForms
<1>3. lots' = CutLots(take) /\ receipt' = [receipt EXCEPT ![r] = v] /\ transfer' = transfer
  BY DEF ReverseReceiving, transferVars
<1>4. LotsFall
  <2>1. \A l \in DOMAIN take : take[l] \in Nat
    BY <1>2
  <2> HIDE DEF take
  <2> QED BY <1>1, <1>3, <2>1, OnlyCutFalls
<1>5. v.status = "cancelled" /\ v.updatedAt = receipt[r].updatedAt + 1
  BY <1>1, <1>2, WrittenReceipts
<1> HIDE DEF v
<1>6. v.updatedAt >= receipt[r].updatedAt
  BY <1>2, <1>5
<1> QED BY <1>1, <1>3, <1>4, <1>5, <1>6, OneReceipt

(* Sales, transfers and counts.                                            *)
LEMMA SellDeclines ==
  ASSUME InventoryAssumption, NEW n \in Nat, BooksTyped(n), NEW b \in Branches, Sell(b)
  PROVE  Declines
<1>1. StockTyped(n) /\ 1 \in Nat
  BY DEF BooksTyped
<1>2. Active(b) \in SUBSET (1..n) /\ \A l \in Active(b) : lots[l].qty > 0
  BY <1>1, Undepleted
<1>3. lots' = CutLots(FifoTake(Active(b), 1)) /\ receipt' = receipt /\ transfer' = transfer
  BY DEF Sell, receivingVars, transferVars
<1>4. \A l \in DOMAIN FifoTake(Active(b), 1) : FifoTake(Active(b), 1)[l] \in Nat
  BY <1>1, <1>2, FifoCuts
<1>5. LotsFall
  BY <1>1, <1>3, <1>4, OnlyCutFalls
<1>6. \A x \in Documents : Document(x)' = Document(x)
  BY <1>3 DEF Document
<1> QED BY <1>5, <1>6 DEF Declines, Keeps

LEMMA CarriedFalls ==
  ASSUME NEW n \in Nat, StockTyped(n), NEW to, NEW refs \in SUBSET (1..n), \A l \in refs : lots[l].qty > 0, NEW q \in Nat,
         NEW details \in Seq(DetailForms(n)), lots' = CutLots(FifoTake(refs, q)) \o LotsAt(to, details),
         to # To \/ AddsUp(details) = 0
  PROVE  LotsFall
<1> DEFINE more == LotsAt(to, details)
           S == {more[i] : i \in DOMAIN details}
<1>1. \A l \in DOMAIN FifoTake(refs, q) : FifoTake(refs, q)[l] \in Nat
  BY FifoCuts
<1>2. DOMAIN details = 1..Len(details) /\ Len(details) \in Nat
  OBVIOUS
<1>3. DOMAIN more = DOMAIN details
  BY DEF LotsAt
<1>4. more \in Seq(S)
  <2>1. more \in [1..Len(details) -> S]
    BY <1>2 DEF LotsAt
  <2> HIDE DEF more, S
  <2> QED BY <1>2, <2>1
<1>5. \A i \in DOMAIN details : more[i].branch = to /\ more[i].qty = details[i].qty
  BY DEF LotsAt, Lot
<1>6. AddsUp(details) = 0 => \A i \in DOMAIN details : details[i].qty <= 0
  <2> SUFFICES ASSUME AddsUp(details) = 0, NEW i \in DOMAIN details PROVE details[i].qty <= 0
    OBVIOUS
  <2> DEFINE f == [j \in DOMAIN details |-> details[j].qty]
  <2>1. \A j \in DOMAIN details : details[j] \in DetailForms(n)
    BY <1>2
  <2>2. \A j \in DOMAIN details : details[j].qty \in Nat /\ details[j].qty \in Int
    BY <2>1 DEF DetailForms
  <2>3. IsFiniteSet(DOMAIN details)
    BY <1>2, FS_Interval
  <2>4. AddsUp(details) = SumFunctionOnSet(f, DOMAIN details)
    BY <2>2, <2>3, AddsUpIsSum
  <2>5. (\A j \in DOMAIN details : f[j] \in Nat) /\ f[i] = details[i].qty
    BY <2>2
  <2> HIDE DEF f
  <2>6. f[i] <= SumFunctionOnSet(f, DOMAIN details)
    BY <2>3, <2>5, SumNat
  <2> QED BY <2>4, <2>5, <2>6
<1>7. \A i \in DOMAIN more : more[i].branch # To \/ more[i].qty <= 0
  BY <1>3, <1>5, <1>6
<1> HIDE DEF S
<1> QED BY <1>1, <1>4, <1>7, CutFalls

LEMMA ConfirmTransferDeclines ==
  ASSUME InventoryAssumption, NEW n \in Nat, BooksTyped(n), NEW k \in Clerks, NEW q \in Amounts,
         ConfirmTransfer(k, q), receipt' = receipt, Falls
  PROVE  Declines
<1> DEFINE refs == Listed(k)
           details == Details(FifoTake(refs, q), Lacking(refs, q))
           x == plan[k].of
           v == [status |-> "completed", qty |-> q, details |-> details, updatedAt |-> 1]
<1>1. StockTyped(n) /\ TransferTyped(n) /\ q \in Nat /\ q \in Int /\ From \in Branches /\ To \in Branches
  BY DEF BooksTyped, InventoryAssumption
<1>2. /\ plan[k].to = "confirm" /\ lots' = CutLots(FifoTake(refs, q)) \o LotsAt(To, details)
      /\ counter' = Shift(From, To, q) /\ transfer' = [transfer EXCEPT ![x] = v] /\ transfer[x].status = "none"
  BY DEF ConfirmTransfer
<1>3. x \in Transfers /\ plan[k].refs \in SUBSET (1..n)
  BY <1>1, <1>2, PlanInHand
<1>4. refs \in SUBSET (1..n) /\ \A l \in refs : lots[l].qty > 0
  BY <1>1, <1>3, Undepleted DEF Listed
<1> HIDE DEF refs
<1>5. details \in Seq(DetailForms(n)) /\ AddsUp(details) = q
  BY <1>1, <1>4, FifoTyped
<1> HIDE DEF details, x
<1>6. From # To
  BY <1>3 DEF InventoryAssumption
<1>7. counter[To] \in Int /\ counter'[To] = counter[To] + q /\ counter'[To] <= counter[To]
  BY <1>1, <1>2, <1>6 DEF StockTyped, Shift, Falls
<1>8. q = 0
  BY <1>1, <1>7
<1>9. LotsFall
  BY <1>1, <1>2, <1>4, <1>5, <1>8, CarriedFalls
<1>10. ~Firm(x)
  BY <1>2, <1>3 DEF Firm, Document, InventoryAssumption, ReversalAssumption
<1> HIDE DEF v
<1> QED BY <1>1, <1>2, <1>3, <1>9, <1>10, OneTransfer

LEMMA BackDeclines ==
  ASSUME InventoryAssumption, NEW n \in Nat, BooksTyped(n), NEW x \in Transfers, NEW refs \in SUBSET (1..n),
         \A l \in refs : lots[l].qty > 0,
         lots' = CutLots(FifoTake(refs, transfer[x].qty)) \o LotsAt(From, transfer[x].details),
         transfer' = [transfer EXCEPT ![x] = Cancelled(@)], receipt' = receipt
  PROVE  Declines
<1> DEFINE v == Cancelled(transfer[x])
<1>1. StockTyped(n) /\ TransferTyped(n) /\ From # To
  BY DEF BooksTyped, InventoryAssumption
<1>2. transfer[x] \in TransferForms(n)
  BY <1>1 DEF TransferTyped
<1>3. transfer[x].qty \in Nat /\ transfer[x].details \in Seq(DetailForms(n)) /\ transfer[x].updatedAt \in Nat
  BY <1>2 DEF TransferForms
<1>4. v.status = "cancelled" /\ v.updatedAt = transfer[x].updatedAt + 1
  BY <1>2, CancelledTransfers
<1>5. LotsFall
  BY <1>1, <1>3, CarriedFalls
<1>6. transfer' = [transfer EXCEPT ![x] = v]
  OBVIOUS
<1> HIDE DEF v
<1>7. v.updatedAt >= transfer[x].updatedAt
  BY <1>3, <1>4
<1> QED BY <1>1, <1>4, <1>5, <1>6, <1>7, OneTransfer

LEMMA CancelTransferDeclines ==
  ASSUME InventoryAssumption, NEW n \in Nat, BooksTyped(n), NEW k \in Clerks, CancelTransfer(k), receipt' = receipt
  PROVE  Declines
<1>1. StockTyped(n) /\ TransferTyped(n) /\ plan[k].to = "cancel"
  BY DEF BooksTyped, CancelTransfer
<1>2. plan[k].of \in Transfers /\ plan[k].refs \in SUBSET (1..n)
  BY <1>1, PlanInHand
<1>3. Listed(k) \in SUBSET (1..n) /\ \A l \in Listed(k) : lots[l].qty > 0
  BY <1>1, <1>2, Undepleted DEF Listed
<1>4. /\ lots' = CutLots(FifoTake(Listed(k), transfer[plan[k].of].qty)) \o LotsAt(From, transfer[plan[k].of].details)
      /\ transfer' = [transfer EXCEPT ![plan[k].of] = Cancelled(@)]
  BY DEF CancelTransfer
<1> QED BY <1>2, <1>3, <1>4, BackDeclines

LEMMA ReverseTransferDeclines ==
  ASSUME InventoryAssumption, NEW n \in Nat, BooksTyped(n), NEW t, NEW x \in Transfers, NEW k, ReverseTransfer(t, x, k)
  PROVE  Declines
<1>1. /\ lots' = CutLots(FifoTake(Active(To), transfer[x].qty)) \o LotsAt(From, transfer[x].details)
      /\ transfer' = [transfer EXCEPT ![x] = Cancelled(@)] /\ receipt' = receipt
  BY DEF ReverseTransfer, receivingVars
<1>2. Active(To) \in SUBSET (1..n) /\ \A l \in Active(To) : lots[l].qty > 0
  BY Undepleted DEF BooksTyped, InventoryAssumption
<1> QED BY <1>1, <1>2, BackDeclines

LEMMA MoveStockDeclines ==
  ASSUME InventoryAssumption, NEW n \in Nat, StockTyped(n), NEW b \in Branches, NEW i \in Int, NEW refs \in SUBSET (1..n),
         \A l \in refs : lots[l].qty > 0, MoveStock(b, i, refs), receipt' = receipt, transfer' = transfer, Falls
  PROVE  Declines
<1>1. counter[b] \in Int /\ counter'[b] = counter[b] + i /\ counter'[b] <= counter[b]
  BY DEF MoveStock, StockTyped, Falls
<1>2. i <= 0
  BY <1>1
<1>3. LotsFall
  <2>1. CASE i < 0
    <3> DEFINE j == -i
    <3>1. lots' = CutLots(FifoTake(refs, j)) /\ j \in Nat
      BY <2>1 DEF MoveStock
    <3> HIDE DEF j
    <3>2. \A l \in DOMAIN FifoTake(refs, j) : FifoTake(refs, j)[l] \in Nat
      BY <3>1, FifoCuts
    <3> QED BY <3>1, <3>2, OnlyCutFalls
  <2>2. CASE ~(i < 0)
    BY <1>2, <2>2, AppendFalls DEF MoveStock
  <2> QED BY <2>1, <2>2
<1>4. \A x \in Documents : Document(x)' = Document(x)
  BY DEF Document
<1> QED BY <1>3, <1>4 DEF Declines, Keeps

LEMMA AdjustmentDeclines ==
  ASSUME InventoryAssumption, NEW n \in Nat, BooksTyped(n), receipt' = receipt, Falls,
         \/ \E k \in Clerks, i \in Differences : ConfirmAdjustment(k, i)
         \/ \E d \in Discrepancies : ResolveDiscrepancy(d)
  PROVE  Declines
<1>1. StockTyped(n) /\ TransferTyped(n)
  BY DEF BooksTyped
<1>2. ASSUME NEW k \in Clerks, NEW i \in Differences, ConfirmAdjustment(k, i) PROVE Declines
  <2> DEFINE b == plan[k].of
  <2>1. plan[k].to = "adjust" /\ MoveStock(b, i, Listed(k)) /\ transfer' = transfer /\ i \in Int
    BY <1>2 DEF ConfirmAdjustment, InventoryAssumption
  <2>2. b \in Branches /\ plan[k].refs \in SUBSET (1..n)
    BY <1>1, <2>1, PlanInHand
  <2>3. Listed(k) \in SUBSET (1..n) /\ \A l \in Listed(k) : lots[l].qty > 0
    BY <1>1, <2>2, Undepleted DEF Listed
  <2> QED BY <1>1, <2>1, <2>2, <2>3, MoveStockDeclines
<1>3. ASSUME NEW d \in Discrepancies, ResolveDiscrepancy(d) PROVE Declines
  <2> DEFINE i == discrepancy[d].difference
  <2>1. MoveStock(To, i, Active(To)) /\ transfer' = transfer /\ i \in Int /\ To \in Branches
    BY <1>1, <1>3 DEF ResolveDiscrepancy, InventoryAssumption, TransferTyped, DiscrepancyDocs
  <2>2. Active(To) \in SUBSET (1..n) /\ \A l \in Active(To) : lots[l].qty > 0
    BY <1>1, <2>1, Undepleted
  <2> QED BY <1>1, <2>1, <2>2, MoveStockDeclines
<1> QED BY <1>2, <1>3

(* Every step declines, unless a counter grows or a screen writes over     *)
(* what it had not read.                                                   *)
LEMMA StepDeclines ==
  ASSUME InventoryAssumption, NEW n \in Nat, BooksTyped(n), DesksSound, [InvNext]_invVars, Falls, ~clobbered'
  PROVE  Declines
<1>1. StockTyped(n)
  BY DEF BooksTyped
<1>2. CASE lots' = lots /\ receipt' = receipt /\ transfer' = transfer
  BY <1>1, <1>2, NothingMoved
<1>3. ASSUME NEW b \in Branches, Sell(b) PROVE Declines
  BY <1>3, SellDeclines
<1>4. CASE ReceivingNext /\ UNCHANGED transferVars
  <2>1. transfer' = transfer
    BY <1>4 DEF transferVars
  <2>2. ASSUME NEW d \in Desks, NEW r \in Receipts, ReadForDraft(d, r) \/ ReadForUpdate(d, r) \/ ReadForCancel(d, r)
        PROVE  lots' = lots /\ receipt' = receipt /\ transfer' = transfer
    BY <2>1, <2>2 DEF ReadForDraft, ReadForUpdate, ReadForCancel, Read, stockVars
  <2> QED BY <1>2, <1>4, <2>1, <2>2, ConfirmReceivingDeclines, NewDraftDeclines, WriteDraftDeclines, WriteUpdateDeclines,
             WriteCancelDeclines DEF ReceivingNext
<1>5. CASE TransferNext /\ UNCHANGED receivingVars
  <2>1. receipt' = receipt
    BY <1>5 DEF receivingVars
  <2>2. ASSUME NEW k \in Clerks,
               \/ \E t \in Transfers : ListToConfirm(k, t) \/ ListToCancel(k, t)
               \/ \E b \in Branches : ListToAdjust(k, b)
               \/ GiveUp(k)
        PROVE  lots' = lots /\ receipt' = receipt /\ transfer' = transfer
    BY <2>1, <2>2 DEF ListToConfirm, ListToCancel, ListToAdjust, List, GiveUp, stockVars
  <2>3. ASSUME NEW d \in Discrepancies, NEW t \in Transfers, NEW i \in Differences, ReportDiscrepancy(d, t, i)
        PROVE  lots' = lots /\ receipt' = receipt /\ transfer' = transfer
    BY <2>1, <2>3 DEF ReportDiscrepancy, stockVars
  <2> QED BY <1>2, <1>5, <2>1, <2>2, <2>3, ConfirmTransferDeclines, CancelTransferDeclines, AdjustmentDeclines DEF TransferNext
<1>6. CASE ReversalNext
  <2>1. CASE UNCHANGED <<stockVars, receivingVars, transferVars>>
    BY <1>2, <2>1 DEF stockVars, receivingVars, transferVars
  <2> QED BY <1>6, <2>1, ReverseReceivingDeclines, ReverseTransferDeclines DEF ReversalNext, CreateOfflineReversal,
             ClaimForSync, ResolveManualReview, Lose, ApplyServerResult, AnswerFromLedger, Reject
<1>7. CASE UNCHANGED invVars
  BY <1>2, <1>7 DEF invVars, stockVars, receivingVars, transferVars
<1> QED BY <1>3, <1>4, <1>5, <1>6, <1>7 DEF InvNext, InventoryAssumption

LEMMA SumsFall ==
  ASSUME NEW S, IsFiniteSet(S), NEW T \in SUBSET S, NEW f, \A x \in S : f[x] \in Nat,
         NEW g, \A x \in T : g[x] \in Nat /\ g[x] <= f[x]
  PROVE  SumFunctionOnSet(g, T) <= SumFunctionOnSet(f, S)
<1> DEFINE h == [x \in S |-> IF x \in T THEN g[x] ELSE 0]
           d == [x \in S |-> f[x] - h[x]]
<1>1. \A x \in S : h[x] \in Int /\ d[x] \in Nat /\ d[x] \in Int /\ f[x] = h[x] + d[x]
  OBVIOUS
<1>2. (\A x \in T : h[x] \in Int /\ g[x] = h[x]) /\ \A x \in S \ T : h[x] = 0
  BY <1>1
<1>3. IsFiniteSet(T)
  BY FS_Subset
<1> HIDE DEF h, d
<1>4. /\ SumFunctionOnSet(h, S) \in Int /\ SumFunctionOnSet(d, S) \in Int
      /\ SumFunctionOnSet(f, S) = SumFunctionOnSet(h, S) + SumFunctionOnSet(d, S)
  BY <1>1, SumAdd
<1>5. SumFunctionOnSet(d, S) \in Nat
  BY <1>1, SumNat
<1>6. SumFunctionOnSet(h, S) = SumFunctionOnSet(h, T)
  BY <1>1, <1>2, SumSupport
<1>7. SumFunctionOnSet(g, T) = SumFunctionOnSet(h, T)
  BY <1>2, <1>3, SumSame
<1> QED BY <1>4, <1>5, <1>6, <1>7

LEMMA LotsAfter ==
  ASSUME NEW m \in Nat, StockTyped(m)'
  PROVE  DOMAIN lots' = 1..m /\ \A l \in 1..m : lots'[l] \in LotDocs(m)
<1>1. lots' \in Seq(LotDocs(m)) /\ Len(lots') = m
  BY DEF StockTyped, LotDocs
<1> QED BY <1>1

LEMMA UnitsFall ==
  ASSUME InventoryAssumption, NEW n \in Nat, StockTyped(n), NEW m \in Nat, StockTyped(m)', LotsFall
  PROVE  Units(Active(To))' <= Units(Active(To)) /\ Units(Active(To)) \in Nat /\ Units(Active(To))' \in Nat
<1> DEFINE A == {l \in DOMAIN lots : lots[l].branch = To /\ lots[l].qty > 0}
           B == {l \in DOMAIN lots' : lots'[l].branch = To /\ lots'[l].qty > 0}
           f == [l \in A |-> lots[l].qty]
           g == [l \in B |-> lots'[l].qty]
<1>1. DOMAIN lots = 1..n /\ DOMAIN lots' = 1..m /\ (\A l \in 1..n : lots[l] \in LotDocs(n)) /\ \A l \in 1..m : lots'[l] \in LotDocs(m)
  <2>1. lots \in Seq(LotDocs(n)) /\ Len(lots) = n
    BY DEF StockTyped
  <2>2. DOMAIN lots = 1..n /\ \A l \in 1..n : lots[l] \in LotDocs(n)
    BY <2>1
  <2> QED BY <2>2, LotsAfter
<1>2. \A l \in 1..n : lots[l].qty \in Int
  BY <1>1 DEF LotDocs
<1>3. \A l \in 1..m : lots'[l].qty \in Int
  BY <1>1 DEF LotDocs
<1>4. IsFiniteSet(1..n) /\ IsFiniteSet(1..m)
  BY FS_Interval
<1>5. IsFiniteSet(A) /\ IsFiniteSet(B)
  BY <1>1, <1>4, FS_Subset
<1>6. /\ \A l \in A : f[l] \in Nat /\ lots[l].qty \in Int
      /\ \A l \in B : g[l] \in Nat /\ lots'[l].qty \in Int
  BY <1>1, <1>2, <1>3
<1>7. B \in SUBSET A /\ \A l \in B : g[l] <= f[l]
  <2> SUFFICES ASSUME NEW l \in B PROVE l \in A /\ g[l] <= f[l]
    OBVIOUS
  <2>1. l \in DOMAIN lots /\ lots'[l].branch = lots[l].branch /\ lots'[l].qty <= lots[l].qty
    BY <1>1, <1>3 DEF LotsFall
  <2>2. lots[l].qty > 0
    BY <1>1, <1>2, <1>3, <2>1
  <2> QED BY <2>1, <2>2
<1>8. Units(Active(To)) = SumFunctionOnSet(f, A)
  <2>1. Units(A) = SumFunctionOnSet(f, A)
    BY <1>5, <1>6, UnitsAreSum
  <2> QED BY <2>1 DEF Active
<1>9. Units(Active(To))' = SumFunctionOnSet(g, B)
  <2>1. Units(Active(To))' = (CHOOSE F : QtySums(F, lots', SUBSET B))[B]
    BY DEF Units, Active, MapThenSumSet, MapThenFoldSet, QtySums
  <2>2. (CHOOSE F : QtySums(F, lots', SUBSET B))[B] = SumFunctionOnSet(g, B)
    BY <1>5, <1>6, QtySum
  <2> QED BY <2>1, <2>2
<1> HIDE DEF A, B, f, g
<1>10. SumFunctionOnSet(g, B) <= SumFunctionOnSet(f, A)
  BY <1>5, <1>6, <1>7, SumsFall
<1> QED BY <1>5, <1>6, <1>8, <1>9, <1>10, SumNat

(* What is refused stays refused.                                          *)
LEMMA RefusalLasts ==
  ASSUME InventoryAssumption, NEW n \in Nat, BooksTyped(n), NEW m \in Nat, BooksTyped(m)', ReversalTypeOK, Falls, Declines,
         NEW t \in Terminals, NEW x \in Documents, Firm(x), intent'[t][x].observed = intent[t][x].observed, Admits(t, x)'
  PROVE  Admits(t, x)
<1>1. StockTyped(n) /\ StockTyped(m)' /\ ReceivingTyped(n) /\ TransferTyped(n) /\ LotsFall /\ Keeps(x)
  BY DEF BooksTyped, Declines
<1>2. /\ Document(x)'.status = "completed" /\ ~IsStale(t, x)' /\ StockCovers(x)' /\ LotsCover(x)'
  BY DEF Admits, Reversible
<1>3. Document(x)' = Document(x) \/ (Document(x)'.updatedAt >= Document(x).updatedAt /\ Edits(x))
  <2>1. Document(x)'.status # "cancelled"
    BY <1>2
  <2>2. Keeps(x)
    BY <1>1
  <2> QED BY <2>1, <2>2, Zenon DEF Keeps
<1>4. Reversible(x)
  BY <1>2, <1>3 DEF Edits, Document, Reversible
<1>5. ~IsStale(t, x)
  <2>1. /\ intent[t][x].observed \in Nat /\ Document(x).updatedAt \in Nat
    BY DocumentsTyped DEF ReversalTypeOK
  <2>2. Document(x)'.updatedAt \in Nat
    <3>1. CASE x \in Receipts
      BY <3>1 DEF BooksTyped, ReceivingTyped, ReceiptForms, Document
    <3>2. CASE x \notin Receipts
      <4>1. transfer'[x] \in TransferForms(m)'
        BY <3>2 DEF BooksTyped, TransferTyped, Documents
      <4> QED BY <3>2, <4>1 DEF TransferForms, Document
    <3> QED BY <3>1, <3>2
  <2>3. Document(x)'.updatedAt >= Document(x).updatedAt
    BY <1>3, <2>1
  <2>4. intent[t][x].observed = Unobserved \/ ~(Document(x)'.updatedAt > intent[t][x].observed)
    BY <1>2 DEF IsStale
  <2> QED BY <2>1, <2>2, <2>3, <2>4 DEF IsStale
<1>6. CASE x \in Receipts
  <2> DEFINE l == receipt[x].lot
  <2>1. /\ counter'[Home] >= receipt'[x].qty /\ receipt'[x].lot # NoLot
        /\ lots'[receipt'[x].lot].qty >= receipt'[x].qty
    BY <1>2, <1>6 DEF StockCovers, LotsCover, LotQty, Document
  <2>2. /\ receipt'[x].lot = l /\ Home \in Branches
        /\ receipt'[x].qty = receipt[x].qty \/ Edits(x)
    BY <1>3, <1>6 DEF Document, Edits, InventoryAssumption
  <2>3. receipt[x] \in ReceiptForms(n) /\ receipt'[x].qty \in Nat
    BY <1>1, <1>6 DEF ReceivingTyped, ReceiptForms, BooksTyped
  <2>4. receipt[x].qty \in Nat /\ l \in 1..n
    BY <2>1, <2>2, <2>3 DEF ReceiptForms, NoLot
  <2>5. counter[Home] \in Int /\ counter'[Home] \in Int /\ counter'[Home] <= counter[Home]
    BY <1>1, <2>2 DEF StockTyped, Falls
  <2>6. lots[l].qty \in Int /\ l \in DOMAIN lots /\ l \in DOMAIN lots' /\ lots'[l].qty <= lots[l].qty
    <3>1. l \in DOMAIN lots /\ lots[l] \in LotDocs(n)
      BY <1>1, <2>4 DEF StockTyped
    <3> QED BY <1>1, <3>1 DEF LotDocs, LotsFall
  <2>7. lots'[l].qty \in Int
    <3>1. lots'[l] \in LotDocs(m)
      BY <1>1, <2>6, LotsAfter
    <3> QED BY <3>1 DEF LotDocs
  <2>8. Edits(x) => /\ counter'[Home] - receipt'[x].qty = counter[Home] - receipt[x].qty
                    /\ lots'[l].qty - receipt'[x].qty = lots[l].qty - receipt[x].qty
    BY <2>1, <2>2 DEF Edits
  <2> HIDE DEF l
  <2>9. counter[Home] >= receipt[x].qty /\ lots[l].qty >= receipt[x].qty
    BY <2>1, <2>2, <2>3, <2>4, <2>5, <2>6, <2>7, <2>8
  <2> QED BY <1>4, <1>5, <1>6, <2>1, <2>2, <2>9 DEF Admits, StockCovers, LotsCover, LotQty, Document, l
<1>7. CASE x \notin Receipts
  <2>1. x \in Transfers /\ transfer'[x] = transfer[x]
    BY <1>3, <1>7 DEF Edits, Document, Documents
  <2>2. counter'[To] >= transfer[x].qty /\ Units(Active(To))' >= transfer[x].qty
    BY <1>2, <1>7, <2>1 DEF StockCovers, LotsCover, Document
  <2>3. transfer[x].qty \in Nat /\ counter[To] \in Int /\ counter'[To] \in Int /\ counter'[To] <= counter[To]
    <3>1. transfer[x] \in TransferForms(n)
      BY <1>1, <2>1 DEF TransferTyped
    <3>2. To \in Branches
      BY DEF InventoryAssumption
    <3> QED BY <1>1, <3>1, <3>2 DEF TransferForms, StockTyped, Falls
  <2>4. Units(Active(To))' <= Units(Active(To)) /\ Units(Active(To)) \in Nat /\ Units(Active(To))' \in Nat
    BY <1>1, UnitsFall
  <2>5. counter[To] >= transfer[x].qty /\ Units(Active(To)) >= transfer[x].qty
    BY <2>2, <2>3, <2>4
  <2> QED BY <1>4, <1>5, <1>7, <2>5 DEF Admits, StockCovers, LotsCover, Document
<1> QED BY <1>6, <1>7

HasAsked(t, x) == intent[t][x].status # "none"
Refused(t, x) == \/ intent[t][x].status \in {"manual_review_required", "manual_review_resolved"}
                 \/ \E n \in Attempts : request[t][x][n] \in {"rejected", "conflict"}
RefusalStands(t, x) == IF ledger[x] = Nobody THEN ~Admits(t, x) ELSE ledger[x] # t
RequestsAsked == \A t \in Terminals, x \in Documents, n \in Attempts : request[t][x][n] # "none" => HasAsked(t, x)
(* A document is asked about when it is completed, and a refusal is given  *)
(* for another's reversal or for what does not come back.                  *)
RefusalsStand == \A t \in Terminals, x \in Documents :
  /\ HasAsked(t, x) => Firm(x)
  /\ Refused(t, x) => RefusalStands(t, x)
RefusalInv == RequestsAsked /\ (restocked \/ clobbered \/ RefusalsStand)

(* What a step does to the queues.                                         *)
QueueMoves ==
  /\ \A t \in Terminals, x \in Documents :
       /\ HasAsked(t, x) => HasAsked(t, x)' /\ intent'[t][x].observed = intent[t][x].observed
       /\ HasAsked(t, x)' /\ ~HasAsked(t, x) => Document(x).status = "completed" /\ Document(x)' = Document(x)
       /\ Refused(t, x)' => Refused(t, x) \/ RefusalStands(t, x)'
  /\ RequestsAsked'

LEMMA QueuesRest ==
  ASSUME RequestsAsked, intent' = intent, request' = request
  PROVE  QueueMoves
BY DEF QueueMoves, RequestsAsked, HasAsked, Refused

LEMMA OneQueueMoves ==
  ASSUME ReversalTypeOK, RequestsAsked, NEW t \in Terminals, NEW x \in Documents, NEW i \in IntentForms, SetIntent(t, x, i),
         i.status # "none", HasAsked(t, x) => i.observed = intent[t][x].observed,
         ~HasAsked(t, x) => Document(x).status = "completed" /\ Document(x)' = Document(x),
         i.status \in {"manual_review_required", "manual_review_resolved"} => Refused(t, x),
         \A u \in Terminals, y \in Documents, n \in Attempts :
           \/ request'[u][y][n] = request[u][y][n]
           \/ u = t /\ y = x /\ request'[u][y][n] \notin {"rejected", "conflict"}
  PROVE  QueueMoves
<1>1. /\ intent'[t][x] = i
      /\ \A u \in Terminals, y \in Documents : u # t \/ y # x => intent'[u][y] = intent[u][y]
  <2>1. intent \in [Terminals -> [Documents -> IntentForms]]
    BY DEF ReversalTypeOK, IntentForms
  <2> QED BY <2>1, QueueWritten DEF SetIntent
<1>2. RequestsAsked'
  BY <1>1 DEF RequestsAsked, HasAsked
<1>3. ASSUME NEW u \in Terminals, NEW y \in Documents, Refused(u, y)' PROVE Refused(u, y)
  <2>1. CASE u = t /\ y = x
    <3>1. CASE \E n \in Attempts : request'[u][y][n] \in {"rejected", "conflict"}
      BY <3>1 DEF Refused
    <3>2. CASE i.status \in {"manual_review_required", "manual_review_resolved"}
      BY <2>1, <3>2
    <3> QED BY <1>1, <1>3, <2>1, <3>1, <3>2 DEF Refused
  <2>2. CASE ~(u = t /\ y = x)
    BY <1>1, <1>3, <2>2 DEF Refused
  <2> QED BY <2>1, <2>2
<1>4. ASSUME NEW u \in Terminals, NEW y \in Documents
      PROVE  /\ HasAsked(u, y) => HasAsked(u, y)' /\ intent'[u][y].observed = intent[u][y].observed
             /\ HasAsked(u, y)' /\ ~HasAsked(u, y) => Document(y).status = "completed" /\ Document(y)' = Document(y)
  BY <1>1 DEF HasAsked
<1> QED BY <1>2, <1>3, <1>4 DEF QueueMoves

LEMMA OneAnswerMoves ==
  ASSUME ReversalTypeOK, RequestsAsked, NEW t \in Terminals, NEW x \in Documents, NEW n \in Attempts, NEW a \in Answers,
         intent' = intent, request' = [request EXCEPT ![t][x][n] = a], request[t][x][n] # "none",
         a \in {"rejected", "conflict"} => RefusalStands(t, x)'
  PROVE  QueueMoves
<1>1. /\ request'[t][x][n] = a
      /\ \A u \in Terminals, y \in Documents, m \in Attempts : u # t \/ y # x \/ m # n => request'[u][y][m] = request[u][y][m]
  <2>1. request \in [Terminals -> [Documents -> [Attempts -> Answers]]]
    BY DEF ReversalTypeOK
  <2> QED BY <2>1, RequestWritten
<1>2. RequestsAsked'
  BY <1>1 DEF RequestsAsked, HasAsked
<1>3. ASSUME NEW u \in Terminals, NEW y \in Documents, Refused(u, y)' PROVE Refused(u, y) \/ RefusalStands(u, y)'
  <2>1. CASE u = t /\ y = x
    BY <1>1, <1>3, <2>1 DEF Refused
  <2>2. CASE ~(u = t /\ y = x)
    BY <1>1, <1>3, <2>2 DEF Refused
  <2> QED BY <2>1, <2>2
<1> QED BY <1>2, <1>3 DEF QueueMoves, HasAsked

LEMMA SameStand ==
  ASSUME UNCHANGED <<stockVars, receivingVars, transferVars>>, intent' = intent, ledger' = ledger, NEW t, NEW x
  PROVE  RefusalStands(t, x)' = RefusalStands(t, x)
<1> DEFINE A == {l \in DOMAIN lots : lots[l].branch = To /\ lots[l].qty > 0}
           B == {l \in DOMAIN lots' : lots'[l].branch = To /\ lots'[l].qty > 0}
<1>1. /\ lots' = lots /\ counter' = counter /\ receipt' = receipt /\ transfer' = transfer
      /\ intent' = intent /\ ledger' = ledger
  BY DEF stockVars, receivingVars, transferVars
<1>2. Units(Active(To)) = (CHOOSE F : QtySums(F, lots, SUBSET A))[A]
  BY DEF Units, Active, MapThenSumSet, MapThenFoldSet, QtySums
<1>3. Units(Active(To))' = (CHOOSE F : QtySums(F, lots', SUBSET B))[B]
  BY DEF Units, Active, MapThenSumSet, MapThenFoldSet, QtySums
<1>4. Units(Active(To))' = Units(Active(To))
  BY <1>1, <1>2, <1>3
<1>5. /\ IsStale(t, x)' = IsStale(t, x) /\ StockCovers(x)' = StockCovers(x) /\ Reversible(x)' = Reversible(x)
  BY <1>1 DEF IsStale, StockCovers, Reversible, Document
<1>6. LotsCover(x)' = LotsCover(x)
  BY <1>1, <1>4 DEF LotsCover, LotQty
<1> QED BY <1>1, <1>5, <1>6 DEF RefusalStands, Admits

LEMMA QueuesMove ==
  ASSUME InventoryAssumption, NEW n \in Nat, BooksTyped(n), ReversalTypeOK, RequestsAsked, ReversalNext
  PROVE  QueueMoves
<1>1. /\ intent \in [Terminals -> [Documents -> IntentForms]]
      /\ request \in [Terminals -> [Documents -> [Attempts -> Answers]]] /\ MaxAttempts \in Nat
  BY DEF ReversalTypeOK, IntentForms, InventoryAssumption, ReversalAssumption
<1>2. ASSUME NEW t \in Terminals, NEW x \in Documents, CreateOfflineReversal(t, x) PROVE QueueMoves
  <2>1. PICK seen \in {Document(x).updatedAt, Unobserved} :
          SetIntent(t, x, [NoIntent EXCEPT !.status = "queued", !.observed = seen])
    BY <1>2 DEF CreateOfflineReversal
  <2>2. seen \in Nat
    BY DocumentsTyped DEF Unobserved
  <2>3. NoIntent \in IntentForms /\ "queued" \in Statuses
    BY <1>1 DEF NoIntent, IntentForms, Statuses, Unobserved
  <2> DEFINE queued == "queued"
             i == [NoIntent EXCEPT !.status = queued, !.observed = seen]
  <2>4. i \in IntentForms
    BY <2>2, <2>3, IntentEdits
  <2>5. i.status = queued
    <3> HIDE DEF queued
    <3> QED BY <2>3 DEF IntentForms
  <2>6. i.status = "queued" /\ SetIntent(t, x, i)
    BY <2>1, <2>5
  <2> HIDE DEF i, queued
  <2>7. intent[t][x] = NoIntent /\ Document(x).status = "completed" /\ request' = request
        /\ UNCHANGED <<receivingVars, transferVars>>
    BY <1>2 DEF CreateOfflineReversal
  <2>8. ~HasAsked(t, x)
    BY <2>7 DEF HasAsked, NoIntent
  <2>9. Document(x)' = Document(x)
    BY <2>7 DEF Document, receivingVars, transferVars
  <2>10. i.status # "none" /\ i.status \notin {"manual_review_required", "manual_review_resolved"}
    BY <2>6
  <2> QED BY <2>4, <2>6, <2>7, <2>8, <2>9, <2>10, OneQueueMoves
<1>3. ASSUME NEW t \in Terminals, NEW x \in Documents, ClaimForSync(t, x) PROVE QueueMoves
  <2> DEFINE k == intent[t][x].attempt + 1
             i == [intent[t][x] EXCEPT !.status = "syncing", !.attempt = k]
  <2>1. /\ SetIntent(t, x, i) /\ request' = [request EXCEPT ![t][x][k] = "sent"]
        /\ intent[t][x].attempt < MaxAttempts /\ intent[t][x].status # "none"
    BY <1>3 DEF ClaimForSync, IsClaimable
  <2>2. intent[t][x] \in IntentForms
    BY <1>1
  <2>3. intent[t][x].attempt \in 0..MaxAttempts
    BY <2>2 DEF IntentForms
  <2>4. k \in 0..MaxAttempts /\ k \in Attempts
    BY <1>1, <2>1, <2>3 DEF Attempts
  <2> HIDE DEF k
  <2>5. "syncing" \in Statuses /\ "sent" \in Answers
    BY DEF Statuses, Answers
  <2>6. i \in IntentForms
    BY <2>2, <2>4, <2>5, IntentEdits
  <2>7. i.status = "syncing" /\ i.observed = intent[t][x].observed
    BY <2>2 DEF IntentForms
  <2> HIDE DEF i
  <2>8. /\ request'[t][x][k] = "sent"
        /\ \A u \in Terminals, y \in Documents, m \in Attempts : u # t \/ y # x \/ m # k => request'[u][y][m] = request[u][y][m]
    BY <1>1, <2>1, <2>4, RequestWritten
  <2>9. \A u \in Terminals, y \in Documents, m \in Attempts :
           \/ request'[u][y][m] = request[u][y][m]
           \/ u = t /\ y = x /\ request'[u][y][m] \notin {"rejected", "conflict"}
    BY <2>8
  <2>10. HasAsked(t, x) /\ i.status # "none" /\ i.status \notin {"manual_review_required", "manual_review_resolved"}
    BY <2>1, <2>7 DEF HasAsked
  <2> QED BY <2>1, <2>6, <2>7, <2>9, <2>10, OneQueueMoves
<1>4. ASSUME NEW t \in Terminals, NEW x \in Documents, ResolveManualReview(t, x) PROVE QueueMoves
  <2> DEFINE i == [intent[t][x] EXCEPT !.status = "manual_review_resolved"]
  <2>1. SetIntent(t, x, i) /\ request' = request /\ intent[t][x].status = "manual_review_required"
    BY <1>4 DEF ResolveManualReview
  <2>2. intent[t][x] \in IntentForms /\ "manual_review_resolved" \in Statuses
    BY <1>1 DEF Statuses
  <2>3. i \in IntentForms
    BY <2>2, IntentEdits
  <2>4. i.status = "manual_review_resolved" /\ i.observed = intent[t][x].observed
    BY <2>2 DEF IntentForms
  <2> HIDE DEF i
  <2>5. HasAsked(t, x) /\ Refused(t, x) /\ i.status # "none"
    BY <2>1, <2>4 DEF HasAsked, Refused
  <2> QED BY <2>1, <2>3, <2>4, <2>5, OneQueueMoves
<1>5. ASSUME NEW t \in Terminals, NEW x \in Documents, NEW k \in Attempts, ApplyServerResult(t, x, k) PROVE QueueMoves
  <2> DEFINE c == ClassifyServerResult(request[t][x][k])
             i == [intent[t][x] EXCEPT !.status = c]
  <2>1. /\ \/ SetIntent(t, x, i) /\ intent[t][x].status = "syncing"
           \/ intent' = intent
        /\ request' = [request EXCEPT ![t][x][k] = "over"]
        /\ request[t][x][k] \in {"confirmed", "conflict", "rejected", "failed"}
    BY <1>5 DEF ApplyServerResult, TokenMatches
  <2>2. intent[t][x] \in IntentForms /\ "over" \in Answers
    BY <1>1 DEF Answers
  <2>3. /\ c \in Statuses /\ c # "none"
        /\ c \in {"manual_review_required", "manual_review_resolved"} => request[t][x][k] \in {"conflict", "rejected"}
    BY <2>1 DEF ClassifyServerResult, Statuses
  <2> HIDE DEF c
  <2>4. i \in IntentForms
    BY <2>2, <2>3, IntentEdits
  <2>5. i.status = c /\ i.observed = intent[t][x].observed
    BY <2>2 DEF IntentForms
  <2> HIDE DEF i
  <2>6. CASE intent' = intent
    BY <2>1, <2>2, <2>6, OneAnswerMoves
  <2>7. CASE SetIntent(t, x, i) /\ intent[t][x].status = "syncing"
    <3>1. /\ request'[t][x][k] = "over"
          /\ \A u \in Terminals, y \in Documents, m \in Attempts : u # t \/ y # x \/ m # k => request'[u][y][m] = request[u][y][m]
      BY <1>1, <2>1, RequestWritten
    <3>2. \A u \in Terminals, y \in Documents, m \in Attempts :
             \/ request'[u][y][m] = request[u][y][m]
             \/ u = t /\ y = x /\ request'[u][y][m] \notin {"rejected", "conflict"}
      BY <3>1
    <3>3. HasAsked(t, x) /\ i.status # "none" /\ (i.status \in {"manual_review_required", "manual_review_resolved"} => Refused(t, x))
      BY <2>3, <2>5, <2>7 DEF HasAsked, Refused
    <3> QED BY <2>4, <2>5, <2>7, <3>2, <3>3, OneQueueMoves
  <2> QED BY <2>1, <2>6, <2>7
<1>6. ASSUME NEW t \in Terminals, NEW x \in Documents, NEW k \in Attempts, Lose(t, x, k) PROVE QueueMoves
  <2>1. /\ request' = [request EXCEPT ![t][x][k] = "failed"] /\ intent' = intent /\ request[t][x][k] # "none"
        /\ "failed" \in Answers
    BY <1>6 DEF Lose, Answers
  <2> QED BY <2>1, OneAnswerMoves
<1>7. ASSUME NEW t \in Terminals, NEW x \in Documents, NEW k \in Attempts, AnswerFromLedger(t, x, k) PROVE QueueMoves
  <2> DEFINE a == IF SamePayload(t, x) THEN "confirmed" ELSE "conflict"
  <2>1. /\ request' = [request EXCEPT ![t][x][k] = a] /\ intent' = intent /\ request[t][x][k] # "none"
        /\ ledger' = ledger /\ ledger[x] # Nobody
    BY <1>7 DEF AnswerFromLedger, Answer, Sent, Recorded
  <2>2. a \in Answers /\ (a \in {"rejected", "conflict"} => ledger[x] # t)
    BY DEF Answers, SamePayload
  <2> HIDE DEF a
  <2>3. a \in {"rejected", "conflict"} => RefusalStands(t, x)'
    BY <2>1, <2>2 DEF RefusalStands
  <2> QED BY <2>1, <2>2, <2>3, OneAnswerMoves
<1>8. ASSUME NEW t \in Terminals, NEW x \in Documents, NEW k \in Attempts, Reject(t, x, k) PROVE QueueMoves
  <2>1. /\ request' = [request EXCEPT ![t][x][k] = "rejected"] /\ intent' = intent /\ request[t][x][k] # "none"
        /\ ledger' = ledger /\ ledger[x] = Nobody /\ ~Admits(t, x) /\ "rejected" \in Answers
        /\ UNCHANGED <<stockVars, receivingVars, transferVars>>
    BY <1>8 DEF Reject, Answer, Sent, Recorded, Answers
  <2>2. RefusalStands(t, x)
    BY <2>1 DEF RefusalStands
  <2>3. RefusalStands(t, x)'
    BY <2>1, <2>2, SameStand
  <2> QED BY <2>1, <2>3, OneAnswerMoves
<1>9. ASSUME NEW t \in Terminals, NEW x \in Documents, NEW k \in Attempts, Sent(t, x, k), Record(t, x, k), intent' = intent
      PROVE  QueueMoves
  <2>1. /\ request' = [request EXCEPT ![t][x][k] = "confirmed"] /\ request[t][x][k] # "none" /\ "confirmed" \in Answers
    BY <1>9 DEF Record, Answer, Sent, Answers
  <2> QED BY <1>9, <2>1, OneAnswerMoves
<1> QED BY <1>2, <1>3, <1>4, <1>5, <1>6, <1>7, <1>8, <1>9 DEF ReversalNext, ReverseReceiving, ReverseTransfer, Documents

(* The server records a payload it admits, once.                           *)
LEMMA LedgerMoves ==
  ASSUME InventoryAssumption, ReversalTypeOK, [InvNext]_invVars, NEW x \in Documents
  PROVE  /\ ledger[x] # Nobody => ledger'[x] = ledger[x]
         /\ ledger[x] = Nobody /\ ledger'[x] # Nobody => Admits(ledger'[x], x)
<1>1. ASSUME NEW t \in Terminals, NEW y \in Documents, NEW k \in Attempts, Record(t, y, k), ~Recorded(y), Admits(t, y)
      PROVE  /\ ledger[x] # Nobody => ledger'[x] = ledger[x]
             /\ ledger[x] = Nobody /\ ledger'[x] # Nobody => Admits(ledger'[x], x)
  <2>1. ledger' = [ledger EXCEPT ![y] = t] /\ ledger[y] = Nobody /\ ledger \in [Documents -> Terminals \cup {Nobody}]
    BY <1>1 DEF Record, Recorded, ReversalTypeOK
  <2>2. CASE x = y
    BY <1>1, <2>1, <2>2
  <2>3. CASE x # y
    BY <2>1, <2>3
  <2> QED BY <2>2, <2>3
<1>2. CASE ledger' = ledger
  BY <1>2
<1>3. \/ ledger' = ledger
      \/ \E t \in Terminals, y \in Documents, k \in Attempts : Record(t, y, k) /\ ~Recorded(y) /\ Admits(t, y)
  <2>1. CASE ReversalNext
    BY <2>1 DEF ReversalNext, CreateOfflineReversal, ClaimForSync, ResolveManualReview, Lose, ApplyServerResult,
                AnswerFromLedger, Reject, ReverseReceiving, ReverseTransfer, Documents
  <2>2. CASE ~ReversalNext
    BY <2>2 DEF InvNext, Sell, reversalVars, invVars
  <2> QED BY <2>1, <2>2
<1> QED BY <1>1, <1>2, <1>3

LEMMA ClobberedStays == ASSUME [InvNext]_invVars, clobbered PROVE clobbered'
<1>1. CASE clobbered' = clobbered
  BY <1>1
<1>2. ASSUME NEW d \in Desks, NEW outdated, Leave(d, outdated) PROVE clobbered'
  BY <1>2 DEF Leave
<1>3. \/ clobbered' = clobbered
      \/ \E d \in Desks : \E outdated : Leave(d, outdated)
  <2>1. CASE ReceivingNext
    <3>1. ASSUME NEW d \in Desks, NEW q \in Quantities, WriteDraft(d, q) \/ WriteUpdate(d, q) PROVE \E outdated : Leave(d, outdated)
      BY <3>1 DEF WriteDraft, WriteUpdate
    <3>2. ASSUME NEW d \in Desks, WriteCancel(d) PROVE \E outdated : Leave(d, outdated)
      BY <3>2 DEF WriteCancel
    <3> QED BY <2>1, <3>1, <3>2 DEF ReceivingNext, ConfirmReceiving, NewDraft, ReadForDraft, ReadForUpdate, ReadForCancel, Read
  <2>2. CASE UNCHANGED receivingVars
    BY <2>2 DEF receivingVars
  <2>3. CASE ReversalNext
    BY <2>3 DEF ReversalNext, CreateOfflineReversal, ClaimForSync, ResolveManualReview, Lose, ApplyServerResult,
                AnswerFromLedger, Reject, ReverseReceiving, ReverseTransfer, receivingVars
  <2> QED BY <2>1, <2>2, <2>3 DEF InvNext, Sell, invVars
<1> QED BY <1>1, <1>2, <1>3

LEMMA KeptIsFirm ==
  ASSUME NEW x \in Documents, Firm(x), Keeps(x)
  PROVE  Firm(x)'
<1>1. CASE Document(x)' = Document(x)
  BY <1>1 DEF Firm
<1>2. CASE Document(x)'.status = "cancelled"
  BY <1>2 DEF Firm
<1>3. CASE Edits(x)
  BY <1>3 DEF Edits, Firm, Document
<1> QED BY <1>1, <1>2, <1>3 DEF Keeps

LEMMA RefusalStep ==
  ASSUME InventoryAssumption, TypeInv, DesksSound, RefusalInv, [InvNext]_invVars
  PROVE  RefusalInv'
<1>1. PICK n \in Nat : BooksTyped(n)
  BY DEF TypeInv
<1>2. PICK m \in Nat : BooksTyped(m)'
  BY TypeStep DEF TypeInv
<1>3. ReversalTypeOK /\ RequestsAsked
  BY DEF TypeInv, RestTyped, RefusalInv
<1>4. QueueMoves
  <2>1. CASE ReversalNext
    BY <1>1, <1>3, <2>1, QueuesMove
  <2>2. CASE ~ReversalNext
    <3>1. intent' = intent /\ request' = request
      BY <2>2 DEF InvNext, Sell, reversalVars, invVars
    <3> QED BY <1>3, <3>1, QueuesRest
  <2> QED BY <2>1, <2>2
<1>5. ASSUME ~restocked', ~clobbered' PROVE RefusalsStand'
  <2>1. ~restocked /\ ~clobbered
    <3>1. restocked => restocked'
      BY DEF InvNext, invVars
    <3> QED BY <1>5, <3>1, ClobberedStays
  <2>2. RefusalsStand
    BY <2>1 DEF RefusalInv
  <2>3. ASSUME NEW t \in Terminals, NEW x \in Documents, HasAsked(t, x)
        PROVE  Falls /\ Declines /\ Firm(x)
    <3>1. Asked
      BY <2>3 DEF Asked, HasAsked, NoIntent
    <3>2. ~Grows \/ counter' = counter
      BY <1>5, <3>1 DEF InvNext, invVars, stockVars
    <3>3. \A b \in Branches : counter[b] \in Int /\ counter'[b] \in Int
      BY <1>1, <1>2 DEF BooksTyped, StockTyped
    <3>4. Falls
      BY <3>2, <3>3 DEF Grows, Falls
    <3>5. Firm(x)
      BY <2>2, <2>3 DEF RefusalsStand
    <3> QED BY <1>1, <1>5, <3>4, <3>5, StepDeclines
  <2>4. SUFFICES ASSUME NEW t \in Terminals, NEW x \in Documents
                 PROVE  (HasAsked(t, x) => Firm(x))' /\ (Refused(t, x) => RefusalStands(t, x))'
    BY DEF RefusalsStand
  <2>5. HasAsked(t, x)' => Firm(x)'
    <3>1. CASE HasAsked(t, x)
      <4>1. Firm(x) /\ Keeps(x)
        BY <2>3, <3>1 DEF Declines
      <4> QED BY <4>1, KeptIsFirm
    <3>2. CASE ~HasAsked(t, x)
      BY <1>4, <3>2 DEF QueueMoves, Firm
    <3> QED BY <3>1, <3>2
  <2>6. ASSUME Refused(t, x)' PROVE RefusalStands(t, x)'
    <3>1. CASE RefusalStands(t, x)'
      BY <3>1
    <3>2. CASE Refused(t, x)
      <4>1. HasAsked(t, x)
        BY <1>3, <3>2 DEF Refused, RequestsAsked, HasAsked
      <4>2. Falls /\ Declines /\ Firm(x) /\ RefusalStands(t, x)
        BY <2>2, <2>3, <3>2, <4>1 DEF RefusalsStand
      <4>3. intent'[t][x].observed = intent[t][x].observed
        BY <1>4, <4>1 DEF QueueMoves
      <4>4. /\ ledger[x] # Nobody => ledger'[x] = ledger[x]
            /\ ledger[x] = Nobody /\ ledger'[x] # Nobody => Admits(ledger'[x], x)
        BY <1>3, LedgerMoves
      <4>5. CASE ledger[x] # Nobody
        BY <4>2, <4>4, <4>5 DEF RefusalStands
      <4>6. CASE ledger[x] = Nobody /\ ledger'[x] # Nobody
        BY <4>2, <4>4, <4>6 DEF RefusalStands
      <4>7. CASE ledger[x] = Nobody /\ ledger'[x] = Nobody
        <5>1. ~Admits(t, x)
          BY <4>2, <4>7 DEF RefusalStands
        <5>2. ~Admits(t, x)'
          BY <1>1, <1>2, <1>3, <4>2, <4>3, <5>1, RefusalLasts
        <5> QED BY <4>7, <5>2 DEF RefusalStands
      <4> QED BY <4>5, <4>6, <4>7
    <3> QED BY <1>4, <2>6, <3>1, <3>2 DEF QueueMoves
  <2> QED BY <2>5, <2>6
<1> QED BY <1>4, <1>5 DEF RefusalInv, QueueMoves

LEMMA RefusalInit == ASSUME InvInit PROVE RefusalInv
<1>1. \A t \in Terminals, x \in Documents : intent[t][x] = NoIntent /\ \A n \in Attempts : request[t][x][n] = "none"
  BY DEF InvInit, ReversalInit
<1>2. NoIntent.status = "none"
  BY DEF NoIntent
<1> QED BY <1>1, <1>2 DEF RefusalInv, RequestsAsked, RefusalsStand, HasAsked, Refused

(* A manager is never asked about a reversal of the terminal's own that    *)
(* went through, however answers were lost, repeated or late, unless stock *)
(* came in meanwhile or a screen wrote over what it had not read: what the *)
(* server refused a terminal, it would refuse it again.                    *)
THEOREM NoManagerForApplied ==
  ASSUME InventoryAssumption
  PROVE  InvSpec => []ManualIsNotApplied
<1>1. InvInit => TypeInv /\ BookInv /\ RefusalInv
  BY TypeInit, BookInit, RefusalInit
<1>2. TypeInv /\ BookInv /\ RefusalInv /\ [InvNext]_invVars => (TypeInv /\ BookInv /\ RefusalInv)'
  <2> SUFFICES ASSUME TypeInv, BookInv, RefusalInv, [InvNext]_invVars PROVE TypeInv' /\ BookInv' /\ RefusalInv'
    OBVIOUS
  <2> QED BY TypeStep, BookStep, RefusalStep DEF BookInv
<1>3. RefusalInv /\ TypeInv => ManualIsNotApplied
  <2> SUFFICES ASSUME RefusalInv, TypeInv, NEW t \in Terminals, NEW x \in Documents,
                      intent[t][x].status \in {"manual_review_required", "manual_review_resolved"}, ledger[x] = t
               PROVE  restocked \/ clobbered
    BY DEF ManualIsNotApplied
  <2>1. Refused(t, x)
    BY DEF Refused
  <2> QED BY <2>1 DEF RefusalInv, RefusalsStand, RefusalStands, InventoryAssumption, ReversalAssumption
<1> QED BY <1>1, <1>2, <1>3, PTL DEF InvSpec

(* What a terminal was told of its reversal is what became of it.          *)
THEOREM AnswersAreKept ==
  ASSUME InventoryAssumption
  PROVE  InvSpec => []AnswersAreTrue
<1>1. InvSpec => []AcceptedIsReversed
  BY AcceptedWasReversed
<1>2. InvSpec => []ManualIsNotApplied
  BY NoManagerForApplied
<1>3. AcceptedIsReversed /\ ManualIsNotApplied => AnswersAreTrue
  BY DEF AnswersAreTrue
<1> QED BY <1>1, <1>2, <1>3, PTL
=============================================================================
