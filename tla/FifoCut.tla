------------------------------ MODULE FifoCut ------------------------------
(***************************************************************************)
(* Phase 2 of reconcileSale and the lot writes that follow: the lines of a *)
(* sale are cut one after the other out of the same lots in memory, the    *)
(* cuts are merged by lot, and each lot is written once, from what the     *)
(* transaction had read.  OrderStore sells a sale as one line; this module *)
(* shows that a sale of several lines is cut as one line of all its units. *)
(***************************************************************************)
EXTENDS Fifo

CONSTANTS NLots,    \* lots of the product the query returns, oldest first
          NLines,   \* lines of the sale that sell it
          MaxUnits  \* bound on the units of a lot and of a line

Lots == 1..NLots
Lines == 1..NLines

ASSUME CutAssumption == NLots \in Nat /\ NLines \in Nat /\ MaxUnits \in Nat \ {0}

VARIABLES initial,    \* initialLotQty: what was read
          demand,     \* qtyBase of each line
          qtyRemaining, \* of the lots in memory
          line, lot,  \* where the two loops are
          remaining,  \* what the current line still lacks
          lotRefs,    \* what each line took from each lot
          oversell,   \* the quantity of its oversell reference
          written     \* what each lot is set to: quantity and isDepleted

vars == <<initial, demand, qtyRemaining, line, lot, remaining, lotRefs, oversell, written>>

NotWritten == [l \in Lots |-> [qty |-> 0, isDepleted |-> FALSE]]

LoopTypeOK ==
  /\ initial \in [Lots -> 1..MaxUnits]
  /\ demand \in [Lines -> 1..MaxUnits]
  /\ qtyRemaining \in [Lots -> 0..MaxUnits]
  /\ line \in 1..(NLines + 2)
  /\ lot \in 1..(NLots + 1)
  /\ remaining \in 0..MaxUnits
  /\ lotRefs \in [Lines -> [Lots -> 0..MaxUnits]]
  /\ oversell \in [Lines -> 0..MaxUnits]

(* The loops stay within their lots and lines, and no lot in memory is cut  *)
(* below zero.                                                              *)
TypeOK == LoopTypeOK /\ written \in [Lots -> [qty : Int, isDepleted : BOOLEAN]]

DemandOf(i) == IF i \in Lines THEN demand[i] ELSE 0

Init ==
  /\ initial \in [Lots -> 1..MaxUnits]
  /\ demand \in [Lines -> 1..MaxUnits]
  /\ qtyRemaining = initial
  /\ line = 1
  /\ lot = 1
  /\ remaining = DemandOf(1)
  /\ lotRefs = [i \in Lines |-> [l \in Lots |-> 0]]
  /\ oversell = [i \in Lines |-> 0]
  /\ written = NotWritten

AtLot == line \in Lines /\ lot \in Lots /\ remaining > 0

(* mutant: the lot gives what it does not have *)
MutCutAll(want, has) == want

Cut(want, has) == IF want <= has THEN want ELSE has

(* One turn of planFifoCutFromState on a lot with something left.          *)
CutLot ==
  /\ AtLot
  /\ qtyRemaining[lot] > 0
  /\ LET cut == Cut(remaining, qtyRemaining[lot]) IN
     /\ lotRefs' = [lotRefs EXCEPT ![line] = [@ EXCEPT ![lot] = cut]]
     /\ qtyRemaining' = [qtyRemaining EXCEPT ![lot] = @ - cut]
     /\ remaining' = remaining - cut
  /\ lot' = lot + 1
  /\ UNCHANGED <<initial, demand, line, oversell, written>>

(* An earlier line emptied it.                                             *)
SkipLot ==
  /\ AtLot
  /\ qtyRemaining[lot] = 0
  /\ lot' = lot + 1
  /\ UNCHANGED <<initial, demand, qtyRemaining, line, remaining, lotRefs, oversell, written>>

(* mutant: the next line starts at the lot this one stopped at *)
MutEndLine ==
  /\ line \in Lines
  /\ remaining = 0 \/ lot \notin Lots
  /\ oversell' = [oversell EXCEPT ![line] = remaining]
  /\ line' = line + 1
  /\ remaining' = DemandOf(line + 1)
  /\ UNCHANGED <<initial, demand, qtyRemaining, lot, lotRefs, written>>

(* The line is served or the lots ran out: what it lacks is oversold, and  *)
(* the next line starts again at the oldest lot.                           *)
EndLine ==
  /\ line \in Lines
  /\ remaining = 0 \/ lot \notin Lots
  /\ oversell' = [oversell EXCEPT ![line] = remaining]
  /\ line' = line + 1
  /\ lot' = 1
  /\ remaining' = DemandOf(line + 1)
  /\ UNCHANGED <<initial, demand, qtyRemaining, lotRefs, written>>

(* mutant: the second cut of a lot is dropped *)
MutMerged == [l \in Lots |-> LET i == CHOOSE i \in Lines : lotRefs[i][l] > 0 \/ \A j \in Lines : lotRefs[j][l] = 0
                               IN lotRefs[i][l]]

(* mergeLotCuts *)
Merged == [l \in Lots |-> SumFunction([i \in Lines |-> lotRefs[i][l]])]

(* Phase 3: an increment of what was read, and the flag computed from it.  *)
WriteLots ==
  /\ line = NLines + 1
  /\ written' = [l \in Lots |-> [qty |-> initial[l] - Merged[l],
                                 isDepleted |-> Merged[l] > 0 /\ initial[l] - Merged[l] <= 0]]
  /\ line' = NLines + 2
  /\ UNCHANGED <<initial, demand, qtyRemaining, lot, remaining, lotRefs, oversell>>

Next == CutLot \/ SkipLot \/ EndLine \/ WriteLots

Spec == Init /\ [][Next]_vars

-----------------------------------------------------------------------------
(* A lot is cut only when every older one is empty, across the lines too,  *)
(* and a line is oversold only when no lot has anything left.              *)
OldestFirst ==
  \A k, l \in Lots : k < l /\ qtyRemaining[l] < initial[l] => qtyRemaining[k] = 0

OversoldOnlyWhenDry ==
  \A i \in Lines : oversell[i] > 0 => \A l \in Lots : qtyRemaining[l] = 0

CutsGreedily == OldestFirst /\ OversoldOnlyWhenDry

(* The whole sale is the FIFO cut of all its units, each line has what it  *)
(* sold, and each lot is left with exactly the rest, hidden from the next  *)
(* query only when it is empty.                                            *)
SaleIsOneCut ==
  line = NLines + 2 =>
    /\ FifoPlan(initial, SumFunction(demand), Merged, SumFunction(oversell))
    /\ \A i \in Lines : Units(lotRefs[i]) + oversell[i] = demand[i]
    /\ \A l \in Lots : written[l] = [qty |-> qtyRemaining[l], isDepleted |-> qtyRemaining[l] = 0]
=============================================================================
