---------------------------- MODULE MCComponents ----------------------------
(***************************************************************************)
(* The components that share no state with the settlement of a sale nor    *)
(* with one another, checked side by side: a behaviour chooses one of them *)
(* (the focus), with one of its scenarios, and the others rest in their    *)
(* initial states.  Most are extended, and the cfg gives them their        *)
(* constants; those with several scenarios are instances, of the modules   *)
(* that hold their theorems, which add nothing to them.                    *)
(***************************************************************************)
EXTENDS FifoCut, CloseValidation, ManagerApproval, OfflineVoid, ShiftOpens, SaleIntents, DurableBoot, TLC

VARIABLES focus,
          stock, lots, receipt, desk, clobbered, transfer, plan, discrepancy, adjusted,
          ledger, reversal, request, sold, restocked,
          cache, durable, queue, tab, forward, issued, lastSeq, opened, wiped,
          cart, entries, seals, checkout, answer, gate, job, cycle, owner, swept, crashed, aborted

(* One branch: goods are received, edited, cancelled and counted.          *)
Goods == INSTANCE InventoryProofs WITH
  Branches <- {"h"}, Home <- "h", From <- "h", To <- "h", Receipts <- {"g"}, Transfers <- {},
  Desks <- {"d"}, Clerks <- {"c"}, Discrepancies <- {}, Quantities <- {1, 2}, Amounts <- {1},
  Differences <- {1}, Terminals <- {"p"}, Nobody <- "nobody", MaxAttempts <- 1, MaxLots <- 2,
  MaxSold <- 2, MaxAdjusted <- 1, MaxEdits <- 3, AllowNegative <- FALSE,
  counter <- stock, intent <- reversal

(* Two branches: a transfer of a unit in a lot and of one in none, its     *)
(* discrepancy and its reversal; then the same with counts up and down.    *)
Moves == INSTANCE InventoryProofs WITH
  Branches <- {"h", "k"}, Home <- "h", From <- "h", To <- "k", Receipts <- {}, Transfers <- {"x"},
  Desks <- {}, Clerks <- {"c"}, Discrepancies <- {"e"}, Quantities <- {2}, Amounts <- {1},
  Differences <- {1}, Terminals <- {"p"}, Nobody <- "nobody", MaxAttempts <- 1, MaxLots <- 6,
  MaxSold <- 0, MaxAdjusted <- 1, MaxEdits <- 3, AllowNegative <- TRUE,
  counter <- stock, intent <- reversal
Counts == INSTANCE InventoryProofs WITH
  Branches <- {"h", "k"}, Home <- "h", From <- "h", To <- "k", Receipts <- {}, Transfers <- {"x"},
  Desks <- {}, Clerks <- {"c"}, Discrepancies <- {"e"}, Quantities <- {2}, Amounts <- {1},
  Differences <- {-1, 1}, Terminals <- {"p"}, Nobody <- "nobody", MaxAttempts <- 1, MaxLots <- 3,
  MaxSold <- 0, MaxAdjusted <- 1, MaxEdits <- 3, AllowNegative <- TRUE,
  counter <- stock, intent <- reversal

(* Two terminals that reverse one receipt, with retries.                   *)
Retries == INSTANCE InventoryProofs WITH
  Branches <- {"h"}, Home <- "h", From <- "h", To <- "h", Receipts <- {"g"}, Transfers <- {},
  Desks <- {}, Clerks <- {}, Discrepancies <- {}, Quantities <- {1}, Amounts <- {1},
  Differences <- {-1, 1}, Terminals <- {"p", "q"}, Nobody <- "nobody", MaxAttempts <- 2, MaxLots <- 2,
  MaxSold <- 1, MaxAdjusted <- 1, MaxEdits <- 3, AllowNegative <- FALSE,
  counter <- stock, intent <- reversal

(* One window of a terminal, restarted and wiped, whose restores are       *)
(* whole; one whose IndexedDB loses writes; two windows that stay open;    *)
(* and two over the native store.                                          *)
OneTab == INSTANCE DeviceSeqProofs WITH
  Tabs <- {"t1"}, OpenAtStart <- {}, Native <- FALSE, Degraded <- FALSE,
  MaxOpenings <- 4, MaxWipes <- 2, MaxSeq <- 4
LossyTab == INSTANCE DeviceSeqProofs WITH
  Tabs <- {"t1"}, OpenAtStart <- {}, Native <- FALSE, Degraded <- TRUE,
  MaxOpenings <- 3, MaxWipes <- 0, MaxSeq <- 4
TwoTabs == INSTANCE DeviceSeqProofs WITH
  Tabs <- {"t1", "t2"}, OpenAtStart <- {"t1", "t2"}, Native <- FALSE, Degraded <- FALSE,
  MaxOpenings <- 0, MaxWipes <- 0, MaxSeq <- 4
NativeTabs == INSTANCE DeviceSeqProofs WITH
  Tabs <- {"t1", "t2"}, OpenAtStart <- {}, Native <- TRUE, Degraded <- FALSE,
  MaxOpenings <- 3, MaxWipes <- 1, MaxSeq <- 4

(* One window that sells for one branch or for two, and two windows.       *)
OneTill == INSTANCE SaleSubmissionProofs WITH
  Windows <- {"w"}, Branches <- {"h"}, Orders <- {"o", "p"}, OrderWindow <- [o \in {"o", "p"} |-> "w"],
  OrderBranch <- [o \in {"o", "p"} |-> "h"], NoOrder <- "none",
  MaxSweeps <- 2, MaxCrashes <- 1, MaxAborts <- 1
TwoTills == INSTANCE SaleSubmissionProofs WITH
  Windows <- {"w", "v"}, Branches <- {"h"}, Orders <- {"o", "p"},
  OrderWindow <- [o \in {"o", "p"} |-> IF o = "o" THEN "w" ELSE "v"],
  OrderBranch <- [o \in {"o", "p"} |-> "h"], NoOrder <- "none",
  MaxSweeps <- 1, MaxCrashes <- 1, MaxAborts <- 0
TwoBranches == INSTANCE SaleSubmissionProofs WITH
  Windows <- {"w"}, Branches <- {"h", "k"}, Orders <- {"o", "p"}, OrderWindow <- [o \in {"o", "p"} |-> "w"],
  OrderBranch <- [o \in {"o", "p"} |-> IF o = "o" THEN "h" ELSE "k"], NoOrder <- "none",
  MaxSweeps <- 1, MaxCrashes <- 1, MaxAborts <- 1

(* One closed shift: two changes to its sources, one of them a deletion,   *)
(* two hashes of its document, two invocations of the sweep, one manager.  *)
TwoCommits == [c \in Changes |-> IF c = "c1" THEN 1 ELSE 2]

OneTarget == [a \in Attestations |-> "o"]
OnScreens == [c \in Opens |-> IF c = "c3" THEN "v" ELSE "w"]

ASSUME ComponentsAssumption ==
  /\ CloseValidationAssumption /\ ApprovalAssumption
  /\ Goods!InventoryAssumption /\ Moves!InventoryAssumption /\ Counts!InventoryAssumption /\ Retries!InventoryAssumption
  /\ OfflineVoidAssumption /\ OpensAssumption /\ IntentAssumption /\ BootAssumption
  /\ OneTab!SeqAssumption /\ LossyTab!SeqAssumption /\ TwoTabs!SeqAssumption /\ NativeTabs!SeqAssumption
  /\ OneTill!SubmissionAssumption /\ TwoTills!SubmissionAssumption /\ TwoBranches!SubmissionAssumption

-----------------------------------------------------------------------------
cutVars == vars
invVars == <<stock, lots, receipt, desk, clobbered, transfer, plan, discrepancy, adjusted,
             ledger, reversal, request, sold, restocked>>
seqVars == <<cache, durable, queue, tab, forward, issued, lastSeq, opened, wiped>>
saleVars == <<cart, entries, seals, checkout, answer, gate, job, cycle, owner, swept, crashed, aborted>>
terminalVars == <<seqVars, saleVars, intentVars, openVars, bootVars>>
allVars == <<focus, cutVars, caseVars, approvalVars, invVars, offlineVoidVars, terminalVars>>

On(component) == focus = component
Inventories == {"goods", "moves", "counts", "retries"}
Voids == {"relayed", "fence"}
Windows == {"oneTab", "lossyTab", "twoTabs", "nativeTabs"}
Tills == {"oneTill", "twoTills", "twoBranches"}
Journals == {"twoSales", "twoLookups"}
Screenings == {"oneScreen", "twoScreens"}

(* Two invocations of the worker, which are alike: the first to start is   *)
(* the first named.                                                        *)
Invoking == invocation["i1"].at = "idle" => invocation'["i2"] = invocation["i2"]

(* An approval of a sale that is on the server, two overlapping sweeps and *)
(* two relays, likewise, and nothing in the older queue.                   *)
Relaying ==
  /\ relay["r1"].pc = "idle" => relay'["r2"] = relay["r2"]
  /\ generation = 0 => sweep'["s2"] = sweep["s2"]
  /\ intent' = intent
  /\ row'["b"] = row["b"]
  /\ sale["o"].status = "absent" => row' = row

(* Two approvals of a sale that is also in the older queue, which one drain *)
(* at a time works on; one sweep, one relay, and the authority stays.      *)
Fencing ==
  /\ relay'["r2"] = relay["r2"] /\ sweep'["s2"] = sweep["s2"]
  /\ generation' <= 1
  /\ authorized' = authorized

(* One window that draws two shifts, or two that open one and the same.    *)
Opening ==
  /\ On("oneScreen") => opening'["c3"] = opening["c3"] /\ reconcile'["v"] = reconcile["v"]
  /\ On("twoScreens") => opening'["c2"] = opening["c2"] /\ \A c \in Opens : opening'[c].shift # "s2"

(* Two sales and a sweep, or one sale and two sweeps.                      *)
Looking ==
  /\ On("twoSales") => lookup'["k2"] = lookup["k2"]
  /\ On("twoLookups") => write'["p"] = write["p"]

ComponentsInit ==
  /\ focus \in {"cut", "case", "approval", "boot"} \cup Inventories \cup Voids \cup Windows
                \cup Tills \cup Journals \cup Screenings
  /\ Init
  /\ On("cut") \/ (initial = [l \in Lots |-> 1] /\ demand = [i \in Lines |-> 1])
  /\ CaseInit
  /\ ApprovalInit
  /\ CASE On("moves") -> Moves!InvInit [] On("counts") -> Counts!InvInit [] On("retries") -> Retries!InvInit [] OTHER -> Goods!InvInit
  /\ OfflineVoidInit
  /\ CASE On("lossyTab") -> LossyTab!SeqInit [] On("twoTabs") -> TwoTabs!SeqInit
       [] On("nativeTabs") -> NativeTabs!SeqInit [] OTHER -> OneTab!SeqInit
  /\ CASE On("twoTills") -> TwoTills!SubmissionInit [] On("twoBranches") -> TwoBranches!SubmissionInit
       [] OTHER -> OneTill!SubmissionInit
  /\ IntentInit
  /\ OpensInit
  /\ BootInit /\ (On("boot") \/ disk.files = "all")

ComponentsNext ==
  /\ UNCHANGED focus
  /\ \/ /\ On("cut") /\ Next
        /\ UNCHANGED <<caseVars, approvalVars, invVars, offlineVoidVars, terminalVars>>
     \/ /\ On("case") /\ CaseNext /\ Invoking
        /\ UNCHANGED <<cutVars, approvalVars, invVars, offlineVoidVars, terminalVars>>
     \/ /\ On("approval") /\ ApprovalNext
        /\ UNCHANGED <<cutVars, caseVars, invVars, offlineVoidVars, terminalVars>>
     \/ /\ \/ On("goods") /\ Goods!InvNext
           \/ On("moves") /\ Moves!InvNext
           \/ On("counts") /\ Counts!InvNext
           \/ On("retries") /\ Retries!InvNext
        /\ UNCHANGED <<cutVars, caseVars, approvalVars, offlineVoidVars, terminalVars>>
     \/ /\ focus \in Voids /\ OfflineVoidNext
        /\ On("relayed") => Relaying
        /\ On("fence") => Fencing
        /\ UNCHANGED <<cutVars, caseVars, approvalVars, invVars, terminalVars>>
     \/ /\ \/ On("oneTab") /\ OneTab!SeqNext /\ OneTab!RestoreIsWhole
           \/ On("lossyTab") /\ LossyTab!SeqNext
           \/ On("twoTabs") /\ TwoTabs!SeqNext
           \/ On("nativeTabs") /\ NativeTabs!SeqNext
        /\ UNCHANGED <<cutVars, caseVars, approvalVars, invVars, offlineVoidVars, saleVars, intentVars, openVars, bootVars>>
     \/ /\ \/ On("oneTill") /\ OneTill!SubmissionNext
           \/ On("twoTills") /\ TwoTills!SubmissionNext
           \/ On("twoBranches") /\ TwoBranches!SubmissionNext
        /\ UNCHANGED <<cutVars, caseVars, approvalVars, invVars, offlineVoidVars, seqVars, intentVars, openVars, bootVars>>
     \/ /\ focus \in Journals /\ IntentNext /\ Looking
        /\ UNCHANGED <<cutVars, caseVars, approvalVars, invVars, offlineVoidVars, seqVars, saleVars, openVars, bootVars>>
     \/ /\ focus \in Screenings /\ OpensNext /\ Opening
        /\ UNCHANGED <<cutVars, caseVars, approvalVars, invVars, offlineVoidVars, seqVars, saleVars, intentVars, bootVars>>
     \/ /\ On("boot") /\ BootNext
        /\ UNCHANGED <<cutVars, caseVars, approvalVars, invVars, offlineVoidVars, seqVars, saleVars, intentVars, openVars>>

ComponentsSpec == ComponentsInit /\ [][ComponentsNext]_allVars

(* The state of the component that works is of its type.                   *)
ComponentsTypeOK ==
  /\ On("cut") => TypeOK
  /\ On("case") => CaseTypeOK
  /\ On("approval") => ApprovalTypeOK
  /\ On("goods") => Goods!InvTypeOK
  /\ On("moves") => Moves!InvTypeOK
  /\ On("counts") => Counts!InvTypeOK
  /\ On("retries") => Retries!InvTypeOK
  /\ focus \in Voids => OfflineVoidTypeOK
  /\ On("oneTab") => OneTab!SeqTypeOK
  /\ On("lossyTab") => LossyTab!SeqTypeOK
  /\ On("twoTabs") => TwoTabs!SeqTypeOK
  /\ On("nativeTabs") => NativeTabs!SeqTypeOK
  /\ On("oneTill") => OneTill!SubmissionTypeOK
  /\ On("twoTills") => TwoTills!SubmissionTypeOK
  /\ On("twoBranches") => TwoBranches!SubmissionTypeOK
  /\ focus \in Journals => IntentTypeOK
  /\ focus \in Screenings => OpensTypeOK
  /\ On("boot") => BootTypeOK

(* One component alone, for what the code does not keep to.                *)
CaseSpec == On("case") /\ ComponentsInit /\ [][ComponentsNext]_allVars
GoodsSpec == On("goods") /\ ComponentsInit /\ [][ComponentsNext]_allVars
BootOnlySpec == On("boot") /\ ComponentsInit /\ [][ComponentsNext]_allVars

-----------------------------------------------------------------------------
(* The stock of every branch is what its documents say, unless a screen    *)
(* has written totals over something it had not read.                      *)
DocumentedOrClobbered == /\ On("goods") => Goods!DocumentedOrClobbered
                         /\ On("moves") => Moves!DocumentedOrClobbered
                         /\ On("counts") => Counts!DocumentedOrClobbered
                         /\ On("retries") => Retries!DocumentedOrClobbered

(* A late answer, or a late failure, undoes nothing that was settled.      *)
SettledIsFinal == [][/\ On("goods") => Goods!StaysSettled
                     /\ On("moves") => Moves!StaysSettled
                     /\ On("counts") => Counts!StaysSettled
                     /\ On("retries") => Retries!StaysSettled]_allVars

(* A terminal that was told yes has had its own reversal carried out, and  *)
(* no manager is asked about one that went through, however many answers   *)
(* were lost, unless stock has come in.                                    *)
AnswersAreTrue == /\ On("goods") => Goods!AnswersAreTrue
                  /\ On("moves") => Moves!AnswersAreTrue
                  /\ On("counts") => Counts!AnswersAreTrue
                  /\ On("retries") => Retries!AnswersAreTrue

(* No sequence number is given to two sales of a terminal: of one window,  *)
(* restarted or wiped, of two that stay open, or over the native store.    *)
IssuedOnce == /\ On("oneTab") => OneTab!IssuedOnce
              /\ On("lossyTab") => LossyTab!IssuedOnce
              /\ On("twoTabs") => TwoTabs!IssuedOnce
              /\ On("nativeTabs") => NativeTabs!IssuedOnce

(* A sale whose evidence is kept is never sealed absent by the one window  *)
(* of a terminal, and a checkout that was told ok has its evidence.        *)
AbsenceIsSound == /\ On("oneTill") => OneTill!AbsenceIsSound
                  /\ On("twoBranches") => TwoBranches!AbsenceIsSound

(* A fence is released with proof for its own sale, from whatever window.  *)
ReleaseIsProven == /\ On("oneTill") => OneTill!ReleaseIsProven
                   /\ On("twoTills") => TwoTills!ReleaseIsProven
                   /\ On("twoBranches") => TwoBranches!ReleaseIsProven

(* The stock of a branch is what its documents say, whatever screens work  *)
(* on a receipt at once.                                                   *)
CounterIsDocumented == Goods!CounterIsDocumented
=============================================================================
