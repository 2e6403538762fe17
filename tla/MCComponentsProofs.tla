------------------------- MODULE MCComponentsProofs -------------------------
(***************************************************************************)
(* The components side by side keep what each of them was proved to keep.  *)
(* The focus never changes, and a behaviour with its focus on a component  *)
(* is a behaviour of that component: the others rest.  Each component is   *)
(* brought in once, and the theorems about it give the rest.               *)
(***************************************************************************)
EXTENDS MCComponents, ComponentProofs

-----------------------------------------------------------------------------
(* A behaviour has one focus, and is a behaviour of what it is on.         *)
LEMMA FocusStays ==
  ASSUME [ComponentsNext]_allVars, NEW c
  PROVE  (focus = c => focus' = c) /\ (~(focus = c) => ~(focus' = c))
BY DEF ComponentsNext, allVars

LEMMA GoodsRuns == ComponentsSpec /\ [](focus = "goods") => Goods!InvSpec
<1>1. focus = "goods" /\ ComponentsInit => Goods!InvInit
  BY DEF ComponentsInit, On
<1>2. focus = "goods" /\ [ComponentsNext]_allVars => [Goods!InvNext]_Goods!invVars
  BY DEF ComponentsNext, allVars, On, invVars, Goods!invVars, Goods!stockVars, Goods!receivingVars, Goods!transferVars,
         Goods!reversalVars, Inventories, Voids, Tills, Journals, Screenings
<1> QED BY <1>1, <1>2, PTL DEF ComponentsSpec, Goods!InvSpec

LEMMA MovesRuns == ComponentsSpec /\ [](focus = "moves") => Moves!InvSpec
<1>1. focus = "moves" /\ ComponentsInit => Moves!InvInit
  BY DEF ComponentsInit, On
<1>2. focus = "moves" /\ [ComponentsNext]_allVars => [Moves!InvNext]_Moves!invVars
  BY DEF ComponentsNext, allVars, On, invVars, Moves!invVars, Moves!stockVars, Moves!receivingVars, Moves!transferVars,
         Moves!reversalVars, Inventories, Voids, Tills, Journals, Screenings
<1> QED BY <1>1, <1>2, PTL DEF ComponentsSpec, Moves!InvSpec

LEMMA CountsRuns == ComponentsSpec /\ [](focus = "counts") => Counts!InvSpec
<1>1. focus = "counts" /\ ComponentsInit => Counts!InvInit
  BY DEF ComponentsInit, On
<1>2. focus = "counts" /\ [ComponentsNext]_allVars => [Counts!InvNext]_Counts!invVars
  BY DEF ComponentsNext, allVars, On, invVars, Counts!invVars, Counts!stockVars, Counts!receivingVars, Counts!transferVars,
         Counts!reversalVars, Inventories, Voids, Tills, Journals, Screenings
<1> QED BY <1>1, <1>2, PTL DEF ComponentsSpec, Counts!InvSpec

LEMMA RetriesRuns == ComponentsSpec /\ [](focus = "retries") => Retries!InvSpec
<1>1. focus = "retries" /\ ComponentsInit => Retries!InvInit
  BY DEF ComponentsInit, On
<1>2. focus = "retries" /\ [ComponentsNext]_allVars => [Retries!InvNext]_Retries!invVars
  BY DEF ComponentsNext, allVars, On, invVars, Retries!invVars, Retries!stockVars, Retries!receivingVars, Retries!transferVars,
         Retries!reversalVars, Inventories, Voids, Tills, Journals, Screenings
<1> QED BY <1>1, <1>2, PTL DEF ComponentsSpec, Retries!InvSpec

LEMMA OneTabRuns == ComponentsSpec /\ [](focus = "oneTab") => OneTab!SeqSpec /\ [][OneTab!RestoreIsWhole]_OneTab!seqVars
<1>1. focus = "oneTab" /\ ComponentsInit => OneTab!SeqInit
  BY DEF ComponentsInit, On
<1>2. focus = "oneTab" /\ [ComponentsNext]_allVars => [OneTab!SeqNext /\ OneTab!RestoreIsWhole]_OneTab!seqVars
  BY DEF ComponentsNext, allVars, On, terminalVars, seqVars, OneTab!seqVars, Inventories, Voids, Tills, Journals, Screenings
<1> QED BY <1>1, <1>2, PTL DEF ComponentsSpec, OneTab!SeqSpec

LEMMA LossyTabRuns == ComponentsSpec /\ [](focus = "lossyTab") => LossyTab!SeqSpec
<1>1. focus = "lossyTab" /\ ComponentsInit => LossyTab!SeqInit
  BY DEF ComponentsInit, On
<1>2. focus = "lossyTab" /\ [ComponentsNext]_allVars => [LossyTab!SeqNext]_LossyTab!seqVars
  BY DEF ComponentsNext, allVars, On, terminalVars, seqVars, LossyTab!seqVars, Inventories, Voids, Tills, Journals, Screenings
<1> QED BY <1>1, <1>2, PTL DEF ComponentsSpec, LossyTab!SeqSpec

LEMMA TwoTabsRuns == ComponentsSpec /\ [](focus = "twoTabs") => TwoTabs!SeqSpec
<1>1. focus = "twoTabs" /\ ComponentsInit => TwoTabs!SeqInit
  BY DEF ComponentsInit, On
<1>2. focus = "twoTabs" /\ [ComponentsNext]_allVars => [TwoTabs!SeqNext]_TwoTabs!seqVars
  BY DEF ComponentsNext, allVars, On, terminalVars, seqVars, TwoTabs!seqVars, Inventories, Voids, Tills, Journals, Screenings
<1> QED BY <1>1, <1>2, PTL DEF ComponentsSpec, TwoTabs!SeqSpec

LEMMA NativeTabsRuns == ComponentsSpec /\ [](focus = "nativeTabs") => NativeTabs!SeqSpec
<1>1. focus = "nativeTabs" /\ ComponentsInit => NativeTabs!SeqInit
  BY DEF ComponentsInit, On
<1>2. focus = "nativeTabs" /\ [ComponentsNext]_allVars => [NativeTabs!SeqNext]_NativeTabs!seqVars
  BY DEF ComponentsNext, allVars, On, terminalVars, seqVars, NativeTabs!seqVars, Inventories, Voids, Tills, Journals, Screenings
<1> QED BY <1>1, <1>2, PTL DEF ComponentsSpec, NativeTabs!SeqSpec

LEMMA OneTillRuns == ComponentsSpec /\ [](focus = "oneTill") => OneTill!SubmissionSpec
<1>1. focus = "oneTill" /\ ComponentsInit => OneTill!SubmissionInit
  BY DEF ComponentsInit, On
<1>2. focus = "oneTill" /\ [ComponentsNext]_allVars => [OneTill!SubmissionNext]_OneTill!submissionVars
  BY DEF ComponentsNext, allVars, On, terminalVars, saleVars, OneTill!submissionVars, OneTill!cartVars, OneTill!windowVars,
         OneTill!countVars, Inventories, Voids, Tills, Journals, Screenings
<1> QED BY <1>1, <1>2, PTL DEF ComponentsSpec, OneTill!SubmissionSpec

LEMMA TwoTillsRuns == ComponentsSpec /\ [](focus = "twoTills") => TwoTills!SubmissionSpec
<1>1. focus = "twoTills" /\ ComponentsInit => TwoTills!SubmissionInit
  BY DEF ComponentsInit, On
<1>2. focus = "twoTills" /\ [ComponentsNext]_allVars => [TwoTills!SubmissionNext]_TwoTills!submissionVars
  BY DEF ComponentsNext, allVars, On, terminalVars, saleVars, TwoTills!submissionVars, TwoTills!cartVars, TwoTills!windowVars,
         TwoTills!countVars, Inventories, Voids, Tills, Journals, Screenings
<1> QED BY <1>1, <1>2, PTL DEF ComponentsSpec, TwoTills!SubmissionSpec

LEMMA TwoBranchesRuns == ComponentsSpec /\ [](focus = "twoBranches") => TwoBranches!SubmissionSpec
<1>1. focus = "twoBranches" /\ ComponentsInit => TwoBranches!SubmissionInit
  BY DEF ComponentsInit, On
<1>2. focus = "twoBranches" /\ [ComponentsNext]_allVars => [TwoBranches!SubmissionNext]_TwoBranches!submissionVars
  BY DEF ComponentsNext, allVars, On, terminalVars, saleVars, TwoBranches!submissionVars, TwoBranches!cartVars, TwoBranches!windowVars,
         TwoBranches!countVars, Inventories, Voids, Tills, Journals, Screenings
<1> QED BY <1>1, <1>2, PTL DEF ComponentsSpec, TwoBranches!SubmissionSpec

LEMMA CutRuns == ComponentsSpec /\ [](focus = "cut") => Spec
<1>1. focus = "cut" /\ ComponentsInit => Init
  BY DEF ComponentsInit
<1>2. focus = "cut" /\ [ComponentsNext]_allVars => [Next]_vars
  BY DEF ComponentsNext, allVars, On, cutVars, Inventories, Voids, Tills, Journals, Screenings
<1> QED BY <1>1, <1>2, PTL DEF ComponentsSpec, Spec

LEMMA CaseRuns == ComponentsSpec /\ [](focus = "case") => ValidationSpec
<1>1. focus = "case" /\ ComponentsInit => CaseInit
  BY DEF ComponentsInit
<1>2. focus = "case" /\ [ComponentsNext]_allVars => [CaseNext]_caseVars
  BY DEF ComponentsNext, allVars, On, Inventories, Voids, Tills, Journals, Screenings
<1> QED BY <1>1, <1>2, PTL DEF ComponentsSpec, ValidationSpec

LEMMA ApprovalRuns == ComponentsSpec /\ [](focus = "approval") => ApprovalSpec
<1>1. focus = "approval" /\ ComponentsInit => ApprovalInit
  BY DEF ComponentsInit
<1>2. focus = "approval" /\ [ComponentsNext]_allVars => [ApprovalNext]_approvalVars
  BY DEF ComponentsNext, allVars, On, Inventories, Voids, Tills, Journals, Screenings
<1> QED BY <1>1, <1>2, PTL DEF ComponentsSpec, ApprovalSpec

LEMMA RelayedRuns == ComponentsSpec /\ [](focus = "relayed") => OfflineVoidSpec
<1>1. focus = "relayed" /\ ComponentsInit => OfflineVoidInit
  BY DEF ComponentsInit
<1>2. focus = "relayed" /\ [ComponentsNext]_allVars => [OfflineVoidNext]_offlineVoidVars
  BY DEF ComponentsNext, allVars, On, Inventories, Voids, Tills, Journals, Screenings
<1> QED BY <1>1, <1>2, PTL DEF ComponentsSpec, OfflineVoidSpec

LEMMA FenceRuns == ComponentsSpec /\ [](focus = "fence") => OfflineVoidSpec
<1>1. focus = "fence" /\ ComponentsInit => OfflineVoidInit
  BY DEF ComponentsInit
<1>2. focus = "fence" /\ [ComponentsNext]_allVars => [OfflineVoidNext]_offlineVoidVars
  BY DEF ComponentsNext, allVars, On, Inventories, Voids, Tills, Journals, Screenings
<1> QED BY <1>1, <1>2, PTL DEF ComponentsSpec, OfflineVoidSpec

LEMMA TwoSalesRuns == ComponentsSpec /\ [](focus = "twoSales") => IntentSpec
<1>1. focus = "twoSales" /\ ComponentsInit => IntentInit
  BY DEF ComponentsInit
<1>2. focus = "twoSales" /\ [ComponentsNext]_allVars => [IntentNext]_intentVars
  BY DEF ComponentsNext, allVars, On, terminalVars, Inventories, Voids, Tills, Journals, Screenings
<1> QED BY <1>1, <1>2, PTL DEF ComponentsSpec, IntentSpec

LEMMA TwoLookupsRuns == ComponentsSpec /\ [](focus = "twoLookups") => IntentSpec
<1>1. focus = "twoLookups" /\ ComponentsInit => IntentInit
  BY DEF ComponentsInit
<1>2. focus = "twoLookups" /\ [ComponentsNext]_allVars => [IntentNext]_intentVars
  BY DEF ComponentsNext, allVars, On, terminalVars, Inventories, Voids, Tills, Journals, Screenings
<1> QED BY <1>1, <1>2, PTL DEF ComponentsSpec, IntentSpec

LEMMA OneScreenRuns == ComponentsSpec /\ [](focus = "oneScreen") => OpensSpec
<1>1. focus = "oneScreen" /\ ComponentsInit => OpensInit
  BY DEF ComponentsInit
<1>2. focus = "oneScreen" /\ [ComponentsNext]_allVars => [OpensNext]_openVars
  BY DEF ComponentsNext, allVars, On, terminalVars, Inventories, Voids, Tills, Journals, Screenings
<1> QED BY <1>1, <1>2, PTL DEF ComponentsSpec, OpensSpec

LEMMA TwoScreensRuns == ComponentsSpec /\ [](focus = "twoScreens") => OpensSpec
<1>1. focus = "twoScreens" /\ ComponentsInit => OpensInit
  BY DEF ComponentsInit
<1>2. focus = "twoScreens" /\ [ComponentsNext]_allVars => [OpensNext]_openVars
  BY DEF ComponentsNext, allVars, On, terminalVars, Inventories, Voids, Tills, Journals, Screenings
<1> QED BY <1>1, <1>2, PTL DEF ComponentsSpec, OpensSpec

LEMMA BootRuns == ComponentsSpec /\ [](focus = "boot") => BootSpec
<1>1. focus = "boot" /\ ComponentsInit => BootInit
  BY DEF ComponentsInit
<1>2. focus = "boot" /\ [ComponentsNext]_allVars => [BootNext]_bootVars
  BY DEF ComponentsNext, allVars, On, terminalVars, Inventories, Voids, Tills, Journals, Screenings
<1> QED BY <1>1, <1>2, PTL DEF ComponentsSpec, BootSpec

-----------------------------------------------------------------------------
(* No sequence number of a terminal is given to two sales: one window      *)
(* whose restores are whole, one whose mirror is lossy, two that stay      *)
(* open, two over the native store (IssuedOnce of deviceIdentity.ts).      *)
THEOREM NumbersIssuedOnce == ComponentsSpec => []IssuedOnce
<1>1. ComponentsSpec => [](focus = "oneTab" => OneTab!IssuedOnce)
  <2>1. OneTab!SeqSpec /\ [][OneTab!RestoreIsWhole]_OneTab!seqVars => []OneTab!IssuedOnce
    BY ComponentsAssumption, OneTab!NumbersAreRestored DEF ComponentsAssumption, OneTab!Alone
  <2>2. [ComponentsNext]_allVars => (focus = "oneTab" => (focus = "oneTab")') /\ (~(focus = "oneTab") => ~(focus = "oneTab")')
    BY FocusStays
  <2> QED BY <2>1, <2>2, OneTabRuns, PTL DEF ComponentsSpec
<1>2. ComponentsSpec => [](focus = "lossyTab" => LossyTab!IssuedOnce)
  <2>1. LossyTab!SeqSpec => []LossyTab!IssuedOnce
    BY ComponentsAssumption, LossyTab!NumbersAreKept DEF ComponentsAssumption, LossyTab!Alone
  <2>2. [ComponentsNext]_allVars => (focus = "lossyTab" => (focus = "lossyTab")') /\ (~(focus = "lossyTab") => ~(focus = "lossyTab")')
    BY FocusStays
  <2> QED BY <2>1, <2>2, LossyTabRuns, PTL DEF ComponentsSpec
<1>3. ComponentsSpec => [](focus = "twoTabs" => TwoTabs!IssuedOnce)
  <2>1. TwoTabs!SeqSpec => []TwoTabs!IssuedOnce
    BY ComponentsAssumption, TwoTabs!NumbersOnlyGrow DEF ComponentsAssumption, TwoTabs!GrowsOnly
  <2>2. [ComponentsNext]_allVars => (focus = "twoTabs" => (focus = "twoTabs")') /\ (~(focus = "twoTabs") => ~(focus = "twoTabs")')
    BY FocusStays
  <2> QED BY <2>1, <2>2, TwoTabsRuns, PTL DEF ComponentsSpec
<1>4. ComponentsSpec => [](focus = "nativeTabs" => NativeTabs!IssuedOnce)
  <2>1. NativeTabs!SeqSpec => []NativeTabs!IssuedOnce
    BY ComponentsAssumption, NativeTabs!NumbersOnlyGrow DEF ComponentsAssumption, NativeTabs!GrowsOnly
  <2>2. [ComponentsNext]_allVars => (focus = "nativeTabs" => (focus = "nativeTabs")') /\ (~(focus = "nativeTabs") => ~(focus = "nativeTabs")')
    BY FocusStays
  <2> QED BY <2>1, <2>2, NativeTabsRuns, PTL DEF ComponentsSpec
<1>5. /\ (focus = "oneTab" => OneTab!IssuedOnce)
      /\ (focus = "lossyTab" => LossyTab!IssuedOnce)
      /\ (focus = "twoTabs" => TwoTabs!IssuedOnce)
      /\ (focus = "nativeTabs" => NativeTabs!IssuedOnce)
      => IssuedOnce
  BY DEF IssuedOnce, On
<1> QED BY <1>1, <1>2, <1>3, <1>4, <1>5, PTL

(* A fence of a sale is released with the proof of that sale only, from    *)
(* one window or from two.                                                 *)
THEOREM FencesReleasedWithProof == ComponentsSpec => []ReleaseIsProven
<1>1. ComponentsSpec => [](focus = "oneTill" => OneTill!ReleaseIsProven)
  <2>1. OneTill!SubmissionSpec => []OneTill!ReleaseIsProven
    BY ComponentsAssumption, OneTill!ReleaseProven DEF ComponentsAssumption
  <2>2. [ComponentsNext]_allVars => (focus = "oneTill" => (focus = "oneTill")') /\ (~(focus = "oneTill") => ~(focus = "oneTill")')
    BY FocusStays
  <2> QED BY <2>1, <2>2, OneTillRuns, PTL DEF ComponentsSpec
<1>2. ComponentsSpec => [](focus = "twoTills" => TwoTills!ReleaseIsProven)
  <2>1. TwoTills!SubmissionSpec => []TwoTills!ReleaseIsProven
    BY ComponentsAssumption, TwoTills!ReleaseProven DEF ComponentsAssumption
  <2>2. [ComponentsNext]_allVars => (focus = "twoTills" => (focus = "twoTills")') /\ (~(focus = "twoTills") => ~(focus = "twoTills")')
    BY FocusStays
  <2> QED BY <2>1, <2>2, TwoTillsRuns, PTL DEF ComponentsSpec
<1>3. ComponentsSpec => [](focus = "twoBranches" => TwoBranches!ReleaseIsProven)
  <2>1. TwoBranches!SubmissionSpec => []TwoBranches!ReleaseIsProven
    BY ComponentsAssumption, TwoBranches!ReleaseProven DEF ComponentsAssumption
  <2>2. [ComponentsNext]_allVars => (focus = "twoBranches" => (focus = "twoBranches")') /\ (~(focus = "twoBranches") => ~(focus = "twoBranches")')
    BY FocusStays
  <2> QED BY <2>1, <2>2, TwoBranchesRuns, PTL DEF ComponentsSpec
<1>4. /\ (focus = "oneTill" => OneTill!ReleaseIsProven)
      /\ (focus = "twoTills" => TwoTills!ReleaseIsProven)
      /\ (focus = "twoBranches" => TwoBranches!ReleaseIsProven)
      => ReleaseIsProven
  BY DEF ReleaseIsProven, On
<1> QED BY <1>1, <1>2, <1>3, <1>4, PTL

(* The one window of a terminal never seals absent a sale whose evidence   *)
(* it keeps, and a checkout that was told ok has its evidence.             *)
THEOREM AbsencesSealedSoundly == ComponentsSpec => []AbsenceIsSound
<1>1. ComponentsSpec => [](focus = "oneTill" => OneTill!AbsenceIsSound)
  <2>1. OneTill!SubmissionSpec => []OneTill!AbsenceIsSound
    BY ComponentsAssumption, OneTill!AbsenceSound DEF ComponentsAssumption
  <2>2. [ComponentsNext]_allVars => (focus = "oneTill" => (focus = "oneTill")') /\ (~(focus = "oneTill") => ~(focus = "oneTill")')
    BY FocusStays
  <2> QED BY <2>1, <2>2, OneTillRuns, PTL DEF ComponentsSpec
<1>2. ComponentsSpec => [](focus = "twoBranches" => TwoBranches!AbsenceIsSound)
  <2>1. TwoBranches!SubmissionSpec => []TwoBranches!AbsenceIsSound
    BY ComponentsAssumption, TwoBranches!AbsenceSound DEF ComponentsAssumption
  <2>2. [ComponentsNext]_allVars => (focus = "twoBranches" => (focus = "twoBranches")') /\ (~(focus = "twoBranches") => ~(focus = "twoBranches")')
    BY FocusStays
  <2> QED BY <2>1, <2>2, TwoBranchesRuns, PTL DEF ComponentsSpec
<1>3. /\ (focus = "oneTill" => OneTill!AbsenceIsSound)
      /\ (focus = "twoBranches" => TwoBranches!AbsenceIsSound)
      => AbsenceIsSound
  BY DEF AbsenceIsSound, On
<1> QED BY <1>1, <1>2, <1>3, PTL

(* The counters are what the documents say, at one branch or between two,  *)
(* unless a screen wrote over what it had not read.                        *)
THEOREM StocksDocumented == ComponentsSpec => []DocumentedOrClobbered
<1>1. ComponentsSpec => [](focus = "goods" => Goods!DocumentedOrClobbered)
  <2>1. Goods!InvSpec => []Goods!DocumentedOrClobbered
    BY ComponentsAssumption, Goods!StockIsDocumented DEF ComponentsAssumption
  <2>2. [ComponentsNext]_allVars => (focus = "goods" => (focus = "goods")') /\ (~(focus = "goods") => ~(focus = "goods")')
    BY FocusStays
  <2> QED BY <2>1, <2>2, GoodsRuns, PTL DEF ComponentsSpec
<1>2. ComponentsSpec => [](focus = "moves" => Moves!DocumentedOrClobbered)
  <2>1. Moves!InvSpec => []Moves!DocumentedOrClobbered
    BY ComponentsAssumption, Moves!StockIsDocumented DEF ComponentsAssumption
  <2>2. [ComponentsNext]_allVars => (focus = "moves" => (focus = "moves")') /\ (~(focus = "moves") => ~(focus = "moves")')
    BY FocusStays
  <2> QED BY <2>1, <2>2, MovesRuns, PTL DEF ComponentsSpec
<1>3. ComponentsSpec => [](focus = "counts" => Counts!DocumentedOrClobbered)
  <2>1. Counts!InvSpec => []Counts!DocumentedOrClobbered
    BY ComponentsAssumption, Counts!StockIsDocumented DEF ComponentsAssumption
  <2>2. [ComponentsNext]_allVars => (focus = "counts" => (focus = "counts")') /\ (~(focus = "counts") => ~(focus = "counts")')
    BY FocusStays
  <2> QED BY <2>1, <2>2, CountsRuns, PTL DEF ComponentsSpec
<1>4. ComponentsSpec => [](focus = "retries" => Retries!DocumentedOrClobbered)
  <2>1. Retries!InvSpec => []Retries!DocumentedOrClobbered
    BY ComponentsAssumption, Retries!StockIsDocumented DEF ComponentsAssumption
  <2>2. [ComponentsNext]_allVars => (focus = "retries" => (focus = "retries")') /\ (~(focus = "retries") => ~(focus = "retries")')
    BY FocusStays
  <2> QED BY <2>1, <2>2, RetriesRuns, PTL DEF ComponentsSpec
<1>5. /\ (focus = "goods" => Goods!DocumentedOrClobbered)
      /\ (focus = "moves" => Moves!DocumentedOrClobbered)
      /\ (focus = "counts" => Counts!DocumentedOrClobbered)
      /\ (focus = "retries" => Retries!DocumentedOrClobbered)
      => DocumentedOrClobbered
  BY DEF DocumentedOrClobbered, On
<1> QED BY <1>1, <1>2, <1>3, <1>4, <1>5, PTL

(* A terminal is told of its reversal what became of it, with one terminal *)
(* or with two that send it again and again.                               *)
THEOREM AnswersStayTrue == ComponentsSpec => []AnswersAreTrue
<1>1. ComponentsSpec => [](focus = "goods" => Goods!AnswersAreTrue)
  <2>1. Goods!InvSpec => []Goods!AnswersAreTrue
    BY ComponentsAssumption, Goods!AnswersAreKept DEF ComponentsAssumption
  <2>2. [ComponentsNext]_allVars => (focus = "goods" => (focus = "goods")') /\ (~(focus = "goods") => ~(focus = "goods")')
    BY FocusStays
  <2> QED BY <2>1, <2>2, GoodsRuns, PTL DEF ComponentsSpec
<1>2. ComponentsSpec => [](focus = "moves" => Moves!AnswersAreTrue)
  <2>1. Moves!InvSpec => []Moves!AnswersAreTrue
    BY ComponentsAssumption, Moves!AnswersAreKept DEF ComponentsAssumption
  <2>2. [ComponentsNext]_allVars => (focus = "moves" => (focus = "moves")') /\ (~(focus = "moves") => ~(focus = "moves")')
    BY FocusStays
  <2> QED BY <2>1, <2>2, MovesRuns, PTL DEF ComponentsSpec
<1>3. ComponentsSpec => [](focus = "counts" => Counts!AnswersAreTrue)
  <2>1. Counts!InvSpec => []Counts!AnswersAreTrue
    BY ComponentsAssumption, Counts!AnswersAreKept DEF ComponentsAssumption
  <2>2. [ComponentsNext]_allVars => (focus = "counts" => (focus = "counts")') /\ (~(focus = "counts") => ~(focus = "counts")')
    BY FocusStays
  <2> QED BY <2>1, <2>2, CountsRuns, PTL DEF ComponentsSpec
<1>4. ComponentsSpec => [](focus = "retries" => Retries!AnswersAreTrue)
  <2>1. Retries!InvSpec => []Retries!AnswersAreTrue
    BY ComponentsAssumption, Retries!AnswersAreKept DEF ComponentsAssumption
  <2>2. [ComponentsNext]_allVars => (focus = "retries" => (focus = "retries")') /\ (~(focus = "retries") => ~(focus = "retries")')
    BY FocusStays
  <2> QED BY <2>1, <2>2, RetriesRuns, PTL DEF ComponentsSpec
<1>5. /\ (focus = "goods" => Goods!AnswersAreTrue)
      /\ (focus = "moves" => Moves!AnswersAreTrue)
      /\ (focus = "counts" => Counts!AnswersAreTrue)
      /\ (focus = "retries" => Retries!AnswersAreTrue)
      => AnswersAreTrue
  BY DEF AnswersAreTrue, On
<1> QED BY <1>1, <1>2, <1>3, <1>4, <1>5, PTL

(* No late answer undoes what was settled, in any of the inventories.      *)
THEOREM SettledStaysFinal == ComponentsSpec => SettledIsFinal
<1>1. ComponentsSpec => [][(focus = "goods" /\ focus' = "goods") => Goods!StaysSettled]_allVars
  <2>1. Goods!InvSpec => [][Goods!StaysSettled]_Goods!invVars
    BY ComponentsAssumption, Goods!SettledStays DEF ComponentsAssumption
  <2>2. [Goods!StaysSettled]_Goods!invVars => Goods!StaysSettled
    BY DEF Goods!StaysSettled, Goods!invVars, Goods!reversalVars
  <2>3. [ComponentsNext]_allVars => (focus = "goods" => (focus = "goods")') /\ (~(focus = "goods") => ~(focus = "goods")')
    BY FocusStays
  <2> QED BY <2>1, <2>2, <2>3, GoodsRuns, PTL DEF ComponentsSpec
<1>2. ComponentsSpec => [][(focus = "moves" /\ focus' = "moves") => Moves!StaysSettled]_allVars
  <2>1. Moves!InvSpec => [][Moves!StaysSettled]_Moves!invVars
    BY ComponentsAssumption, Moves!SettledStays DEF ComponentsAssumption
  <2>2. [Moves!StaysSettled]_Moves!invVars => Moves!StaysSettled
    BY DEF Moves!StaysSettled, Moves!invVars, Moves!reversalVars
  <2>3. [ComponentsNext]_allVars => (focus = "moves" => (focus = "moves")') /\ (~(focus = "moves") => ~(focus = "moves")')
    BY FocusStays
  <2> QED BY <2>1, <2>2, <2>3, MovesRuns, PTL DEF ComponentsSpec
<1>3. ComponentsSpec => [][(focus = "counts" /\ focus' = "counts") => Counts!StaysSettled]_allVars
  <2>1. Counts!InvSpec => [][Counts!StaysSettled]_Counts!invVars
    BY ComponentsAssumption, Counts!SettledStays DEF ComponentsAssumption
  <2>2. [Counts!StaysSettled]_Counts!invVars => Counts!StaysSettled
    BY DEF Counts!StaysSettled, Counts!invVars, Counts!reversalVars
  <2>3. [ComponentsNext]_allVars => (focus = "counts" => (focus = "counts")') /\ (~(focus = "counts") => ~(focus = "counts")')
    BY FocusStays
  <2> QED BY <2>1, <2>2, <2>3, CountsRuns, PTL DEF ComponentsSpec
<1>4. ComponentsSpec => [][(focus = "retries" /\ focus' = "retries") => Retries!StaysSettled]_allVars
  <2>1. Retries!InvSpec => [][Retries!StaysSettled]_Retries!invVars
    BY ComponentsAssumption, Retries!SettledStays DEF ComponentsAssumption
  <2>2. [Retries!StaysSettled]_Retries!invVars => Retries!StaysSettled
    BY DEF Retries!StaysSettled, Retries!invVars, Retries!reversalVars
  <2>3. [ComponentsNext]_allVars => (focus = "retries" => (focus = "retries")') /\ (~(focus = "retries") => ~(focus = "retries")')
    BY FocusStays
  <2> QED BY <2>1, <2>2, <2>3, RetriesRuns, PTL DEF ComponentsSpec
<1>5. [ComponentsNext]_allVars => focus' = focus
  BY DEF ComponentsNext, allVars
<1>6. /\ focus' = focus
      /\ [(focus = "goods" /\ focus' = "goods") => Goods!StaysSettled]_allVars
      /\ [(focus = "moves" /\ focus' = "moves") => Moves!StaysSettled]_allVars
      /\ [(focus = "counts" /\ focus' = "counts") => Counts!StaysSettled]_allVars
      /\ [(focus = "retries" /\ focus' = "retries") => Retries!StaysSettled]_allVars
      => [/\ On("goods") => Goods!StaysSettled
          /\ On("moves") => Moves!StaysSettled
          /\ On("counts") => Counts!StaysSettled
          /\ On("retries") => Retries!StaysSettled]_allVars
  BY DEF On
<1> QED BY <1>1, <1>2, <1>3, <1>4, <1>5, <1>6, PTL DEF ComponentsSpec, SettledIsFinal

(* The state of the component that works is of its type.                   *)
THEOREM ComponentsStayTyped == ComponentsSpec => []ComponentsTypeOK
<1>1. ComponentsSpec => [](focus = "cut" => TypeOK)
  <2>1. Spec => []TypeOK
    BY CutTyped
  <2>2. [ComponentsNext]_allVars => (focus = "cut" => (focus = "cut")') /\ (~(focus = "cut") => ~(focus = "cut")')
    BY FocusStays
  <2> QED BY <2>1, <2>2, CutRuns, PTL DEF ComponentsSpec
<1>2. ComponentsSpec => [](focus = "case" => CaseTypeOK)
  <2>1. ValidationSpec => []CaseTypeOK
    BY ComponentsAssumption, CaseTyped DEF ComponentsAssumption
  <2>2. [ComponentsNext]_allVars => (focus = "case" => (focus = "case")') /\ (~(focus = "case") => ~(focus = "case")')
    BY FocusStays
  <2> QED BY <2>1, <2>2, CaseRuns, PTL DEF ComponentsSpec
<1>3. ComponentsSpec => [](focus = "approval" => ApprovalTypeOK)
  <2>1. ApprovalSpec => []ApprovalTypeOK
    BY ComponentsAssumption, ApprovalTyped DEF ComponentsAssumption
  <2>2. [ComponentsNext]_allVars => (focus = "approval" => (focus = "approval")') /\ (~(focus = "approval") => ~(focus = "approval")')
    BY FocusStays
  <2> QED BY <2>1, <2>2, ApprovalRuns, PTL DEF ComponentsSpec
<1>4. ComponentsSpec => [](focus = "goods" => Goods!InvTypeOK)
  <2>1. Goods!InvSpec => []Goods!InvTypeOK
    BY ComponentsAssumption, Goods!InventoryTyped DEF ComponentsAssumption
  <2>2. [ComponentsNext]_allVars => (focus = "goods" => (focus = "goods")') /\ (~(focus = "goods") => ~(focus = "goods")')
    BY FocusStays
  <2> QED BY <2>1, <2>2, GoodsRuns, PTL DEF ComponentsSpec
<1>5. ComponentsSpec => [](focus = "moves" => Moves!InvTypeOK)
  <2>1. Moves!InvSpec => []Moves!InvTypeOK
    BY ComponentsAssumption, Moves!InventoryTyped DEF ComponentsAssumption
  <2>2. [ComponentsNext]_allVars => (focus = "moves" => (focus = "moves")') /\ (~(focus = "moves") => ~(focus = "moves")')
    BY FocusStays
  <2> QED BY <2>1, <2>2, MovesRuns, PTL DEF ComponentsSpec
<1>6. ComponentsSpec => [](focus = "counts" => Counts!InvTypeOK)
  <2>1. Counts!InvSpec => []Counts!InvTypeOK
    BY ComponentsAssumption, Counts!InventoryTyped DEF ComponentsAssumption
  <2>2. [ComponentsNext]_allVars => (focus = "counts" => (focus = "counts")') /\ (~(focus = "counts") => ~(focus = "counts")')
    BY FocusStays
  <2> QED BY <2>1, <2>2, CountsRuns, PTL DEF ComponentsSpec
<1>7. ComponentsSpec => [](focus = "retries" => Retries!InvTypeOK)
  <2>1. Retries!InvSpec => []Retries!InvTypeOK
    BY ComponentsAssumption, Retries!InventoryTyped DEF ComponentsAssumption
  <2>2. [ComponentsNext]_allVars => (focus = "retries" => (focus = "retries")') /\ (~(focus = "retries") => ~(focus = "retries")')
    BY FocusStays
  <2> QED BY <2>1, <2>2, RetriesRuns, PTL DEF ComponentsSpec
<1>8. ComponentsSpec => [](focus = "relayed" => OfflineVoidTypeOK)
  <2>1. OfflineVoidSpec => []OfflineVoidTypeOK
    BY ComponentsAssumption, OfflineVoidTyped DEF ComponentsAssumption
  <2>2. [ComponentsNext]_allVars => (focus = "relayed" => (focus = "relayed")') /\ (~(focus = "relayed") => ~(focus = "relayed")')
    BY FocusStays
  <2> QED BY <2>1, <2>2, RelayedRuns, PTL DEF ComponentsSpec
<1>9. ComponentsSpec => [](focus = "fence" => OfflineVoidTypeOK)
  <2>1. OfflineVoidSpec => []OfflineVoidTypeOK
    BY ComponentsAssumption, OfflineVoidTyped DEF ComponentsAssumption
  <2>2. [ComponentsNext]_allVars => (focus = "fence" => (focus = "fence")') /\ (~(focus = "fence") => ~(focus = "fence")')
    BY FocusStays
  <2> QED BY <2>1, <2>2, FenceRuns, PTL DEF ComponentsSpec
<1>10. ComponentsSpec => [](focus = "oneTab" => OneTab!SeqTypeOK)
  <2>1. OneTab!SeqSpec => []OneTab!SeqTypeOK
    BY ComponentsAssumption, OneTab!SeqStaysTyped DEF ComponentsAssumption
  <2>2. [ComponentsNext]_allVars => (focus = "oneTab" => (focus = "oneTab")') /\ (~(focus = "oneTab") => ~(focus = "oneTab")')
    BY FocusStays
  <2> QED BY <2>1, <2>2, OneTabRuns, PTL DEF ComponentsSpec
<1>11. ComponentsSpec => [](focus = "lossyTab" => LossyTab!SeqTypeOK)
  <2>1. LossyTab!SeqSpec => []LossyTab!SeqTypeOK
    BY ComponentsAssumption, LossyTab!SeqStaysTyped DEF ComponentsAssumption
  <2>2. [ComponentsNext]_allVars => (focus = "lossyTab" => (focus = "lossyTab")') /\ (~(focus = "lossyTab") => ~(focus = "lossyTab")')
    BY FocusStays
  <2> QED BY <2>1, <2>2, LossyTabRuns, PTL DEF ComponentsSpec
<1>12. ComponentsSpec => [](focus = "twoTabs" => TwoTabs!SeqTypeOK)
  <2>1. TwoTabs!SeqSpec => []TwoTabs!SeqTypeOK
    BY ComponentsAssumption, TwoTabs!SeqStaysTyped DEF ComponentsAssumption
  <2>2. [ComponentsNext]_allVars => (focus = "twoTabs" => (focus = "twoTabs")') /\ (~(focus = "twoTabs") => ~(focus = "twoTabs")')
    BY FocusStays
  <2> QED BY <2>1, <2>2, TwoTabsRuns, PTL DEF ComponentsSpec
<1>13. ComponentsSpec => [](focus = "nativeTabs" => NativeTabs!SeqTypeOK)
  <2>1. NativeTabs!SeqSpec => []NativeTabs!SeqTypeOK
    BY ComponentsAssumption, NativeTabs!SeqStaysTyped DEF ComponentsAssumption
  <2>2. [ComponentsNext]_allVars => (focus = "nativeTabs" => (focus = "nativeTabs")') /\ (~(focus = "nativeTabs") => ~(focus = "nativeTabs")')
    BY FocusStays
  <2> QED BY <2>1, <2>2, NativeTabsRuns, PTL DEF ComponentsSpec
<1>14. ComponentsSpec => [](focus = "oneTill" => OneTill!SubmissionTypeOK)
  <2>1. OneTill!SubmissionSpec => []OneTill!SubmissionTypeOK
    BY ComponentsAssumption, OneTill!SubmissionTyped DEF ComponentsAssumption
  <2>2. [ComponentsNext]_allVars => (focus = "oneTill" => (focus = "oneTill")') /\ (~(focus = "oneTill") => ~(focus = "oneTill")')
    BY FocusStays
  <2> QED BY <2>1, <2>2, OneTillRuns, PTL DEF ComponentsSpec
<1>15. ComponentsSpec => [](focus = "twoTills" => TwoTills!SubmissionTypeOK)
  <2>1. TwoTills!SubmissionSpec => []TwoTills!SubmissionTypeOK
    BY ComponentsAssumption, TwoTills!SubmissionTyped DEF ComponentsAssumption
  <2>2. [ComponentsNext]_allVars => (focus = "twoTills" => (focus = "twoTills")') /\ (~(focus = "twoTills") => ~(focus = "twoTills")')
    BY FocusStays
  <2> QED BY <2>1, <2>2, TwoTillsRuns, PTL DEF ComponentsSpec
<1>16. ComponentsSpec => [](focus = "twoBranches" => TwoBranches!SubmissionTypeOK)
  <2>1. TwoBranches!SubmissionSpec => []TwoBranches!SubmissionTypeOK
    BY ComponentsAssumption, TwoBranches!SubmissionTyped DEF ComponentsAssumption
  <2>2. [ComponentsNext]_allVars => (focus = "twoBranches" => (focus = "twoBranches")') /\ (~(focus = "twoBranches") => ~(focus = "twoBranches")')
    BY FocusStays
  <2> QED BY <2>1, <2>2, TwoBranchesRuns, PTL DEF ComponentsSpec
<1>17. ComponentsSpec => [](focus = "twoSales" => IntentTypeOK)
  <2>1. IntentSpec => []IntentTypeOK
    BY ComponentsAssumption, IntentTyped DEF ComponentsAssumption
  <2>2. [ComponentsNext]_allVars => (focus = "twoSales" => (focus = "twoSales")') /\ (~(focus = "twoSales") => ~(focus = "twoSales")')
    BY FocusStays
  <2> QED BY <2>1, <2>2, TwoSalesRuns, PTL DEF ComponentsSpec
<1>18. ComponentsSpec => [](focus = "twoLookups" => IntentTypeOK)
  <2>1. IntentSpec => []IntentTypeOK
    BY ComponentsAssumption, IntentTyped DEF ComponentsAssumption
  <2>2. [ComponentsNext]_allVars => (focus = "twoLookups" => (focus = "twoLookups")') /\ (~(focus = "twoLookups") => ~(focus = "twoLookups")')
    BY FocusStays
  <2> QED BY <2>1, <2>2, TwoLookupsRuns, PTL DEF ComponentsSpec
<1>19. ComponentsSpec => [](focus = "oneScreen" => OpensTypeOK)
  <2>1. OpensSpec => []OpensTypeOK
    BY ComponentsAssumption, OpensTyped DEF ComponentsAssumption
  <2>2. [ComponentsNext]_allVars => (focus = "oneScreen" => (focus = "oneScreen")') /\ (~(focus = "oneScreen") => ~(focus = "oneScreen")')
    BY FocusStays
  <2> QED BY <2>1, <2>2, OneScreenRuns, PTL DEF ComponentsSpec
<1>20. ComponentsSpec => [](focus = "twoScreens" => OpensTypeOK)
  <2>1. OpensSpec => []OpensTypeOK
    BY ComponentsAssumption, OpensTyped DEF ComponentsAssumption
  <2>2. [ComponentsNext]_allVars => (focus = "twoScreens" => (focus = "twoScreens")') /\ (~(focus = "twoScreens") => ~(focus = "twoScreens")')
    BY FocusStays
  <2> QED BY <2>1, <2>2, TwoScreensRuns, PTL DEF ComponentsSpec
<1>21. ComponentsSpec => [](focus = "boot" => BootTypeOK)
  <2>1. BootSpec => []BootTypeOK
    BY ComponentsAssumption, BootTyped DEF ComponentsAssumption
  <2>2. [ComponentsNext]_allVars => (focus = "boot" => (focus = "boot")') /\ (~(focus = "boot") => ~(focus = "boot")')
    BY FocusStays
  <2> QED BY <2>1, <2>2, BootRuns, PTL DEF ComponentsSpec
<1> DEFINE A == /\ (focus = "cut" => TypeOK)
                /\ (focus = "case" => CaseTypeOK)
                /\ (focus = "approval" => ApprovalTypeOK)
                /\ (focus = "goods" => Goods!InvTypeOK)
                /\ (focus = "moves" => Moves!InvTypeOK)
                /\ (focus = "counts" => Counts!InvTypeOK)
<1> DEFINE B == /\ (focus = "retries" => Retries!InvTypeOK)
                /\ (focus = "relayed" => OfflineVoidTypeOK)
                /\ (focus = "fence" => OfflineVoidTypeOK)
                /\ (focus = "oneTab" => OneTab!SeqTypeOK)
                /\ (focus = "lossyTab" => LossyTab!SeqTypeOK)
                /\ (focus = "twoTabs" => TwoTabs!SeqTypeOK)
<1> DEFINE C == /\ (focus = "nativeTabs" => NativeTabs!SeqTypeOK)
                /\ (focus = "oneTill" => OneTill!SubmissionTypeOK)
                /\ (focus = "twoTills" => TwoTills!SubmissionTypeOK)
                /\ (focus = "twoBranches" => TwoBranches!SubmissionTypeOK)
                /\ (focus = "twoSales" => IntentTypeOK)
                /\ (focus = "twoLookups" => IntentTypeOK)
<1> DEFINE D == /\ (focus = "oneScreen" => OpensTypeOK)
                /\ (focus = "twoScreens" => OpensTypeOK)
                /\ (focus = "boot" => BootTypeOK)
<1>22. ComponentsSpec => []A
  BY <1>1, <1>2, <1>3, <1>4, <1>5, <1>6, PTL
<1>23. ComponentsSpec => []B
  BY <1>7, <1>8, <1>9, <1>10, <1>11, <1>12, PTL
<1>24. ComponentsSpec => []C
  BY <1>13, <1>14, <1>15, <1>16, <1>17, <1>18, PTL
<1>25. ComponentsSpec => []D
  BY <1>19, <1>20, <1>21, PTL
<1>26. A /\ B /\ C /\ D => ComponentsTypeOK
  BY DEF ComponentsTypeOK, On, Voids, Journals, Screenings
<1> HIDE DEF A, B, C, D
<1> QED BY <1>22, <1>23, <1>24, <1>25, <1>26, PTL
=============================================================================
