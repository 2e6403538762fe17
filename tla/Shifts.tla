------------------------------- MODULE Shifts -------------------------------
(***************************************************************************)
(* The composition: terminals that close one shift by themselves, offline  *)
(* or online, terminals that leave the close to the server, their sweeps,  *)
(* and the cash movements and refunds that go on meanwhile.                *)
(***************************************************************************)
EXTENDS AuthoritativeClose

vars == <<shiftVars, journalVars, closeVars, authVars>>

(* Every document, record, attempt and call has the shape the code gives   *)
(* it.                                                                     *)
TypeOK == ShiftTypeOK /\ JournalTypeOK /\ CloseTypeOK /\ AuthTypeOK

Init == ShiftInit /\ JournalInit /\ CloseInit /\ AuthInit

(* The return dialog of a terminal does not send while its close is        *)
(* between the check of the guards and the journal.                        *)
Cashier == /\ ShiftNext
           /\ \A r \in Refunds : refund[r] = "unsent" /\ refund'[r] = "sent" => ~Journaling(CashDevice[r])

Next == \/ Cashier /\ UNCHANGED <<journalVars, closeVars, authVars>>
        \/ \E c \in Calls : Call(c) /\ UNCHANGED authVars
        \/ \E c \in Calls : AuthCall(c)
        \/ \E k \in Workers : Reconcile(k) /\ UNCHANGED authVars
        \/ \E d \in Devices : FlushClose(d) /\ UNCHANGED authVars
        \/ \E d \in Devices : Restart(d) /\ deferral' = [deferral EXCEPT ![d] = "idle"] /\ UNCHANGED <<sent, read>>
        \/ \E d \in Devices : SweepAttempt(d) \/ Replay(d)
        \/ \E request \in Requests : ExecuteLate(request)

Spec == Init /\ [][Next]_vars

(* The sweep runs at boot, on reconnect and from the sync orchestrator, and*)
(* queued writes are sent whenever there is a connection.  Nothing obliges *)
(* a cashier to close, nor a call to be answered.                          *)
Fairness ==
  /\ \A m \in Cash : WF_vars(FlushCash(m) /\ UNCHANGED <<journalVars, closeVars, authVars>>)
  /\ \A d \in Devices : /\ WF_vars(FlushClose(d) /\ UNCHANGED authVars)
                        /\ WF_vars(SweepAttempt(d))
                        /\ SF_vars(DeferredAnswered(d)) /\ WF_vars(ReplayDeferred(d))
  /\ \A k \in Workers : WF_vars(Reconcile(k) /\ UNCHANGED authVars)

FairSpec == Spec /\ Fairness

-----------------------------------------------------------------------------
ClosedBy(d) == Closed /\ shift.corr[1] = d
Committed(r) == refund[r] = "committed"

(* The drawer of a closed shift: every refund made on the terminal that    *)
(* closed it is in the close's figures, and no figure is made up.  A close *)
(* made online, by the terminal or by the server, has the refunds of every *)
(* terminal: a refund and a close never pass each other.                   *)
DrawerComplete ==
  Closed => /\ shift.figures.cash \subseteq shift.cash
            /\ \A r \in Refunds : Committed(r) =>
                 /\ r \in shift.cash
                 /\ CashDevice[r] = shift.corr[1] \/ shift.corr[2] = "online" \/ authored
                      => r \in shift.figures.cash

(* What a terminal shows and records of a close is the server's close,     *)
(* whatever call was lost, retried or overtaken.  A Z is it to the figure; *)
(* so is a synced record, whose mark is done only if the server's document *)
(* has it, and which was deferred only if the authority closed; and an     *)
(* attempt marked observed committed, one marked superseded did not, so    *)
(* that no attempt that committed is ever given up.                        *)
ZIsTheClose(z) == Closed /\ shift.corr = z.corr /\ shift.figures = z.figures
SyncedIsTheClose(d) ==
  HasEntry(d) /\ entry[d].status = "synced" =>
    /\ ZIsTheClose(entry[d])
    /\ entry[d].norm = "done" => shift.sync = "synced"
    /\ entry[d].deferred => authored
AttemptMarksTrue(d) ==
  HasAttempt(d) => /\ attempt[d].observed => Closed /\ shift.corr = attempt[d].corr
                   /\ attempt[d].superseded => Closed /\ shift.corr # attempt[d].corr
TerminalTellsTheClose ==
  /\ \A z \in zs : ZIsTheClose(z)
  /\ \A d \in Devices : SyncedIsTheClose(d) /\ AttemptMarksTrue(d)

(* Once closed, a shift keeps its close and its drawer for good, and its   *)
(* sync mark only goes forward.                                            *)
CloseIsFinal ==
  [][Closed => /\ shift'.status = "closed" /\ shift'.corr = shift.corr
               /\ shift'.figures = shift.figures /\ shift'.cash = shift.cash
               /\ shift.sync = "synced" => shift'.sync = "synced"]_vars

(* A close that committed ends as a synced record on the terminal that     *)
(* made it, its mark written, unless what the server committed is not what *)
(* the terminal recorded or expected.                                      *)
Agreed(d) ==
  /\ HasEntry(d) => entry[d].status # "rejected_manual_attention"
  /\ HasAttempt(d) => attempt[d].expected \in {None, shift.figures}
CommittedCloseSettles ==
  \A d \in Devices : ClosedBy(d) ~>
    \/ HasEntry(d) /\ entry[d].status = "synced" /\ entry[d].norm = "done" /\ shift.sync = "synced"
    \/ ~Agreed(d)

(* A record of a close does not stay pending for good: it is confirmed, or *)
(* rejected for a person to look at.  The exception is a record whose      *)
(* queued close met the sealed rules, on a shift nobody else closes.       *)
PendingCloseSettles ==
  \A d \in Devices : HasEntry(d) ~>
    \/ HasEntry(d) /\ entry[d].status # "local_closed_pending"
    \/ sealed /\ ~Closed
=============================================================================
