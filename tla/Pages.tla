------------------------------- MODULE Pages -------------------------------
(***************************************************************************)
(* A browser with one page open: the home page, one with the trader's      *)
(* balance, the admin's, or a market's order ticket.  What they show has   *)
(* nothing in common, so each is explored by itself, with the part of the  *)
(* program it is fed from.                                                 *)
(***************************************************************************)
EXTENDS LivePrices, Balances, Snapshots, Ticket

VARIABLE open

vars == <<open, pricesVars, balancesVars, snapshotsVars, ticketVars>>

Init ==
    /\ open \in {"home", "wallet", "admin", "market"}
    /\ PricesInit /\ BalancesInit /\ SnapshotsInit /\ TicketInit
    /\ open = "market" \/ panel = "binary"

Home(step) ==
    open = "home" /\ step /\ UNCHANGED <<open, balancesVars, snapshotsVars, ticketVars>>
Wallet(step) ==
    open = "wallet" /\ step /\ UNCHANGED <<open, pricesVars, snapshotsVars, ticketVars>>
Admin(step) ==
    open = "admin" /\ step /\ UNCHANGED <<open, pricesVars, balancesVars, ticketVars>>
Market(step) ==
    open = "market" /\ step /\ UNCHANGED <<open, pricesVars, balancesVars, snapshotsVars>>

Next ==
    \/ Home(PricesNext)
    \/ Wallet(BalancesNext)
    \/ Admin(SnapshotsNext)
    \/ Market(TicketNext)

(* Awaits settle, jobs and pages have timers, keys expire and sockets      *)
(* connect again.  Nobody need trade, deposit or visit a page.             *)
Fairness ==
    /\ WF_vars(Home(ApiStep)) /\ WF_vars(Home(PageStep))
    /\ WF_vars(Wallet(HandlerStep)) /\ WF_vars(Wallet(WalletStep))
    /\ WF_vars(Wallet(BalanceExpires))
    /\ \A r \in Refresher : WF_vars(Admin(RefreshStep(r)))
    /\ \A k \in Key : WF_vars(Admin(WriteMissing(k))) /\ WF_vars(Admin(SnapshotExpires(k)))
    /\ WF_vars(Admin(Start("job"))) /\ WF_vars(Admin(LockExpires))

Spec == Init /\ [][Next]_vars /\ Fairness
=============================================================================
