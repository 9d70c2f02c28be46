------------------------------ MODULE Balances ------------------------------
(***************************************************************************)
(* A trader's vault balance on its way from the escrow to the pages that   *)
(* show it.  Every change of the escrow makes the Vault emit               *)
(* BalanceUpdated, deposits and withdrawals an event of their own besides; *)
(* the indexer handles them all at once.  What it learns goes to a key     *)
(* that expires and to the page, which asks GET /trading/balance anew at   *)
(* each event and every two minutes.  Deposits and withdrawals are made    *)
(* from the page's own dialogs (VaultModal, DepositWithdrawPanel).         *)
(***************************************************************************)
EXTENDS Naturals, FiniteSets

CONSTANTS
    Dialogs,
    Amounts,       \* amounts the dialogs and the trades are tried with
    Supply,        \* all the trader has
    MaxChanges,    \* bound on transactions
    MaxMishaps,    \* bound on calls that fail, restarts and lost connections
    Empty,         \* no balance
    Asked          \* the page's request has not been looked at

ASSUME BalancesAssumption ==
    IsFiniteSet(Dialogs) /\ Supply \in Nat /\ Amounts \subseteq 1 .. Supply
    /\ MaxChanges \in Nat /\ MaxMishaps \in Nat /\ Empty # Asked

VARIABLES
    funds,         \* USDC in the trader's escrow
    purse,         \* USDC in the trader's wallet
    allowance,     \* USDC the Vault may take from it
    dialog,
    events,        \* the handlers of Vault events at work
    cache,         \* user_usdc_balance:<wallet>
    shown,         \* the balance on the page
    asking,        \* the page's request, its answer, or Empty
    online,        \* the page's socket
    changes,
    mishaps

money == <<funds, purse, allowance, changes>>
wallet == <<shown, asking, online>>
balancesVars == <<money, dialog, events, cache, wallet, mishaps>>

Usdc == 0 .. Supply

Closed == [at |-> "idle", amount |-> 0]

BalancesInit ==
    /\ funds = 0 /\ purse = Supply /\ allowance = 0
    /\ dialog = [d \in Dialogs |-> Closed]
    /\ events = {}
    /\ cache = Empty
    /\ shown = 0 /\ asking = Asked /\ online = TRUE
    /\ changes = 0 /\ mishaps = 0

Mishap == mishaps < MaxMishaps /\ mishaps' = mishaps + 1
Counted == changes < MaxChanges /\ changes' = changes + 1

\* What the watcher makes of the Vault's events.
OfBalanceUpdated == [at |-> "read", balance |-> funds']
OfDepositOrWithdraw == [at |-> "called", balance |-> Empty]

-----------------------------------------------------------------------------
(* The wallet and the dialogs.  A receipt ends the wait for it whatever    *)
(* its status, so a transaction that reverted ends like one that did not.  *)

Approve(d, amount) ==
    /\ dialog[d] = Closed
    /\ Counted
    /\ dialog' = [dialog EXCEPT ![d] = [at |-> "approved", amount |-> amount]]
    /\ allowance' = amount
    /\ UNCHANGED <<funds, purse, events, cache, wallet, mishaps>>

Deposit(d) ==
    /\ dialog[d].at = "approved"
    /\ dialog' = [dialog EXCEPT ![d].at = "mined"]
    /\ IF dialog[d].amount <= allowance /\ dialog[d].amount <= purse
         THEN /\ funds' = funds + dialog[d].amount
              /\ purse' = purse - dialog[d].amount
              /\ allowance' = allowance - dialog[d].amount
              /\ events' = events \union {OfDepositOrWithdraw, OfBalanceUpdated}
         ELSE UNCHANGED <<funds, purse, allowance, events>>
    /\ UNCHANGED <<changes, cache, wallet, mishaps>>

(* The chain is asked first, not the balance shown. *)
CheckBalance(d, amount) ==
    /\ dialog[d] = Closed
    /\ amount <= funds
    /\ Counted
    /\ dialog' = [dialog EXCEPT ![d] = [at |-> "checked", amount |-> amount]]
    /\ UNCHANGED <<funds, purse, allowance, events, cache, wallet, mishaps>>

Withdraw(d) ==
    /\ dialog[d].at = "checked"
    /\ dialog' = [dialog EXCEPT ![d].at = "mined"]
    /\ IF dialog[d].amount <= funds
         THEN /\ funds' = funds - dialog[d].amount
              /\ purse' = purse + dialog[d].amount
              /\ events' = events \union {OfDepositOrWithdraw, OfBalanceUpdated}
         ELSE UNCHANGED <<funds, purse, events>>
    /\ UNCHANGED <<allowance, changes, cache, wallet, mishaps>>

(* refetch() gives up a request that is under way. *)
Refetch(d) ==
    /\ dialog[d].at = "mined"
    /\ dialog' = [dialog EXCEPT ![d] = Closed]
    /\ asking' = Asked
    /\ UNCHANGED <<money, events, cache, shown, online, mishaps>>

GiveUp(d) ==
    /\ dialog[d].at # "idle"
    /\ Mishap
    /\ dialog' = [dialog EXCEPT ![d] = Closed]
    /\ UNCHANGED <<money, events, cache, wallet>>

(* The wallet page sends USDC elsewhere. *)
SendAsset(amount) ==
    /\ Counted
    /\ amount <= purse
    /\ purse' = purse - amount
    /\ UNCHANGED <<funds, allowance, dialog, events, cache, wallet, mishaps>>

(* A trade or a redemption: executeTrade, recordEscrowCredit. *)
TradeWith(balance) ==
    /\ Counted
    /\ funds' = balance
    /\ funds' + purse <= Supply
    /\ events' = events \union {OfBalanceUpdated}
    /\ UNCHANGED <<purse, allowance, dialog, cache, wallet, mishaps>>

-----------------------------------------------------------------------------
(* handleVaultDeposit, handleVaultWithdraw, handleVaultBalanceUpdated *)

\* Event e is at the next step of its handler.
Advance(e, step) == events' = (events \ {e}) \union {step}

(* The event's amount is not used, the chain is read anew; if that fails,  *)
(* the key is left alone.                                                  *)
RefreshVaultBalance(e) ==
    /\ e \in events /\ e.at = "called"
    /\ \/ Advance(e, [at |-> "read", balance |-> funds]) /\ UNCHANGED mishaps
       \/ Mishap /\ Advance(e, [at |-> "cached", balance |-> Empty])
    /\ UNCHANGED <<money, dialog, cache, wallet>>

SetBalance(e) ==
    /\ e \in events /\ e.at = "read"
    /\ cache' = e.balance
    /\ Advance(e, [at |-> "cached", balance |-> Empty])
    /\ UNCHANGED <<money, dialog, wallet, mishaps>>

(* The page's query has the number of events in its key: it starts over    *)
(* with no data, which is shown as 0.                                      *)
PublishBalance(e) ==
    /\ e \in events /\ e.at = "cached"
    /\ events' = events \ {e}
    /\ IF online THEN shown' = 0 /\ asking' = Asked ELSE UNCHANGED <<shown, asking>>
    /\ UNCHANGED <<money, dialog, cache, online, mishaps>>

\* Mutant of BalanceExpires: the key stays.
BalanceStays == FALSE /\ UNCHANGED balancesVars

BalanceExpires ==
    /\ cache # Empty
    /\ cache' = Empty
    /\ UNCHANGED <<money, dialog, events, wallet, mishaps>>

-----------------------------------------------------------------------------
(* useVaultBalance and GET /trading/balance *)

AskBalance ==
    /\ asking = Empty
    /\ asking' = Asked
    /\ UNCHANGED <<money, dialog, events, cache, shown, online, mishaps>>

(* The key if it is there, else the chain, which does not fill the key; a  *)
(* read that fails is answered with 0.                                     *)
ServeBalance ==
    /\ asking = Asked
    /\ \/ asking' = (IF cache # Empty THEN cache ELSE funds) /\ UNCHANGED mishaps
       \/ cache = Empty /\ Mishap /\ asking' = 0
    /\ UNCHANGED <<money, dialog, events, cache, shown, online>>

ShowBalance ==
    /\ asking \in Usdc
    /\ asking' = Empty
    /\ shown' = asking
    /\ UNCHANGED <<money, dialog, events, cache, online, mishaps>>

GoOffline ==
    /\ online /\ online' = FALSE
    /\ Mishap
    /\ UNCHANGED <<money, dialog, events, cache, shown, asking>>

GoOnline ==
    /\ ~online /\ online' = TRUE
    /\ UNCHANGED <<money, dialog, events, cache, shown, asking, mishaps>>

(* Events of the time the indexer is down are never handled. *)
RestartIndexer ==
    /\ Mishap
    /\ events' = {}
    /\ UNCHANGED <<money, dialog, cache, wallet>>

HandlerStep == \E e \in events : RefreshVaultBalance(e) \/ SetBalance(e) \/ PublishBalance(e)
WalletStep == AskBalance \/ ServeBalance \/ ShowBalance

BalancesNext ==
    \/ \E d \in Dialogs :
           \/ \E amount \in Amounts : Approve(d, amount) \/ CheckBalance(d, amount)
           \/ Deposit(d) \/ Withdraw(d) \/ Refetch(d) \/ GiveUp(d)
    \/ \E amount \in Amounts : SendAsset(amount)
    \/ \E balance \in Usdc : TradeWith(balance)
    \/ HandlerStep \/ BalanceExpires \/ WalletStep
    \/ GoOffline \/ GoOnline \/ RestartIndexer

-----------------------------------------------------------------------------
(* In whatever order the events are handled, or not handled at all, the    *)
(* balance shown ends up being the escrow's.                               *)
BalanceSettles == <>[](shown = funds)
=============================================================================
