-------------------------------- MODULE Trades --------------------------------
(***************************************************************************)
(* Trades of one brokerage account with the share lots, the realized logs  *)
(* and the ledger entries that belong to them: TradeService with           *)
(* InvestmentRepo.                                                         *)
(*                                                                         *)
(* A creation plans a sale from lots it reads before its transaction; a    *)
(* deletion compares lots it reads on a second connection; an update is a  *)
(* deletion and a creation that commit one after the other.  The           *)
(* transactions themselves take the trade's row, so that their statements  *)
(* are one step here.                                                      *)
(***************************************************************************)
EXTENDS Integers, FiniteSets, FiniteSetsExt

CONSTANTS
    MaxTrades,   \* bound: trades ever created
    MaxRequests, \* bound: requests ever made
    Bodies,      \* what a client may ask a trade to be
    Slots,       \* requests the server executes at the same time
    None

Charges == {"fee", "tax"}
Kinds == Charges \cup {"principal"}
Body == [side : {"buy", "sell"}, security : STRING, quantity : Int, price : Nat,
         charges : SUBSET Charges, provenance : {"regular_buy", "stock_dividend"}]

TradeIds == 1..MaxTrades
TradesAssumption ==
    /\ MaxTrades \in Nat /\ MaxRequests \in Nat
    /\ None \notin TradeIds /\ None \notin Bodies /\ None \notin Int
    /\ Bodies \subseteq Body

VARIABLES
    trades,  \* trades, by id: the body, or None
    held,    \* share_lots: what is left of the lot the trade bought, or None
    logs,    \* realized_trade_logs of the trade: lots and quantities sold
    entries, \* the ledger entries made for the trade, by kind
    used,    \* ids given out: 1 to used
    replaces, \* history: the trade an update deleted before it created this one
    access,  \* what the user may do with the account
    req,     \* the request each slot serves
    begun    \* how many requests have begun

tradeVars == <<trades, held, logs, entries, used, replaces, access, req, begun>>

-----------------------------------------------------------------------------
Live == {t \in TradeIds : trades[t] # None}
NoEntries == [k \in Kinds |-> "none"]
Sale == [lot : TradeIds, sold : Nat, left : Nat]
Idle == [op |-> "none", trade |-> None, body |-> None, step |-> "idle", plan |-> {}]

\* The lots of a security, whichever trade bought them.
LotsOf(security) ==
    {t \in Live : held[t] # None /\ trades[t].security = security}
Held(lots) == MapThenSumSet(LAMBDA t : held[t], lots)

\* planFIFOSell: what is taken from each lot, the first ones first; order is
\* what the listing returned.
Least(a, b) == IF a < b THEN a ELSE b
Taken(order, quantity, i) ==
    LET before == Held({order[j] : j \in 1..(i - 1)})
    IN  Least(held[order[i]], IF quantity > before THEN quantity - before ELSE 0)
PlanFIFOSell(order, quantity) ==
    {s \in {[lot |-> order[i], sold |-> Taken(order, quantity, i),
             left |-> held[order[i]] - Taken(order, quantity, i)] : i \in DOMAIN order} :
       s.sold > 0}

\* The rows of a trade: CreateTradeTx and DeleteTradeTx, CreateShareLotTx,
\* ListRealizedLogsByTradeIDTx and DeleteRealizedLogsByTradeIDTx.
WithTrade(t, body) == [trades EXCEPT ![t] = body]
WithoutTrade(t) == [trades EXCEPT ![t] = None]
WithLot(t, quantity) == [held EXCEPT ![t] = quantity]
SoldBy(t) == logs[t]
WithoutLogs(t) == [logs EXCEPT ![t] = {}]

\* UpdateShareLotQuantityTx for each lot of a plan.
Reweighed(plan) ==
    [t \in TradeIds |-> IF \E s \in plan : s.lot = t
                        THEN (CHOOSE s \in plan : s.lot = t).left ELSE held[t]]

\* The bodies name no date: lots may be listed in any order.
Orders(lots) ==
    {o \in [1..Cardinality(lots) -> lots] : \A i, j \in DOMAIN o : i # j => o[i] # o[j]}

\* INSERT INTO realized_trade_logs names every column but updated_at, which
\* has no default and may not be null.
LogStorable == FALSE

\* The rows a creation writes are ones the schema accepts: no lot of a negative
\* quantity, no lot in a status the enumeration lacks (a lot sold out would be
\* 'closed'), no realized log at all.
Storable(body, plan) ==
    /\ body.side = "buy" => body.quantity >= 0
    /\ body.side = "sell" => \A s \in plan : s.left > 0 /\ LogStorable

\* INSERT INTO holdings leaves out source_of_truth, which may not be null.
HoldingStorable == FALSE

\* A trade for money moves its notional value; a stock dividend moves none.
Principal(body) ==
    /\ ~(body.side = "buy" /\ body.provenance = "stock_dividend")
    /\ body.quantity * body.price > 0
EntriesFor(body) ==
    [k \in Kinds |-> IF k \in body.charges \/ (k = "principal" /\ Principal(body))
                     THEN "posted" ELSE "none"]

-----------------------------------------------------------------------------
Init ==
    /\ trades = [t \in TradeIds |-> None]
    /\ held = [t \in TradeIds |-> None]
    /\ logs = [t \in TradeIds |-> {}]
    /\ entries = [t \in TradeIds |-> NoEntries]
    /\ used = 0
    /\ replaces = [t \in TradeIds |-> None]
    /\ access = "write"
    /\ req = [r \in Slots |-> Idle]
    /\ begun = 0

At(r, s) == req[r].step = s
Goto(r, s) == req' = [req EXCEPT ![r].step = s]
Answer(r) == req' = [req EXCEPT ![r] = Idle]
NoStore == UNCHANGED <<trades, held, logs, entries, used, replaces>>

Begin(r, op, step, trade, body) ==
    /\ At(r, "idle")
    /\ begun < MaxRequests /\ begun' = begun + 1
    /\ req' = [req EXCEPT ![r] =
                 [op |-> op, step |-> step, trade |-> trade, body |-> body, plan |-> {}]]
    /\ NoStore /\ UNCHANGED access

\* POST, PATCH and DELETE of the account's trades.
BeginCreate(r, body) == Begin(r, "create", "account", None, body)
BeginUpdate(r, t, body) == t <= used /\ Begin(r, "update", "find", t, body)
BeginDelete(r, t) == t <= used /\ Begin(r, "delete", "find", t, None)

\* GetAccountForUserTx
FindAccount(r) ==
    /\ At(r, "account")
    /\ IF access = "none" THEN Answer(r)
       ELSE Goto(r, IF req[r].body.side = "sell" THEN "plan" ELSE "commit")
    /\ NoStore /\ UNCHANGED <<access, begun>>

\* The lots of the security, read before the transaction.
PlanSell(r) ==
    /\ At(r, "plan")
    /\ LET b == req[r].body
           lots == IF access = "none" THEN {} ELSE LotsOf(b.security)
       IN  IF b.quantity > Held(lots) THEN Answer(r)
           ELSE \E order \in Orders(lots) :
                  req' = [req EXCEPT ![r].step = "commit",
                                     ![r].plan = PlanFIFOSell(order, b.quantity)]
    /\ NoStore /\ UNCHANGED <<access, begun>>

\* The transaction of CreateTrade: entries, trade, and the lot it buys or the
\* lots it takes from.  upsertHoldingFromLots follows, and its failure is ignored.
CreateTrade(r) ==
    /\ At(r, "commit")
    /\ LET b == req[r].body
           p == req[r].plan
       IN  \/ /\ access = "write" /\ Storable(b, p)
              /\ used < MaxTrades /\ used' = used + 1
              /\ trades' = WithTrade(used', b)
              /\ entries' = [entries EXCEPT ![used'] = EntriesFor(b)]
              /\ logs' = [logs EXCEPT ![used'] = p]
              /\ replaces' = [replaces EXCEPT ![used'] = req[r].trade]
              /\ held' = IF b.side = "buy" THEN WithLot(used', b.quantity)
                         ELSE Reweighed(p)
           \/ ~(access = "write" /\ Storable(b, p)) /\ NoStore
    /\ Answer(r) /\ UNCHANGED <<access, begun>>

\* GetTradeTx, and the account in the path must be the trade's.
FindTrade(r) ==
    /\ At(r, "find")
    /\ IF access = "none" \/ trades[req[r].trade] = None THEN Answer(r) ELSE Goto(r, "lots")
    /\ NoStore /\ UNCHANGED <<access, begun>>

\* Inside the transaction but on a connection of its own: a bought lot must be
\* whole, and what a sale took is added to the lots as they are read here.
CheckLots(r) ==
    /\ At(r, "lots")
    /\ LET t == req[r].trade
       IN  IF trades[t] # None /\ held[t] # None /\ held[t] # trades[t].quantity
           THEN Answer(r)
           ELSE req' = [req EXCEPT
                  ![r].step = "undo",
                  ![r].plan = {[lot |-> s.lot, sold |-> s.sold, left |-> held[s.lot] + s.sold] :
                                 s \in {s1 \in SoldBy(t) : held[s1.lot] # None}}]
    /\ NoStore /\ UNCHANGED <<access, begun>>

\* DeleteTransactionTx fails for an entry that is already deleted, and
\* upsertHoldingFromLots for a security of which anything is left.
Removable(t) ==
    /\ access = "write" /\ trades[t] # None
    /\ \A c \in Charges \cap trades[t].charges : entries[t][c] = "posted"
    /\ \/ HoldingStorable
       \/ Held(LotsOf(trades[t].security) \ {t}) = 0

\* Fault: the lot a deleted purchase brought is left behind.
Kept(lots, t) == lots

Without(lots, t) == [lots EXCEPT ![t] = None]

\* Fault: the tax is forgotten.
UnchargedFee(t) == [entries[t] EXCEPT !["fee"] = IF @ = "posted" THEN "deleted" ELSE @]

\* The entries a deletion takes along: the fee and the tax, not the principal.
Uncharged(t) == [k \in Kinds |-> IF k \in Charges /\ entries[t][k] = "posted"
                                 THEN "deleted" ELSE entries[t][k]]

\* The transaction of DeleteTrade; an update goes on to create the new trade.
DeleteTrade(r) ==
    /\ At(r, "undo")
    /\ LET t == req[r].trade
           p == req[r].plan
       IN  \/ /\ Removable(t)
              /\ trades' = WithoutTrade(t)
              /\ held' = Without(Reweighed(p), t)
              /\ logs' = WithoutLogs(t)
              /\ entries' = [entries EXCEPT ![t] = Uncharged(t)]
              /\ IF req[r].op = "update"
                 THEN req' = [req EXCEPT ![r].step = "account", ![r].plan = {}]
                 ELSE Answer(r)
              /\ UNCHANGED <<used, replaces>>
           \/ ~Removable(t) /\ Answer(r) /\ NoStore
    /\ UNCHANGED <<access, begun>>

\* TransactionService.Delete of one of the entries, by whoever sees it.
DeleteEntry(t, k) ==
    /\ access = "write" /\ entries[t][k] = "posted"
    /\ entries' = [entries EXCEPT ![t][k] = "deleted"]
    /\ UNCHANGED <<trades, held, logs, used, replaces, access, req, begun>>

\* The account is shared for reading only, or no longer.
Unshare ==
    /\ access' = IF access = "write" THEN "read" ELSE "none"
    /\ access # "none"
    /\ NoStore /\ UNCHANGED <<req, begun>>

\* The connection to the database is lost: whatever was not committed is not.
Abort(r) == ~At(r, "idle") /\ Answer(r) /\ NoStore /\ UNCHANGED <<access, begun>>

Next ==
    \/ \E r \in Slots :
         \/ \E b \in Bodies : BeginCreate(r, b)
         \/ \E t \in TradeIds, b \in Bodies : BeginUpdate(r, t, b)
         \/ \E t \in TradeIds : BeginDelete(r, t)
         \/ FindAccount(r) \/ PlanSell(r) \/ CreateTrade(r)
         \/ FindTrade(r) \/ CheckLots(r) \/ DeleteTrade(r) \/ Abort(r)
    \/ \E t \in TradeIds, k \in Kinds : DeleteEntry(t, k)
    \/ Unshare

Spec == Init /\ [][Next]_tradeVars

-----------------------------------------------------------------------------
TypeOK ==
    /\ trades \in [TradeIds -> Bodies \cup {None}]
    /\ held \in [TradeIds -> Nat \cup {None}]
    /\ \A t \in TradeIds : logs[t] \subseteq Sale
    /\ entries \in [TradeIds -> [Kinds -> {"none", "posted", "deleted"}]]
    /\ used \in 0..MaxTrades /\ begun \in 0..MaxRequests
    /\ replaces \in [TradeIds -> TradeIds \cup {None}]
    /\ access \in {"write", "read", "none"}

\* An update puts one trade in the place of another, although it is a deletion
\* and a creation that commit one after the other and others may update or delete
\* the same trade: the trade replaced is gone with its lot, and nothing else has
\* replaced it too, so that no purchase counts twice (UpdateTrade, DeleteTrade).
TradesReplacedOnce ==
    \A t \in TradeIds : replaces[t] # None =>
      /\ trades[replaces[t]] = None /\ held[replaces[t]] = None
      /\ \A u \in TradeIds \ {t} : replaces[u] # replaces[t]

\* No fee or tax stays in the ledger without its trade, whichever of two
\* requests deletes or replaces the trade (DeleteTrade, UpdateTrade).
ChargesFollowTrades ==
    \A t \in TradeIds, c \in Charges :
      entries[t][c] = "posted" => trades[t] # None /\ c \in trades[t].charges
=============================================================================
