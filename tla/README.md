# A TLA+ model of goen-api

goen-api is the backend of a personal-finance application: a Go HTTP server
(chi) over PostgreSQL (pgx), with Redis for a cache and a job stream and an S3
store for media. This directory holds TLA+ modules for the parts of it in which
several steps, requests or tables have to agree, the TLC configurations that
check them on small instances, and proofs of the main results for all instances.

Contents: [inventory](#inventory), [plan](#plan),
[modules](#modules-and-the-code-they-model), [runs](#runs-and-what-they-show),
[bounds](#bounds), [fairness](#fairness), [proofs](#proofs),
[what the code does differently](#where-the-code-and-its-comments-part),
[not modelled](#what-is-not-modelled).

## Inventory

Every request runs in a goroutine of its own: handler (`internal/handler/http/v1`)
-> service (`internal/service`) -> repository (`internal/repository/postgres`).
Nothing is shared in memory between requests but the connection pool; requests
meet in the database. `database.Postgres.WithTx` gives a service method one
PostgreSQL transaction at READ COMMITTED: it commits when the method returns nil
and rolls back when it returns an error, panics, or loses its client. No query
selects rows FOR UPDATE and no row carries a version, so whatever a method read
before it writes may be stale by then. A repository method called with a nil
transaction takes a connection from the pool and commits by itself.

| Component | State | Operations | What must hold |
|---|---|---|---|
| Debts and payments | `debts`, `debt_payment_links` | Create, Update, Delete, AddPayment, Repay, CleanupTransactionLinksTx | principal = outstanding + payments recorded; deleted debts stay as they are; deletion of a transaction leaves nothing of it behind |
| Transactions | `transactions`, line items, tags | Create (with shared debts), Patch, BatchPatch, Delete, List, Export | created with its debts or not at all; an atomic batch is applied whole, the line items of an entry come from one request; pages miss nothing that stays where it is |
| Database transactions | connection pool | WithTx, Queryer | connections come back; waiting requests are served |
| Accounts, sharing | `accounts`, `user_accounts` | Create, Patch, Delete, UpsertShare, RevokeShare | one active owner; a deleted account stays deleted |
| Savings | `savings_instruments` on an account | CreateSavings, PatchSavings, DeleteSavings | an instrument and its account come and go together |
| Rotating savings | groups, contributions | Create/Update/DeleteGroup, Create/DeleteContribution, schedule | each contribution is backed by a posted transaction; a deleted group leaves none behind; the schedule adds up |
| Trades | `trades`, `share_lots`, `realized_trade_logs`, `holdings` | CreateTrade, UpdateTrade, DeleteTrade | an update puts one trade in the place of one other; fees and taxes go with their trade |
| Sign-in | `users`, `refresh_tokens` | Signup, Signin, Refresh, Logout, ChangePassword, UpdateMyProfile | a session has one good refresh token at most |
| Import staging | `staged_imports`, rules | StageImport, PatchStaged, Delete, ApplyRules, CreateMany | an external reference is posted once |
| Contacts, tags | `contacts`, `tags` | CRUD, GetOrCreateByName | links follow addresses; one tag of a name and language |
| Categories | table, Redis cache | List, Get | the cache catches up with the table |
| Market data | Redis stream, status rows | Enqueue*, status | what was acknowledged is queued |
| Budgets | `budgets` | Create, Update, Delete, List | periods tile the calendar; what was spent is shown |
| Reports | none | dashboard: balances, cash flow | balances add up to income less expense; months are counted once |
| Audit log | `audit_logs` | Record, cleanup job | logs and changes go together |
| Public profile, settings, media, HTTP shell | tables, S3 | single statements and queries | - |

How they interact. Deleting a transaction (`TransactionService.Delete`) calls the
debt and the rotating-savings services inside its own database transaction; both
are injected after construction (`app.go`), so the calls go both ways. Debts and
rotating savings create ledger transactions, trades create up to three. Import
calls `TransactionService.Create` once per row, each in a transaction of its own.
Rotating savings call `TransactionService.Delete` from inside their own database
transaction, which opens a second, independent one. All of them ask
`user_accounts` for the caller's permission, some in the statement that writes,
some in an earlier one.

What is hard here: read-modify-write over READ COMMITTED; checks made in one
statement or one connection and relied on in another; statements outside any
transaction, which a client that leaves or a restart separates; a database
transaction opened inside another, which needs a second connection and can commit
while the outer one does not; errors of later statements that are dropped; rows
locked in different orders; retries of what was already done; half cents and the
last days of months. `PROJECT.json` lists each of these hazards at its line.

## Plan

1. *Debts* (the core; done): `DebtLedger`, the atomic specification of what each
   handler promises; `DebtStatements`, the handlers statement by statement,
   shown to implement it; `DebtLedgerProofs`, `DebtStatementsProofs`.
2. *Accounts* with savings (done), `AccountsProofs`.
3. *Rotating savings* (done): nested transactions, ignored errors;
   `ProgressProofs`. Its schedule: `GroupSchedule`. The pool by itself:
   `ConnectionPool`.
4. *Sign-in* (done): `Sessions`, shown to implement `SessionChain`;
   `SessionsProofs`.
5. *Import staging* (done): `ImportStaging`, `ImportStagingProofs`.
6. *Trades* (done): `Trades`.
7. *Ledger entries* (done): `TransactionEdits` over `RowVersions`, shown to implement
   `LineItems` for batches; `TransactionEditsProofs`; `TransactionPages`.
8. *Smaller parts* (done): `Contacts`, `Tags`, `CategoryCache`, `MarketJobs`,
   `Budgets` and `Reports` over `Calendar`, `AuditTrail`.
9. *Proofs of the smaller parts* (done): `Backoffice` and `Progress` put the parts that share
   no rows side by side, for any values of their constants; `BackofficeProofs`,
   `ProgressProofs`, `ImportStagingProofs`. Still worth writing: `Conservation` for the
   overlaps of one user's requests that `statements_harmless` checks.

The components share the ledger's entries and the caller's permissions, so each
module carries the part of `transactions` and `user_accounts` that its component
reads; where two components act in one database transaction (deleting an entry
with its debts, a contribution with its entry) one module has both. Components
that share no rows are checked side by side, see [runs](#runs-and-what-they-show).

## Modules and the code they model

### DebtLedger

State: `debt`, `txn`, `link` are the rows of `debts`, `transactions` and
`debt_payment_links` by id (the last by its unique `transaction_id`). Each
handler is one atomic step; a handler that fails changes nothing and is no step.

| Action | Code |
|---|---|
| `CreateDebt` | `DebtService.Create` without a ledger transaction |
| `CreateTransaction` | `TransactionService.Create` with the debts of its participants; `DebtService.Create` with a ledger transaction |
| `UpdateDebt`, `DeleteDebt` | `DebtService.Update`, `.Delete` |
| `AddPayment`, `Repay` | the handlers; both run `AddPaymentTx` (`RecordPayment`) |
| `DeleteTransaction` | `TransactionService.Delete` with `CleanupTransactionLinksTx` (`Cleaned`) |

Amounts in requests are decimal strings, here multiples of 1/`Subunits` of a cent;
what is stored is rounded to cents as `Rat.FloatString(2)` does. They may be negative, as
`IsValidDecimal` lets negative ones through and `debt_payment_links` has no `CHECK`: a
payment may take back principal, accrue interest, or do one of each. The `CHECK`
constraints and the enum of `debts` are `RowAccepted`, asked wherever a row is
stored, also by the deletion that gives a payment back. A debt row keeps what the properties
read: owner,
principal, balances, status, originating transaction, `closed_at` as a Boolean.
Transfers between two accounts cannot carry debts and are left out. `deleted_at` is a
Boolean here and in `Contacts` and `Budgets`: that a repeated deletion sets it to a later
time is not modelled.

### DebtStatements

The same handlers, one SQL statement per step, run by the request goroutines
(`Slots`). `own` is what an open transaction has written: invisible to others,
and locked for them. `WaitsFor` says which statements wait for whose locks;
`BreakDeadlock` is PostgreSQL's detector; `Abort` is the client that goes away, or
a crash, at any point. `Overlap` says which requests of one user may run at
once; the server itself restricts nothing, so `Overlap = "any"` is what it
accepts, and the other two values single out the traffic for which the books stay
right. The handlers that only insert rows (`Create`) stay single steps: nobody
sees or waits for a row that is not committed.

### Accounts

State: `account`, `share`, `txn` are the rows of `accounts`, `user_accounts` and
`transactions` (of the last only the accounts they name); `req`, `step` and
`doomed` are, per request goroutine, the request, its next statement and the
transfers its open transaction has marked and locked.

| Action | Code |
|---|---|
| `CreateInsert`, `CreateOwner` | `AccountService.Create`: two INSERTs, no transaction |
| `CreateSavings` | `SavingsService.CreateSavings` |
| `DeleteRead`, `Sweep`, `Mark` | `AccountService.Delete`; `Sweep`, `Mark` also `DeleteSavings` |
| `PatchSavingsGet`, `PatchSavingsSet` | `SavingsService.PatchSavings` |
| `Patch`, `UpsertShare`, `RevokeShare` | the `AccountService` methods |
| `Post`, `Remove` | ledger entries created and deleted, as far as accounts matter |

A handler is split only where another request can come in between and matter; the
rest are single steps. `Mark` is also the commit. Two sweeps that lock two
transfers crosswise end like `Abort`. `Traffic` says what may overlap: the
server accepts `any`; `apart` lets everything overlap but a deletion with what
names the deleted account. Clients post only to accounts they have been shown;
the code itself asks for a share and not whether the account still exists.

### RotatingSavings

State: `group`, `row`, `entry`, `perm` are the rows of `rotating_savings_groups`,
`rotating_savings_contributions`, `transactions` and `user_accounts`. A contribution
and its ledger entry are created together and share an id. `req` and `step` are, per
request goroutine, the request and its next statement.

| Action | Code |
|---|---|
| `CreateGroup` | `RotatingSavingsService.CreateGroup` |
| `UpdateGet`, `UpdateSet` | `.UpdateGroup`: reads the group, then writes all of it |
| `ContributeGet`, `Contribute` | `.CreateContribution`: reads the group, then one transaction |
| `DropList`, `DropBegin`, `DropEntry`, `DropRow` | `.DeleteContribution`: list, open the transaction, `TransactionService.Delete` in another, delete the row and commit |
| `GroupList`, `GroupEntry`, `GroupGone` | `.DeleteGroup`: the same for each contribution listed, then the group |
| `Remove` | `TransactionService.Delete` with `CleanupTransactionLinksTx`, called by a client |
| `Reshare` | permission granted or revoked, as in `Accounts` |
| `Abort` | the client goes away; what is open is rolled back |

`Removed` is all of the inner deletion, an entry the user cannot see included, which
stays. `Tried` is that deletion as `DeleteContribution` and `DeleteGroup` call it: whatever
fails in it, a statement, the connection or the commit, they drop the error and go on, so
that it may always do nothing. `Holding` and `Free` are the pool: a deletion under way
holds one of `PoolSize` connections and needs another for each inner deletion. The
server limits neither deletions nor what overlaps; `Deleters` bounds the
deletions in flight, and `Traffic = "apart"` singles out the traffic for which
contributions are posted where their group says: nobody loses access to an account, and no
contribution is made to a group that is being deleted or changed.

### ConnectionPool

State: `holder` of each connection, the queue `waiting`, the `phase` of each slot and how
often it will still ask for a connection while it keeps one (`inner`). `Ask` is
`pool.Begin`, `Query` or `Exec`; `AskAgain` a repository called with a nil transaction by a
request that is inside one or inside an open listing (`Queryer`); `Grant`, `GiveBack` the
pool; `Finish`, `Fail`, `Leave` the ways out of `WithTx`. `Nesters` are the slots whose
requests ask again: budget lists, transaction lists, deletions of trades and of
rotating savings groups, debts created with a transaction.

### GroupSchedule, Calendar

`GroupSchedule`: `generateSchedule`, `ListGroups` and `GetGroupDetail` as operators over a group's
terms and `history`, its recorded contributions and payouts, which come and go in any
order, one of a cycle before the first among them. `Calendar` is Go's `time.Date` and `AddDate`,
on day numbers; its operators are
compared with the Gregorian calendar over three years by `CalendarAssumption`.

### TransactionEdits, RowVersions, LineItems

`RowVersions` is what PostgreSQL keeps of a row while transactions that changed it are open,
and which versions a statement sees or waits for. `TransactionEdits` runs creations, single
patches, partial and atomic batches and deletions over it, one statement per action in the
order of `patchTransactionTx`: `Check`, `UpdateRow`, `First`/`Note`, `Scan`/`Remove`,
`InsertLine`, `Untag`, `InsertTags`, `Reread`; `Insert`, `DeleteFind`, `DeleteRow`, `Commit`
for the rest. `Scan` and `Remove` are one DELETE, which looks for rows before it waits
for them. `Abort` is PostgreSQL ending a transaction of a deadlock, `Restart` the server
ending. Line items have an amount and a note; a creation takes their sum for the amount
and writes its description into the first if that has no note (`Summed`, `Titled`).
`habit` says how clients edit: in atomic batches that carry the amount or status, a
column of the row (`"batch"`); in atomic batches of any kind (`"atomic"`); or in every way
there is, one by one and in partial batches too (`"any"`). Only the first kind takes the
lock on the row before it looks for line items. A batch may name an entry twice: its transaction
sees what it wrote the first time,
and the note goes to the line item it went to before (`Lead`), as that is still first in the
order of ids. `LineItems` is what batches of the
first kind promise: an entry's sheet (the empty set, or
the set of one record) changes only by whole edits, all entries of a batch at once. Where a
batch names an entry twice the second edit is the first again, and the promise makes one of
them.

### TransactionPages

`ListTransactionsTx` as the count and the query of one page after the other, while
entries come and go, and the export, which is one such list. An entry is known by its
place: an edit of its time, or of what lists are filtered by, moves it to another
(`Edit`), in or out of the list, and the walk under way keeps apart what that may
make it miss (`removed`) or see twice (`added`).

### Sessions, SessionChain

One action per statement of `Signup` (`InsertUser`, `InsertAccount`, `InsertOwner`,
`InsertToken`), `Signin`, `Refresh` (`GetToken`, `FindUser`, `Rotate`, `InsertToken`), `Logout`
and `ChangePassword` (`FindSelf`, `Compare`, `UpdatePassword`); none runs in a transaction and
each may end
anywhere (`Interrupt`). `chain` is a history variable: the session a token belongs to.
`SessionChain` is what a client relies on, a chain of tokens of which one at most is good. It
holds under
two conditions the server does not impose: `Traffic = "apart"`, one refresh or logout of a
session at a time, and `LostDeletes = FALSE`, the deletion of the old token, whose error
`Refresh` drops, does not fail by itself.

### ImportStaging

`StageImport`, `UpsertRules` and the deletions are single steps. `PatchStaged` reads
metadata (`ReadMeta`) and writes them back (`WriteMeta`); `CreateManyFromStaged` goes
through `GetStaged`, `Post` and the same two steps per item; `ApplyRules` lists, maps
(`MapItem`) and promotes. Posting is `TransactionService.Create` behind the unique index on
account and external reference (`Free`).

### Trades

A creation is `FindAccount`, `PlanSell` (lots read outside) and `CreateTrade`; a
deletion `FindTrade`, `CheckLots` (a second connection) and `DeleteTrade`; an update one after the
other. `Storable` and `HoldingStorable` say what the schema accepts of the rows they write. It
takes none that a
sale writes, so that of sales only the plan, the attempt and its rollback occur. `replaces` is a
history variable: the trade an update has put another in the place of.
Lots and trades share ids, as each purchase has one lot.

### Contacts, Tags, CategoryCache, MarketJobs, AuditTrail

Handlers of two or three statements that commit by themselves, one action each, with an
`Abort`/`Interrupt` in between. `Contacts` has the profiles its links depend on,
`CategoryCache` a Redis that comes and goes and migrations beside a running server,
`MarketJobs` an XADD that may be repeated or lose its answer, `AuditTrail` both ways of
recording (inside a transaction, after the fact) and the daily job.

### Budgets, Reports

`Budgets`: `EndOf` is `normalizeBudgetPeriod`; a patch is a read and a write; `Spent` is the
query and what `withStats` makes of its failure. `Reports` has no state of its own: `Balance`
and `Rows` over the entries that are `booked`, on every day. A transfer may have an amount of its own
at each end (`Arrives`, `Leaves`: the `COALESCE` of `sql_fragments.go`).

### Backoffice, Progress

Parts that share no rows with each other, one of them running (`part`), so that a run asks
one question of many parts at the cost of the sum of their states. `Backoffice` has the
debts of one user, once in cents and once in parts of a cent (`Fine`), and `Trades`,
`TransactionPages`, `Contacts`, `Budgets`, `GroupSchedule`, `Reports`, `MarketJobs`,
`AuditTrail` and `Tags`; `Progress` has `RotatingSavings`, `ConnectionPool` and
`CategoryCache`. The assumptions on their constants are those of the parts
(`BackofficeAssumption`, `ProgressAssumption`). The `MC` modules only give the constants
their values.

## Runs and what they show

| Run | Question | Answer |
|---|---|---|
| `backoffice` | Do one user's books balance in every order of requests, in whole and in quarters of cents (`Conservation`, `DeletionCleansUp`, `CentsNeverUnderstated`), with payments that take back too? Do trades, lists, contacts, budgets, schedules, reports, job queue, tags and audit log keep theirs? | Yes. |
| `statements_refine` | Do interleaved requests of different users act as if one at a time? | Yes, `DebtStatements` implements `DebtLedger`. |
| `statements_harmless` | Which requests of one user may overlap? | Duplicate deletions, pairs of edits and the deletion of a debt next to anything keep the books balanced. |
| `statements_progress` | Does every request end, even when two lock two debts crosswise? Is a deleted debt ever touched or paid, in any overlap? | Every one ends; no. |
| `statements_lost_update` | And two payments of one debt at once? | Violated: one balance update is lost. |
| `accounts_any` | What survives any overlap of account requests? | One owner per account, and deletions. |
| `progress` | Is every contribution posted, through nested transactions, ignored errors, retries and interruptions, and to the account of its group? Does every request get its connections and end, and do old categories leave the cache? | Yes; to that account while traffic is apart; every request does while fewer nest than there are connections; they do. |
| `group_overlap` | Does a deleted group take its entries with it? | Violated: not one of a contribution made meanwhile. |
| `edits` | Are atomic batches whole through overlaps, failures and restarts? Do deadlocks end, for edits of any kind? | While every edit is in such a batch and sets a column of the entry's row; yes. |
| `edits_doubled` | And batches that replace line items only? | Violated: two that overlap leave the line items of both. |
| `sessions` | Is one refresh token of a session good at a time, also when requests break off? Are sign-ups whole, passwords changed by their holders? | While a client sends one refresh or logout of a session at a time and no deletion of a token fails by itself; yes. |
| `imports` | Is an external reference posted once, through retries and overlapping promotions? Does an item lose its mark? | Once; no. |

`backoffice`, `edits`, `progress` and the three violated runs set
`CHECK_DEADLOCK FALSE`: their histories end when ids and requests run out.
The composite runs have one property per part for the parts' own hazards; `TypesOK` is
all their types.

Some statements are defined in the modules, with a comment that the code does not keep
them, and are checked by no run. Adding one to the cfg named here shows a shortest
history:

| Statement | Module | Add to | What happens |
|---|---|---|---|
| `DeletionRemovesEveryLink` | `DebtLedger` | `statements_refine.cfg` with `Spec` for `SPECIFICATION` | links of other users' debts survive the deletion of a shared transaction |
| `TransfersHaveBothEnds` | `Accounts` | `accounts_any.cfg` | a transfer posted during the deletion of its account keeps one end |
| `FullPaymentStorable` | `DebtLedger` | `backoffice.cfg` | the payment of all that is left has the status `paid`, which the enum lacks |
| `GroupsTakeTheirEntries` | `RotatingSavings` | `progress.cfg` | with traffic apart too: the deletion of an entry fails, its group is deleted all the same |
| `OneGoodToken` | `Sessions` | `sessions.cfg` with `Traffic = "any"` or `LostDeletes = TRUE` | two refreshes of one token both succeed; a failed deletion is ignored |
| `RefusedForAReason` | `Sessions` | `sessions.cfg` | a blank e-mail address or phone number is unique too |
| `PatchesMerge` | `ImportStaging` | `imports.cfg` with `Targets <- TwoKinds` | overlapping patches of one item lose a mapping |
| `ExportsWhole` | `TransactionPages` | `backoffice.cfg`, as `Paging!ExportsWhole` behind a definition | exports are cut at the limit of a page |
| `SpentIsShown` | `Backoffice` | `backoffice.cfg` | the query of what was spent always fails, and 0 is shown |
| `EnqueuedAreQueued` | `MarketJobs` | `backoffice.cfg`, likewise | failed appends are counted |
| `CashflowHasEveryMonth` | `Reports` | `backoffice.cfg`, likewise | on the last days of some months one is skipped |

## Bounds

Ids are model values; the tables hold at most that many rows, and a row id is
never used twice (as with UUIDs), so histories end when the ids run out and the
existing rows have settled. The debts of `backoffice` are two, with two
transactions: enough for a transaction that originates one debt and pays
another, and a payment undone with another in between; amounts are 2 and -1, so that payments
pay, take back, and accrue interest. The second ledger has one debt and counts quarters of a
cent, from -2 to 6 of them, where half-way cases and both sides of them occur, over two payments.
The statement runs keep to positive amounts: there only the proofs (`StatementsTyped`,
`StatementsRefine`, `PaymentsLand`) cover negative ones and the deletions they make fail. The
statement runs have two requests in flight, so that every pair of
handlers interleaves. `statements_refine` has two editors of one shared account, so that
different users meet on one transaction. `statements_progress` starts from a ledger in
which two transactions each originated one debt and pay the other; this is the least
that lets two deletions wait for each other.

`accounts_any` has two users, two accounts (a savings account and one other), one
ledger entry and two requests in flight: an entry of its own for each of two deletions
would only repeat the wait on `Locked`, which one transfer between the two accounts
already shows.

The groups of `progress` have two requests in flight over one group, two accounts and two
contributions: two deletions of the same contribution or group, an update against
a contribution, an inner deletion against a client's. Three connections are the
fewest that two deletions can share without the risk of waiting for each other. Its pool
has four slots, two of them nesting, on three connections: a queue forms in front of
holders that wait in it themselves. With as many nesting requests as connections they all
wait, and only a client that leaves ends it; this is why the assumption is there.

`edits` has two requests at a time and four in all (`MaxRequests`, by habit) when edits come in
batches that set a column of the row, one entry stored and one to be
created, batches that name both in either order, one of them naming an entry twice, an
edit of everything, of a note and of line items: later requests meet what the first two left. When
single edits and partial batches take part, it has two requests and one more kind of edit; there
only locks and the end of requests are asked about, and every overlap of two is met. `sessions`
has two users and three
tokens, a sign-in and two refreshes; `imports` two items with one reference or none, one
account, three requests (`MaxRequests`) and room for a second entry (`Copies = 2`) that must
not be used. In `backoffice`, two or three requests of each part (`MaxRequests`, `begun`) over one
or two rows, so that each pair of handlers overlaps and a third follows; page sizes of one
and two over four entries give walks of four pages that entries join and leave; the days
of budgets, schedules and reports are chosen around the ends of months of 28 to 31 days,
of a leap year and of a year.

## Fairness

Safety runs assume none. `FairStmtSpec` and `statements_progress` assume strong fairness
of a request's next statement (its goroutine keeps running, and PostgreSQL grants
a row lock to its waiters in turn, so one that becomes available again and again
is obtained) and weak fairness of the deadlock detector. `FairSpec` of
`RotatingSavings` assumes weak fairness only: with fewer deletions than
connections one is free at every moment, so that a statement that waits stays
enabled. `TransactionEdits` needs weak fairness of each request's next statement,
a victim of the deadlock detector included: with three requests in all nobody can keep a
row locked again and again. `ConnectionPool` assumes weak fairness of pgxpool
granting, which serves its queue in order, and of requests that hold what they need.
`CategoryCache` assumes that a key with an expiration expires and that requests
run on; neither that Redis comes back nor that anybody asks again. New requests, aborts,
failures and creations are never obliged to happen.

## Proofs

`DebtLedgerProofs` is about `DebtLedger` with any users, accounts, ids, permissions
and amounts of either sign (`ConstantsAssumption`).

- `TypeCorrect`: the tables hold rows the schema accepts. Needs that rounding is
  symmetric (`RoundNegative`), or a payment could store a balance of the wrong sign.
- `DebtsNeverUnderstated`, `BooksBalance` (the second for requests in whole cents, `Subunits = 1`):
  `NeverUnderstated` and `Conservation`. Neither is inductive: a payment must be known to be
  recorded under one link only and a link to point to a row that exists and is the
  deleter's, or giving it back would miss. The invariant proved next to `TypeOK`
  is `Books`: every link refers to a known debt, the payments of a debt are finite in
  number, so that their sums `Paid` and `PaidInterest` grow and shrink with one link at
  a time (`PaidMore`, `PaidLess`, `PaidUnchanged`), and every row is `Balanced`: owed and paid are
  no less than the principal, and equal to it, with the interest accounted for, when nothing
  rounds.
- `DebtsNeverClose`: no debt is ever closed, as the enum has no status for the row that would
  close it. `DebtsNeverSettle` (whole cents): a payment that is recorded leaves principal or
  interest to pay; with finer ones a remainder may round to nothing.
- `DeletedStayFrozen`, `DeletionsCleanUp`: `DeletedDebtsFrozen` and `DeletionCleansUp`, the second for
  whoever deletes, of any number of users.

`DebtStatementsProofs` is about `DebtStatements` with any slots and kinds of request, and
the constants of `DebtLedger` as above. The first three theorems hold for any `Overlap`.

- `StatementsTyped`: from `Typed` (`StatementsSound`), which says of every slot what its
  request carries and has written by the statement it is at (`Fits`); that a row of
  `debts` in its overlay is live and its user's in the committed table, and stays so, as
  a lock is taken on a live row and no other statement gets past it (`Holds`); and that
  two overlays share no row and two repayments no new id (`Apart`). A step that changes
  the tables has to leave the other slots what they hold (`Evolves`, `Spares`).
- `StatementsKeepDeleted`, `PaymentsLand`: the action properties `DeletedDebtsFrozen` and
  `PaymentsLandOnLiveDebts`. The second rests on the part of `Holds` about
  `"pay_reread"`: when the UPDATE has found no row, the debt is deleted for good, so
  reading it again fails; when it has found one, the debt is locked until `COMMIT`.
- `StatementsRefine` (`Overlap = "none"`): `ImplementsLedger`, each request taking effect
  at its commit, and a deletion of a debt that finds nothing taking none. From `Solo`:
  the requests in flight are of different users and delete different transactions
  (`Alone`), so what each has read and written is what the atomic handler would compute
  from the tables of this moment (`Ready`), whatever the others commit in between
  (`Foreign`, `Leaves`). A deletion is the hard case: half way it has refunded its user's
  debt (`Refunded`), has not yet deleted the debts its transaction originated
  (`Cleaned`), and the link it has or has not removed may meanwhile become somebody
  else's payment.
- `StatementsKeepBooks`: what `DebtLedgerProofs` shows of atomic handlers in whole cents,
  of the statements.

`AccountsProofs` is about `Accounts` with any users, accounts, entries and slots.
All of it rests on `Typed`: which request a slot serves, and which of its fields
are given, follows from the statement it is at (`Fits`).

- `AccountsTyped`: rows fit the schema and no two open deletions hold a transfer.
- `OneOwnerAlways`, `OwnersStay`: from `Ownership`, which adds that an absent
  account has no owner, nor one whose owner is still to be inserted, and that
  two requests never create the same account.
- `DeletedAccountsStay`: from `AccountStep`, how any step changes an account.
- `TransfersKeepBothEnds`, `DeletedAccountsMarked` (`Traffic = "apart"`): from
  `Ends`. A request about to post to an account or to rewrite it keeps the account
  live, because no deletion clashes with it; and an open deletion has marked every
  transfer of its account, because nothing that would post another overlaps.

`ProgressProofs` is about `Progress`: `RotatingSavings` with any users, accounts, groups,
contributions, slots, pool and number of deletions (`RotatingAssumption`), and
`ConnectionPool` with any connections, slots and nesting slots, of which there are fewer
than connections (`PoolAssumption`). Each part keeps to its own specification, whichever one
runs (`PartsRun`), so that an invariant of a part is one of the whole.

- `RotatingTyped`: from `Typed`, which adds which row a slot's request refers to
  (`FitsAt`) and that two contributions never get the same id. The pool is never
  overdrawn because a slot takes a connection only when one is free (`PoolKept`).
- `ContributionsPosted`, for any traffic and whatever inner deletion fails: whatever deletes an
  entry voids its
  contribution in the same transaction (`RemovedRows`); all else only takes
  contributions away (`RowSteps`).
- `PostedToGroupsAccounts` (`Traffic = "apart"`): a contribution under way must have read what
  the group still says (`Fresh`).
- `NoConnectionLeaks` (`TypesOK`): the types of all three parts, and from `Accounted`, which
  connections a request holds in each phase, and
  `InLine`: whoever is queued waits, and is queued once, or a grant could go to a
  request that has moved on.
- `NeverAtStandstill`: adds `Nesting`, that only nesting requests wait with a connection in
  hand. If all holders waited, each connection would belong to a nesting
  request of its own, and there are too few of them.

`ImportStagingProofs` is about `ImportStaging` with any items, references, names,
accounts and slots (`ImportsAssumption`).

- `ImportsTyped`, `ReferencesPostedOnce`: conjuncts of the invariant `IInv`. The second is
  inductive by itself, because the unique index is asked in the step that posts, given
  that the ledger is well formed.
- `ProcessedRowsWerePosted`: that marked items were posted (`Processed`) is not
  inductive, since the mark is chosen two statements before it is written. `Requests`
  adds what a request's mark rests on at each of its statements (`Sound`): it is the
  user's own, or that of a promotion whose entry is posted; a request that applies the
  rules carries none. `MarksStay` then covers every step that writes an item.

`SessionsProofs` is about `Sessions` with any users, tokens, profiles and slots
(`SessionsAssumption`).

- `SessionsTyped`: from `Typed`, which adds what a request has found out by the
  statement it is at (`Fits`), and that a token's session is a token handed out
  before (`Chained`).
- `SignupsWhole`: from `Signups`. Two sign-ups never create the same user, and one
  about to insert the token has inserted account and owner.
- `PasswordsSafe` (`Traffic = "apart"`): from `Holders`. That a password is
  replaced by somebody who sent the old one needs that what `Compare` read is still
  the user's password at `UpdatePassword`: one change per user at a time, and
  no other statement writes it, as e-mail addresses are unique.
- `SessionsRefine` (`Traffic = "apart"`, `LostDeletes = FALSE`, conditions on clients and failures that
  the code does not secure): `Sessions` implements `SessionChain`. From `Chains`: a session has
  one request in flight and one token that is good,
  and between the deletion of the old token and the insertion of the new one it has none.
  The chain's current token is the one that is there or, while there is none, the one the
  refresh under way has deleted: the exchange takes effect when the new token is inserted.
  A refresh that breaks off in between closes the session.

`TransactionEditsProofs` is about `TransactionEdits` with any entries, patches, batches and
slots (`EditsAssumption`).

- `EditsTyped`, for any habit: from `TInv`. An entry has one row for everybody, and one for
  each transaction, because a row is written only by the transaction that holds its lock
  and no other (`OneRow`); every version belongs to a request at work in a transaction.
- `EditsWhole`: `EditsAreWhole`, for clients of the habit `"batch"` and nobody else beside them,
  requests taking effect at `COMMIT`. From `BInv`, which for
  the habit `"batch"` adds `Batch`: what an entry holds that everybody sees, and what it
  holds for the transaction at work on it (`Private`). A transaction that has reached the
  line items or tags of an entry has locked its row, so that nobody else is there
  (`OneRow`); what it has done to them by the statement it is at (`LinesDone`,
  `TagsDone`, `Noted`) is all of one edit when it comes to the next entry, and stays so
  while it is at the others and when it comes back to an entry the batch names twice.
  `Commit` is then the only step that changes a sheet; a failure, an abort and a restart
  return to what everybody saw.

`BackofficeProofs` is about `Backoffice` with any constants (`BackofficeAssumption`, which
collects the assumptions of the parts). `PartsRun` again gives every part its own
specification; each has an inductive invariant of its own.

- `TypesKept` (`TypesOK`): from all of them.
- `CentsNeverTooLow` (`CentsNeverUnderstated`, amounts of any precision): `DebtsNeverUnderstated`
  of the second ledger (`FineLedger`, an instance of `DebtLedgerProofs`).
- `TradesReplaced`, `ChargesFollow`: from `TradesInv` and `Replacements`. Of two updates of one
  trade the DELETE of the second finds nothing, so that a trade that is gone is replaced by one
  trade or by one update still to come. As the schema takes no log of a sale, only plans that
  sell nothing are committed (`PlansEmpty`), so that every lot is what its purchase bought
  (`LotsWhole`); and ids are given once, so that no new trade meets the fee of an old one.
- `LinksFollow`: from `ContactsInv`. A request about to write a row has linked it to a user who
  has had its address (`RowsLinked`), and nobody loses having had one.
- `DeletedRowsKept`: action properties of `Contacts` and `Budgets`. The UPDATE asks again whether
  the row is live, whatever the request read before.
- `PeriodsTileAlways`: from `BudgetsInv` and the calendar. `RoundTrip` shows that Go's
  computation of year, month and day is one of numbers of days and back, for every day there
  is, and that a day comes before the first of the next month; `MonthsGrow`, that the same
  day of a later month is later. So the period after one that ended on the day before
  begins on that day, and no day is in both.
- `SchedulesAddUp` (`ScheduleAddsUp`): due dates by `MonthsGrow`; what remains by the lemmas on sums.
- `DashboardsAddUp` (`ReportsAddUp`): all balances together, account by account and kind by kind
  (`BalancesTogether`), where transfers are summed once by where they go and once by where they
  come from, and only those with amounts of their own differ; the cash flow from `FirstMonthIs`,
  as `AddDate` never lands before the month
  it names (`MonthReached`) and later days are in no earlier month (`MonthsFollow`).
- `AnswersKept`: a job acknowledged is at its id in the stream, which only grows (`MarketInv`,
  `Pieces` for the messages of a request for many securities); a tag answered is stored
  once (`TagsInv`), because the unique index is asked when it is inserted.
- `LogsMatch`: from `AuditInv`. A transaction that has recorded its change carries the log as
  a draft unless something in it failed, and commits nothing before (`Drafted`).
- `WalksWhole`: from `PagesInv`. What a walk has not seen of the entries there since its beginning
  is not before its next page while nothing is deleted or edited out of the list or further
  back in it, and what it has seen is before it while nothing is added or edited into the
  list or further forward; what is edited itself is no longer one of them (`WalkOrdered`). A page
  holds the entries of its ranks and the last
  page leaves none (`PageHolds`), as no two entries have one rank and none is left out
  (`PlaceTaken`, `PlacesBefore`); entries that come, go or do one after the other move ranks one
  way (`RanksMove`).

The lemmas on sums (`Sum`, `SumOfRest`, `SumOfUnion`, `SumByKey`) say that the community modules'
`MapThenSumSet`, which adds the elements of a set in an order of its choice, gives the same
for every order, for parts of a set and for sets grouped by a key. The provers cannot
instantiate an induction theorem; `AllSubsets` says the same of sets of sets: a smallest
subset that fails would have all its smaller ones succeed.

`TransfersHaveBothEnds` and `DeletedIsMarked` of `Accounts` are proved under
`Traffic = "apart"`; no run checks them, as the first fails without it and the
account run has `Traffic = "any"`. Likewise no run repeats
`DebtsNeverClose`, `DebtsNeverSettle` and `OwnersStay`.

Every invariant a run checks is also proved, but for `Conservation` when requests of one
user overlap (`statements_harmless`; a second deletion of a transaction may then take effect
after the first, so `DebtLedger` is not what they implement). Only model-checked, too: that
requests end, are served and see fresh categories (liveness, and `ENABLED`, are beyond the prover
used), and `CalendarAssumption`.

## Where the code and its comments part

Debts and shared entries:

- `CleanupTransactionLinksTx` removes the deleter's links and debts only; its
  comment says all (`DeletionRemovesEveryLink`).
- `AddPaymentTx` stores `paid`, which `debt_status` lacks: no debt can be paid off
  (`FullPaymentStorable`;
  the theorems `DebtsNeverClose` and `DebtsNeverSettle` show the extent). A negative payment raises
  a debt or accrues interest on it, which nothing refuses.
- Two payments of one debt at once lose an update although both run in
  transactions, which `backend.md` asks for to get ACID (`statements_lost_update`).
- A contact created for a debt is created outside the transaction and stays when the debt
  is rolled back.

Accounts:

- `AccountService.Create` inserts an account and its owner outside a transaction,
  although the repository method is listed as transactional: `CreateInsert` and
  then `Abort` leave an account without an owner.
- The deletion of an account is meant to keep balances consistent but misses
  transfers posted meanwhile (`TransfersHaveBothEnds`); its comment says that all
  related transactions go too, while `DeleteTransactionsByAccountTx` matches transfers
  only (`Transfers`): incomes and expenses of the account stay posted.

Rotating savings:

- `DeleteGroup` is said to delete the group and its transactions, but leaves the
  entries of contributions made meanwhile (`group_overlap`), and those whose deletion
  fails, as it drops the error (`GroupsTakeTheirEntries`, in any traffic). The interface calls
  `DeleteRotatingGroupTx` a soft deletion; it deletes the row, and the schema's
  cascade the contributions.
- Deleting a contribution's entry sets `deleted_at` on the contribution, which
  `ListContributionsTx` does not ask for (`Listed`): a voided contribution is still
  listed and counted.
- In the schedule a cycle paid twice makes what remains too low by the second payment,
  which is why `RemainingIsUnpaid` asks for one payment a cycle. The kind of a regular
  payment, `contribution`, is not in the schema's enum; such a contribution is refused.

Ledger entries:

- Single patches and partial batches run on the pool, so that each statement commits by
  itself: one that breaks off can leave an entry without line items. And of any two edits that
  overlap, replace line items and set no column of the row, neither takes its lock: both
  remove the old items, both insert theirs, atomic batches too (`edits_doubled`), though line items
  are said to be replaced as a whole. The promise `LineItems` is therefore checked and proved for
  atomic batches that carry the amount (`habit`).
- The mode of a batch is documented as merge or replace; the code knows `atomic` and
  `partial`. A patch cannot clear the tags of an entry.
- The pages' cursor is never read; a client that asks for more than 200 entries a page and
  counts pages by itself misses entries, and so does any that walks while an entry is re-dated
  or refiled. Exports ask for 10000 and get 200
  (`ExportsWhole`).

Trades:

- The INSERT into `realized_trade_logs` leaves out `updated_at`, and a lot sold out gets
  the status `closed`, which its enum lacks: every sale of shares that are held is rolled back
  (`LogStorable`). Holdings are never stored, as `source_of_truth` is left out
  (`HoldingStorable`), so that a trade can only be deleted when nothing else of its security is
  held.
- An update is a deletion and a creation that commit separately: what stops it in between
  loses the trade. A trade whose fee or tax entry has been deleted cannot be deleted
  any more, and its principal entry is never deleted with it.

Imports:

- An item without an external id may be posted once per promotion, and one that
  is mapped to another account once per account; the unique index speaks of both together.
  A user's patch may set any status. Overlapping patches lose mappings (`PatchesMerge`).

Sign-in:

- A blank e-mail address or phone number is stored and unique, so that only one user may
  leave each out (`RefusedForAReason`). Two refreshes of one token at once both succeed, and an
  error of the deletion of the old token is ignored (`OneGoodToken`): `SessionsAreChains` holds
  for clients
  that send one at a time and while deletions alone do not fail (`LostDeletes`).

Smaller parts:

- Budgets always show that nothing was spent, as the query names a column that `categories` has not
  and its error is dropped (`SpentIsShown`). Overlapping patches of one budget
  lose fields. Budgets that start on 29, 30 or 31 January run into March, so that the
  next month's overlaps; `PeriodsTile` speaks of days both months have.
- The cash flow lacks a month on days 29 to 31 (`CashflowHasEveryMonth`).
- The number of enqueued jobs counts those that failed (`EnqueuedAreQueued`).
- Contacts are matched to users by e-mail address with the case as it is stored.
- A tag may have the name another has in the other language.

## What is not modelled

Securities, the public profile and the audit listing are read-only queries;
user settings are one JSON column overwritten by one statement; avatars are object-storage
I/O; configuration, routing and token checks have no state that several steps share. Of
the modelled parts: corporate action elections and `TagService.GetOrCreateByName`
have no caller; the sync status of market data is shown from tables another program
writes; the dashboard's ranking of categories is a query without a property
beyond its sum. `PROJECT.json` gives the reason per component. Dates matter in `Calendar`'s
users only; descriptions, currencies, notes and formatting nowhere.
