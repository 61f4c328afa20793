# Linus: a TLA+ model of the job queue and the sales connectors

The repository is a set of Odoo 15 modules: OCA's `queue_job` (background jobs),
the `syncoria_*` connectors (Shopify, Lightspeed, ResolvePay, 3PL Central), a
QuickBooks connector, `auditlog`, `purchase_deposit`, dashboards and the
company's own small overrides (`linus_*`). Here are specifications of the parts
that are concurrent or must survive failures, their model checking with TLC, and
proofs with TLAPS. All paths below are relative to `src/`.

Contents: 1 inventory, 2 how the parts interact, 3 the modules, 4 the runs,
5 fairness, 6 the proofs, 7 findings, 8 assumptions and what is left out,
9 plan.

## 1. Inventory

### queue_job: runner, jobs, controller
- *State*: the rows of table `queue_job` (state, eta, retry, date_done,
  identity_key, ...); the runner's loop and what it remembers of the rows; the
  threads that wait for an HTTP answer; the requests and their transactions.
- *Operations*: `with_delay` / `Job.enqueue`; the trigger that notifies every
  write (`post_init_hook.py`); `initialize_databases`, `process_notifications`,
  `run_jobs`, `wait_notification` (`jobrunner/runner.py`); `runjob`
  (`controllers/main.py`) with its retry, failure and success paths; buttons and
  wizards (`button_done`, `requeue`); crons (`autovacuum`,
  `requeue_stuck_jobs`).
- *Hard*: the runner, the workers, users and crons write the same rows with no
  lock but that of `runjob`; notifications may be late; a request may be served
  after its sender gave up; any process may die; transactions run at REPEATABLE
  READ.
- *Correct when*: no job is forgotten; the capacity is kept across restarts; a
  job runs in one worker at a time; done jobs stay done; every pending job is
  settled in the end.

### queue_job: identity keys (`job.py`, `delay.py`)
- *State*: the rows with one key, what their senders have changed, what the
  attempts have committed.
- *Operations*: a sender searches for a job with the key on its snapshot
  (`identity_exact`, or a key of its own) and inserts one if there is none;
  attempts succeed, ask for a retry, fail or conflict.
- *Hard*: the search is not protected by a constraint; the job that was found
  may be taken before the sender commits; an attempt may run twice.
- *Correct when*: the change of a sender is dealt with by a job that begins after
  it; the effects of a job are committed once; two rows of a key do not wait side
  by side unless their senders overlapped.

### queue_job: channel manager (`jobrunner/channels.py`)
- *State*: a tree of channels, each with a priority queue, an eta queue, a
  running set, a failed set and a pause.
- *Operations*: `notify`, `remove_job`, `remove_db`, `get_jobs_to_run` (nested
  generators), `get_wakeup_time`, the configuration parser.
- *Hard*: notifications in any order between passes, attributes of jobs that
  change, sequential channels, throttling, etas below full channels.
- *Correct when*: a job is at one place of its path, capacities hold, a pass
  leaves nothing that could run, the runner never oversleeps, a sequential
  channel keeps its order.

### queue_job_cron (`models/ir_cron.py`)
A scheduled action marked `run_as_queue_job` enqueues a job per tick instead of
running. No identity key: ticks pile up when the channel is full.

### syncoria_shopify: order feed
- *State*: `shopify.feed.orders` (payload, state), `sale.order`, `res.partner`;
  the order in Shopify.
- *Operations*: webhook `/shopify/orders/` (`controllers/main.py`), the fetch
  wizard (`wizard/fetch_orders_wiz.py`, `fetch_order_wiz_extend.py`), the button
  and the server action "Process Feed Order", all of which execute
  `process_feed_order` (`models/shopify_feed_orders.py`).
- *Hard*: `cr.commit()` in the middle of a request, with a check before it that
  is used after it; search-then-create without constraints; repeated and
  reordered webhooks whose newer payloads are dropped; exceptions swallowed.
- *Correct when*: one sale order for a Shopify order, only for confirmed ones;
  the feed row says what happened; a fetch brings confirmation and cancellation;
  one partner for a customer.

### syncoria_shopify: contents of orders (`models/shopify_feed_orders.py`)
The lines, prices, discounts, taxes and delivery lines of the sale order, and the
rows of fulfilments. Hard: products that are missing at first, orders that are
edited, allocations that do not divide, processing again. *Correct when* the
lines add up to what was charged, and a fulfilment has one row.

### syncoria_shopify: customers and contacts
`get_customer_id`, `get_partner_invoice_id`, `get_partner_shipping_id`, the import
of customers (`wizard/fetch_customers_wiz.py`) and the button that creates one in
Shopify. Hard: each commits, a contact is found by its fields, fields may be
null. *Correct when* a customer has one partner and each address one contact, in
whatever spelling, and an order goes to the address it names.

### syncoria_shopify: payments and credit notes (`models/sale.py`)
- *State*: rows of `shopify.transactions` and `shopify.refunds`, the invoice,
  its payments, credit notes and their payments; the transactions and refunds in
  Shopify.
- *Operations*: the fetches, `process_shopify_invoice`, `shopify_invoice_register_payments`,
  `process_shopify_credit_note`, `shopify_credit_note_register_payments`: all of
  them at every processing of the feed, parts of them by buttons and crons.
- *Hard*: each is search-then-create, with commits in between; several requests
  process the same order; a rollback undoes only the last part.
- *Correct when*: no transaction is paid twice and no refund credited or paid
  back twice, a credit note follows a settled invoice.

### syncoria_shopify: stock (`wizard/update_stock.py`)
The free quantities of a product at the locations that feed a Shopify warehouse
are exported by several calls, a zero and then additions, for flagged products
(cron), all products (daily) or chosen ones (wizard). The wizard goes to the
chosen locations only, and sets to zero a warehouse that others feed too. Hard:
calls fail one by one, stock moves between them, the flag is cleared at the end.
*Correct when* what Shopify shows is what is free at all the locations of a
warehouse, once the flag is clear and nothing has come between.

### syncoria_shopify: products
Creation, update, deletion and import of products and their variants in several
stores (`shopify/utils.py`, `models/products_shopify.py`,
`wizard/fetch_products_wiz.py`, `models/shopify_feed_products.py`). The ids of one
store are on the records, those of the others in rows of `shopify.multi.store`.
Hard: a remote call per store and one commit at the end; an import of another
store overwrites the ids on the records. *Correct when* the ids in Odoo are those
of goods that exist in that store.

### syncoria_shopify: webhooks and paging
Activation of webhooks (`models/webhooks.py`), the pages of the fetches. Not
modelled.

### syncoria_base_marketplace
Instances, wizards and logs shared by the connectors; dispatches by the name of
the marketplace.

### syncoria_lightspeed (`models/order_feeds.py`)
- *State*: feeds draft / error / done, and per sale an order, invoices,
  payments, a delivery, a credit note.
- *Operations*: `create_feed` fetches and resets a feed to draft, `evaluate_feed`
  makes order, payments, deposit or credit note, and catches any exception
  without a savepoint.
- *Hard*: what an evaluation did before its exception stays; fetches repeat.
- *Correct when*: a sale is paid once and a return credited once, however often
  they are fetched and evaluated.

### syncoria_resolvepay (`models/account_move.py`)
Exports an invoice (POST, then its id is stored), imports payouts and registers
payments, idempotent by `rp_payout_transaction_id`. Hard: failure between POST
and commit; the same payout by two ways; a loop that returns at the first unpaid
payout. *Correct when* a payout is registered once, and an invoice whose id is
stored is never exported again.

### syncoria_3plcentral (`models/stock_picking.py`)
Exports transfers to a warehouse, splits back orders, imports shipped quantities
in a cron that swallows exceptions and has no savepoint, tells Shopify. Hard:
POST before commit; partial effects; what Shopify was told before a rollback is
told again while the order is open. *Correct when* a transfer has one order in
the warehouse, the quantities add up, Shopify hears of what shipped.

### pragmatic_quickbooks_connector
- *State*: a cursor per kind of object on one row of `res.company` (the last id
  imported), the records with the ids of QuickBooks, QuickBooks itself.
- *Operations*: an import per kind (accounts, taxes, terms, methods, customers,
  suppliers, employees, departments, categories, products, journal entries,
  orders, purchases, invoices, bills, credit notes, payments, inventory), the
  cron that chains them, an export per kind of document.
- *Hard*: batches that commit record by record before the cursor moves, cursors
  moved by other operations than their import, exceptions anywhere, a POST
  before the commit; names that are unique among customers and vendors together;
  records that a document needs, exported on demand; lists that are changed while
  they are read; records that are found by their number or Sku instead of their id.
- *Correct when*: every object is imported once and none is skipped by the
  cursor, an order comes with its lines, an exported document is not posted
  again once its id is stored, posted invoices stay posted; the id of a partner is
  that of its own object or of its company; a document refers to records whose
  ids are stored; the lines of an imported document arrive with their amounts.

### auditlog (`models/rule.py`, `http_request.py`, `http_session.py`, `autovacuum.py`)
- *State*: the rows of rules (draft or subscribed, a flag per method), the
  methods `create`, `read`, `write`, `unlink` that a rule has patched in the
  registry of each worker, logs and their lines, rows of HTTP requests and
  sessions.
- *Operations*: create, subscribe, unsubscribe, edit and delete a rule; the
  patched methods, with full or fast logs; the vacuum.
- *Hard*: the patch is memory, the rule a row of a transaction that may roll
  back; the request's row is remembered across commits and attempts; the vacuum
  deletes what logs refer to.
- *Correct when*: a worker that has reloaded its registry audits what the rules
  say, a log names the request and the session of its operation, and the lines of
  a record replayed in order give its values.

### purchase_deposit
A wizard that adds deposit lines to purchase orders. Sequential.

### linus_*
`linus_sale/models/pricelist.py` and
`linus_shipping_base_product_category/models/delivery_carrier.py` hold small
pure algorithms; the rest are overrides of a few lines (fields, labels,
reports).

### ks_dashboard_ninja, ks_dn_advance, web_domain_field
Third-party dashboards and a widget. Nothing concurrent, read-only queries.

## 2. How the parts interact

    users, crons, code --write--> table queue_job --NOTIFY--> runner
         runner --notify/get_jobs_to_run--> channel manager
         runner --UPDATE enqueued, thread with HTTP request--> worker
         worker (runjob) --UPDATE started / done / pending / failed--> table

    Shopify --webhook--> controller --\
    user or cron --fetch wizard--------> process_feed_order --> partner, sale order
    user --button / server action-----/      (commits in between)

    Odoo --POST, then the id is stored--> ResolvePay, 3PL, QuickBooks, Shopify
    the same --fetch or cron--> orders, payments, transfers, partners

The connectors do not use the job queue: their requests run in Odoo's HTTP and
cron workers. Connectors meet in `sale.order`, `account.move`, `stock.picking`
and `res.partner`.

## 3. The modules

| Module | Models | Kind |
|---|---|---|
| `JobView` | what the runner may rely on of its channel manager | abstract specification |
| `JobLifecycle` | the life of one job as the documentation tells it | abstract specification |
| `QueueJob` | rows, runner, requests, workers, users, crons | component, uses `JobView`, implements `JobLifecycle` |
| `Channels` | the real channel manager | component, implements `JobView` |
| `JobKeys` | jobs with one identity key: senders, retries, effects | component |
| `ShopifyFeed` | one Shopify order on its way to a sale order | component |
| `ShopifyOrderLines` | the contents of that order | component |
| `ShopifyContacts` | customers and the contacts of their addresses | component |
| `ShopifyPayments` | the money of the order: transactions, refunds, invoice, credit notes | component |
| `StockSync` | the stock of a product on its way to Shopify | component |
| `ShopifyCatalog` | a product with variants in several stores, and its ids | component |
| `RemoteExport` | what the connectors promise of a document they create elsewhere | abstract specification |
| `ResolvePay` | invoices that ResolvePay finances | component, implements `RemoteExport` |
| `ThirdPartyLogistics` | transfers that a 3PL warehouse executes | component |
| `LightspeedSales` | sales of the shops: feeds and their evaluation | component |
| `QuickBooksSync` | imports by cursor and exports of the QuickBooks connector | component, implements `RemoteExport` |
| `QuickBooksContacts` | partners in QuickBooks, and what a refusal links | component |
| `QuickBooksDocuments` | a document and the records its export creates on the way | component |
| `QuickBooksLines` | how the lines of an imported document are read | component |
| `AuditlogRules` | rules and the methods they patch in each worker | component |
| `AuditlogTrail` | logs, the HTTP requests and sessions they name, the vacuum | component |
| `AuditlogLines` | what the lines of a log say of a record, full and fast | component |
| `QueueJob_proofs`, `Channels_proofs`, `JobKeys_proofs` | theorems about the job queue | proofs |
| `ShopifyFeed_proofs` | theorems about the order feed | proofs |
| `Books_proofs` | theorems about the modules of `MCShopBooks`: `ShopifyPayments`, `ShopifyContacts`, `ShopifyOrderLines`, `QuickBooksDocuments`, `QuickBooksContacts`, `QuickBooksLines` | proofs |
| `Connectors_proofs` | theorems about `StockSync`, `ResolvePay`, `ThirdPartyLogistics`, `LightspeedSales`, `ShopifyCatalog` | proofs |
| `BackOffice_proofs` | theorems about the audit log and `QuickBooksSync` | proofs |
| `Sums_proofs` | lemmas about sums over finite sets | proofs |
| `MC*` | instances and bounds for TLC | model checking |

**JobView.** A job is absent, waiting, postponed (eta), running or failed for the
manager; at most `Capacity` run. `QueueJob` extends it, so runner and manager are
composed there with the manager in abstract form; `Channels!ImplementsView` is
the check that the real tree of queues is such a manager, with the refinement
mapping `Channels!ViewOf`.

**QueueJob.** Variables and code: `state`, `eta`, `dated` are columns; `notes` the
committed notifications not yet handled (a set: the handler reads the row again, so
the number of notifications of a job does not matter); `pc` and `cur` the runner's
program counter; `about`, `srv`, `cli`, `loaded` the request slots: the job, the
worker's side, the waiting thread, and whether the worker's `Job` object holds a
`date_done` that `store()` will write back; `set_done` gives it one before the flush
that may fail, so a retry or a failure may store one too (`Dates`). `overridden` is
observation: jobs that a user or the vacuum changed before they were settled.

 - runner: `Listen`, `LoadJobs`, `HandleNote`, `BeginRun`, `Dispatch`,
   `SetEnqueued`, `SendRequest`, `EndRun`, `RunnerError`, `RunnerKilled`. The
   interval between picking a job and writing it enqueued is a state of its own
   (`pc = "popped"`), as is the interval before the request leaves.
 - threads: `Answered`, `AnsweredError`, `Timeout`, `TimeoutUnserved`, with
   `set_job_pending` in `ResetAndEnd`.
 - workers: `Start` (the transaction under `FOR UPDATE`), `Refuse`, `BeginWork`
   (snapshot), `Succeed`, `Retry`, `ConflictRetry`, `ConflictLost`, `Fail`,
   `Abort`. Every committed write of a row makes older snapshots `conflicted`
   (REPEATABLE READ).
 - users and crons: `Create`, `ButtonDone`, `Requeue`, `Autovacuum`,
   `RequeueStuck`, `EtaReached`.

`FollowsLifecycle` states that `QueueJob` implements `JobLifecycle` under the
mapping `Phase`, job by job, until somebody overrides a job in progress.

**Channels.** One variable per attribute of `Channel` and `ChannelJob`. A pass is
several steps: `Enter` a channel when its children are exhausted, `Yield` a job
to the parent, `Exhausted` or `Full`, `End`. The nested generators of the code
exhaust a child whenever the parent resumes; the model keeps that order between
a channel and its parent and leaves siblings free. Sequences are not needed: the
queues are sets ordered by `Before` and `EtaBefore`, as the heaps are. `Above[c]`
is the path from a channel to the root, a recursive function that the
assumption `TreeAssumption` makes reach the root.

**JobKeys.** Jobs with one key that all do the same work for whatever their
senders have changed. A sender decides on its snapshot (`Send`), then commits or
is lost; the runner is the write that makes a row enqueued (`Dispatched`) or
pending again (`TimedOut`, `Late`); a worker is `Take` (set_started), `Look` (the
first query of the method, which takes the snapshot) and one of `Succeed`,
`PostponeSaved` / `Postpone` (a retryable error), `RaiseRetryable` and
`CommitLeft`, `FailJob`, `Die`; users `Touch`, `RequeueJob`, `SetDoneJob`. `served`
are the senders whose change an effect was committed for; `mark` and `overtaken`
are observation.

**ShopifyFeed.** `feed`, `order`, `customers` are the committed rows; each process has
a program counter, its payload and its snapshot (`snap`); `stale` are the rows others
have updated since, whose UPDATE would fail to serialize. Between two transactions
`snap` keeps the feed row alone: the ORM's cache survives commits, and the next
transaction may work with the cached row or with a fresh one. One action per
transaction: `NewFeed` / `KeepFeed` / `RefreshFeed` (create_feed_orders),
`UpdateOrder` / `CancelAsks` / `CancelRaises` (an order that is there, all by
`SaveOrder` but the last: `action_cancel` cancels it, answers with a wizard, or
raises, which is caught), `Unconfirmed`, `FindCustomer` / `TakeCustomer` (the first
transaction of process_feed_order), `CreateOrder` / `FailFeed` (the one after the
commit of get_customer_id), `Lose` (serialization failure), `Crash` (of the worker, or
an exception outside the `try`, as of the payments that are fetched). The webhook
controller calls `process_feed_order` twice; `again` and `Return` are that second
call. `raced` is observation: two requests were busy with the order before there was a
sale order.

**ShopifyOrderLines.** What `process_feed_order` makes of the contents of a payload,
in cents and hundredths of a percent: `ProcessNew` and `ProcessAgain`, while
products are added (`AddProduct`), the order is edited and shipped. The lines of
the sale order are a function of the positions in the payload. One request at a
time: who processes it when is the subject of `ShopifyFeed`.

**ShopifyContacts.** `people` are the partners and contacts. A request is at an order
(`BeginOrder`, `BillTo`, `DeliverTo`, `Sell`: each ends with a commit), at the import of
a customer (`FetchCustomer`, `SaveCustomer`) or at the button (`CreateCustomer`,
`StoreCustomer`); `met` and `refusals` are observation.

**ShopifyPayments.** `sales`, `refunded` are Shopify's; `db` holds the committed rows;
a process has its snapshot (`base`), the snapshot with its own writes (`view`), whether
a transaction is `open`, and the refunds its loop has still to look at (`todo`). One
action per method: `Fetch`, `Invoice`, `Pay`, `Credit`, `PayBack`, each with the commits
the method makes; `RollBack` is an exception, a serialization failure or a dead worker
at any point between. A commit is `Merged`: what the process has changed since its
snapshot over what others have committed, if no row was updated by both
(`Serializable`). `Charge` and `Refund` are the shop's steps, `PayByHand` the
accountant's. The amount of a credit note (`NoteTotal`) keeps the code's way to look
up a line by its sku: of the lines with the same sku only the last one counts.

**StockSync.** `StartExport` takes the snapshot and the locations to visit: all of
them for the crons, any for the wizard; `SetToZero` and `Adjust` are the
calls for a location, `EndExport` clears the flags, `BreakOff` is an exception;
`Move` and `Reserve` change what is free. A call may fail and is then only
logged. `muddled` is observation: calls that failed, overlaps, and exports of some
of the locations of a warehouse (`Splits`); an export of all of them that is alone
makes up for what was before it.

**ShopifyCatalog.** `goods` are Shopify's variants, `links` the ids in Odoo. A request
creates, updates or deletes the product or a variant, or imports it, store by store,
each call a step, with one commit at the end (`CommitExport`, `EndImport`);
`LoseCatalog` ends it anywhere. `confused` are the stores where something happened that
the property exempts.

**RemoteExport** has three variables per document: the requests that may still
post it, its copies, whether an id is stored. Once an id is stored nobody begins
again. `ResolvePay!RpExports` and `QuickBooksSync!QbExports` are the refinements.

**ResolvePay.** `Export` / `PostInvoice` create the copy, `CommitRp` and `LoseRp`
end a request; `FetchInvoice` and `DailyTransaction` register payouts (`Register`)
found by the button, the wizard or the daily cron.

**ThirdPartyLogistics.** Transfers with quantities ordered, done and shipped, their
back orders, the warehouse's orders. `Push` (POST, split of the back order),
`UpdateButton`, the cron as `Cron` and `CronUpdate` (a transfer at a time, in one
transaction), `Commit3pl`, `Lose3pl`; `Ship`, `EnterDone`, `Recompute` are the world.
`shopify` is the quantity that Shopify was told of: it takes a fulfilment while that
much of the order is open (`Takes`), also one it has had before; `failed` are the
transfers with an update after which that may happen.

**LightspeedSales.** An evaluation is a function from the state a request sees to
the set of states it may leave behind, one for each place where it may raise;
a payment or a credit note may stay in draft when posting it raises.
`FetchSales` and `EvaluateButton` begin requests, `CommitLs` and `LoseLs` end them.

**QuickBooksSync.** One instance of the cursor protocol for all kinds of objects:
a kind says what its import commits one by one, which cursors it moves and what
it does with an object that is there already. `Worlds` are the kinds that exist
together in a behaviour. Imports, the chain of the cron, exports and the
account's update are actions; `QbLose` ends a request anywhere. What tells objects
of a kind apart is on the object: a `twin` is an account or a product whose number or
Sku another record has (its import writes that record, takes its id or leaves it,
`Matched`), or a payment of several documents (a record for each, `WithPayments`);
`fresh` are the lines of an order that are the first of their product, the only ones
an import that meets the order again adds (`Completed`).

**QuickBooksContacts.** `listed` is QuickBooks' one list of display names, `contact` the
ids and flags of the partners in Odoo. `PostContact` creates, `RefuseContact` is the
answer 6240 for a name that is taken, after which the export links what it finds;
each partner is committed by itself (`StoreParent`, `StoreContact`).

**QuickBooksDocuments.** A desk exports a document: `BeginDocument` lists what it refers
to, and each record that has no id is searched, posted and committed (`FindRecord`,
`PostRecord`, `StoreRecord`), with what that record needs before it (`Precede`);
then `PostDocument` and `StoreDocument`. `BeginRecords` is the export of records alone.

**QuickBooksLines.** The loops over the lines of a document, one step per line: reading
(`ReadItem`, `ReadExpense`, `ReadText`, `ReadOver`), tidying a list while members are
taken out of it (`TidyKeep`, `TidyRemove`), adding the discounts (`AddDiscount`: one dict
for all of them, so all show the amount of the last one), and writing the entry anew
or again.

**AuditlogRules.** `CreateRule`, `Subscribe`, `Unsubscribe`, `EditRule` and
`DeleteRule` write the rule in a transaction and patch or restore the methods of
the worker at once; `CommitRule` and `LoseRule` end the transaction; `Reload` is the
registry built anew in a worker, at any time, as `signal_changes` does not promise
when.

**AuditlogTrail.** An HTTP request makes attempts; `Log` is `create_logs` for one
record and draws the rows of session and request it needs; `Vacuum` deletes the
oldest rows of the three tables, each up to a limit of its own.

**AuditlogLines.** A record with two fields, one of them excluded from the audit;
the lines that `create_full`, `write_full`, `unlink_full` and their fast forms
write are an operator of the values before and after.

## 4. The runs

| Run | Instance | Shows |
|---|---|---|
| `MCQueueJob` | 2 jobs, 2 requests, capacity 1, 3 faults, symmetry, a view | `TypeOK`, `ViewAgrees`, `BusyWithinCapacity`, `OneExecution`, `DoneIsFinal`, `FollowsLifecycle` |
| `MCQueueJobLive` | 2 jobs, 2 requests, capacity 1, 1 fault | `PendingSettles`, `EnqueuedMoves` |
| `MCQueueJobDone` | 1 job, 2 faults | `DoneIsAlwaysFinal` is violated |
| `MCQueueJobVacuum` | 1 job, 2 faults | `OnlyDoneDeleted` is violated |
| `MCChannels` | 2 jobs, 4 channels, clock to 4 | `OnePlace`, `WithinCapacity`, `PassIsComplete`, `NoMissedWakeup`, `ImplementsView` |
| `MCChannelsOrder` | 3 jobs, 2 channels | `SequentialOrder` is violated |
| `MCShopifyFeed` | 2 workers, 1 webhook or button, any number of fetches, 1 fault, symmetry | `OneOrder`, `ConfirmedOnly`, `FeedTellsOrder` |
| `MCShopifyFeedLive` | the same, one of the workers fetches | `Imported`, `CancelArrives`, of each fetch after the last fault |
| `MCShopifyFeedCustomer` | as `MCShopifyFeed` | `OneCustomer` is violated |
| `MCShopBooks` | the money of an order, its contents, its contacts, partners, documents and lines of QuickBooks; 2 workers each, symmetry | `BilledOnce`, `RefundedOnce`, `CreditAfterSettlement`, `OrderLines`, `ContactsRight`, `QbContacts`, `QbDocuments`, `QbLines` |
| `MCConnectors` | 3PL, stock, ResolvePay, Lightspeed, identity keys, the catalog; 2 workers each, symmetry | `TplShipped`, `StockExported`, `RpPaidOnce`, `RpExports`, `LsMoney`, `NoChangeMissed`, `AppliedOnce`, `OneWaits`, `CatalogSynced` |
| `MCBackOffice` | QuickBooks: 16 worlds of kinds, 3 objects (2 orders, products or taxes), batches of 2, 2 workers; the audit log: 2 workers, 2 methods, 2 rows per table, 4 logs of a record; symmetry | `QbImported`, `QbExports`, `AuditPatched`, `AuditTrail`, `AuditReplay` |

`MCShopBooks`, `MCConnectors` and `MCBackOffice` are disjoint sums of components that
share no state: the variable `system` names the one that runs, the others stay where
they begin. A property of a sum is the conjunction of named parts that belong
together; the parts have comments of their own in the modules.

Bounds and why they are enough:

 - *Jobs, requests*: two of each let one job hold the slot another waits for, and
   give a job two requests (the late one and its successor). The safety
   properties are proved for every number (section 6).
 - *MaxFaults* bounds user interventions, dead workers, unserved timeouts, explicit
   retries and restarts, not the system's own steps. Three faults cover an override
   followed by a restart and a loss; the liveness run takes one, anywhere. Jobs are
   created freely. Once no fault is left, the view of `MCQueueJob` tells states apart
   without `dated`: only the vacuum, which is one, asks for it, and no property of the
   run does.
 - *Channels*: the tree has every kind of channel (unlimited, limited, throttled,
   sequential) and a path of three. Two jobs compete on every level. `MaxTime` 4
   is past the eta 3 and past a pause of 2 seconds that begins at time 1 or 2.
 - *Identity keys*: two jobs are the one that is found and the one that is made,
   two senders overlap, and a user touches a job once (`MaxTouches`).
 - *Rows in ShopifyFeed*: a process inserts a feed, a customer or an order only
   when its snapshot has none, so two processes insert two of each at most.
   `shop` has three stages because a Shopify order is confirmed and then
   cancelled at most once. `MaxRequests` bounds webhooks and buttons; fetches are
   free, and all three run the same code after their first transaction.
 - *Payments*: transactions of 1 and 2 units for an invoice of 3 allow a partial
   payment and one by each worker; one of them is pending first (`Slow`). Two lines
   of one sku show how a credit note counts them.
 - *Contents, contacts*: the payloads are a set that has each combination the code
   distinguishes (quantities and prices that divide or not, a foreign currency, a
   discount of the line); `MaxPeople` 9 leaves room for each address in two
   spellings.
 - *3PL*: three transfers are a transfer, its back order and the back order of
   that one; two units are the least that can be split.
 - *Stock*: two locations that feed one warehouse, quantities 0 and 1 and levels to
   2, as a lost zero adds what is free to what was there.
 - *Catalog*: two stores, one of them `Home`, two variants; three ids of a store let
   one be replaced, and three requests are a creation, an import and a change after
   it, at most two of them at a time (four requests, and six in a row, were tried).
 - *ResolvePay*: one invoice and two payouts, the second behind the first in the
   answer; `MaxCopies` 2 is one more than there should be.
 - *Lightspeed*: a sale with two payments, so that one may be taken between two
   evaluations, and its return.
 - *QuickBooks*: three objects in batches of two are two batches and a full one; an
   order has three lines so that an interruption may fall before, between and after
   them, of three products or of two (`Shapes`); of orders, products and taxes, which
   take several transactions each, there are two (`MaxItems`). The books of
   `MCShopBooks` have a company with a contact and a namesake, each as customers, as
   vendors and mixed; the papers have one document of each kind that the code treats
   differently; the lines are all lists of three.
 - *Audit log*: two values, set and changed and emptied, and four logs are a record
   created, changed twice and deleted; two rows per table let the vacuum delete
   the row that an attempt remembers.

Deadlock is checked in all runs but the three sums, where bounds on copies, rows and
logs, or a document that is read, may leave nothing to do: elsewhere users and fetches
always can act.

Every property of a passing run has a mutant: a plausible bug in one definition
(a missing guard of an UPDATE, an early entry, a dropped payload, ...) under
which TLC finds the property violated in the same run. They are the operators
commented "Mutant of ..." in the modules; no specification uses them.

## 5. Fairness

 - *Runner*: weak fairness of the loop's steps: a thread of its own that nothing
   blocks. `HandleNote` has strong fairness: it is enabled only while the loop
   reads notifications, which it does again and again, and PostgreSQL delivers a
   committed notification in some later round.
 - *Threads*: weak fairness: `requests.get` has a timeout of one second.
   `TimeoutUnserved` is a fault and has none.
 - *Workers*: weak fairness of taking a request and of ending a job, one way or
   the other. A job that runs for ever is not excluded by the code; then nothing
   can be claimed.
 - *Crons*: weak fairness of `requeue_stuck_jobs` (every 5 minutes in the data
   files) and of the clock.
 - *Users, creation, faults*: none.
 - *ShopifyFeed*: weak fairness of work that began, and of nothing else. Nobody has to
   fetch: the scheduled action "Fetch Orders" is installed inactive
   (`data/ir_cron_data.xml`), and it asks without dates, for orders created today and
   refunded ones updated today (`wizard/fetch_orders_wiz.py:524`). So `Imported` and
   `CancelArrives` are about each fetch that has the order in its answer and comes
   after the last fault: it brings confirmation and cancellation to the sale order,
   unless another request updates its rows meanwhile or another fetch, perhaps with an
   older payload, is under way (`Disturbed`). Only a fetch does: the webhook never
   replaces the payload of a feed.
 - *The other components*: no fairness, their properties are about safety. What
   they owe in the end depends on users who press buttons and on crons that are
   installed inactive.

`PendingSettles` exempts two documented limits: a started job whose worker died
(the docstring of `runner.py`: such jobs stay started until requeued by hand)
and jobs overridden while in progress, whose two workers conflict in turn, each
conflict postponing the job again.


## 6. The proofs

Each theorem holds for every value of the constants that satisfies the assumptions
of its module: any number of jobs, requests, workers, rows and amounts.

| Theorem | States |
|---|---|
| `QueueJob_proofs!TypeCorrect` | `Spec => []TypeOK` |
| `QueueJob_proofs!NoLostNotification` | `Spec => []ViewAgrees` |
| `QueueJob_proofs!CapacityRespected` | `Spec => []BusyWithinCapacity` |
| `QueueJob_proofs!OneWorkerPerJob` | `Spec => []OneExecution` |
| `QueueJob_proofs!DoneForGood` | `Spec => DoneIsFinal` |
| `QueueJob_proofs!LifecycleFollowed` | `Spec => FollowsLifecycle` (implements `JobLifecycle`) |
| `Channels_proofs!TypeCorrect` | `Spec => []TypeOK` |
| `Channels_proofs!OnePlaceAlways` | `Spec => []OnePlace` |
| `Channels_proofs!CapacityKept` | `Spec => []WithinCapacity` |
| `Channels_proofs!ManagerRefines` | `Spec => ImplementsView` (implements `JobView`) |
| `Channels_proofs!PassCompletes` | `Spec => []PassIsComplete` |
| `Channels_proofs!WakesUp` | `Spec => []NoMissedWakeup` |
| `JobKeys_proofs!KeyTypes` | the type invariant of `JobKeys` |
| `JobKeys_proofs!AppliedAlwaysOnce` | `KeySpec => []AppliedOnce` |
| `JobKeys_proofs!NoChangeLost` | `KeySpec => []NoChangeMissed` |
| `JobKeys_proofs!OneRowWaits` | `KeySpec => OneWaits` |
| `ShopifyFeed_proofs!FeedTypes` | the type invariant of `ShopifyFeed` |
| `ShopifyFeed_proofs!OneOrderMade` | `Spec => []OneOrder` |
| `ShopifyFeed_proofs!OnlyConfirmed` | `Spec => []ConfirmedOnly` |
| `ShopifyFeed_proofs!FeedTells` | `Spec => []FeedTellsOrder` |
| `Books_proofs!PaymentsTyped` | the type invariant of `ShopifyPayments` |
| `Books_proofs!BilledOnceAlways` | `PaySpec => []BilledOnce` |
| `Books_proofs!RefundsOnce` | `PaySpec => []RefundedOnce` |
| `Books_proofs!CreditsSettled` | `PaySpec => []CreditAfterSettlement` |
| `Books_proofs!DocumentsRight` | the specification of `QuickBooksDocuments` implies `QbDocuments` |
| `Books_proofs!PartnersLinked` | `ContactSpec => []QbContacts` |
| `Books_proofs!OneContactEach` | `PeopleSpec => []ContactsRight` |
| `Books_proofs!OrdersAsCharged` | `OrderLinesSpec => []OrderLines` |
| `Books_proofs!LinesArrive` | `LineSpec => []QbLines` |
| `Connectors_proofs!StockTold` | the specification of `StockSync` implies `[]StockExported` |
| `Connectors_proofs!PayoutsPaidOnce` | that of `ResolvePay` implies `[]RpPaidOnce` |
| `Connectors_proofs!InvoicesExported` | and `RpExports` (implements `RemoteExport`) |
| `Connectors_proofs!TransfersShipped` | that of `ThirdPartyLogistics` implies `TplShipped` |
| `Connectors_proofs!SalesMoney` | that of `LightspeedSales` implies `[]LsMoney` |
| `Connectors_proofs!CatalogKept` | `CatalogSpec => []CatalogSynced` |
| `BackOffice_proofs!PatchesFollowRule` | that of `AuditlogRules` implies `[]AuditPatched` |
| `BackOffice_proofs!TrailHolds` | that of `AuditlogTrail` implies `[]AuditTrail` |
| `BackOffice_proofs!LogsTellRecord` | that of `AuditlogLines` implies `[]AuditReplay` |
| `BackOffice_proofs!DocumentsExported` | `QbSpec => QbExports` (implements `RemoteExport`) |
| `BackOffice_proofs!ImportedOnce` | `QbSpec => []QbImported` |

The arguments, by their inductive invariants:

 - *`QueueJob`: rows and manager.* `ViewAgrees` is not inductive: when `SetEnqueued`
   writes a row it must be known that the manager already has the job running.
   `ManagerInv` adds `RunnerHolds` (a popped job is running for the manager, its
   row is pending or a notification is on its way, and it is not busy),
   `AbsentWhenDown`, `BusyIsRunning` and the bound on `Running`; a busy row is then
   always running in the memory of a working runner, and the rows fit the capacity
   because the manager's running jobs do. While the runner is down no row becomes
   busy except by `Start`, which finds it enqueued, so the bound is what the next
   `LoadJobs` needs.
 - *`QueueJob`: executions.* `OneExecution` is inductive together with that
   invariant: only `Start` makes a request execute, and it finds the row enqueued,
   whereas the row of a job that executes is started. `DoneIsFinal` needs `FinalInv`
   besides: what the manager has waiting and the runner has popped is pending, or
   was overridden, so that `SetEnqueued` cannot hit a done row. For `FollowsLifecycle`
   the phase of a job is a function of its row and of the override
   (`PhasesSimple`), and each action moves it along one arrow or leaves it.
 - *`Channels`.* `Above[c]` is the least set that holds `c` and the parents of its
   members, from which all facts about paths follow without induction. `OneInv`
   (`AtOnePlace`, with `QueuedOnce`) is inductive and gives `OnePlace`; capacities
   follow from the guards. The refinement needs both: a notified job moves in the
   view as in the tree because it is nowhere else. `PassInv` says that a channel is
   entered after its children (`ChildrenFirst`) and that what is over has nothing
   left (`OverIsSpent`). `WakeInv` says that a settled runner has seen every channel
   `Quiet` (`SettledIsQuiet`), which a step of the clock keeps until the wakeup time.
   The refinement assumes `Cap[Root] # 0`, as a flat view with a capacity does.
 - *`JobKeys`.* `CleanInv` (a clean job that is done has its effect once),
   `LiveInv` (a worker's job is started or was touched), `BornInv` (ids are given in
   the order of insertion), `SenderInv` (what a sender found was there in its
   snapshot) and `ServedInv` (an effect serves all senders that committed before
   its snapshot).
 - *`ShopifyFeed`.* `FeedInv` ties each request's snapshot to what is committed
   (`LocalInv`): the rows it sees are there, with states that can only have moved on,
   unless they are in `stale`, and then it cannot write them. `RaceInv` says that
   before there is an order only one request is busy (`Alone`), or `raced` is set;
   `RaceGlobal` and `RaceLocal` say what that request has read.
 - *`ShopifyPayments`.* Every set of rows anybody has before him is `Sound`; a view
   has grown out of its snapshot by this process' own rows, and so has what is
   committed out of each open snapshot (`PayInv`). The heart is a lemma on merging: two such
   developments of a snapshot that PostgreSQL lets both commit merge into rows that
   are `Sound` and have grown out of both. That a note settles its refund is a fact
   about a sum (`Sums_proofs`).
 - *`QuickBooksDocuments`.* `DocInv`: a desk at work (`GoodDesk`) has still to do
   whatever its document refers to without an id, or the id is committed; copies in
   QuickBooks (`GoodCopies`) refer to committed ids. Ids are never taken back, so a
   step of one desk leaves the others good.
 - *`QuickBooksContacts`.* `PartnersInv`: ids are never taken back, so each request's rows
   stay true of the list of names (`GoodRows`), whatever others commit; what it has
   flagged is linked, but for the partner it has just posted (`GoodLinks`); and a
   family of one rank, once posted, leaves nothing to send (`GoodSends`, `GoodEnd`).
 - *`ShopifyContacts`.* `ContactsInv`: the committed rows only grow, by rows, ids and
   other spellings of a place (`Grew`), so what a request has read has grown into what
   is committed (`GoodRead`); and while nobody else makes rows for its customer, all
   of the customer's partners and contacts were there when it read (`SameFamily`), so
   it finds them. `Singles`, `Target` and `Excuse` are the parts of `ContactsRight`
   that follow.
 - *`ShopifyOrderLines`.* `OrderInv`: a sale order is what `SaleOf` makes of some payload
   that divides. What a line is worth is arithmetic: a rounded quotient is off by half
   at most (`RoundedNear`), so a discount in hundredths of a percent moves a line by
   less than a 20000th part and half a cent, and below 100 by nothing.
 - *`QuickBooksLines`.* `LineInv` says of each stage what its list is. Members are
   told apart by line and role (`Separate`), each is what its line makes of it
   (`MemberOK`), and every line that is to arrive has one (`HasLine`). While the list
   is tidied, `Paired` says what stands next to a member that the loop takes out,
   where the loop has not been: the member it then steps over is its own line's tax,
   so no quantity of 0 is passed but in documents without tax members (`Unfilled`,
   `SteppedOver`). `Discounted`: all discounts have the amount of the last one so far.
 - *`StockSync`.* `Alone`, about an export that is alone with nothing muddled: a
   warehouse that is not set to zero has all its locations still to be visited, or
   none and is right as it is (`Spared`: the wizard left it out), one that is has the
   sum of the visited ones, and the snapshot is what is free as long as neither the
   flag nor the conflict at the end tells of a move.
 - *`ResolvePay`.* `RpInv`: a request has read what is committed, or cannot commit
   (`Follows`); what it registers has arrived (`Honest`); requests that work or store
   are where the export put them (`Working`, `Storing`). The refinement maps the
   requests that may still post, counted with finite cardinalities.
 - *`ThirdPartyLogistics`.* `TplInv`: each row (`RowOk`) and each worker's version of
   it (`WorkOk`) are related by `MovesOn`; `OrdersOk` and `ToldOk` give the three
   parts. What Shopify was told of a transfer is a sum: what is committed, and what
   each worker is about to commit.
 - *`LightspeedSales`.* `LsInv`: what is committed and what each request saw are
   sound (`LsSound`: one order, the first n payments and no others, n enough or nothing
   unless an evaluation broke off), and what is committed has grown out of every
   snapshot (`LsFollows`). Each stage of an evaluation keeps this, raising or not
   (`Staged`), and so does the merge of a request's rows with those that others
   committed (`MergeSound`): what two requests change of the same sale contains a
   row both write, or does no harm together.
 - *`ShopifyCatalog`.* A request decides by its copy of the records and writes the
   whole of what it changed at its end, so `CatalogInv` is about copies. `Knows`: of
   each store that a request is busy with and nothing has confused, the copy fits what
   the store has (`Agrees`), what is committed is what the request began with
   (`Same`), and it fits too until the request calls the store. `Spares`: of all other
   stores the copy has what it began with, so its commit leaves them as others made
   them; but a deletion may clear ids on variants whose template is of another store,
   which is why `LinksOK` says that no committed variant is like that (`Neat`).
   `Exports`: an export to the store that writes the ids on the records has all stores
   whose ids it may overwrite to itself, and a product is created only where there is
   none. `Imports`: what was fetched is variants of the one store of the import, which
   is confused if they are no longer those it has at the end. `KeepersOK` keeps two
   requests from one unconfused store, so a commit is checked against the store of its
   own request (`Agrees` of the copy), those of others (`Spares` and `Same`) and those
   of nobody. An import that is alone with its store and finds what `Heals` asks for
   makes up for what was lost: the records it leaves fit the variants it processed,
   although those it found did not (`ImportFits`).
 - *`QuickBooksSync`.* `ExportInv`: a request that is about to post took its document
   without an id, one that has posted knows its copy, stored ids are those of copies.
   Imports and the chain of the cron are `Aside`: they leave what the refinement looks
   at as it is. Agencies, taxes, payment methods and vendor payments, which the code
   exports again, are exempt (`Twice`). `SyncInv`, for the imports, is about objects
   that the code does not import twice or pass over as a matter of course (`Regular`):
   what a cursor has passed is there (`NoGaps`), what is there beyond its cursor was
   exported (`Ahead`), products come in their order (`InOrder`). A request at work
   (`ImportOK`) has yet to import whatever it has not passed and nobody has; what it
   did not see is not there, or is excused, or its row of the company is stale and it
   cannot commit; two requests have no object in common that is not `raced` (`Apart`).
   Every commit is shown to create only objects it may (`Creates`), to move cursors
   only past what is there (`MovesCursors`) and to leave no order without its lines
   but the one it is at (`FillsOrders`); from this all parts of `SyncInv` follow, for
   the other requests too.
 - *Audit log.* `FollowInv`: a worker that follows runs what its own transaction is
   about to commit, and nobody has changed the row since it began. `ForeignKeys`,
   `OwnLogs`, `OldLogs`, `OneSession` and `Resting`: what logs point to, what an attempt
   sees and what others have committed. `LinesInv`: replaying the logs gives the record.

*Induction over data* is out of reach of the provers as a rule (the library's induction
theorems take operators). What was needed of sums over finite sets, of replayed
logs and of the greatest of finitely many ids is proved by the least
counterexample, from the well-foundedness of `<` on the naturals.

*Assumptions.* Those declared in the modules, all evaluated by TLC in the runs: finite
sets where something is counted; finitely many variants of a product; ids that are
natural numbers other than the code's "none"; a rooted tree of channels; amounts that
are positive; a refund that has items in its lines; a line of a QuickBooks document
whose amount is its quantity times its price, where it has a price; `NoJob`, `None`,
`0`, `"derived"` and the names of kinds of records are not among what they are told
from; no partner is its own parent. `Cap[Root] # 0` is an assumption of the theorem
that needs it.

*Only model-checked.* Liveness and fairness (`PendingSettles`, `EnqueuedMoves`,
`Imported`, `CancelArrives`): beyond the prover. Every invariant, action property and
refinement that a passing run checks is stated by a theorem.

## 7. Findings

 1. `set_job_enqueued` (`jobrunner/runner.py:328`) updates by uuid alone: a job
    set to done after the manager picked it is enqueued and executed.
    Run `MCQueueJobDone`.
 2. `autovacuum` (`models/queue_job.py:289`) deletes by `date_done`, which a requeue
    keeps: a pending job that was done long ago is deleted. So does a retry or a failure
    after `set_done` whose flush failed (`controllers/main.py:32`). Run `MCQueueJobVacuum`.
 3. A sequential channel (`jobrunner/channels.py:338`) compares with the first job
    by eta only: a job with a higher priority and a later eta is overtaken.
    Run `MCChannelsOrder`.
 4. Two requests with the first order of a customer create the customer twice
    (`shopify_feed_orders.py:351`). Run `MCShopifyFeedCustomer`.

`OneOrder` and `FeedTellsOrder` hold only without `raced`: the search for the sale
order is a transaction earlier than its creation, so two concurrent requests can
create two. No text of the repository excludes that, so it is stated as the
condition of the properties.

What a property exempts, because the code allows it, is named in its comment, and is not
covered by it:

 - *job queue*: the stale write of `runjob` meets only jobs that somebody overrode
   (`overridden`); a job requeued while it runs, and effects committed together with a
   retry, are not `clean`; senders that overlap may both insert (`late`);
 - *Shopify*: two requests busy before there is a sale order (`raced`); two requests
   for one customer's contacts (`met`); a store whose request was lost (`confused`);
   rows of refunds that two requests insert at a time; after an update of a transfer
   that failed or was lost the customer may be told of it twice (`failed`); a
   warehouse of which the wizard exports some locations shows too little until all are
   exported again (`muddled`);
 - *Lightspeed*: a sale whose evaluation broke off between payments may be paid twice
   (`halfPaid`); *ResolvePay* and *QuickBooks*: a crash between POST and commit makes
   a second document, which `RemoteExport` permits;
 - *QuickBooks*: an account or product found by its number or Sku, with the update of
   what is imported switched off, never gets the id, and the cursor passes it
   (`Shared`); a payment of two documents makes two records with one id (`QbExcused`);
   an order with two lines of one product stays without the second when its import
   broke off (`broken`); agencies, taxes, payment methods and vendor payments are
   posted again though their id is stored (`Twice`);
 - *audit log*: a subscribed rule that is edited, transactions that roll back (`follows`); a
   field that was emptied, in a fast log (`cleared`).

Seen while modelling, without a run of their own as no text contradicts them:

 - an existing fulfilment row is never updated (`shopify_feed_orders.py:815`), and a
   line with a `total_discount` loses its discount allocations; a price of 0 with an
   allocation divides by zero, which the feed swallows;
 - a contact without zip or street makes later orders of the customer raise; a null
   phone makes a new contact per order; the invoice contact is created but the
   order's invoice address is always the partner (`shopify_feed_orders.py:661`);
 - exporting a partner whose answer holds no addresses loses its id, and it is
   refused from then on; importing a customer without email matches any partner
   whose email is null;
 - the ResolvePay loop returns at the first payout that has not arrived
   (`syncoria_resolvepay/models/account_move.py:165`);
 - of several discounts of a QuickBooks document all get the amount of the last one,
   as one dict is added to the list for each (`account_move.py:1306`);
 - in QuickBooks documents, an item without a quantity behind another item arrives
   with 0 in an untaxed document; the customer who is a vendor too gets a purchase
   journal and is refused; a taxed sale order raises a `NameError` (`invoice`) in its
   export; a vendor found by name may get the id of a customer.

## 8. Assumptions and what is left out

 - *Job queue*: one database and one runner; job functions, priorities and results
   are data; the value of the retry counter is not modelled (at its limit a job
   fails, which it may at any time). The age of a `date_done` is not modelled: the
   vacuum may come at any time. At most `Requests` requests are outstanding.
 - *Channels*: `MayRun` restricts notifications of running rows to those the rows
   can produce (`QueueJob!BusyIsRunning`); a user who moves a running job to a
   full channel is excluded. The configuration is constant.
 - *Identity keys*: effects that are not committed are seen by nobody. A sender that
   found a job which was taken before the sender's commit may be missed
   (`overtaken`), as may one whose job a user touched. `requeue_stuck_jobs` resets
   the retry counter, which is not modelled.
 - *ShopifyFeed*: one order, one instance, a customer with an id. Payments, refunds
   and fulfilments that follow in the same transaction are left out; an exception
   while they are fetched, outside the `try`, ends the request (`Crash`).
   `action_cancel` may cancel, raise or answer with a wizard, which nobody opens. The
   ids of feeds and orders are drawn before the commit, so any unused id may be the
   next one to appear.
 - *ShopifyOrderLines*: taxes are left out; a currency without a pricelist takes
   amounts as they are. `process_shopify_fulfilment` and `_process_picking` are not
   called by anything.
 - *ShopifyContacts*: several contacts that match raise for ever, as in the code; the
   update of a customer in Shopify, which writes the children to the address of
   their parent, is left out, and the feed of customers is disabled in the code.
 - *ShopifyPayments*: a commit clears the cache of the ORM, so a transaction reads a
   fresh snapshot; a write always updates its row. An invoice that is paid but
   not reconciled with the bank is covered, as a payment may register any part.
   Instances that pay without transactions, cancelled orders and currencies are
   left out. No exception falls between a payment and its `shopify_id`, which are
   committed together (`sale.py:594`).
 - *ShopifyCatalog*: what Shopify does is assumed: it ignores ids in a POST, refuses a
   variant with the options of another, replaces the list of variants by that of a
   PUT, and refuses ids of another store. A DELETE or POST answered with an error has
   done nothing. The commits per product of the single
   import are one; feeds that are processed later than they were fetched are left out.
 - *ResolvePay*, *3PL*, *Stock*: calls take effect at once; internal transfers,
   carriers, addresses, the checks of an order's tag are left out. A transfer is
   split while there are rows for its back order (`CanSplit`).
 - *Lightspeed*, *QuickBooks*: a transaction shows nothing before its commit, so
   what it read and did is a part of the commit step. In Lightspeed the instance has
   `create_invoice` and `create_payment` on.
 - *QuickBooksSync*: ids are numbers in the order of creation and all kinds share
   them. All cursors are on one row of `res.company`, so of two importers that
   overlap one fails. The account update and the inventory import are single
   transactions. Left out: what an import fetches on demand, imports of a single
   record, updates of what was exported before, methods that nothing calls
   (`fetch_qbo_payment`, `import_vendor_bill_1`, `import_credit_memo_1`,
   `create_invoice_line_dict`). Lines of an order are told apart
   by their product and nothing else. A batch that is full of objects the import cannot use
   blocks it for ever: no property says otherwise.
 - *QuickBooksLines*: QuickBooks is taken to keep `Amount` at `Qty` times `UnitPrice`
   (a quantity of 1 if there is none) where a line has a price; amounts of text and
   bundle lines are those of `NetAmountTaxable`; an update leaves a posted entry to
   the accountant.
 - *Audit log*: logs of reads and the texts of relations are left out. Sessions may
   be created twice by concurrent requests (`together`); an edit of a subscribed
   rule, or a transaction that rolls back, leaves the worker's patches as they are
   until its registry is built anew (`follows`). A fast log omits a field that was
   emptied (`rule.py:407` compares with False), so `AuditReplay` exempts it
   (`cleared`).
 - Four hazards have no property: a user who moves a running job to a full channel
   (`channels.py:493`), a started job that is requeued and runs twice
   (`controllers/main.py:71`), a confirmation that raises after the order was created
   (`shopify_feed_orders.py:726`), and the refund pages that are fetched for ever
   (`fetch_orders_wiz.py:575`).
 - Components without a module: section 1 and the notes in `PROJECT.json`. The largest
   part of the lines nothing models is the dashboards (`ks_dashboard_ninja`, read-only
   queries of third-party code), then the mapping of fields in the fetches.

## 9. Plan

All safety properties that the runs check are proved. Left to model: the paging of the
fetches and the registration of webhooks, the parser of the channels' configuration,
the retry counter with `queue_job_cron` on top.
