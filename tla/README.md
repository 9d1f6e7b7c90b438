# Circuits.com: a TLA+ project beside the code

Circuits.com is a component directory (FastAPI, PostgreSQL, React). Companies
pay for placements on it, staff run it from an admin console, and engineers
price a bill of materials and look at a KiCad design in the browser. What is
hard in this code is concurrency of three kinds, and the project follows them:

- **rows shared without versions**: api threads, an hourly sweep, staff consoles
  and Stripe write the same sponsorship rows under READ COMMITTED;
- **answers that come back late**: React pages whose state is written by
  requests, streams and a renderer that were asked by a page, a person or a
  selection that is no longer there;
- **a worker and its watchers**: a feed run on the server, followed over a socket
  that can die, by pages that come and go.

| module | what it models | runs |
|---|---|---|
| `Checkout` | the sale of an exclusive slot: hold, session, webhook, conflict, refund | `checkout_sale`, `checkout_admin`, `checkout_money`, `conflict_lost` |
| `SlotSale` | what a sale promises, with none of that; `Checkout` implements it | `checkout_sale` |
| `CheckoutProofs`, `SaleProofs` | theorems about `Checkout` for every value of its constants: money and holds; the slot, codes and `SlotSale` | TLAPS |
| `Billing` | a sponsorship after its sale: events, mirror, dunning, voids, console | `billing_life`, `billing_edits` |
| `BillingProofs` | theorems about the grace clock and about who takes a board down or up | TLAPS |
| `QueryCache`, `AdminConsole` | the admin read cache; over it, who is signed in and what a page shows | `console` |
| `ConsoleProofs` | theorems about stamps, owners, own edits and the activation verdict | TLAPS |
| `JoinBuy` | a buyer's tab on the join page, from a link to Stripe and back | `join` |
| `JoinProofs` | theorems about prices, the stash and released slots | TLAPS |
| `Viewer` | the design viewer: page state, canvas controller, renderer | `viewer` |
| `ViewerProofs` | theorems about the drawing, the selection, the board's look and what the page says | TLAPS |
| `Workbench` | a BOM from a dropped file to a priced table, over page changes | `workbench` |
| `WorkbenchProofs` | theorems about rows, spinners, answers and picks | TLAPS |
| `FeedRun`, `SupplierPage` | a feed run, its worker, lock and observers; over it, the page that watches | `feed`, `curtain` |
| `FeedProofs` | theorems about the advisory lock, the readers, the buttons and the console of a feed run | TLAPS |

`MC*.tla` and `*.cfg` are the small instances for TLC; `PROJECT.json` lists
components, runs, mutants, the source lines of every definition, findings,
hazards and theorems. Run `tlc -config feed.cfg MCSupplierPage.tla`, and so on,
and `tlapm CheckoutProofs.tla`.

Paths are under `src/api/app/` (Python) or `src/frontend/src/` (TypeScript)
unless they begin with `src/`.

## 1. Inventory

### Modelled

| component | state it keeps | who else touches it | what is hard | what makes it correct |
|---|---|---|---|---|
| Exclusive checkout (`services/checkout_intents.py`, `routes/checkout.py`) | `checkout_intents` rows | webhook, sweep, staff release | two transactions with a Stripe call between; the hold must outlive the session | one live hold per slot; a payable session is a held slot |
| Checkout webhook (`services/stripe_webhook.py` 482-788) | `sponsors`, `sponsor_billing`, `sales_codes.uses` | staff, other deliveries, follow-ups | at least once, hours late; a flush that meets a unique index | every payment ends in a placement or a refund; one sale per slot |
| Conflict follow-up (`services/billing_followups.py`) | `resolved_at` | background task, sweep, console | four Stripe calls, any may fail | cancel before refund; resolved means nothing is owed |
| Sales codes (`services/sales_codes.py`) | `uses`, bound company | webhook | holds and uses counted together | the limit; a bound company's subscription is kept |
| Sponsor administration (`routes/admin_sponsors.py`, `services/billing_guard.py`) | `sponsors` | webhook, sweep, console | guard and commit are separate | never two paying sponsors of a slot |
| Lifecycle webhook and mirror (`services/stripe_webhook.py` 791-881, `services/billing_mirror.py`), hourly sweep (`services/billing_sweep.py`), billing console (`routes/admin_billing.py`) | `sponsor_payments`, `failing_since`, `void_pending`, `sponsors.status` | one another | order, replay, `updated_at` as the clock of the gate; reads before Stripe calls, writes after | boards follow the subscription that pays for them; delinquency ends |
| Admin query cache (`admin/services/queryCache.ts`, `services/data_versions.py`) | memory, localStorage, versions, requests in flight | every page of every tab; the server's writes | a read in flight across a write, a sign-out, another tab | never stamped ahead of its data; kept only for its owner |
| Admin sign-in and gates (`admin/contexts/AuthContext.tsx`, `ProtectedRoute.tsx`, `adminApi.ts`) | token, user, password gate, activation verdict | axios interceptors, other tabs | probes that answer for the person before | the verdict is the signed-in person's; an own edit is never masked |
| Join page (`public/pages/join/`) | arrival, list, quote, panel, sessionStorage stash | checkout routes, other buyers, Stripe, the browser's history | superseded answers, Back and Forward | price shown is price charged; the stash tells of this checkout |
| Design viewer (`public/pages/viewer/`, `public/components/kicad/`) | tab, sheet, selection, toasts; renderer documents and loads | a vendored renderer with its own asynchronous loads | activations that overtake each other | one drawing, the one the page names |
| BOM workbench (`public/services/bom/useBomWorkbench.ts`, `public/pages/bom/`, `public/services/designSession.ts`) | rows, generation, pick sequence, remembered answers | three readers of files; match, stream and pick requests | a new table while the old one's answers are on the way | rows answer for the BOM on screen; nothing is asked twice |
| Feed runs (`services/part_feed/importer.py`, `services/feed_lock.py`, `jobs/feed_import_daily.py`, `routes/suppliers.py`) | run registry, event log, observers' queues, advisory lock | api threads, the nightly container | attach while events are published; a restart | one sweep per supplier; a clean end shows the whole run |
| Supplier page (`admin/pages/suppliers/detail/`, `admin/services/syncStream.ts`) | rows, tally, run flags, loads | the stream, the pause call, the loads | drops, replays, aborted readers | what is shown is one run; buttons come back |

How they meet: the sales components in the database rows and at Stripe, with no
queue of the program's own. The webhook and console routes are `async def`: code
between two awaits is one turn of the event loop; other routes and the sweep run
in threads. The frontend components meet the api by HTTP only, each in one
browser tab: a handler or a promise's continuation is one step, requests are
answered in any order, and React runs the effects of a commit before the next
event. Tabs share localStorage.

### Not modelled

| component | why, or what is planned |
|---|---|
| Sales pricing, `parseBom`, BOM matching, search | pure functions over data; `SalesPricing` is planned |
| Refund ledger, card links (`routes/admin_billing.py` 560-640, `services/card_links.py`) | planned (`RefundLedger`) |
| Sessions, reset links, rate limiter | planned (`Sessions`, `RateLimit`) |
| Category page cache, reminders, mail password sync, lead enrichment | planned: one stale or lost write each |
| Sponsor form and panels, message list, other admin forms | planned (`SponsorForm`); the others load and save one request at a time |
| 3D board view, admin tours, public catalog pages, app shell | rendering, scripts over other pages, loads keyed by the address |
| Cost sync, quotes, badges, presence, account portal, catalog, analytics, email, migrations, deployment | rows one at a time, append-only reports, output, configuration |

`PROJECT.json` lists every component with its files.

## 2. How the models correspond to the code

### Checkout

A database transaction is a *Begin* action, with every read and check, and a
*Commit* action that writes by primary key into the state of that later moment.
The unique indexes and the row locks of a flush (`IntentLocked`, `CodeLocked`)
are the only things that stop a commit, as in PostgreSQL.

| variable | code |
|---|---|
| `intent` | `checkout_intents`; `until` is `expires_at`, `minted` a stored session id, `resolved` is `resolved_at` |
| `sponsor` | `sponsors` by (supplier, category), with the subscription id |
| `uses`, `active` | `sales_codes.uses`; the codes switched on and not expired |
| `stripe`, `bill` | Stripe's session and subscription, and the invoices (external) |
| `answer` | the last HTTP answer to the intent's completed event |
| `request`, `draft` | the POST in progress and what it has read |
| `backing` | buyers' releases past the Stripe call |
| `delivery`, `resolver`, `staff`, `sweep`, `admin` | each actor's place in its handler |

| actions | handler |
|---|---|
| `OpenBegin`, `OpenCommit`, `OpenLoses` | `open_exclusive_intent`: lapses, squatting, code, INSERT, the index |
| `OpenRead`, `OpenRefused` | a request under which others commit between the SELECT and the UPDATE of `expire_lapsed` (those in `Interrupted`); one that flushed its lapses and was refused |
| `Mint`, `MintFail`, `MintCrash` | the session is created and stored; `mark_mint_failed`; the process stops |
| `BuyerBack`, `BuyerReleased` | `release_hold`: expire the session, then release the open intent |
| `DeliverAck`, `DeliverBegin`, `DeliverConflict`, `DeliverActivate`, `DeliverError` | `_handle_intent_checkout` with its outcomes; a 500 when the flush raises |
| `ResolveBegin` ... `ResolveFinish`, `ResolveAbort` | `resolve_conflict`, one action per Stripe call |
| `StaffLook`, `StaffExpire`, `StaffWrite` | the console's release |
| `SweepRead`, `SweepWrite` | `expire_lapsed` of the hourly sweep |
| `AdminBegin`, `AdminCommit`, `CodePatched` | `routes/admin_sponsors.py`, `routes/admin_sales_codes.py` |
| `Revive` | `apply_stripe_event`: the subscription an expired row had before these sales (`Earlier`) is paid again |
| `Tick`, `Complete`, `Renew`, `Charge` | the clock; Stripe on its own (external) |

A row may be there before the first sale: lapsed or on the board, with a
subscription of its own (`Earlier`) or none. One that was lapsed when a buyer took
the hold may be live again, on its own subscription, when the payment arrives.

The refusals of a delivery (amount, placement, bound company) all end in
`_queue_conflict` and are one predicate, `Refused`. A delivery may begin at any
time after the payment and again after any answer but 200: delay, reorder,
duplication and loss with retry are all in that.

`SlotSale` says what is promised: a slot is offered to one buyer at a time, kept
by at most one who paid, everybody else who paid is paid back. The refinement
mapping `Phase` reads a sale's phase off the rows and Stripe: *offered* while its
session can be paid, *kept* while its sponsor row is live, *returned* once
resolved.

### Billing

One sponsor row with everything that bills it. `row` is the sponsor row
(`written` is `updated_at`; `lapsed` is history: when the board last came down),
`bill` the `sponsor_billing` row, `mirror` the `sponsor_payments` statuses,
`live` and `invoice` Stripe. `events` holds every webhook event ever emitted,
`fresh` those not answered 200; a worker may take any fresh event, and `Resend`
makes an answered one fresh again (the Dashboard's button, or a 200 that was
lost). A row begins sold by checkout, quoted by a rep and linked to its
subscription (only `bill` names it then, and it may be billed by emailed invoice),
or not billed yet.

| actions | handler |
|---|---|
| `DeliverMirror` | `_mirror`: the upsert, the captured subscription, the queued void, the derived clock, in one transaction before any gate |
| `DeliverPasses`, `DeliverSkips`, `DeliverWrites`, `DeliverSlotConflict`, `DeliverCrash` | `apply_stripe_event`: the gate, the write, the unique index, the process stopping |
| `SweepRead` ... `SweepWrite`, `SweepAbort` | duty 4: `_dun_card`, `_dun_invoiced`, `_release`; in `_repair_recovered` the subscription (`SweepLive`) and its latest invoice (`SweepRecovered`) are two reads at Stripe |
| `VoidRead`, `VoidCall`, `VoidDone`, `VoidAbort` | `void_pending` |
| `ConsoleBegin` ... `ConsoleMirror`, `ConsoleAbort` | cancel now, retry the oldest open invoice |
| `AdminBegin`, `AdminCommit` | `update_sponsor`: R15 guard, then any column, which stamps `updated_at` |
| `SoldAgain` | the write of a later sale (`_handle_intent_checkout`) on an expired row |
| `QuoteStarts`, `Issue`, `Pays`, `Declined`, `VoidedByHand`, `CanceledElsewhere` | Stripe and its Dashboard (external) |

`stale_event` compares seconds with microseconds: an event created a tick before
the last write is refused, one created a tick after it is not, and within a tick
both are possible (`DeliverSkips` and `DeliverPasses` are both enabled).

`SoldAgain` waits until no delivery of the row is under way. A sale takes a hold
and a payment, minutes at least; the end of a delivery is one turn of the event
loop. The sweep and the console, which await Stripe for seconds, may still be
under way when the row is sold again.

### QueryCache and AdminConsole

A payload is whose it is and how many writes the server had seen; `epoch` is a
flag on every request: no invalidation since it started. `mem`, `disk`, `owner`,
`probed`, `probe`, `flight` are the module variables of `queryCache.ts`;
`token` and `disk` are localStorage, shared by tabs.

| actions | code |
|---|---|
| `Check`, `ServeProbe`, `ProbeReturns`, `ProbeExpires` | the change check (`fetchVersions`): the versions are asked for before the fetch, shared while the probe is young |
| `Mount`, `RunQuery`, `Unmount` | `useCachedQuery`: what is on screen at once, joining a request in flight, starting one, leaving |
| `Fetch`, `Serve`, `Settle` | `revalidate`: the request, its answer, the version unchanged, a payload stored (only if no invalidation came in between) or an error |
| `EditReturns`, `Invalidate`, `ClearPersisted`, `Forget`, `Age` | a mutation's invalidation, sign-out, a closed namespace, `FRESH_MS` |
| `SendEdit`, `ApplyEdit`, `EditReturns`, `EditFails`, `ForeignWrite` | the person's own edit; somebody else's |
| `Reload`, `BootSucceeds`, `BootFails`, `Login`, `Logout` | `AuthContext`; `Become` starts an activation probe and cancels the one before |
| `AskReturns`, `Activate` | the probe's answer; staff approving the person |
| `SendChange`, `ApplyChange`, `ChangeReturns`, `ChangeFails`, `ForceReset`, `RetireSessions` | the password gate, `change-password`, a session ended elsewhere; 401 and 403 reach the interceptors with every answer |

### JoinBuy

One tab. The page's list, quote and panel requests, the create with its release
before it, the browser's Back, Forward and Reload, and Stripe's page. Rendering
runs the page's effects to their end (`Settled`): a link's slot is selected once
open, a selection that is no longer open is dropped, a changed slot or code asks
for a new quote. A quote or list that was superseded is still in flight, with its
`live` flag down, and its answer is then ignored: that flag is the effects'
`cancelled`.

| actions | code |
|---|---|
| `PickTier`, `ClickSlot`, `TypeCode`, `Buy`, `Submit`, `Close`, `AskDesk`, `Retry`, `ReadAgain` | the reader's events on the page and its panel |
| `ServeList`, `ListReturns`, `ListFails`, `AskQuote`, `QuoteReturns` | the slot list; the debounced quote |
| `ServeRelease`, `GoOn`, `ServePost`, `ToStripe`, `PostFails` | `submit`: release the hold of the stash, create, stash, leave; any of it may fail |
| `ServeFree`, `FreeReturns` | the release on the way back from Stripe |
| `Pay`, `Cancel`, `Back`, `Forward`, `Reload`, `DismissReceipt` | the document changes (Stripe and the browser are external) |
| `Lapse`, `OtherBuyer` | time and other buyers at the server (external) |

### Viewer

`page` is the React state and refs of `viewer/index.tsx`, `canvas` the controller
of the vendored renderer: one application for the schematic and one for the
board, what each has loaded, the load that has not ended, and the activations
(`jobs`) that wait for one. A load ends by reporting a deselection, which is why
an activation waits for it (`settle`). That wait has a budget, and a load nobody
has announced cannot end it: a spent budget is given up on (`GivenUp`, from
*watched* to *unwatched*), the part is selected at once, and the load may end at
any time later and clear the selection. A budget may be spent at any moment. The
renderer is vendored, and `Opened`, `Switched`, `Load` and `LoadTail` are mapped to
its files under `src/frontend/vendor/kicanvas`. A gesture of the reader and the effects of its
commit are one step, and so is an activation's continuation after its wait.

| actions | code |
|---|---|
| `Focus`, `Search`, `ShowOn`, `ClickPart`, `ClickChip`, `FollowLink`, `Pick`, `Escape`, `ChooseTab`, `ChooseSheet`, `SetLook` | the reader's gestures |
| `OpenProject`, `OpenAnother`, `EmbedReady`, `MountFails`, `TryAgain` | a project opened, put away; the canvas mounted |
| `LoadTail`, `Poll`, `Finish` | the renderer's load ends; an activation's wait ends, with the load or with its budget; then selection, toast, outline |
| `FocusOwed`, `ToastFades` | a focus that waited for the canvas; the toast's timer |

### Workbench

`bench` is one instance of the hook, remounted with its page; `memory` is what
outlives it (the design session, the remembered answers); `calls` holds the file
reads, matches, streams and picks that have not come back. `Commit` does what a
commit does: phase 1 for a parse handed in anew (unless remembered), and the
snapshot of a settled table. `told` is history.

| actions | code |
|---|---|
| `Drop`, `Paste`, `ReadSheet`, `ReadForBom`, `ReadForViewer`, `ReadFails` | the intakes and their readers |
| `MapContinue`, `ContinueFromViewer`, `OpenBomTab`, `StartOver`, `OpenAnother`, `Navigate` | the pages |
| `MatchLands`, `MatchFails`, `StreamEvent`, `StreamEnds` | phase 1 and phase 2, guarded by the generation |
| `PickSimilar`, `PickLands`, `PickFails`, `ToggleDnp` | a line matched again, guarded by its sequence number |

### FeedRun and SupplierPage

`runs` is every run so far with its log, its worker's stage and the stop flag;
`registry` is `_RUNS`, `holder` the advisory lock, `nightly` the nightly
import from the other container, `obs` the observer behind the page's socket.

| actions | code |
|---|---|
| `StartRun`, `Purge`, `RequestStop` | `start_feed_run` (409 while one is going), retention, pause |
| `Claim`, `Part`, `Wall`, `Exhausted`, `FlushFails`, `Raise`, `LastWords`, `Finish` | `_feed_run_worker` and the sweep generator: the lock is taken in the thread, a refusal is a finish on the stream; after each event but the finish the worker looks at the stop flag; `_finish` comes last |
| `Attach`, `Publish` | backlog and place among the readers under one lock |
| `Restart` | the api container goes: threads, registry, locks, sockets |
| `Night`, `NightEnds` | `_import_one` skips a supplier whose lock is taken |
| `ServeStart`, `ServeObserve`, `Opens`, `EventLands`, `Drop`, `ServeRefuses` | the POST or GET, its headers, the NDJSON body, a dead socket |
| `ReaderEnds`, `NothingToWatch`, `ReaderBreaks`, `Refused`, `Conflict`, `OrphanSettles` | how `readRun`'s promise settles, and what its callers do then |
| `StartClick`, `ReconnectClick`, `PauseClick`, `ServePause`, `PauseReturns`, `TurnPage`, `LoadLands`, `Leave`, `Open` | the operator, the pause call, the load effect |

Headers and body are two moments: `feed-active` is read when the headers are
made, the observer attaches when the body starts.

## 3. What the runs show

| run | expect | properties | instance |
|---|---|---|---|
| `checkout_sale` | pass | `PayableIsHeld`, `SaleSpec`, `PaidIsSettled` | 2 buyers of 1 slot, 2 deliveries, 1 follow-up, 1 fault; 437 173 states |
| `checkout_admin` | pass | `OneSale`, `SoldIsPaid`, `LimitHeldUntilLapse` | 2 buyers, staff editing sponsors; 1 slot and a company's row, or 2 slots and a code; 2 480 016 |
| `checkout_money` | pass | `TypeOK`, `RefundAfterCancel`, `ResolvedIsReturned`, `SubscriptionKept` | 1 intent, 1 bound code, a row of its company from before, 2 follow-ups, staff, sweep, an interrupted request, a renewal, 1 fault; 1 075 199 |
| `conflict_lost` | violation | `ConflictKept` | 1 late payment beside the hourly sweep, no fault |
| `billing_life` | pass | `ReactivatedByPayment`, `DelinquencyEnds`, `VoidsHappen` | 1 subscription, sold or a rep's, by card or emailed invoice, 2 invoices, webhook, sweep, void, console, 1 fault; 320 314 |
| `billing_edits` | pass | `FailureKeepsClock`, `ExpiredAfterCancel` | a sold subscription and a rep's quote, console and admin; 4 580 787 |
| `console` | pass | `StampNeverAhead`, `KeptForItsOwner`, `OwnEditNotMasked`, `VerdictIsOwn`, `LoadingEnds` | 1 tab, 2 people, 1 read, 1 write, a forced reset or a retired session; 692 183 |
| `join` | pass | `PriceShownIsCharged`, `StashIsOfThisCheckout`, `ReleasedSlotReread`, `CheckoutEnds` | 1 tab, 2 slots, 1 code, 2 sessions, 1 move; 1 016 364 |
| `viewer` | pass | `OneDrawing`, `SelectsSettled`, `BoardFollowsPanel`, `FocusedIsShown` | 3 sheets (one dropped), 1 board, 4 parts, 3 gestures, 2 projects, 1 failure, budgets spent at any time; 976 781 |
| `workbench` | pass | `RowsAreOfParse`, `NeverSpins`, `AnsweredIsNotAskedAgain`, `PickStands`, `PickIsLatest` | 2 sheets, 2 designs, 3 lines, 2 reads, 2 picks; 1 119 906 |
| `feed` | pass | `OneSweep`, `ShownIsOneRun`, `CleanEndIsWhole`, `NoReaderHangs`, `NoResurrection`, `ButtonsComeBack` | 2 runs, 1 part each, a window of 2 rows, 1 visit, 1 fault; 3 434 750 |
| `curtain` | violation | `CurtainLifts` | the same page, 1 run without parts, no fault |

Every component module defines its `TypeOK` (`CacheTypeOK`, `FeedTypeOK`); only
`checkout_money` lists it, because the runs are spent on what a type does not
say. To check another, add `INVARIANT TypeOK` to its cfg.

What is true of the code as it stands:

- With buyers, workers, failing Stripe calls and late webhooks only, the sale
  implements `SlotSale`, every payment ends in a live sponsor or a full return,
  and a session that can be paid is always covered by a hold.
- Staff showing, pausing and deleting sponsors never make two paying sponsors of
  one slot, and never leave one on the board without its payment.
- A code's limit is exceeded only through a hold that lapsed before it was paid.
- A company's row never loses a subscription that still bills, to a sale of its
  own or of a code bound to it, even when that subscription is paid again while
  a buyer holds the slot.
- A conflict stamped resolved owes nothing, whatever runs beside it.
- The board comes down by code only after its own subscription is over, with one
  exception, which the property lets off: the last write of a sweep or a console
  cancel that was begun for an earlier sale of the row, and finds it sold again
  (section 5). Staff's own edits are not meant. It comes back only for a payment
  made since.
- Who does not pay loses the board: a card that fails, and an emailed invoice
  that is overdue past the grace, which no event announces.
- The admin cache keeps a payload only for the person it was read as, never under
  a version newer than its data, and never an answer older than the tab's own
  edit; a verdict about the person before never shows.
- The price a buyer confirms is the price of the session. What the join page
  remembers is the checkout the tab is on, and its receipt is of what was paid.
- However loads and gestures overtake each other in the viewer, once quiet the
  page shown is the one its tabs name; an activation that did not run out of
  patience selects only after its load has ended; "Focused" is said only when it
  is so.
- A BOM on screen is answered by its own requests only; no row spins without a
  stream behind it, and what was answered is not asked again.
- Two sweeps never share a supplier. A console shows the beginning of one run,
  each event once; a stream that ends cleanly showed all of it.

### Findings

`conflict_lost`: `expire_lapsed` (`services/checkout_intents.py` 46-55) selects the
lapsed open holds and then writes *expired* by id. The hourly sweep does this in a
thread beside the event loop that applies webhooks. A late payment that is queued
as a conflict between the two loses that status, and neither the sweep's list of
conflicts (`services/billing_sweep.py` 207-213) nor *Needs attention* shows it any
more, although `services/stripe_webhook.py` 552-554 promises both. It takes one
buyer and one late payment. The checkout path calls `expire_lapsed` too.

`curtain`: a reader that ends reloads the supplier quietly, and that load cancels
the noisy one still under way (`admin/pages/suppliers/detail/index.tsx:168`); the
quiet load does not lift the curtain, so the page stays covered until it is left.
It takes no failure: opening a supplier whose finished run is replayed before the
first load returns is enough.

### Bounds, and why they are enough

- Two intents: every guard of the sale is about one other intent on the slot, or
  one other use of the code. `checkout_admin` needs a second slot for two holds
  with one code, and rows of a company for the staff to sell by hand; both at once
  are too many states, so that `CONSTRAINT Corner` explores the two corners: one
  slot with such rows and no codes, or two slots and a code without them.
  `checkout_money` has one intent: a follow-up knows no other.
- `SessionTicks = GraceTicks = 1`, `MaxTime = 3` or `4`: a session expires at 1,
  its hold at 2, and there is time to lapse, be sold again and be paid late.
- Two workers and two resolvers are as many as a row can tell apart: each race in
  the code is between one reader and one writer. `checkout_admin` and
  `checkout_money` have one worker, as production has.
- `MaxFaults = 1`: one failure at any one point of any handler. A failed call is
  retried from the start, so a second failure repeats the first.
- `Grace = 0` ticks where only the order matters. `MaxTime` leaves one tick after
  the last grace (`Issue` requires it), so that liveness is not cut off by the end
  of time. `MaxInvoices = 2`: an old invoice and a newer one.
- `console`: `MaxWrites = 1` gives a version before and after, `MaxGen = 1` a token
  before and after a retired session; `MaxUpsets` bounds resets and retirements.
  Two people in one tab are all the cache tells apart (the owner and not).
- `join`: two sessions, so that one may be stashed while another is created; one
  code, two lists in flight.
- `viewer`: three gestures reach a load superseded by a load superseded by a third;
  `u1` and `u2` are on different sheets, `h1` on the board only, `ux` on a sheet
  that was dropped from the project.
- `workbench`: two of the three lines need the stream, one of them beyond
  `ResolveCap`; two picks of one line are what reordering needs; two file reads at
  a time (`MaxReads`), so that a late one replaces the table of another.
- `feed`: one part and a window of two rows, so that the second system event of a
  run pushes the part out of the window; two runs, so that a replay of one follows
  the other on screen; one pause call at a time.
- `CHECK_DEADLOCK FALSE` everywhere: clocks, gestures and runs are bounded, so a
  finished behaviour stops. Symmetry is used in `checkout_admin` and `checkout_money`,
  which have no liveness property, and permutes interchangeable model values
  only.

Each property of a passing run has a mutant in `PROJECT.json`: a change of the
model such as a plausible bug of that code would make, under which the run finds
the property violated. A mutated operator stands beside the definition it
changes.

### Fairness

`Checkout!Fairness`: a transaction in progress ends; Stripe redelivers until 200
(weak fairness on `DeliverAck` or `DeliverBegin` while the answer is not ok); the
hourly sweep picks up each unresolved conflict; a follow-up that meets no fault
continues. Nothing is assumed of buyers, staff or the clock.

`Billing!Fairness`: time passes; each fresh event is eventually taken; the steps
of handlers in progress continue; the sweep, which runs every hour for ever, is
weakly fair as a whole. Nobody has to pay, edit, cancel or void by hand. Faults
are bounded, so that "fails for ever" is excluded; that is Stripe being reachable
again one day.

`AdminConsole!Fairness` and `JoinBuy!FairSpec`: a request that was sent is
answered or fails (the browser gives up by itself), and its continuation runs.
Nothing is assumed of the person, the server's other writers or the history
buttons. `Viewer`, `Workbench` and `SupplierPage` have no liveness property and
no fairness.

## 4. What is proved

Each theorem is about every value of the constants that satisfies the named
assumptions of its module: any number of actors, rows, events and requests, any
bounds. `SlotSale` has no proofs of its own; eight modules hold theorems.

| module | theorem | statement |
|---|---|---|
| `CheckoutProofs` | `TypeCorrect` | `Spec => []TypeOK` |
| | `RefundsFollowCancel` | `Spec => []RefundAfterCancel` |
| | `ResolvedOwesNothing` | `Spec => []ResolvedIsReturned` |
| | `PayableHoldStands` | `Staff = {}` implies `Spec => []PayableIsHeld` |
| `SaleProofs` | `BoundSubscriptionStays` | `OneWorker`, `Admins = {}` imply `Spec => SubscriptionKept` |
| | `SlotSoldOnce` | `Unbound`, and `OneWorker` or `Admins = {}`, imply `Spec => []OneSale` |
| | `SponsorsHavePaid` | `Quiet`, and `OneWorker` or both `Unbound` and `Admins = {}`, imply `Spec => []SoldIsPaid` |
| | `CodesKeepLimit` | `Quiet`, `OneWorker`, finitely many intents imply `Spec => []LimitHeldUntilLapse` |
| | `ImplementsSlotSale` | `Quiet`, `Unbound`, `Admins = {}` imply `Spec => SaleSpec` |
| `BillingProofs` | `BillingTypes` | `Spec => []TypeOK` |
| | `ClockIsKept` | `Spec => []FailureKeepsClock` |
| | `ExpiredOnlyAfterCancel` | `Spec => ExpiredAfterCancel` |
| | `ReactivatedOnlyByPayment` | `OneWorker`, `Admins = {}` imply `Spec => ReactivatedByPayment` |
| `ConsoleProofs` | `StampsAreSafe` | `Spec => []StampNeverAhead` |
| | `ConsoleTypes`, `VerdictsAreOwn` | `OneTab` implies `Spec => []TypeOK`, `Spec => []VerdictIsOwn` |
| | `KeptIsOwn`, `OwnEditsShow` | `OneTab`, `Prompt` imply `Spec => []KeptForItsOwner`, `Spec => []OwnEditNotMasked` |
| `JoinProofs` | `JoinTypes` | `Spec => []TypeOK` |
| | `PriceIsCharged` | `Spec => []PriceShownIsCharged` |
| | `StashIsCurrent` | `Spec => []StashIsOfThisCheckout` |
| | `ReleaseIsReread` | `Spec => []ReleasedSlotReread` |
| `ViewerProofs` | `ViewerTypes` | `Spec => []TypeOK` |
| | `ViewerShowsOneDrawing` | `Spec => []OneDrawing` |
| | `ViewerSelectsSettled` | `Spec => []SelectsSettled` |
| | `ViewerBoardFollowsPanel` | `Spec => []BoardFollowsPanel` |
| | `ViewerFocusedIsShown` | `Spec => FocusedIsShown` |
| `WorkbenchProofs` | `WorkbenchTypes` | `Spec => []TypeOK` |
| | `RowsAreOwn` | `Spec => []RowsAreOfParse` |
| | `SpinnersAreOwed` | `Spec => []NeverSpins` |
| | `AskedOnce` | `Spec => []AnsweredIsNotAskedAgain` |
| | `PicksStand` | `Spec => []PickStands` |
| | `PicksInOrder` | `Spec => PickIsLatest` |
| `FeedProofs` | `FeedTypes` | `Spec => []FeedTypeOK` |
| | `OneSweepAtATime` | `Spec => []OneSweep` |
| | `ReaderIsTold` | `Spec => []NoReaderHangs` |
| | `ButtonsAreReleased` | `Spec => []ButtonsComeBack` |
| | `FinishedStaysFinished` | `Spec => []NoResurrection` |
| | `ConsoleShowsOneRun` | `Spec => []ShownIsOneRun` |
| | `ConsoleEndsWhole` | `Spec => []CleanEndIsWhole` |

### The hypotheses, and why they are there

None of them is for the prover's convenience: each names an interleaving in the
code that breaks the property without it (section 5).

- `Staff = {}` (*no console release*): a release of a hold whose session is being
  minted leaves a payable session without a hold.
- `Quiet` (`Staff`, `Sweepers` and `Interrupted` empty): the release and
  `expire_lapsed` write by id what they decided earlier, and can put *released* or
  *expired* over a conflict that was queued meanwhile; that is the finding
  `conflict_lost`. The sweep always runs in production, so what is proved under
  `Quiet` holds between its runs, and whenever no payment is queued inside one.
  `SlotSoldOnce` and `BoundSubscriptionStays` do not need it: what they say is kept
  by the sponsor rows' own index and by the gate of a bound sale.
- `OneWorker` (*one delivery at a time*, as production's single api worker has
  it): two deliveries read the same `uses`, or the same row, and both write.
- `Unbound` (*no code bound to a company*): a bound sale takes over the company's
  row; a staff expiry read before and committed after leaves that row expired
  with a live subscription, which the index does not see.
- `Admins = {}`: with two workers, a pause between a delivery's read and its
  flush; in `Billing`, an edit between a gate and its write.
- `OneTab`: another tab can replace the token while a page boots as somebody
  else. `Prompt` (`SlowChange = FALSE`): nobody signs in while a password change
  of somebody else is unanswered. `StampsAreSafe` needs neither.

The join page, the viewer, the workbench and the feed need no hypothesis.

### The arguments

**The sale: money.** `TypeOK` is not inductive alone: a delivery or follow-up in
progress writes well typed values only when it names an intent, which is `Named`.
The money theorems share

    MoneyInv == TypeOK /\ Named /\ MintedOnce /\ AfterPayment /\ FollowUp
                /\ RefundAfterCancel /\ ResolvedIsReturned

`ResolvedIsReturned` needs to know what every follow-up in progress has already
done: `FollowUp` says that past *cancel* the subscription is over, that past
*void* no invoice is open, and that every invoice still paid is on its list.
That list stays right because only a live subscription issues invoices, and
nothing revives a canceled one: `AfterPayment` says that deliveries, conflicts
and follow-ups are about completed sessions, so no buyer pays them again, and
`MintedOnce` that a session exists only once its POST is done.
`PayableIsHeld` adds `HoldStands` and `OnlyLapsed`; the lemma `SessionInsideHold`
ties them: a hold that has lapsed has no session that can be paid, because
Stripe's expiry is `GraceTicks` earlier.

**The sale: the slot.** `RowInv` adds to `MoneyInv` that a subscription stands in
the row of its own sale. `OneSale` then follows from `OneRow`, two subscribed rows
of one slot are one, which only a flush can disturb; its index and `SlotFree` (or,
without admins, `NonePaused`) exclude that. `SoldIsPaid` needs `SaleInv`: who
holds which lock in a flush (`LockInv`), that a delivery about to activate has a
settled payment behind it (`Settlement`), and that what stands on the board is
completed (`Board`). That no delivery activates what another has refused, `Fresh`,
is the heart of it: with one worker trivially, with several because the reasons
for a refusal do not go away (`ReasonInv`). The refinement maps each action to
the step of `SlotSale` its phases show, or to none, under
`RefInv == SaleInv /\ ReasonInv /\ OneRow`. The code limit counts the sales made
with a code, the holds, and the requests that have read the count and not yet
inserted, by cardinalities (`CodeInv`).

**Billing.** `BillInv` links the actors: row and billing row name one subscription
that exists (`LinkOK`), what is mirrored or told was issued (`IssuedOK`), a
delivery past its mirror is about the linked subscription (`HookOK`), who is past
a cancel has canceled, and the invoice a repair mirrors was issued (`SweepOK`,
`ConsoleOK`). `FailureKeepsClock` is kept since
every write of the mirror that can add a failure derives the clock again, from a
minimum (`FailingSinceIs`, by well-foundedness of `<`), and a subscription that is
linked late has no failure mirrored yet. `ExpiredAfterCancel` is read off: only
a *deleted* event, a sweep or a console past its cancel writes *Expired*
(`WrittenBy`), and a sweep or console whose sale is no longer the row's is let off
by the statement itself (`WritesEarlierSale`). `ReactivatedByPayment` needs `PassedOK`: a row a paid event has
passed the gate on is still down, and its lapse is not after the event.

**The console.** `StampInv` says every stamp, stored, probed or carried by a
request in flight, is at most the version of the data beside it. `KeptInv` says
whose token a request that may still be stored was sent with. `RecentInv` compares
what is kept, in memory, on disk and in flight, with the last edit of its reader.

**The join page.** `JoinInv` has one conjunct per part of the tab; the ones that
matter say that a quote still listened to is of the code in the field, that a
list still listened to was asked after the last release, and where the stash of
a create in flight stands.

**The viewer.** `ViewerInv` is made of predicates over a page and a canvas, so that
they speak of what a handler hands to `Commit` and of what one effect hands to the
next. `OneDrawing` speaks of quiet states only; what carries it is `NewestFits`: of
all activations that are still waiting the newest is for the drawing the page
names, and an older one that ends later finds itself superseded. `SettledFits` says
that a job about to select a part has its document held by the renderer, with no
watched load left on it (one whose budget was spent is no longer watched, and the
statement says so); `MountFits` and `LoneMount` that a mount under way is for
the project on screen and ends alone; `Fits` that once the canvas is ready the page
shown is the one named, and a board on screen was sent the panel's look. The proof
has one lemma per operator (`ActivateSound`, `SelectNowIs`), one per effect of a
commit (`HostEffectIs`, `CarryIs`, `ApplyIs`) and one per action. An action that
commits after an answer owes nothing more; a gesture owes all three effects
(`CommitIs`). `FocusedIsShown` compares two states; its proof goes through the
actions that can say "focused" and finds the part selected by the same step.

**The workbench.** `WorkInv` is of predicates over a bench, a memory, calls and
history, so that they can be said of what a handler gives to `Commit` as well as
of a state: the proof has one lemma for `Commit` and one for each handler. Its
centre is that every request of the hook is for the bench's parse (`CallsOK`),
since whatever replaces the table raises the generation, and that an answer is
filed exactly as it is on screen once nothing in it waits (`FiledOK`).

**The feed.** `FeedInv == FeedTypeOK /\ LockHeld /\ ReaderOK /\ Follows` carries
the first three theorems. `OneSweep` alone is not inductive: `LockHeld` says that
whoever sweeps is the `holder`, and then two sweepers are one. `NoReaderHangs`
speaks of an empty queue only; `Follows` says why it cannot become empty too
early: a reader's place in the list lasts while its run does, and a reader without
a place has the last word in its queue or a dead run. `ButtonInv` adds that the
page watches exactly while it has a reader. `EndInv` adds `EndsSeen`: a reader
that has taken the screen over and has seen no ending shows none. `ShowInv` is
about what is on screen: an open reader has read the first *n* events of its run,
what is queued is the rest of the backlog, in order, and a reader that has taken
the screen over shows exactly those *n* (`Watches`); until then *n* is 0, and a
click on a card has emptied the console (`Emptied`). No log holds the word *end*,
and no run ends without a log (`LogsOK`): a reader that meets *end* has therefore
read the whole run and taken the screen over (`WholeAtEnd`). The window of a log is
a recursive function. That it has a solution, and that two solutions agree as far
as their logs do, is proved from a smallest counterexample (`WindowExists`,
`WindowsAgree`); then the window and the tally of one event more are those that
`OnEvent` makes (`WindowGrows`, `ScreenGrows`). `RowCap` need only be positive: the
first event of a replay stands alone in the window.

Each invariant was checked by TLC before it was proved. The proofs have one
lemma per action or group of actions, and frame lemmas for what an action leaves
alone.

### Only model-checked

Every invariant and every action property of the passing runs, and the refinement,
is proved, under the hypotheses above. What only TLC checks is liveness under fairness, which this prover does
not reach: `PaidIsSettled`, `DelinquencyEnds`, `VoidsHappen`, `LoadingEnds`,
`CheckoutEnds`. `PaidIsSettled` is also the liveness half of what a sale promises;
the theorem `ImplementsSlotSale` is its safety half.

The runs stay inside these hypotheses too, each in its own corner: `checkout_sale`
two workers and no codes, `checkout_admin` one worker, an admin and an unbound
code, `checkout_money` one worker and no admin, with a bound code and everybody
that `Quiet` excludes. What needs no hypothesis is proved for any number of each.

Induction theorems that take an operator cannot be instantiated with the provers at
hand; where a proof needs induction (`FailingSinceIs`, the window of a log) it
argues from a smallest counterexample, by well-foundedness of `<`. No module
declares a RECURSIVE operator.

## 5. Known limits and what is not modelled

Seen in the code while modelling; each is outside the runs, which show the code
without the actor that causes it, or state the property around it:

- *Sales.* The console's release asks Stripe, expires and writes *released*
  without looking again (`routes/admin_checkout_intents.py:257`, against the
  promise at 16-21); it also frees a hold whose session is being minted (241).
  The flush of the sponsor row precedes the `try` around the commit
  (`services/stripe_webhook.py:721`, 770), so the loser of a race answers 500 and
  the redelivery repairs it. `expire_lapsed` updates by id
  (`services/checkout_intents.py:51`), which is the finding `conflict_lost`;
  `checkout_sale` and `checkout_admin` leave out the sweep and interrupted requests,
  with which a lost conflict is neither kept nor paid back. A row deleted while it is sold keeps billing
  (`routes/admin_sponsors.py:344`). A payment after a lapse can use a code once
  more than `max_uses`. Two api workers could give one expired row to two sales
  (`services/stripe_webhook.py:689`; production runs one), and an admin edit
  between a delivery's read and its flush can have the sale replace the
  subscription of a row that was paid again meanwhile. How that earlier
  subscription ends is left to `Billing`.
- *Billing.* A sweep or a console cancel that awaited Stripe while its row was sold
  again expires the row of the new sale (`services/billing_sweep.py:120`). An answer
  of `_repair_recovered` that was read before the first decline would put *open*
  over *failed*; the model mirrors it in the step it is read. An edit committed between a cancel at Stripe and its webhook makes
  the event stale (`services/stripe_webhook.py:838`), and nothing later takes the
  board down. An invoice voided at Stripe stays *failed* in the mirror
  (`services/billing_mirror.py:211`), so the next failure has no grace. A pause
  committed between gate and commit is undone (862). A quote never linked is
  never dunned (`services/billing_sweep.py:109`).
- *Console.* A sign-out while a read is in flight can hand the next person the
  answer of the one before for the mount that joined it
  (`admin/services/queryCache.ts:303`); it is not stored. `clearPersistedQueries`
  also empties memory, which the comment at 128-133 leaves out. A 401 that was
  sent before signs the next person out. A second tab does not see an edit until
  its own check.
- *Join page.* A second create after a reload can meet the buyer's own hold
  (`hold_limit`). The server lists taken slots, although a comment says they are
  omitted (`public/types/checkout.ts:8`). The back-forward cache and the Silver panel
  are not modelled.
- *Viewer.* Which of the two applications is hidden is not modelled: the vendored
  switch shows one after its awaits, and two may be seen until the controller
  hides one again (`kicanvasController.ts` 526-534). The first switch into a hidden
  application always spends its budget (519-524); the selection made then is
  cleared by the end of the load while the panel still says it is selected. Loads
  of one application end together. The renderer's own controls (flipping the
  board, clicking a net) are not modelled, and `BoardFollowsPanel` does not cover
  the repaint they cause. An owed focus is taken after the other effects of its
  commit, while the code takes it first (`index.tsx` 434-439, 503-505, 530-560); both
  end alike. `"u1 was not found"` can be said while the canvas loads
  (`kicanvasController.ts` 461-468, 650), an older focus can undo Escape or a
  newer designator, the outline may not follow, and a toast of a closed project
  can appear. Assumed: WebGL setup ends before pages switch; instances of one
  sheet file are one document; a project has a schematic and a board.
- *Workbench.* Two overlapping reads of one file ask twice. A KiCad read that
  ends late publishes a design that is not the table's, and `startOver` clears it
  (`public/pages/bom/index.tsx` 283-285, 86-90). A sheet that is read while the
  stream of a design's table runs replaces that table, and the effect's cleanup
  aborts the stream without filing what had been answered
  (`public/services/bom/useBomWorkbench.ts` 532-538): coming back to the design
  asks the match again, although the comment above the hook promises once per
  parse and across mounts (282). The model forgets such an answer (`Binned`), and
  `AnsweredIsNotAskedAgain` is about all others. Share links are not modelled.
- *Feed.* Reconnect while offline says "That run has finished", as does one whose
  reader was aborted. The probe reports its error although a comment calls it
  silent (`admin/pages/suppliers/detail/index.tsx` 125-127). A pause is not
  addressed to a run. A failed cursor flush gives a second `sync_finished`
  (`FlushFails`). What a part event writes, the cursor map, the nightly toggle and
  the sync/import label are left out; what makes the cursor map safe is
  `OneSweep`.

Left out of modelled parts: keyword sponsorships and legacy sessions without an
intent, prices and coupons (a sale at another total is `amountOk = FALSE`), moving
a sponsor to another tier or category, refunds by staff, discounts, cancel at
period end, card links, audit rows, emails; rendering and wording. Stripe and
the browser's history are external: their states are those the code tells apart.
Of the vendored renderer only what its loads, pages and selections do is modelled.

## 6. Plan

Done: the sale with its refinement, billing, the admin cache and sign-in, the
join page, the viewer, the workbench, feed runs with their page, and the theorems
of section 4. Next, in this order:

1. `SalesPricing`: list, founder and code prices as functions; the floor and
   monotonicity proved for every number of points.
2. `RefundLedger`: refunds with idempotency keys and audit rows
   (`routes/admin_billing.py:592`), card link versions
   (`routes/billing_card.py:147`).
3. `Sessions` and `RateLimit`: tokens against `password_changed_at`
   (`routes/auth.py:783`, `services/auth_service.py:128`), the lock ladder
   (`services/rate_limit.py:218`).
4. `CategoryCache` (`services/category_cache.py:150`), `Reminders`
   (`jobs/send_reminders.py:305`), `MailSync` (`services/mail_sync.py:161`),
   `LeadEnrichment` (`services/lead_enrichment.py:533`): one stale or lost write
   each.
5. `SponsorForm` and the message list: an edit over a read in flight, as in
   `AdminConsole`.
