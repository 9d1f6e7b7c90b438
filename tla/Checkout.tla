------------------------------ MODULE Checkout ------------------------------
(***************************************************************************)
(* The sale of the single-slot placements (Gold on a subcategory, Platinum *)
(* on a top-level category): the hold a buyer takes, the Stripe Checkout   *)
(* Session minted for it, the webhook that turns a payment into a sponsor  *)
(* row or into a conflict, the follow-up that cancels and refunds a        *)
(* conflict, and the people who can touch the same rows meanwhile (the     *)
(* buyer going back, staff releasing a hold, staff editing sponsors).      *)
(*                                                                         *)
(* A database transaction is a Begin action, which makes every read and    *)
(* every check, and a Commit action, which writes by primary key into the  *)
(* state of that later moment: READ COMMITTED, no version column, so the   *)
(* last writer of a column wins.  The unique indexes, and the row locks a  *)
(* flush takes, are the only things that stop a commit.  Code between two  *)
(* awaits is one action.                                                   *)
(***************************************************************************)
EXTENDS Naturals, FiniteSets

CONSTANTS
  Intents,        \* checkout_intents rows that may be written, one per POST
  Slots,          \* categories, each with its one exclusive placement
  Buyers,         \* an email and client IP
  Codes,          \* sales_codes rows
  Companies,      \* supplier rows a code can be bound to
  None,           \* SQL NULL
  MaxUses,        \* sales_codes.max_uses
  Allowed,        \* <<code, slot, buyer>>: the code's category and email locks
  CompanyOf,      \* sales_codes.supplier_id, None when the code is unbound
  LapsesAllowed,  \* LAPSES_ALLOWED
  SessionTicks,   \* STRIPE_SESSION_MINUTES, in clock ticks
  GraceTicks,     \* HOLD_GRACE_MINUTES, in clock ticks
  Workers,        \* deliveries of checkout.session.completed in progress
  Resolvers,      \* conflict follow-ups: background task, sweeps, staff
  Interrupted,    \* requests that others commit under, while they expire holds
  Earlier,        \* the subscription a row has from a sale before these
  Staff,          \* staff releasing a hold
  Sweepers,       \* expire_lapsed in the hourly sweep, one per api process
  Admins,         \* staff editing sponsor rows
  MaxInvoices,    \* bound: invoices per subscription
  MaxTime,        \* bound: clock
  MaxFaults       \* bound: Stripe calls that fail, processes that die

ASSUME CheckoutAssumption ==
  /\ Intents \cap Companies = {}
  /\ None \notin Intents \cup Slots \cup Buyers \cup Codes \cup Companies
  /\ Earlier \notin Intents \cup {None}
  /\ MaxUses \in Nat /\ LapsesAllowed \in Nat
  /\ CompanyOf \in [Codes -> Companies \cup {None}]
  /\ SessionTicks \in Nat /\ GraceTicks \in Nat
  /\ MaxInvoices \in Nat \ {0} /\ MaxTime \in Nat /\ MaxFaults \in Nat

VARIABLES
  now,        \* the clock every stamp is compared with
  intent,     \* checkout_intents
  sponsor,    \* sponsors, by the unique key (supplier, category)
  uses,       \* sales_codes.uses
  active,     \* the codes that are switched on and not past their expiry
  stripe,     \* per intent, its session and subscription at Stripe
  bill,       \* per intent, the subscription's invoices at Stripe
  answer,     \* the webhook's last answer to the intent's completed event
  request,    \* the POST /api/checkout/exclusive that created the intent
  draft,      \* what that request has read and will commit
  backing,    \* intents whose buyer's release has expired the session
  delivery,   \* per worker, the activation or conflict it will commit
  resolver,   \* per resolver, where resolve_conflict stands
  staff,      \* per staff member, where the console's release stands
  sweep,      \* per sweeper, the lapsed holds it has read
  admin,      \* per admin, the sponsor write it has decided on
  faults      \* failures so far

vars == <<now, intent, sponsor, uses, active, stripe, bill, answer, request,
          draft, backing, delivery, resolver, staff, sweep, admin, faults>>

(***************************************************************************)
(* Rows.                                                                   *)
(***************************************************************************)
Live == {"Active", "Paused"}          \* not Expired; NULL counts as Active
Invoices == 1..MaxInvoices

(* A code-less sale gets a supplier of its own, named here by the intent.  *)
Suppliers == Companies \cup Intents
Rows == Suppliers \X Slots

NoIntent == [status |-> "absent", slot |-> None, buyer |-> None, code |-> None,
             until |-> 0, minted |-> FALSE, resolved |-> FALSE]
NoDraft == [slot |-> None, buyer |-> None, code |-> None, until |-> 0, lapsed |-> {}]
NoRow == [status |-> "absent", tier |-> "exclusive", sub |-> None]
NoStripe == [session |-> "none", sub |-> "none", amountOk |-> TRUE]
NoDelivery == [pc |-> "idle", intent |-> None, verdict |-> "none",
               reuse |-> FALSE, stamped |-> FALSE, uses |-> 0]
NoResolver == [pc |-> "idle", intent |-> None, todo |-> {}]
NoStaff == [pc |-> "idle", intent |-> None]
NoAdmin == [pc |-> "idle", row |-> <<None, None>>, tier |-> "exclusive"]

Open(i) == intent[i].status = "open"
HoldLive(i) == Open(i) /\ intent[i].until >= now
Lapsed == {i \in Intents : Open(i) /\ intent[i].until < now}
SessionEnd(i) == intent[i].until - GraceTicks
Payable(i) == stripe[i].session = "open" /\ now < SessionEnd(i)
Cleared(i) == bill[i][1] \in {"paid", "refunded"}

Supplier(i) == IF intent[i].code # None /\ CompanyOf[intent[i].code] # None
               THEN CompanyOf[intent[i].code] ELSE i
SaleRow(i) == <<Supplier(i), intent[i].slot>>

Occupants(s) == {r \in Rows : r[2] = s /\ sponsor[r].tier = "exclusive"}
(* Mutant: a paused sponsor frees its slot. *)
Occupied_Shown(s) == \E r \in Occupants(s) : sponsor[r].status = "Active"
Occupied(s) == \E r \in Occupants(s) : sponsor[r].status \in Live
ShownBy(s) == {r \in Occupants(s) : sponsor[r].status = "Active"}
Recorded(i) == \E r \in Rows : sponsor[r].sub = i

(* Row locks an open transaction holds: the lapsed intents it has flushed  *)
(* and the code it has read FOR UPDATE.                                    *)
IntentLocked(i) == \E k \in Intents : request[k] = "opening" /\ i \in draft[k].lapsed
CodeLocked(c) == \E k \in Intents : request[k] = "opening" /\ draft[k].code = c

IntentRow == [status : {"absent", "open", "completed", "expired", "released", "conflict"},
              slot : Slots \cup {None}, buyer : Buyers \cup {None}, code : Codes \cup {None},
              until : Nat, minted : BOOLEAN, resolved : BOOLEAN]
SponsorRow == [status : {"absent", "Expired"} \cup Live, tier : {"exclusive", "silver"},
               sub : Intents \cup {None, Earlier}]
Purchase == [session : {"none", "open", "complete", "expired"},
             sub : {"none", "active", "canceled"}, amountOk : BOOLEAN]
Bills == [Invoices -> {"none", "open", "paid", "void", "refunded"}]
Draft == [slot : Slots \cup {None}, buyer : Buyers \cup {None}, code : Codes \cup {None},
          until : Nat, lapsed : SUBSET Intents]
Delivery == [pc : {"idle", "commit"}, intent : Intents \cup {None},
             verdict : {"none", "activate", "conflict"},
             reuse : BOOLEAN, stamped : BOOLEAN, uses : Nat]
Resolver == [pc : {"idle", "cancel", "void", "refund"},
             intent : Intents \cup {None}, todo : SUBSET Invoices]
StaffState == [pc : {"idle", "expire", "write"}, intent : Intents \cup {None}]
AdminOps == {"create", "activate", "pause", "expire", "delete"}
AdminState == [pc : {"idle"} \cup AdminOps, row : Rows \cup {<<None, None>>},
               tier : {"exclusive", "silver"}]

TypeOK ==
  /\ now \in 0..MaxTime
  /\ intent \in [Intents -> IntentRow]
  /\ sponsor \in [Rows -> SponsorRow]
  /\ uses \in [Codes -> Nat]
  /\ active \in SUBSET Codes
  /\ stripe \in [Intents -> Purchase]
  /\ bill \in [Intents -> Bills]
  /\ answer \in [Intents -> {"none", "ok", "error"}]
  /\ request \in [Intents -> {"idle", "reading", "opening", "minting", "answered"}]
  /\ draft \in [Intents -> Draft]
  /\ backing \in SUBSET Intents
  /\ delivery \in [Workers -> Delivery]
  /\ resolver \in [Resolvers -> Resolver]
  /\ staff \in [Staff -> StaffState]
  /\ sweep \in [Sweepers -> SUBSET Intents]
  /\ admin \in [Admins -> AdminState]
  /\ faults \in 0..MaxFaults

(* Companies may hold placements from before, sold by hand (no             *)
(* subscription), or by quote or checkout (one of the row's own).          *)
ListedRows == {NoRow} \cup
  [status : {"Expired"} \cup Live, tier : {"exclusive", "silver"}, sub : {None, Earlier}]

Init ==
  /\ now = 0
  /\ intent = [i \in Intents |-> NoIntent]
  /\ \E listed \in [Companies \X Slots -> ListedRows] :
       sponsor = [r \in Rows |-> IF r \in Companies \X Slots THEN listed[r] ELSE NoRow]
  /\ \A s \in Slots : Cardinality(ShownBy(s)) <= 1
  /\ uses = [c \in Codes |-> 0]
  /\ active = Codes
  /\ stripe = [i \in Intents |-> NoStripe]
  /\ bill = [i \in Intents |-> [k \in Invoices |-> "none"]]
  /\ answer = [i \in Intents |-> "none"]
  /\ request = [i \in Intents |-> "idle"]
  /\ draft = [i \in Intents |-> NoDraft]
  /\ backing = {}
  /\ delivery = [w \in Workers |-> NoDelivery]
  /\ resolver = [p \in Resolvers |-> NoResolver]
  /\ staff = [p \in Staff |-> NoStaff]
  /\ sweep = [p \in Sweepers |-> {}]
  /\ admin = [a \in Admins |-> NoAdmin]
  /\ faults = 0

(***************************************************************************)
(* The clock.  Stripe expires a session at the second it was given.        *)
(***************************************************************************)
Tick ==
  /\ now < MaxTime
  /\ now' = now + 1
  /\ stripe' = [i \in Intents |->
       IF stripe[i].session = "open" /\ now' >= SessionEnd(i)
       THEN [stripe[i] EXCEPT !.session = "expired"] ELSE stripe[i]]
  /\ UNCHANGED <<intent, sponsor, uses, active, bill, answer, request, draft, backing,
                 delivery, resolver, staff, sweep, admin, faults>>

Fault == faults < MaxFaults /\ faults' = faults + 1

(***************************************************************************)
(* POST /api/checkout/exclusive: commit the hold, then mint the session.   *)
(***************************************************************************)
Squatting(b, s, open, lapsed) ==
  \/ \E j \in open : intent[j].buyer = b
  \/ Cardinality({j \in Intents : /\ intent[j].status = "expired" \/ j \in lapsed
                                  /\ intent[j].minted
                                  /\ intent[j].slot = s /\ intent[j].buyer = b}) >= LapsesAllowed

(* Mutant: open holds are not counted against max_uses. *)
UsableCode_UsesOnly(c, s, b, open) ==
  c \in active /\ <<c, s, b>> \in Allowed /\ uses[c] < MaxUses

UsableCode(c, s, b, open) ==
  /\ c \in active
  /\ <<c, s, b>> \in Allowed
  /\ uses[c] + Cardinality({j \in open : intent[j].code = c}) < MaxUses

AlreadySponsor(c, s) == /\ CompanyOf[c] # None
                        /\ sponsor[<<CompanyOf[c], s>>].status \in Live

(* What a request knows after the SELECT of expire_lapsed.                 *)
Selected == [NoDraft EXCEPT !.until = now + SessionTicks + GraceTicks, !.lapsed = Lapsed]

(* Nothing locks the rows between that SELECT and the UPDATE by id: another *)
(* process, or a thread of this one, may commit under an interrupted       *)
(* request.                                                                *)
OpenRead(i) ==
  /\ i \in Interrupted /\ request[i] = "idle"
  /\ request' = [request EXCEPT ![i] = "reading"]
  /\ draft' = [draft EXCEPT ![i] = Selected]
  /\ UNCHANGED <<now, intent, sponsor, uses, active, stripe, bill, answer, backing,
                 delivery, resolver, staff, sweep, admin, faults>>

(* The rest of open_exclusive_intent up to its INSERT.  The lapsed holds   *)
(* are flipped, whatever became of them, and flushed first, so their rows, *)
(* and then the code's, are locked.                                        *)
OpenBegin(i, s, b, c) ==
  LET seen == IF i \in Interrupted THEN draft[i] ELSE Selected
      open == {j \in Intents : Open(j)} \ seen.lapsed
  IN
  /\ request[i] = IF i \in Interrupted THEN "reading" ELSE "idle"
  /\ \A j \in seen.lapsed : ~IntentLocked(j)
  /\ ~Occupied(s)
  /\ ~Squatting(b, s, open, seen.lapsed)
  /\ ~\E j \in open : intent[j].slot = s
  /\ c # None => ~CodeLocked(c) /\ UsableCode(c, s, b, open) /\ ~AlreadySponsor(c, s)
  /\ request' = [request EXCEPT ![i] = "opening"]
  /\ draft' = [draft EXCEPT ![i] =
       [slot |-> s, buyer |-> b, code |-> c, until |-> seen.until, lapsed |-> seen.lapsed]]
  /\ UNCHANGED <<now, intent, sponsor, uses, active, stripe, bill, answer, backing,
                 delivery, resolver, staff, sweep, admin, faults>>

(* A check fails, or the placement was never valid: all is rolled back.    *)
OpenRefused(i) ==
  /\ request[i] = "reading"
  /\ request' = [request EXCEPT ![i] = "idle"]
  /\ draft' = [draft EXCEPT ![i] = NoDraft]
  /\ UNCHANGED <<now, intent, sponsor, uses, active, stripe, bill, answer, backing,
                 delivery, resolver, staff, sweep, admin, faults>>

(* Mutant: the unique index is missing. *)
HoldFree_NoIndex(i) == TRUE

(* uq_live_exclusive_intent: one open exclusive row per category.          *)
HoldFree(i) == ~\E j \in Intents \ draft[i].lapsed : Open(j) /\ intent[j].slot = draft[i].slot

OpenCommit(i) ==
  /\ request[i] = "opening"
  /\ HoldFree(i)
  /\ intent' = [j \in Intents |->
       IF j = i THEN [NoIntent EXCEPT !.status = "open", !.slot = draft[i].slot,
                        !.buyer = draft[i].buyer, !.code = draft[i].code,
                        !.until = draft[i].until]
       ELSE IF j \in draft[i].lapsed THEN [intent[j] EXCEPT !.status = "expired"]
       ELSE intent[j]]
  /\ request' = [request EXCEPT ![i] = "minting"]
  /\ draft' = [draft EXCEPT ![i] = NoDraft]
  /\ UNCHANGED <<now, sponsor, uses, active, stripe, bill, answer, backing,
                 delivery, resolver, staff, sweep, admin, faults>>

(* IntegrityError: SlotHeld, and the flipped holds are rolled back too.    *)
OpenLoses(i) ==
  /\ request[i] = "opening"
  /\ ~HoldFree(i)
  /\ request' = [request EXCEPT ![i] = "idle"]
  /\ draft' = [draft EXCEPT ![i] = NoDraft]
  /\ UNCHANGED <<now, intent, sponsor, uses, active, stripe, bill, answer, backing,
                 delivery, resolver, staff, sweep, admin, faults>>

(* Stripe answers with a session; mark_minted stores its id and the URL is *)
(* returned.  mark_minted does not look at the status the row has by then. *)
Mint(i) ==
  /\ request[i] = "minting" /\ ~IntentLocked(i)
  /\ now < SessionEnd(i)
  /\ stripe' = [stripe EXCEPT ![i].session = "open"]
  /\ intent' = [intent EXCEPT ![i].minted = TRUE]
  /\ request' = [request EXCEPT ![i] = "answered"]
  /\ UNCHANGED <<now, sponsor, uses, active, bill, answer, draft, backing,
                 delivery, resolver, staff, sweep, admin, faults>>

(* Mutant: a status no reader knows. *)
MintFail_Failed(i) ==
  /\ request[i] = "minting" /\ ~IntentLocked(i)
  /\ Fault
  /\ intent' = [intent EXCEPT ![i].status = "failed"]
  /\ request' = [request EXCEPT ![i] = "answered"]
  /\ UNCHANGED <<now, sponsor, uses, active, stripe, bill, answer, draft, backing,
                 delivery, resolver, staff, sweep, admin>>

(* Stripe fails (or refuses an expires_at that is too near):               *)
(* mark_mint_failed frees the slot, whatever the row says by then.         *)
MintFail(i) ==
  /\ request[i] = "minting" /\ ~IntentLocked(i)
  /\ \/ now >= SessionEnd(i) /\ UNCHANGED faults
     \/ Fault
  /\ intent' = [intent EXCEPT ![i].status = "expired"]
  /\ request' = [request EXCEPT ![i] = "answered"]
  /\ UNCHANGED <<now, sponsor, uses, active, stripe, bill, answer, draft, backing,
                 delivery, resolver, staff, sweep, admin>>

(* The process dies between the commit and the answer: no URL reaches the  *)
(* buyer, and the hold stands until it lapses.                             *)
MintCrash(i) ==
  /\ request[i] = "minting"
  /\ Fault
  /\ request' = [request EXCEPT ![i] = "answered"]
  /\ UNCHANGED <<now, intent, sponsor, uses, active, stripe, bill, answer, draft, backing,
                 delivery, resolver, staff, sweep, admin>>

(***************************************************************************)
(* The buyer on Stripe's page, and Stripe billing on its own (external).   *)
(***************************************************************************)
(* The session completes: paid in full, at another total than the one the  *)
(* intent recorded, or unpaid.                                             *)
Complete(i, cleared, amountOk) ==
  /\ Payable(i)
  /\ stripe' = [stripe EXCEPT ![i] =
       [session |-> "complete", sub |-> IF cleared THEN "active" ELSE "none",
        amountOk |-> amountOk]]
  /\ bill' = IF cleared THEN [bill EXCEPT ![i][1] = "paid"] ELSE bill
  /\ UNCHANGED <<now, intent, sponsor, uses, active, answer, request, draft, backing,
                 delivery, resolver, staff, sweep, admin, faults>>

(* The next period's invoice of a live subscription is issued.             *)
Renew(i, k) ==
  /\ stripe[i].sub = "active"
  /\ bill[i][k] = "none" /\ k > 1 /\ bill[i][k-1] = "paid"
  /\ bill' = [bill EXCEPT ![i][k] = "open"]
  /\ UNCHANGED <<now, intent, sponsor, uses, active, stripe, answer, request, draft,
                 backing, delivery, resolver, staff, sweep, admin, faults>>

(* An open invoice is charged; a canceled subscription's still can be.     *)
Charge(i, k) ==
  /\ bill[i][k] = "open"
  /\ bill' = [bill EXCEPT ![i][k] = "paid"]
  /\ UNCHANGED <<now, intent, sponsor, uses, active, stripe, answer, request, draft,
                 backing, delivery, resolver, staff, sweep, admin, faults>>

(***************************************************************************)
(* POST /api/checkout/exclusive/release: the buyer's "back".               *)
(***************************************************************************)
(* Mutant: the hold is given back and the session left to run. *)
BuyerBack_KeepSession(i) ==
  /\ request[i] = "answered" /\ Open(i) /\ intent[i].minted
  /\ stripe[i].session \in {"open", "expired"}
  /\ backing' = backing \cup {i}
  /\ UNCHANGED <<now, intent, sponsor, uses, active, stripe, bill, answer, request, draft,
                 delivery, resolver, staff, sweep, admin, faults>>

(* The session is expired first; one that turns out complete ends it here. *)
BuyerBack(i) ==
  /\ request[i] = "answered" /\ Open(i) /\ intent[i].minted
  /\ stripe[i].session \in {"open", "expired"}
  /\ stripe' = [stripe EXCEPT ![i].session = "expired"]
  /\ backing' = backing \cup {i}
  /\ UNCHANGED <<now, intent, sponsor, uses, active, bill, answer, request, draft,
                 delivery, resolver, staff, sweep, admin, faults>>

(* release looks the open intent up again before it writes.                *)
BuyerReleased(i) ==
  /\ i \in backing /\ ~IntentLocked(i)
  /\ backing' = backing \ {i}
  /\ intent' = IF Open(i) THEN [intent EXCEPT ![i].status = "released"] ELSE intent
  /\ UNCHANGED <<now, sponsor, uses, active, stripe, bill, answer, request, draft,
                 delivery, resolver, staff, sweep, admin, faults>>

(***************************************************************************)
(* checkout.session.completed, delivered at least once and at any time     *)
(* after the payment (_handle_intent_checkout).                            *)
(***************************************************************************)
Delivered(i) == stripe[i].session = "complete"

(* Mutants: a conflict is judged again by a redelivery; a hold that has    *)
(* lapsed or was released is taken for done.                               *)
Settled_CompletedOnly(i) == intent[i].status = "completed"
Settled_NotOpen(i) == intent[i].status # "open"

(* The outcomes that write nothing: duplicate_checkout,                    *)
(* conflict_already_queued, checkout_unpaid.                               *)
Settled(i) == intent[i].status \in {"completed", "conflict"}
DeliverAck(i) ==
  /\ Delivered(i)
  /\ Settled(i) \/ ~Cleared(i) \/ Recorded(i)
  /\ answer' = [answer EXCEPT ![i] = "ok"]
  /\ UNCHANGED <<now, intent, sponsor, uses, active, stripe, bill, request, draft, backing,
                 delivery, resolver, staff, sweep, admin, faults>>

(* Mutant: the row of the bound company is taken without a look (R7). *)
Refused_NoCompany(i) == ~stripe[i].amountOk \/ Occupied(intent[i].slot)

(* Amount, placement (R16) and bound company (R7), in that order; all the  *)
(* refusals end the same way.                                              *)
Refused(i) ==
  \/ ~stripe[i].amountOk
  \/ Occupied(intent[i].slot)
  \/ Supplier(i) # i /\ sponsor[SaleRow(i)].status \in Live

(* The reads of one delivery.  An expired or released intent that was paid *)
(* all the same is judged like an open one.                                *)
DeliverBegin(w, i) ==
  /\ delivery[w].pc = "idle"
  /\ Delivered(i) /\ Cleared(i)
  /\ ~Settled(i) /\ ~Recorded(i)
  /\ delivery' = [delivery EXCEPT ![w] =
       [pc |-> "commit", intent |-> i,
        verdict |-> IF Refused(i) THEN "conflict" ELSE "activate",
        reuse |-> sponsor[SaleRow(i)].status # "absent",
        stamped |-> intent[i].resolved,
        uses |-> IF intent[i].code = None THEN 0 ELSE uses[intent[i].code]]]
  /\ UNCHANGED <<now, intent, sponsor, uses, active, stripe, bill, answer, request, draft,
                 backing, resolver, staff, sweep, admin, faults>>

DeliverDone(w, i, a) ==
  /\ delivery' = [delivery EXCEPT ![w] = NoDelivery]
  /\ answer' = [answer EXCEPT ![i] = a]

(* _queue_conflict.  resolved_at is set to NULL, which the session writes  *)
(* only when the row it loaded had a value there.                          *)
DeliverConflict(w) ==
  LET i == delivery[w].intent IN
  /\ delivery[w].verdict = "conflict" /\ ~IntentLocked(i)
  /\ intent' = [intent EXCEPT ![i] =
       [intent[i] EXCEPT !.status = "conflict",
                         !.resolved = intent[i].resolved /\ ~delivery[w].stamped]]
  /\ DeliverDone(w, i, "ok")
  /\ UNCHANGED <<now, sponsor, uses, active, stripe, bill, request, draft, backing,
                 resolver, staff, sweep, admin, faults>>

(* What the flush of the sponsor row meets: the 016 index (one Active row  *)
(* per slot), uq_sponsor_stripe_subscription, uq_sponsor_supplier_category *)
(* for an INSERT, and for an UPDATE the row itself.                        *)
FlushOk(w) ==
  LET i == delivery[w].intent IN
  /\ ShownBy(intent[i].slot) \subseteq {SaleRow(i)}
  /\ ~Recorded(i)
  /\ (sponsor[SaleRow(i)].status # "absent") = delivery[w].reuse

(* increment_uses, on the count the delivery has read. *)
UsesAfter(w) == delivery[w].uses + 1

(* The sponsor row, the code's count (read in DeliverBegin, written as a   *)
(* value) and the intent, in one commit.                                   *)
DeliverActivate(w) ==
  LET i == delivery[w].intent
      c == intent[i].code
  IN
  /\ delivery[w].verdict = "activate" /\ FlushOk(w)
  /\ ~IntentLocked(i) /\ (c # None => ~CodeLocked(c))
  /\ sponsor' = [sponsor EXCEPT ![SaleRow(i)] =
       [status |-> "Active", tier |-> "exclusive", sub |-> i]]
  /\ uses' = IF c = None THEN uses ELSE [uses EXCEPT ![c] = UsesAfter(w)]
  /\ intent' = [intent EXCEPT ![i].status = "completed"]
  /\ DeliverDone(w, i, "ok")
  /\ UNCHANGED <<now, active, stripe, bill, request, draft, backing,
                 resolver, staff, sweep, admin, faults>>

(* The flush raises before the try that guards the commit: the exception   *)
(* leaves the handler, nothing is written and the route answers 500.       *)
DeliverError(w) ==
  /\ delivery[w].verdict = "activate" /\ ~FlushOk(w)
  /\ DeliverDone(w, delivery[w].intent, "error")
  /\ UNCHANGED <<now, intent, sponsor, uses, active, stripe, bill, request, draft, backing,
                 resolver, staff, sweep, admin, faults>>

(* invoice.paid of the subscription an expired row has from before: the    *)
(* company's card went through again.  The same event loop handles it, so  *)
(* it takes an idle worker; the 016 index can refuse it.  The rest of that *)
(* subscription's life is Billing's.                                       *)
Revive(w, r) ==
  /\ delivery[w].pc = "idle"
  /\ sponsor[r].status = "Expired" /\ sponsor[r].sub = Earlier
  /\ sponsor[r].tier = "exclusive" => ShownBy(r[2]) = {}
  /\ sponsor' = [sponsor EXCEPT ![r].status = "Active"]
  /\ UNCHANGED <<now, intent, uses, active, stripe, bill, answer, request, draft, backing,
                 delivery, resolver, staff, sweep, admin, faults>>

(***************************************************************************)
(* resolve_conflict: from the delivery's background task, from the sweeps  *)
(* and from the console, at the same time.                                 *)
(***************************************************************************)
(* Mutant: the refund comes before the cancel. *)
ResolveBegin_RefundFirst(p, i) ==
  /\ resolver[p].pc = "idle"
  /\ intent[i].status = "conflict" /\ ~intent[i].resolved /\ intent[i].minted
  /\ resolver' = [resolver EXCEPT ![p] = [pc |-> "void", intent |-> i, todo |-> {}]]
  /\ UNCHANGED <<now, intent, sponsor, uses, active, stripe, bill, answer, request, draft,
                 backing, delivery, staff, sweep, admin, faults>>

ResolveBegin(p, i) ==
  /\ resolver[p].pc = "idle"
  /\ intent[i].status = "conflict" /\ ~intent[i].resolved /\ intent[i].minted
  /\ resolver' = [resolver EXCEPT ![p] = [pc |-> "cancel", intent |-> i, todo |-> {}]]
  /\ UNCHANGED <<now, intent, sponsor, uses, active, stripe, bill, answer, request, draft,
                 backing, delivery, staff, sweep, admin, faults>>

(* cancel_now; a subscription that is already canceled is a success.       *)
ResolveCancel(p) ==
  /\ resolver[p].pc = "cancel"
  /\ stripe' = [stripe EXCEPT ![resolver[p].intent].sub = "canceled"]
  /\ resolver' = [resolver EXCEPT ![p].pc = "void"]
  /\ UNCHANGED <<now, intent, sponsor, uses, active, bill, answer, request, draft,
                 backing, delivery, staff, sweep, admin, faults>>

(* Mutant: open invoices are not voided. *)
ResolveVoid_ListOnly(p) ==
  /\ resolver[p].pc = "void"
  /\ resolver' = [resolver EXCEPT ![p] =
       [@ EXCEPT !.pc = "refund", !.todo = {k \in Invoices : bill[resolver[p].intent][k] = "paid"}]]
  /\ UNCHANGED <<now, intent, sponsor, uses, active, stripe, bill, answer, request, draft,
                 backing, delivery, staff, sweep, admin, faults>>

(* void_open_invoices, then the list of paid invoices to give back.        *)
ResolveVoid(p) ==
  LET i == resolver[p].intent IN
  /\ resolver[p].pc = "void"
  /\ bill' = [bill EXCEPT ![i] =
       [k \in Invoices |-> IF bill[i][k] = "open" THEN "void" ELSE bill[i][k]]]
  /\ resolver' = [resolver EXCEPT ![p] =
       [@ EXCEPT !.pc = "refund", !.todo = {k \in Invoices : bill[i][k] = "paid"}]]
  /\ UNCHANGED <<now, intent, sponsor, uses, active, stripe, answer, request, draft,
                 backing, delivery, staff, sweep, admin, faults>>

(* One refund; charge_already_refunded is a success too.                   *)
ResolveRefund(p, k) ==
  /\ resolver[p].pc = "refund" /\ k \in resolver[p].todo
  /\ bill' = [bill EXCEPT ![resolver[p].intent][k] = "refunded"]
  /\ resolver' = [resolver EXCEPT ![p].todo = @ \ {k}]
  /\ UNCHANGED <<now, intent, sponsor, uses, active, stripe, answer, request, draft,
                 backing, delivery, staff, sweep, admin, faults>>

(* resolved_at; the intent's status is not read again.                     *)
ResolveFinish(p) ==
  LET i == resolver[p].intent IN
  /\ resolver[p].pc = "refund" /\ resolver[p].todo = {} /\ ~IntentLocked(i)
  /\ intent' = [intent EXCEPT ![i].resolved = TRUE]
  /\ resolver' = [resolver EXCEPT ![p] = NoResolver]
  /\ UNCHANGED <<now, sponsor, uses, active, stripe, bill, answer, request, draft,
                 backing, delivery, staff, sweep, admin, faults>>

(* A Stripe error, or the process dies: what Stripe did stays done.        *)
ResolveAbort(p) ==
  /\ resolver[p].pc # "idle"
  /\ Fault
  /\ resolver' = [resolver EXCEPT ![p] = NoResolver]
  /\ UNCHANGED <<now, intent, sponsor, uses, active, stripe, bill, answer, request, draft,
                 backing, delivery, staff, sweep, admin>>

(***************************************************************************)
(* POST /api/admin/checkout-intents/{id}/release: staff free a hold.       *)
(***************************************************************************)
(* The intent is open.  Without a session id there is nothing to ask       *)
(* Stripe; with one, a complete session refuses the release (409) and an   *)
(* open one is to be expired.                                              *)
StaffLook(p, i) ==
  /\ staff[p].pc = "idle"
  /\ Open(i)
  /\ ~intent[i].minted \/ stripe[i].session # "complete"
  /\ staff' = [staff EXCEPT ![p] =
       [pc |-> IF intent[i].minted /\ stripe[i].session = "open" THEN "expire" ELSE "write",
        intent |-> i]]
  /\ UNCHANGED <<now, intent, sponsor, uses, active, stripe, bill, answer, request, draft,
                 backing, delivery, resolver, sweep, admin, faults>>

(* expire_checkout_session: a session that has become complete meanwhile   *)
(* is not an error.                                                        *)
StaffExpire(p) ==
  LET i == staff[p].intent IN
  /\ staff[p].pc = "expire"
  /\ stripe' = IF stripe[i].session = "open"
               THEN [stripe EXCEPT ![i].session = "expired"] ELSE stripe
  /\ staff' = [staff EXCEPT ![p].pc = "write"]
  /\ UNCHANGED <<now, intent, sponsor, uses, active, bill, answer, request, draft,
                 backing, delivery, resolver, sweep, admin, faults>>

(* The status is written without being read again.                         *)
StaffWrite(p) ==
  LET i == staff[p].intent IN
  /\ staff[p].pc = "write" /\ ~IntentLocked(i)
  /\ intent' = [intent EXCEPT ![i].status = "released"]
  /\ staff' = [staff EXCEPT ![p] = NoStaff]
  /\ UNCHANGED <<now, sponsor, uses, active, stripe, bill, answer, request, draft,
                 backing, delivery, resolver, sweep, admin, faults>>

(***************************************************************************)
(* The hourly sweep's expire_lapsed: a SELECT, then an UPDATE by id.       *)
(***************************************************************************)
SweepRead(p) ==
  /\ sweep[p] = {} /\ Lapsed # {}
  /\ sweep' = [sweep EXCEPT ![p] = Lapsed]
  /\ UNCHANGED <<now, intent, sponsor, uses, active, stripe, bill, answer, request, draft,
                 backing, delivery, resolver, staff, admin, faults>>

SweepWrite(p) ==
  /\ sweep[p] # {} /\ \A i \in sweep[p] : ~IntentLocked(i)
  /\ intent' = [i \in Intents |-> IF i \in sweep[p]
                                  THEN [intent[i] EXCEPT !.status = "expired"] ELSE intent[i]]
  /\ sweep' = [sweep EXCEPT ![p] = {}]
  /\ UNCHANGED <<now, sponsor, uses, active, stripe, bill, answer, request, draft,
                 backing, delivery, resolver, staff, admin, faults>>

(***************************************************************************)
(* Staff editing sponsor rows (routes/admin_sponsors.py) and codes.        *)
(***************************************************************************)
(* _reject_if_slot_taken: another Active row of the tier on the slot.      *)
SlotRejected(r, tier) == tier = "exclusive" /\ ShownBy(r[2]) \ {r} # {}

(* refuse_if_billing_active (R15).                                         *)
BillingActive(r) == sponsor[r].status # "Expired" /\ sponsor[r].sub # None

AdminMay(op, r, tier) ==
  CASE op = "create"   -> sponsor[r].status = "absent" /\ ~SlotRejected(r, tier)
    [] op = "activate" -> sponsor[r].status \in {"Paused", "Expired"}
                          /\ ~SlotRejected(r, tier)
    [] op = "pause"    -> sponsor[r].status \in {"Active", "Expired"}
    [] op = "expire"   -> sponsor[r].status \in Live /\ ~BillingActive(r)
    [] op = "delete"   -> sponsor[r].status # "absent" /\ ~BillingActive(r)

(* The checks of a POST, PATCH or DELETE of a company's row.               *)
AdminBegin(a, op, r, tier) ==
  /\ admin[a].pc = "idle"
  /\ op = "create" => r[1] \in Companies
  /\ op # "create" => tier = sponsor[r].tier
  /\ AdminMay(op, r, tier)
  /\ admin' = [admin EXCEPT ![a] = [pc |-> op, row |-> r, tier |-> tier]]
  /\ UNCHANGED <<now, intent, sponsor, uses, active, stripe, bill, answer, request, draft,
                 backing, delivery, resolver, staff, sweep, faults>>

(* The write, refused by the 016 index or by a row that came or went.      *)
AdminWritten(op, r, tier) ==
  CASE op = "create"   -> [status |-> "Active", tier |-> tier, sub |-> None]
    [] op = "activate" -> [sponsor[r] EXCEPT !.status = "Active"]
    [] op = "pause"    -> [sponsor[r] EXCEPT !.status = "Paused"]
    [] op = "expire"   -> [sponsor[r] EXCEPT !.status = "Expired"]
    [] op = "delete"   -> NoRow

AdminCommits(op, r, tier) ==
  /\ (sponsor[r].status = "absent") = (op = "create")
  /\ op \in {"create", "activate"} =>
       ~SlotRejected(r, IF op = "create" THEN tier ELSE sponsor[r].tier)

AdminCommit(a) ==
  LET m == admin[a] IN
  /\ m.pc # "idle"
  /\ sponsor' = IF AdminCommits(m.pc, m.row, m.tier)
                THEN [sponsor EXCEPT ![m.row] = AdminWritten(m.pc, m.row, m.tier)]
                ELSE sponsor
  /\ admin' = [admin EXCEPT ![a] = NoAdmin]
  /\ UNCHANGED <<now, intent, uses, active, stripe, bill, answer, request, draft,
                 backing, delivery, resolver, staff, sweep, faults>>

(* A code passes its expiry, or is switched off or on, or extended.        *)
CodePatched(c) ==
  /\ ~CodeLocked(c)
  /\ active' = IF c \in active THEN active \ {c} ELSE active \cup {c}
  /\ UNCHANGED <<now, intent, sponsor, uses, stripe, bill, answer, request, draft, backing,
                 delivery, resolver, staff, sweep, admin, faults>>

(***************************************************************************)
(* The specification.                                                      *)
(***************************************************************************)
RequestStep(i) ==
  \/ OpenRead(i) \/ OpenRefused(i)
  \/ \E s \in Slots, b \in Buyers, c \in Codes \cup {None} : OpenBegin(i, s, b, c)
  \/ OpenCommit(i) \/ OpenLoses(i)
  \/ Mint(i) \/ MintFail(i) \/ MintCrash(i)
BuyerStep(i) ==
  \/ Complete(i, TRUE, TRUE) \/ Complete(i, TRUE, FALSE) \/ Complete(i, FALSE, TRUE)
  \/ \E k \in Invoices : Renew(i, k) \/ Charge(i, k)
  \/ BuyerBack(i) \/ BuyerReleased(i)
DeliverStep(w) ==
  \/ \E i \in Intents : DeliverBegin(w, i)
  \/ DeliverConflict(w) \/ DeliverActivate(w) \/ DeliverError(w)
  \/ \E r \in Rows : Revive(w, r)
ResolveStep(p) ==
  \/ \E i \in Intents : ResolveBegin(p, i)
  \/ ResolveCancel(p) \/ ResolveVoid(p) \/ (\E k \in Invoices : ResolveRefund(p, k))
  \/ ResolveFinish(p) \/ ResolveAbort(p)
StaffStep(p) == (\E i \in Intents : StaffLook(p, i)) \/ StaffExpire(p) \/ StaffWrite(p)
SweepStep(p) == SweepRead(p) \/ SweepWrite(p)
AdminStep(a) ==
  \/ \E op \in AdminOps, r \in Rows, t \in {"exclusive", "silver"} : AdminBegin(a, op, r, t)
  \/ AdminCommit(a)

Next ==
  \/ Tick
  \/ \E i \in Intents : RequestStep(i) \/ BuyerStep(i) \/ DeliverAck(i)
  \/ \E w \in Workers : DeliverStep(w)
  \/ \E p \in Resolvers : ResolveStep(p)
  \/ \E p \in Staff : StaffStep(p)
  \/ \E p \in Sweepers : SweepStep(p)
  \/ \E a \in Admins : AdminStep(a)
  \/ \E c \in Codes : CodePatched(c)

Spec == Init /\ [][Next]_vars

(* A transaction in progress ends; Stripe delivers the completed event     *)
(* until it is answered 200; the hourly sweep picks up every unresolved    *)
(* conflict, and a follow-up that meets no further failure goes on.        *)
Redeliver(i) == /\ answer[i] # "ok"
                /\ DeliverAck(i) \/ \E w \in Workers : DeliverBegin(w, i)

Fairness ==
  /\ \A i \in Intents : /\ WF_vars(OpenCommit(i) \/ OpenLoses(i))
                        /\ WF_vars(Redeliver(i))
                        /\ WF_vars(\E p \in Resolvers : ResolveBegin(p, i))
  /\ \A w \in Workers : WF_vars(DeliverConflict(w) \/ DeliverActivate(w) \/ DeliverError(w))
  /\ \A p \in Resolvers : WF_vars(\/ ResolveCancel(p) \/ ResolveVoid(p) \/ ResolveFinish(p)
                                  \/ \E k \in Invoices : ResolveRefund(p, k))

FairSpec == Spec /\ Fairness

(***************************************************************************)
(* Properties.                                                             *)
(***************************************************************************)
Sold(i) == \E r \in Rows : sponsor[r].sub = i /\ sponsor[r].status \in Live
Returned(i) == /\ stripe[i].sub = "canceled"
               /\ \A k \in Invoices : bill[i][k] \notin {"open", "paid"}

(* A buyer can pay only while the hold that reserves the slot is still     *)
(* theirs: Stripe's expiry lands inside the hold, and giving the slot back *)
(* closes the session first (stripe_checkout.py, release_hold).            *)
PayableIsHeld == \A i \in Intents : Payable(i) => HoldLive(i)

(* A slot is sold to at most one paying company, counting the ones staff   *)
(* have paused (R16: a paused sponsor still pays).                         *)
OneSale == \A i, j \in Intents : Sold(i) /\ Sold(j) /\ intent[i].slot = intent[j].slot => i = j

(* A sponsor on the board, shown or paused, has a live subscription whose  *)
(* first invoice is paid and was not given back.                           *)
SoldIsPaid == \A i \in Intents : Sold(i) => stripe[i].sub = "active" /\ bill[i][1] = "paid"

(* Money goes back only once the subscription can bill no more             *)
(* (resolve_conflict: cancel first).                                       *)
RefundAfterCancel == \A i \in Intents :
  (\E k \in Invoices : bill[i][k] = "refunded") => stripe[i].sub = "canceled"

(* A conflict marked resolved owes nothing: its subscription is over and   *)
(* every invoice of it is void or refunded, however many follow-ups ran at *)
(* once, died half way or met a renewal.                                   *)
ResolvedIsReturned == \A i \in Intents : intent[i].resolved => Returned(i)

(* A live sponsor's subscription is never replaced by another sale (R7),   *)
(* not even on a company's row of another tier that was revived by its own *)
(* card while a buyer with the company's code held the slot.               *)
SubscriptionKept == [][\A r \in Rows :
  sponsor[r].status \in Live /\ sponsor[r].sub # None => sponsor'[r].sub = sponsor[r].sub]_vars

(* A conflict stays listed until its money is back (_queue_conflict: "it   *)
(* shows in Needs attention until that has happened").  The code breaks    *)
(* this: expire_lapsed writes what it has selected, whatever became of it. *)
ConflictKept == [][\A i \in Intents :
  intent[i].status = "conflict" /\ ~intent[i].resolved => intent'[i].status = "conflict"]_vars

(* The sales made with a code.                                             *)
SalesWith(c) == {i \in Intents : intent[i].code = c /\ intent[i].status = "completed"}

(* Uses and live holds together exceed a code's max_uses only after a sale *)
(* with it was activated from a hold that had lapsed, or lapsed since.     *)
LimitHeldUntilLapse == \A c \in Codes :
  uses[c] + Cardinality({i \in Intents : HoldLive(i) /\ intent[i].code = c}) > MaxUses
    => \E i \in SalesWith(c) : intent[i].until < now

(* Checkout implements SlotSale as long as no third party writes the same  *)
(* rows: a sale is offered while its session is payable, kept while its    *)
(* sponsor is live, returned once its conflict is resolved.                *)
Phase(i) ==
  CASE Sold(i)                                      -> "kept"
    [] intent[i].resolved /\ ~Sold(i)               -> "returned"
    [] Cleared(i) /\ ~Sold(i) /\ ~intent[i].resolved -> "paid"
    [] Payable(i)                                   -> "offered"
    [] stripe[i].session = "none"                   -> "new"
    [] OTHER                                        -> "withdrawn"

Sale == INSTANCE SlotSale WITH
  Sales <- Intents,
  phase <- [i \in Intents |-> Phase(i)],
  place <- [i \in Intents |-> IF Phase(i) = "new" THEN None ELSE intent[i].slot]

SaleSpec == Sale!Spec

(* Nobody's money is kept without a decision: every paid checkout ends as  *)
(* a live sponsor or with its subscription over and its invoices returned. *)
PaidIsSettled == \A i \in Intents : Cleared(i) ~> Sold(i) \/ (intent[i].resolved /\ Returned(i))

=============================================================================
