------------------------------ MODULE Billing ------------------------------
(***************************************************************************)
(* A sponsorship after its sale: the sponsor row, the sponsor_billing row  *)
(* beside it, the mirror of its invoices, and everyone who writes them     *)
(* while Stripe bills: the lifecycle webhooks (at least once, in any       *)
(* order), the hourly dunning sweep, the queued voids, the billing console *)
(* and staff editing the sponsor.                                          *)
(*                                                                         *)
(* Each Stripe call is an action of its own; code between two awaits, and  *)
(* the mirror's one short transaction, is one action.  The gate of a       *)
(* webhook reads the row it writes in a later action: nothing locks it.    *)
(***************************************************************************)
EXTENDS Naturals, FiniteSets, FiniteSetsExt

CONSTANTS
  Subs,          \* Stripe subscriptions this placement may ever have
  Stamped,       \* those a rep may yet create, with metadata.sponsor_id (quotes)
  First,         \* the subscription a row that is billed starts with
  None,          \* SQL NULL
  Grace,         \* BILLING_GRACE_DAYS, in clock ticks
  Workers,       \* webhook deliveries in progress
  Sweepers,      \* dunning passes, one per api process
  Voiders,       \* void follow-ups: background task, duty 5 of the sweep
  Staff,         \* staff in the billing console
  Admins,        \* staff editing the sponsor row
  MaxInvoices,   \* bound: invoices issued
  MaxTime,       \* bound: clock
  MaxActs,       \* bound: staff actions begun
  MaxFaults      \* bound: Stripe calls that fail, processes that die

ASSUME BillingAssumption ==
  /\ Stamped \subseteq Subs /\ First \in Subs \ Stamped /\ None \notin Subs \cup Nat
  /\ Grace \in Nat /\ MaxTime \in Nat /\ MaxInvoices \in Nat \ {0}
  /\ MaxActs \in Nat /\ MaxFaults \in Nat

VARIABLES
  now,      \* the clock every stamp is compared with
  row,      \* the sponsor row: status, updated_at, stripe_subscription_id;
            \* lapsed is history: when the board last came down
  bill,     \* sponsor_billing: subscription, failing_since, void_pending
  method,   \* the subscription's collection_method
  mirror,   \* sponsor_payments.status, per invoice
  live,     \* status of each subscription at Stripe
  invoice,  \* its invoices at Stripe
  events,   \* every webhook event Stripe has to deliver, or to deliver again
  fresh,    \* the events not yet answered 200
  hook,     \* per worker, the event past its mirror and what it will write
  sweep,    \* per sweeper, the row it is dunning
  void,     \* per voider, the subscription whose open invoices it voids
  console,  \* per staff member, the cancel or retry in progress
  admin,    \* per admin, the edit whose guards have passed
  acts,    \* staff actions begun so far
  faults    \* failures so far

vars == <<now, row, bill, method, mirror, live, invoice, events, fresh, hook, sweep,
          void, console, admin, acts, faults>>

Invoices == 1..MaxInvoices
Bills == Subs \X Invoices

NoInvoice == [status |-> "none", tried |-> FALSE, made |-> 0]
NoEvent == [type |-> "paid", sub |-> None, inv |-> 0, at |-> 0]
NoHook == [pc |-> "idle", event |-> NoEvent]
NoSweep == [pc |-> "idle", sub |-> None, flagged |-> FALSE, inv |-> 0]
NoConsole == [pc |-> "idle", sub |-> None, flagged |-> FALSE, write |-> FALSE, inv |-> 0]

EventSet == [type : {"paid", "failed", "deleted"}, sub : Subs, inv : 0..MaxInvoices,
             at : 0..MaxTime]

(* Types of the variables.                                                *)
TypeOK ==
  /\ now \in 0..MaxTime
  /\ row \in [status : {"Active", "Paused", "Expired"}, written : 0..MaxTime,
              lapsed : 0..MaxTime, sub : Subs \cup {None}]
  /\ bill \in [sub : Subs \cup {None}, failing : (0..MaxTime) \cup {None}, void : BOOLEAN]
  /\ method \in {"charge_automatically", "send_invoice"}
  /\ mirror \in [Bills -> {"absent", "open", "failed", "paid"}]
  /\ live \in [Subs -> {"none", "active", "past_due", "canceled"}]
  /\ invoice \in [Bills -> [status : {"none", "open", "paid", "void"}, tried : BOOLEAN,
                            made : 0..MaxTime]]
  /\ events \subseteq EventSet /\ fresh \subseteq events
  /\ hook \in [Workers -> [pc : {"idle", "gate", "write"}, event : EventSet \cup {NoEvent}]]
  /\ sweep \in [Sweepers -> [pc : {"idle", "look", "repair", "cancel", "void", "write"},
                             sub : Subs \cup {None}, flagged : BOOLEAN, inv : 0..MaxInvoices]]
  /\ void \in [Voiders -> [pc : {"idle", "void", "write"}, sub : Subs \cup {None}]]
  /\ console \in [Staff -> [pc : {"idle", "cancel", "void", "write", "pay", "mirror"},
                            sub : Subs \cup {None}, flagged : BOOLEAN, write : BOOLEAN,
                            inv : 0..MaxInvoices]]
  /\ admin \in [Admins -> {"idle", "touch", "Active", "Paused", "Expired"}]
  /\ acts \in 0..MaxActs /\ faults \in 0..MaxFaults

(* Every write of the row stamps updated_at.                               *)
Write(status) == row' = [row EXCEPT
  !.status = status, !.written = now,
  !.lapsed = IF status = "Expired" /\ row.status # "Expired" THEN now ELSE @]

(***************************************************************************)
(* What is stored, and who an event belongs to (R13).                      *)
(***************************************************************************)
Stored == IF row.sub # None THEN row.sub ELSE bill.sub

(* Mutant: the stamp is believed whatever subscription is stored. *)
Resolves_Stamp(s) == s \in {row.sub, bill.sub} \/ s \in Stamped

(* The row's own subscription, or a stamped one when none is stored yet.   *)
Resolves(s) == s \in {row.sub, bill.sub} \/ (s \in Stamped /\ Stored = None)

Open(s) == {k \in Invoices : invoice[<<s, k>>].status = "open"}
Failing(s, m) == {k \in Invoices : m[<<s, k>>] = "failed"}

(* Mutant: the clock is toggled by the event instead of derived. *)
FailingSince_Toggled(s, m, paid) ==
  IF paid \/ Failing(s, m) = {} THEN None ELSE Min({invoice[<<s, k>>].made : k \in Failing(s, m)})

(* recompute_failing_since: the oldest invoice the mirror still shows      *)
(* failed, whichever event was the last.                                   *)
FailingSince(s, m, paid) ==
  IF Failing(s, m) = {} THEN None ELSE Min({invoice[<<s, k>>].made : k \in Failing(s, m)})

(* upsert_payment_from_invoice: a settled row is not downgraded.           *)
Upsert(s, k, status) ==
  IF mirror[<<s, k>>] = "paid" THEN mirror ELSE [mirror EXCEPT ![<<s, k>>] = status]

(* _invoice_status of the invoice as Stripe has it now; a voided one that  *)
(* was attempted reads failed.                                             *)
InvoiceStatus(s, k) ==
  CASE invoice[<<s, k>>].status = "paid" -> "paid"
    [] invoice[<<s, k>>].status # "paid" /\ invoice[<<s, k>>].tried -> "failed"
    [] OTHER -> "open"

Latest(s) == {k \in Invoices : /\ invoice[<<s, k>>].status # "none"
                               /\ \A j \in Invoices : j > k => invoice[<<s, j>>].status = "none"}

Emitted(type, s, k) == [type |-> type, sub |-> s, inv |-> k, at |-> now]
Emit(E) == events' = events \cup E /\ fresh' = fresh \cup E

Fault == faults < MaxFaults /\ faults' = faults + 1

(* A row sold by checkout; one a rep quoted, whose subscription only the   *)
(* billing row knows (its stamp adds nothing once it is stored); or one    *)
(* that nothing bills yet.  Staff may have paused it.                      *)
Init ==
  /\ now = 0
  /\ \E s \in {First, None}, sold \in {First, None}, status \in {"Active", "Paused"} :
       /\ sold \in {s, None}
       /\ row = [status |-> status, written |-> 0, lapsed |-> 0, sub |-> sold]
       /\ bill = [sub |-> s, failing |-> None, void |-> FALSE]
       /\ live = [x \in Subs |-> IF x = s THEN "active" ELSE "none"]
       /\ invoice = [b \in Bills |-> IF b = <<s, 1>>
            THEN [status |-> "paid", tried |-> TRUE, made |-> 0] ELSE NoInvoice]
       /\ mirror = [b \in Bills |-> IF b = <<s, 1>> THEN "paid" ELSE "absent"]
       /\ method \in IF sold = None THEN {"charge_automatically", "send_invoice"}
                     ELSE {"charge_automatically"}
  /\ events = {} /\ fresh = {}
  /\ hook = [w \in Workers |-> NoHook]
  /\ sweep = [p \in Sweepers |-> NoSweep]
  /\ void = [p \in Voiders |-> [pc |-> "idle", sub |-> None]]
  /\ console = [p \in Staff |-> NoConsole]
  /\ admin = [a \in Admins |-> "idle"]
  /\ acts = 0 /\ faults = 0

Tick ==
  /\ now < MaxTime
  /\ now' = now + 1
  /\ UNCHANGED <<row, bill, method, mirror, live, invoice, events, fresh, hook, sweep,
                 void, console, admin, acts, faults>>

(***************************************************************************)
(* Stripe (external): subscriptions bill, invoices are paid, fail or are   *)
(* voided in the Dashboard, a subscription is canceled elsewhere.          *)
(***************************************************************************)
App == <<now, row, bill, method, mirror, hook, sweep, void, console, admin, acts, faults>>

(* A rep's quote is accepted: the stamped subscription starts.             *)
QuoteStarts(s) ==
  /\ s \in Stamped /\ live[s] = "none"
  /\ live' = [live EXCEPT ![s] = "active"]
  /\ UNCHANGED <<invoice, events, fresh>> /\ UNCHANGED App

(* A period begins; bounds: early enough for its grace to end in time, and *)
(* MaxInvoices for all subscriptions together.                             *)
Issue(s, k) ==
  /\ live[s] \in {"active", "past_due"}
  /\ invoice[<<s, k>>].status = "none" /\ (k > 1 => invoice[<<s, k-1>>].status # "none")
  /\ now + Grace < MaxTime
  /\ Cardinality({b \in Bills : invoice[b].status # "none"}) < MaxInvoices
  /\ invoice' = [invoice EXCEPT ![<<s, k>>] = [status |-> "open", tried |-> FALSE, made |-> now]]
  /\ UNCHANGED <<live, events, fresh>> /\ UNCHANGED App

Recovered(s, k) ==
  IF live[s] = "past_due" /\ ~\E j \in Open(s) \ {k} : invoice[<<s, j>>].tried
  THEN [live EXCEPT ![s] = "active"] ELSE live

Paid(s, k) ==
  /\ invoice[<<s, k>>].status = "open"
  /\ invoice' = [invoice EXCEPT ![<<s, k>>].status = "paid"]
  /\ live' = Recovered(s, k)
  /\ Emit({Emitted("paid", s, k)})
Pays(s, k) == Paid(s, k) /\ UNCHANGED App

(* An automatic charge is declined.                                        *)
Declined(s, k) ==
  /\ method = "charge_automatically"
  /\ invoice[<<s, k>>].status = "open" /\ ~invoice[<<s, k>>].tried /\ live[s] # "canceled"
  /\ invoice' = [invoice EXCEPT ![<<s, k>>].tried = TRUE]
  /\ live' = [live EXCEPT ![s] = "past_due"]
  /\ Emit({Emitted("failed", s, k)})
  /\ UNCHANGED App

VoidedByHand(s, k) ==
  /\ invoice[<<s, k>>].status = "open" /\ live[s] # "canceled"
  /\ invoice' = [invoice EXCEPT ![<<s, k>>].status = "void"]
  /\ live' = Recovered(s, k)
  /\ UNCHANGED <<events, fresh>> /\ UNCHANGED App

(* cancel_now; an already canceled subscription is a success.              *)
Canceled(s) ==
  /\ live' = [live EXCEPT ![s] = "canceled"]
  /\ Emit(IF live[s] = "canceled" THEN {} ELSE {Emitted("deleted", s, 0)})
CanceledElsewhere(s) ==
  /\ live[s] \in {"active", "past_due"}
  /\ Canceled(s)
  /\ UNCHANGED invoice /\ UNCHANGED App

(* Mutant: the invoices of a canceled subscription are left open. *)
VoidOpen_Nothing(s) == invoice' = invoice

(* void_open_invoices.                                                     *)
VoidOpen(s) ==
  invoice' = [b \in Bills |-> IF b[1] = s /\ invoice[b].status = "open"
                              THEN [invoice[b] EXCEPT !.status = "void"] ELSE invoice[b]]

(***************************************************************************)
(* The placement is sold again (Checkout): an Expired row is reused.  A    *)
(* sale takes a hold and a payment, the end of a delivery one turn of the  *)
(* event loop: the first does not fit into the second.                     *)
(***************************************************************************)
SoldAgain(s) ==
  /\ s \notin Stamped /\ live[s] = "none" /\ row.status = "Expired"
  /\ \A w \in Workers : hook[w].pc = "idle"
  /\ row' = [row EXCEPT !.status = "Active", !.written = now, !.sub = s]
  /\ bill' = [sub |-> s, failing |-> None, void |-> FALSE]
  /\ live' = [live EXCEPT ![s] = "active"]
  /\ invoice' = [invoice EXCEPT ![<<s, 1>>] = [status |-> "paid", tried |-> TRUE, made |-> now]]
  /\ Emit({Emitted("paid", s, 1)})
  /\ UNCHANGED <<now, method, mirror, hook, sweep, void, console, admin, acts, faults>>

(* The Dashboard's Resend, or a retry after a 200 that was lost.           *)
Resend(e) ==
  /\ e \in events \ fresh /\ Fault
  /\ fresh' = fresh \cup {e}
  /\ UNCHANGED <<now, row, bill, method, mirror, live, invoice, events, hook, sweep, void,
                 console, admin, acts>>

(***************************************************************************)
(* apply_stripe_event.                                                     *)
(***************************************************************************)
Ends(w) == /\ hook' = [hook EXCEPT ![w] = NoHook]
           /\ fresh' = fresh \ {hook[w].event}

(* _mirror, before every gate and in a transaction of its own: the invoice *)
(* whoever it belongs to, then for the sponsor it resolves to the captured *)
(* subscription, the queued void and the failing clock.                    *)
DeliverMirror(w, e) ==
  LET status == IF e.type = "paid" THEN "paid" ELSE "failed"
      known == IF e.type = "deleted" THEN mirror ELSE Upsert(e.sub, e.inv, status)
      sub == IF Resolves(e.sub) /\ bill.sub = None THEN e.sub ELSE bill.sub
  IN
  /\ hook[w].pc = "idle" /\ e \in fresh
  /\ mirror' = known
  /\ bill' = [sub |-> sub,
              failing |-> IF e.type # "deleted" /\ sub = e.sub
                          THEN FailingSince(e.sub, known, e.type = "paid") ELSE bill.failing,
              void |-> bill.void \/ (e.type = "deleted" /\ Resolves(e.sub))]
  /\ IF e.type = "failed" \/ ~Resolves(e.sub)
     THEN fresh' = fresh \ {e} /\ UNCHANGED hook
     ELSE hook' = [hook EXCEPT ![w] = [pc |-> "gate", event |-> e]] /\ UNCHANGED fresh
  /\ UNCHANGED <<now, row, method, live, invoice, events, sweep, void, console, admin,
                 acts, faults>>

Wanted(e) == IF e.type = "paid" THEN "Active" ELSE "Expired"

(* Mutant: a paid invoice always puts the sponsor back. *)
Refuses_OnlyPaused(e) == \/ e.type = "paid" /\ row.status = "Paused"
                         \/ row.status = Wanted(e)

(* left_paused and unchanged; stale_event is certain when the event was    *)
(* created a tick before the row's last write.                             *)
Refuses(e) ==
  \/ e.at < row.written
  \/ e.type = "paid" /\ row.status = "Paused"
  \/ row.status = Wanted(e)

DeliverPasses(w) ==
  /\ hook[w].pc = "gate" /\ ~Refuses(hook[w].event)
  /\ hook' = [hook EXCEPT ![w].pc = "write"]
  /\ UNCHANGED <<now, row, bill, method, mirror, live, invoice, events, fresh, sweep, void,
                 console, admin, acts, faults>>

(* Within a tick either stamp can be the older one.                        *)
DeliverSkips(w) ==
  /\ hook[w].pc = "gate"
  /\ Refuses(hook[w].event) \/ hook[w].event.at = row.written
  /\ Ends(w)
  /\ UNCHANGED <<now, row, bill, method, mirror, live, invoice, events, sweep, void,
                 console, admin, acts, faults>>

DeliverWrites(w) ==
  /\ hook[w].pc = "write"
  /\ Write(Wanted(hook[w].event))
  /\ Ends(w)
  /\ UNCHANGED <<now, bill, method, mirror, live, invoice, events, sweep, void, console,
                 admin, acts, faults>>

(* slot_conflict: another company was given the slot meanwhile (016).      *)
DeliverSlotConflict(w) ==
  /\ hook[w].pc = "write" /\ Wanted(hook[w].event) = "Active"
  /\ Ends(w)
  /\ UNCHANGED <<now, row, bill, method, mirror, live, invoice, events, sweep, void,
                 console, admin, acts, faults>>

(* The process dies after the mirror: Stripe delivers the event again.     *)
DeliverCrash(w) ==
  /\ hook[w].pc # "idle" /\ Fault
  /\ hook' = [hook EXCEPT ![w] = NoHook]
  /\ UNCHANGED <<now, row, bill, method, mirror, live, invoice, events, fresh, sweep, void,
                 console, admin, acts>>

(***************************************************************************)
(* The sweep's dunning (duty 4).  The rows are loaded before the first     *)
(* read at Stripe, and written after the last call with what was loaded.   *)
(***************************************************************************)
Quiet == <<now, row, bill, method, mirror, hook, void, console, admin, acts>>

(* Mutant: only boards that are shown are dunned. *)
SweepRead_Shown(p) ==
  /\ sweep[p].pc = "idle"
  /\ row.status = "Active" /\ bill.sub # None
  /\ method = "charge_automatically" => bill.failing # None /\ bill.failing + Grace < now
  /\ sweep' = [sweep EXCEPT ![p] = [NoSweep EXCEPT !.pc = "look", !.sub = bill.sub,
                                                   !.flagged = bill.void]]
  /\ UNCHANGED <<live, invoice, events, fresh, faults>> /\ UNCHANGED Quiet

(* A paused row is dunned like a shown one.                                *)
SweepRead(p) ==
  /\ sweep[p].pc = "idle"
  /\ row.status # "Expired" /\ bill.sub # None
  /\ method = "charge_automatically" => bill.failing # None /\ bill.failing + Grace < now
  /\ sweep' = [sweep EXCEPT ![p] = [NoSweep EXCEPT !.pc = "look", !.sub = bill.sub,
                                                   !.flagged = bill.void]]
  /\ UNCHANGED <<live, invoice, events, fresh, faults>> /\ UNCHANGED Quiet

Overdue(s) == \E k \in Open(s) : invoice[<<s, k>>].made + Grace < now

(* Mutant: an emailed invoice is taken for a card that fails. *)
SweepDoomed_AsCard(p) ==
  /\ sweep[p].pc = "look"
  /\ live[sweep[p].sub] = "past_due"
  /\ sweep' = [sweep EXCEPT ![p].pc = "cancel"]
  /\ UNCHANGED <<live, invoice, events, fresh, faults>> /\ UNCHANGED Quiet

(* _dun_card and _dun_invoiced: the subscription still owes.               *)
SweepDoomed(p) ==
  /\ sweep[p].pc = "look"
  /\ IF method = "send_invoice" THEN Overdue(sweep[p].sub) ELSE live[sweep[p].sub] = "past_due"
  /\ sweep' = [sweep EXCEPT ![p].pc = "cancel"]
  /\ UNCHANGED <<live, invoice, events, fresh, faults>> /\ UNCHANGED Quiet

(* The subscription is paid up again; the answer names its latest invoice. *)
SweepLive(p) == LET s == sweep[p].sub IN
  /\ sweep[p].pc = "look" /\ method = "charge_automatically" /\ live[s] = "active"
  /\ \E k \in IF Latest(s) = {} THEN {0} ELSE Latest(s) :
       sweep' = [sweep EXCEPT ![p].pc = "repair", ![p].inv = k]
  /\ UNCHANGED <<live, invoice, events, fresh, faults>> /\ UNCHANGED Quiet

(* _repair_recovered: that invoice is read and mirrored again, the clock   *)
(* derived again.                                                          *)
SweepRecovered(p) ==
  LET s == sweep[p].sub
      k == sweep[p].inv
      known == IF k = 0 THEN mirror ELSE Upsert(s, k, InvoiceStatus(s, k))
  IN
  /\ sweep[p].pc = "repair"
  /\ mirror' = known
  /\ bill' = IF bill.sub = s THEN [bill EXCEPT !.failing = FailingSince(s, known, FALSE)] ELSE bill
  /\ sweep' = [sweep EXCEPT ![p] = NoSweep]
  /\ UNCHANGED <<now, row, method, live, invoice, events, fresh, hook, void, console, admin,
                 acts, faults>>

(* The subscription is gone already: only its open invoices are voided.    *)
SweepGone(p) ==
  /\ sweep[p].pc = "look" /\ method = "charge_automatically" /\ live[sweep[p].sub] = "canceled"
  /\ VoidOpen(sweep[p].sub)
  /\ sweep' = [sweep EXCEPT ![p] = NoSweep]
  /\ UNCHANGED <<live, events, fresh, faults>> /\ UNCHANGED Quiet

(* The overdue list does not name it.                                      *)
SweepSpared(p) ==
  /\ sweep[p].pc = "look" /\ method = "send_invoice" /\ ~Overdue(sweep[p].sub)
  /\ sweep' = [sweep EXCEPT ![p] = NoSweep]
  /\ UNCHANGED <<live, invoice, events, fresh, faults>> /\ UNCHANGED Quiet

(* _release: cancel, void, then expire the board.                          *)
SweepCancel(p) ==
  /\ sweep[p].pc = "cancel"
  /\ Canceled(sweep[p].sub)
  /\ sweep' = [sweep EXCEPT ![p].pc = "void"]
  /\ UNCHANGED <<invoice, faults>> /\ UNCHANGED Quiet

SweepVoid(p) ==
  /\ sweep[p].pc = "void"
  /\ VoidOpen(sweep[p].sub)
  /\ sweep' = [sweep EXCEPT ![p].pc = "write"]
  /\ UNCHANGED <<live, events, fresh, faults>> /\ UNCHANGED Quiet

(* void_pending is written only when it was loaded TRUE.                   *)
SweepWrite(p) ==
  /\ sweep[p].pc = "write"
  /\ Write("Expired")
  /\ bill' = [bill EXCEPT !.void = @ /\ ~sweep[p].flagged]
  /\ sweep' = [sweep EXCEPT ![p] = NoSweep]
  /\ UNCHANGED <<now, method, mirror, live, invoice, events, fresh, hook, void, console,
                 admin, acts, faults>>

(* A Stripe call fails or the process stops: the next pass starts over.    *)
SweepAbort(p) ==
  /\ sweep[p].pc # "idle" /\ Fault
  /\ sweep' = [sweep EXCEPT ![p] = NoSweep]
  /\ UNCHANGED <<live, invoice, events, fresh>> /\ UNCHANGED Quiet

(***************************************************************************)
(* void_pending: in the background after the 200, and duty 5 of the sweep. *)
(***************************************************************************)
VoidRead(p) ==
  /\ void[p].pc = "idle" /\ bill.void
  /\ void' = [void EXCEPT ![p] = [pc |-> "void", sub |-> bill.sub]]
  /\ UNCHANGED <<now, row, bill, method, mirror, live, invoice, events, fresh, hook, sweep,
                 console, admin, acts, faults>>

VoidCall(p) ==
  /\ void[p].pc = "void"
  /\ VoidOpen(void[p].sub)
  /\ void' = [void EXCEPT ![p].pc = "write"]
  /\ UNCHANGED <<now, row, bill, method, mirror, live, events, fresh, hook, sweep, console,
                 admin, acts, faults>>

VoidDone(p) ==
  /\ void[p].pc = "write"
  /\ bill' = [bill EXCEPT !.void = FALSE]
  /\ void' = [void EXCEPT ![p] = [pc |-> "idle", sub |-> None]]
  /\ UNCHANGED <<now, row, method, mirror, live, invoice, events, fresh, hook, sweep,
                 console, admin, acts, faults>>

VoidAbort(p) ==
  /\ void[p].pc # "idle" /\ Fault
  /\ void' = [void EXCEPT ![p] = [pc |-> "idle", sub |-> None]]
  /\ UNCHANGED <<now, row, bill, method, mirror, live, invoice, events, fresh, hook, sweep,
                 console, admin, acts>>

(***************************************************************************)
(* The billing console: cancel now, and retry the oldest open invoice.     *)
(***************************************************************************)
Desk == <<now, method, hook, sweep, void, admin>>

(* R13: the stored subscription, else the one stamped subscription Stripe  *)
(* finds, which is stored.  The sponsor loaded here is written at the end: *)
(* one that was Expired then is not written again.                         *)
ConsoleBegin(p, op) ==
  /\ console[p].pc = "idle" /\ acts < MaxActs /\ acts' = acts + 1
  /\ \E s \in Subs :
       /\ IF Stored # None THEN s = Stored ELSE {s} = {x \in Stamped : live[x] \in {"active", "past_due"}}
       /\ bill' = [bill EXCEPT !.sub = IF Stored # None THEN bill.sub ELSE s]
       /\ console' = [console EXCEPT ![p] = [NoConsole EXCEPT !.pc = op, !.sub = s,
                         !.write = Stored = None \/ row.status # "Expired"]]
  /\ UNCHANGED <<row, mirror, live, invoice, events, fresh, faults>> /\ UNCHANGED Desk

ConsoleCancel(p) ==
  /\ console[p].pc = "cancel"
  /\ Canceled(console[p].sub)
  /\ console' = [console EXCEPT ![p].pc = "void"]
  /\ UNCHANGED <<row, bill, mirror, invoice, faults>> /\ UNCHANGED Desk /\ UNCHANGED acts

ConsoleVoid(p) ==
  /\ console[p].pc = "void"
  /\ VoidOpen(console[p].sub)
  /\ console' = [console EXCEPT ![p].pc = "write"]
  /\ UNCHANGED <<row, bill, mirror, live, events, fresh, faults>> /\ UNCHANGED Desk /\ UNCHANGED acts

ConsoleWrite(p) ==
  /\ console[p].pc = "write"
  /\ IF console[p].write THEN Write("Expired") ELSE UNCHANGED row
  /\ bill' = [bill EXCEPT !.void = FALSE]
  /\ console' = [console EXCEPT ![p] = NoConsole]
  /\ UNCHANGED <<mirror, live, invoice, events, fresh, faults>> /\ UNCHANGED Desk /\ UNCHANGED acts

(* pay_oldest_open_invoice; with nothing open it is a 409.                 *)
ConsolePay(p) ==
  LET s == console[p].sub IN
  /\ console[p].pc = "pay"
  /\ IF Open(s) = {}
     THEN console' = [console EXCEPT ![p] = NoConsole] /\ UNCHANGED <<invoice, live, events, fresh>>
     ELSE /\ Paid(s, Min(Open(s)))
          /\ console' = [console EXCEPT ![p].pc = "mirror", ![p].inv = Min(Open(s))]
  /\ UNCHANGED <<row, bill, mirror, faults>> /\ UNCHANGED Desk /\ UNCHANGED acts

(* The paid invoice is mirrored; the clock is left to its webhook.         *)
ConsoleMirror(p) ==
  /\ console[p].pc = "mirror"
  /\ mirror' = Upsert(console[p].sub, console[p].inv, "paid")
  /\ console' = [console EXCEPT ![p] = NoConsole]
  /\ UNCHANGED <<row, bill, live, invoice, events, fresh, faults>> /\ UNCHANGED Desk /\ UNCHANGED acts

(* A Stripe call fails, the card is declined, or the process stops.        *)
ConsoleAbort(p) ==
  /\ console[p].pc # "idle" /\ Fault
  /\ console' = [console EXCEPT ![p] = NoConsole]
  /\ UNCHANGED <<row, bill, mirror, live, invoice, events, fresh>> /\ UNCHANGED Desk /\ UNCHANGED acts

(***************************************************************************)
(* Staff edit the sponsor (update_sponsor); the guards, R15 among them,    *)
(* and the write are not one transaction with anything else.               *)
(***************************************************************************)
AdminBegin(a, to) ==
  /\ admin[a] = "idle" /\ acts < MaxActs
  /\ to # row.status
  /\ to = "Expired" => Stored = None
  /\ admin' = [admin EXCEPT ![a] = to]
  /\ acts' = acts + 1
  /\ UNCHANGED <<now, row, bill, method, mirror, live, invoice, events, fresh, hook, sweep,
                 void, console, faults>>

(* Any changed column stamps updated_at; a touch is the note or the image. *)
AdminCommit(a) ==
  /\ admin[a] # "idle"
  /\ Write(IF admin[a] = "touch" THEN row.status ELSE admin[a])
  /\ admin' = [admin EXCEPT ![a] = "idle"]
  /\ UNCHANGED <<now, bill, method, mirror, live, invoice, events, fresh, hook, sweep, void,
                 console, acts, faults>>

(***************************************************************************)
(* The specification.                                                      *)
(***************************************************************************)
Bill == \E s \in Subs : \/ QuoteStarts(s) \/ CanceledElsewhere(s) \/ SoldAgain(s)
                       \/ \E k \in Invoices : \/ Issue(s, k) \/ Pays(s, k)
                                             \/ Declined(s, k) \/ VoidedByHand(s, k)
HookStep(w) == DeliverPasses(w) \/ DeliverSkips(w) \/ DeliverWrites(w) \/ DeliverSlotConflict(w)
SweepStep(p) == \/ SweepRead(p) \/ SweepDoomed(p) \/ SweepLive(p) \/ SweepRecovered(p)
                \/ SweepGone(p) \/ SweepSpared(p) \/ SweepCancel(p) \/ SweepVoid(p) \/ SweepWrite(p)
VoidStep(p) == VoidRead(p) \/ VoidCall(p) \/ VoidDone(p)
ConsoleStep(p) == \/ ConsoleCancel(p) \/ ConsoleVoid(p) \/ ConsoleWrite(p)
                  \/ ConsolePay(p) \/ ConsoleMirror(p)

Next ==
  \/ Tick \/ Bill
  \/ \E e \in events : Resend(e)
  \/ \E w \in Workers : \/ \E e \in fresh : DeliverMirror(w, e)
                        \/ HookStep(w) \/ DeliverCrash(w)
  \/ \E p \in Sweepers : SweepStep(p) \/ SweepAbort(p)
  \/ \E p \in Voiders : VoidStep(p) \/ VoidAbort(p)
  \/ \E p \in Staff : \/ \E op \in {"cancel", "pay"} : ConsoleBegin(p, op)
                      \/ ConsoleStep(p) \/ ConsoleAbort(p)
  \/ \E a \in Admins : \/ \E to \in {"touch", "Active", "Paused", "Expired"} : AdminBegin(a, to)
                       \/ AdminCommit(a)

Spec == Init /\ [][Next]_vars

(* Time passes, Stripe delivers until it is answered, the sweep runs every *)
(* hour, and what has begun goes on; nobody has to pay, edit or cancel.    *)
Fairness ==
  /\ WF_vars(Tick)
  /\ \A e \in EventSet : WF_vars(\E w \in Workers : DeliverMirror(w, e))
  /\ \A w \in Workers : WF_vars(HookStep(w))
  /\ \A p \in Sweepers : WF_vars(SweepStep(p))
  /\ \A p \in Voiders : WF_vars(VoidStep(p))
  /\ \A p \in Staff : WF_vars(ConsoleStep(p))

FairSpec == Spec /\ Fairness

(***************************************************************************)
(* Properties.                                                             *)
(***************************************************************************)

(* While the mirror shows a failed invoice of the billed subscription the  *)
(* grace clock runs, from the oldest of them or earlier, whatever order    *)
(* the events came in (F2, F5).                                            *)
FailureKeepsClock == LET F == {b \in Bills : b[1] = bill.sub /\ mirror[b] = "failed"} IN
  F # {} => bill.failing # None /\ \A b \in F : bill.failing <= invoice[b].made

(* A board is taken down by code only when the subscription that pays for  *)
(* it is over at Stripe: never for a stamp of another subscription (R13),  *)
(* never before the cancel.  Staff's own edits are not meant, and the one  *)
(* write is let off that does break it and that nothing stops: the last    *)
(* step of a sweep or a console cancel begun for an earlier sale of the    *)
(* row, which expires the row sold again.                                  *)
WritesEarlierSale ==
  \/ \E p \in Sweepers : sweep[p].pc = "write" /\ sweep'[p] # sweep[p] /\ sweep[p].sub # Stored
  \/ \E p \in Staff : console[p].pc = "write" /\ console'[p] # console[p] /\ console[p].sub # Stored
ExpiredAfterCancel == [][
  row.status # "Expired" /\ row'.status = "Expired" /\ admin' = admin
    => WritesEarlierSale \/ \E s \in Subs : s = Stored /\ live[s] = "canceled"]_vars

(* A lapsed board comes back only with an invoice of its own subscription  *)
(* paid since it came down: no replay of an older payment resurrects it.   *)
ReactivatedByPayment == [][
  row.status = "Expired" /\ row'.status = "Active" /\ row'.sub = row.sub /\ admin' = admin
    => \E e \in events : e.type = "paid" /\ e.sub = Stored /\ e.at >= row.lapsed]_vars

(* A board is not kept for ever by somebody who does not pay: a failing    *)
(* card ends it, and so does an invoice sent by e-mail that is overdue     *)
(* past the grace, which no failed charge and no clock announces.          *)
Delinquent(s) == /\ bill.sub = s /\ row.status # "Expired"
                 /\ IF method = "send_invoice" THEN Overdue(s) ELSE live[s] = "past_due"
DelinquencyEnds == \A s \in Subs : []<>~Delinquent(s)

(* Nobody can pay for a canceled subscription for ever: its open invoices  *)
(* are voided.                                                             *)
VoidsHappen == \A s \in Subs :
  live[s] = "canceled" /\ bill.sub = s ~> Open(s) = {} \/ bill.sub # s
=============================================================================
