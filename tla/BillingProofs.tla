---------------------------- MODULE BillingProofs ----------------------------
(***************************************************************************)
(* A sponsorship after its sale, for every value of the constants: any     *)
(* number of subscriptions, invoices, workers, sweeps, staff and admins.   *)
(***************************************************************************)
EXTENDS Billing, WellFoundedInduction, TLAPS

(***************************************************************************)
(* How the rows, Stripe and whoever is at work belong together.            *)
(***************************************************************************)

(* The row and its billing row are linked to one subscription, one that    *)
(* exists; only a checkout starts one that no rep stamped.                 *)
LinkOK ==
  /\ row.sub \in {None, bill.sub}
  /\ bill.sub # None => live[bill.sub] # "none"
  /\ bill.sub = None => \A s \in Subs \ Stamped : live[s] = "none"

(* What is mirrored or told in an event was issued by a subscription that  *)
(* exists; until one is linked no failure is mirrored.                     *)
IssuedOK ==
  /\ \A b \in Bills : live[b[1]] = "none" => invoice[b].status = "none"
  /\ \A b \in Bills : mirror[b] # "absent" => invoice[b].status # "none"
  /\ \A e \in events : e.type # "deleted" =>
       <<e.sub, e.inv>> \in Bills /\ invoice[<<e.sub, e.inv>>].status # "none"
  /\ \A e \in events : e.type = "deleted" => live[e.sub] = "canceled"
  /\ bill.sub = None => \A b \in Bills : mirror[b] # "failed"

(* A delivery past its mirror is about the subscription that is linked.    *)
HookOK == \A w \in Workers : hook[w].pc # "idle" =>
  hook[w].event \in events /\ hook[w].event.sub = bill.sub /\ hook[w].event.type # "failed"

(* Whoever is past the cancel has canceled its subscription; an invoice    *)
(* about to be mirrored again was issued.                                  *)
SweepOK == \A p \in Sweepers :
  /\ sweep[p].pc # "idle" =>
       sweep[p].sub \in Subs /\ live[sweep[p].sub] # "none" /\ bill.sub # None
  /\ sweep[p].pc \in {"void", "write"} => live[sweep[p].sub] = "canceled"
  /\ sweep[p].pc = "repair" /\ sweep[p].inv # 0 => sweep[p].inv \in Invoices
       /\ invoice[<<sweep[p].sub, sweep[p].inv>>].status # "none"

ConsoleOK == \A p \in Staff :
  /\ console[p].pc # "idle" => console[p].sub \in Subs /\ live[console[p].sub] # "none"
  /\ console[p].pc \in {"void", "write"} => live[console[p].sub] = "canceled"
  /\ console[p].pc = "mirror" => console[p].inv \in Invoices
       /\ invoice[<<console[p].sub, console[p].inv>>].status # "none"

BillInv == TypeOK /\ LinkOK /\ IssuedOK /\ HookOK /\ SweepOK /\ ConsoleOK

(* With one worker and nobody editing the row, the row a paid event passed *)
(* the gate on is still down, and was when the event was created.          *)
PassedOK ==
  /\ row.lapsed <= row.written /\ row.written <= now
  /\ \A w \in Workers : hook[w].pc = "write" /\ hook[w].event.type = "paid" =>
       row.status = "Expired" /\ row.lapsed <= hook[w].event.at

(***************************************************************************)
(* Operators.                                                              *)
(***************************************************************************)
LEMMA BillsAre ==
  /\ \A s \in Subs, k \in Invoices : <<s, k>> \in Bills
  /\ \A b \in Bills : b = <<b[1], b[2]>> /\ b[1] \in Subs /\ b[2] \in Invoices
BY DEF Bills

LEMMA InvoicesAre == Invoices \subseteq Nat /\ Invoices \subseteq 0..MaxInvoices
BY BillingAssumption DEF Invoices

(* The smallest of some natural numbers.                                   *)
LEMMA MinIs ==
  ASSUME NEW S \in SUBSET Nat, S # {}
  PROVE  Min(S) \in S /\ \A x \in S : Min(S) <= x
<1>1. PICK x \in S : \A y \in S : ~ (<<y, x>> \in OpToRel(<, Nat))
  BY WFMin, NatLessThanWellFounded
<1>2. \A y \in S : ~ (y < x)
  BY <1>1 DEF OpToRel
<1>3. \A y \in S : x <= y
  BY <1>2
<1> QED BY <1>3 DEF Min

(* The grace clock of a subscription: stopped, or at its oldest failure.   *)
LEMMA FailingSinceIs ==
  ASSUME TypeOK, NEW s \in Subs, NEW m, NEW paid
  PROVE  LET F == {k \in Invoices : m[<<s, k>>] = "failed"}
             at == FailingSince(s, m, paid)
         IN  /\ at \in (0..MaxTime) \cup {None}
             /\ F # {} => at \in 0..MaxTime
             /\ \A k \in F : at <= invoice[<<s, k>>].made
<1> DEFINE F == {k \in Invoices : m[<<s, k>>] = "failed"}
           M == {invoice[<<s, k>>].made : k \in F}
<1>1. Failing(s, m) = F
  BY DEF Failing
<1>2. \A k \in Invoices : invoice[<<s, k>>].made \in 0..MaxTime
  BY BillsAre DEF TypeOK
<1>3. M \subseteq 0..MaxTime /\ M \subseteq Nat
  <2>1. M \subseteq 0..MaxTime
    BY <1>2
  <2>2. 0..MaxTime \subseteq Nat
    BY BillingAssumption
  <2> QED BY <2>1, <2>2
<1>4. CASE F = {}
  BY <1>1, <1>4 DEF FailingSince
<1>5. CASE F # {}
  <2>1. FailingSince(s, m, paid) = Min(M)
    BY <1>1, <1>5 DEF FailingSince
  <2>2. M # {}
    BY <1>5
  <2> HIDE DEF M
  <2>3. Min(M) \in M /\ \A x \in M : Min(M) <= x
    BY <1>3, <2>2, MinIs
  <2> QED BY <1>3, <2>1, <2>3 DEF M
<1> QED BY <1>4, <1>5

(* Statuses of the mirror.                                                 *)
LEMMA UpsertIs ==
  ASSUME TypeOK, NEW s \in Subs, NEW k \in Invoices, NEW st \in {"open", "failed", "paid"}
  PROVE  LET m == Upsert(s, k, st) IN
         /\ m \in [Bills -> {"absent", "open", "failed", "paid"}]
         /\ \A b \in Bills : m[b] = mirror[b] \/ (b = <<s, k>> /\ m[b] = st)
BY BillsAre DEF Upsert, TypeOK

(* A set of emitted events.                                                *)
LEMMA EmitIs ==
  ASSUME TypeOK, NEW E \in SUBSET EventSet, Emit(E)
  PROVE  events' \subseteq EventSet /\ fresh' \subseteq events'
BY DEF Emit, TypeOK

LEMMA VoidOpenIs ==
  ASSUME TypeOK, NEW s, VoidOpen(s)
  PROVE  /\ invoice' \in [Bills -> [status : {"none", "open", "paid", "void"}, tried : BOOLEAN,
                                    made : 0..MaxTime]]
         /\ \A b \in Bills : /\ invoice'[b].made = invoice[b].made
                             /\ invoice'[b].status = "none" <=> invoice[b].status = "none"
<1> DEFINE I == [status : {"none", "open", "paid", "void"}, tried : BOOLEAN, made : 0..MaxTime]
           v(b) == IF b[1] = s /\ invoice[b].status = "open"
                   THEN [invoice[b] EXCEPT !.status = "void"] ELSE invoice[b]
<1>1. invoice' = [b \in Bills |-> v(b)]
  BY DEF VoidOpen
<1>2. ASSUME NEW b \in Bills
      PROVE  /\ v(b) \in I /\ v(b).made = invoice[b].made
             /\ v(b).status = "none" <=> invoice[b].status = "none"
  <2>1. invoice[b] \in I
    BY DEF TypeOK
  <2> QED BY <2>1
<1> HIDE DEF v, I
<1>3. [b \in Bills |-> v(b)] \in [Bills -> I]
  BY <1>2
<1> QED BY <1>1, <1>2, <1>3 DEF I

(***************************************************************************)
(* Types.                                                                  *)
(***************************************************************************)
Stripe == <<live, invoice, events, fresh>>
Invoice == [status : {"none", "open", "paid", "void"}, tried : BOOLEAN, made : 0..MaxTime]

(* An invoice at Stripe changes, and Stripe may tell of it.                *)
LEMMA InvoiceTypes ==
  ASSUME TypeOK, NEW b \in Bills, NEW i \in Invoice, invoice' = [invoice EXCEPT ![b] = i]
  PROVE  /\ invoice' \in [Bills -> Invoice]
         /\ invoice'[b] = i /\ \A c \in Bills : c # b => invoice'[c] = invoice[c]
<1>1. invoice \in [Bills -> Invoice]
  BY DEF TypeOK, Invoice
<1> QED BY <1>1

LEMMA EmittedIs ==
  ASSUME TypeOK, NEW type \in {"paid", "failed", "deleted"}, NEW s \in Subs, NEW k \in 0..MaxInvoices
  PROVE  Emitted(type, s, k) \in EventSet
BY DEF Emitted, EventSet, TypeOK

LEMMA CanceledIs ==
  ASSUME TypeOK, NEW s \in Subs, Canceled(s)
  PROVE  /\ live' \in [Subs -> {"none", "active", "past_due", "canceled"}]
         /\ live'[s] = "canceled" /\ \A x \in Subs : x # s => live'[x] = live[x]
         /\ events' \subseteq EventSet /\ fresh' \subseteq events'
         /\ events' \subseteq events \cup {Emitted("deleted", s, 0)} /\ events \subseteq events'
<1> DEFINE E == IF live[s] = "canceled" THEN {} ELSE {Emitted("deleted", s, 0)}
<1>1. 0 \in 0..MaxInvoices
  BY BillingAssumption
<1>2. E \in SUBSET EventSet
  BY <1>1, EmittedIs
<1>3. Emit(E) /\ E \subseteq {Emitted("deleted", s, 0)}
  BY DEF Canceled
<1> HIDE DEF E
<1>4. events' \subseteq EventSet /\ fresh' \subseteq events'
  BY <1>2, <1>3, EmitIs
<1> QED BY <1>3, <1>4 DEF Canceled, TypeOK, Emit

(* An invoice is paid.                                                     *)
LEMMA PaidIs ==
  ASSUME TypeOK, NEW s \in Subs, NEW k \in Invoices, Paid(s, k)
  PROVE  /\ invoice' \in [Bills -> Invoice]
         /\ \A b \in Bills : /\ invoice'[b].made = invoice[b].made
                             /\ invoice'[b].status = "none" <=> invoice[b].status = "none"
         /\ live' \in [Subs -> {"none", "active", "past_due", "canceled"}]
         /\ \A x \in Subs : live'[x] = live[x] \/ (live[x] = "past_due" /\ live'[x] = "active")
         /\ events' = events \cup {Emitted("paid", s, k)}
         /\ events' \subseteq EventSet /\ fresh' \subseteq events'
         /\ invoice[<<s, k>>].status # "none"
<1> DEFINE b == <<s, k>>
           i == [invoice[b] EXCEPT !.status = "paid"]
<1>1. b \in Bills /\ invoice[b] \in Invoice /\ invoice[b].status = "open"
  BY BillsAre DEF TypeOK, Invoice, Paid
<1>2. i \in Invoice /\ i.made = invoice[b].made /\ i.status = "paid"
  BY <1>1 DEF Invoice
<1>3. invoice' = [invoice EXCEPT ![b] = i]
  BY <1>1 DEF Paid, TypeOK
<1> HIDE DEF i
<1>4. /\ invoice' \in [Bills -> Invoice]
      /\ invoice'[b] = i /\ \A c \in Bills : c # b => invoice'[c] = invoice[c]
  BY <1>1, <1>2, <1>3, InvoiceTypes
<1>5. \A c \in Bills : /\ invoice'[c].made = invoice[c].made
                       /\ invoice'[c].status = "none" <=> invoice[c].status = "none"
  BY <1>1, <1>2, <1>4
<1>6. /\ live' \in [Subs -> {"none", "active", "past_due", "canceled"}]
      /\ \A x \in Subs : live'[x] = live[x] \/ (live[x] = "past_due" /\ live'[x] = "active")
  BY DEF Paid, Recovered, TypeOK
<1>7. k \in 0..MaxInvoices
  BY InvoicesAre
<1>8. {Emitted("paid", s, k)} \in SUBSET EventSet
  BY <1>7, EmittedIs
<1>9. Emit({Emitted("paid", s, k)})
  BY DEF Paid
<1>10. events' \subseteq EventSet /\ fresh' \subseteq events'
  BY <1>8, <1>9, EmitIs
<1> QED BY <1>1, <1>4, <1>5, <1>6, <1>9, <1>10 DEF Emit

LEMMA InitTypes ==
  ASSUME Init PROVE TypeOK
<1>1. 0 \in 0..MaxTime /\ 0 \in 0..MaxActs /\ 0 \in 0..MaxFaults /\ 0 \in 0..MaxInvoices
  BY BillingAssumption
<1>2. PICK s \in {First, None}, sold \in {First, None}, status \in {"Active", "Paused"} :
       /\ sold \in {s, None}
       /\ row = [status |-> status, written |-> 0, lapsed |-> 0, sub |-> sold]
       /\ bill = [sub |-> s, failing |-> None, void |-> FALSE]
       /\ live = [x \in Subs |-> IF x = s THEN "active" ELSE "none"]
       /\ invoice = [b \in Bills |-> IF b = <<s, 1>>
            THEN [status |-> "paid", tried |-> TRUE, made |-> 0] ELSE NoInvoice]
       /\ mirror = [b \in Bills |-> IF b = <<s, 1>> THEN "paid" ELSE "absent"]
       /\ method \in IF sold = None THEN {"charge_automatically", "send_invoice"}
                     ELSE {"charge_automatically"}
  BY DEF Init
<1>3. /\ row \in [status : {"Active", "Paused", "Expired"}, written : 0..MaxTime,
                  lapsed : 0..MaxTime, sub : Subs \cup {None}]
      /\ bill \in [sub : Subs \cup {None}, failing : (0..MaxTime) \cup {None}, void : BOOLEAN]
  BY <1>1, <1>2, BillingAssumption
<1>4. live \in [Subs -> {"none", "active", "past_due", "canceled"}]
  BY <1>2
<1>5. [status |-> "paid", tried |-> TRUE, made |-> 0] \in Invoice /\ NoInvoice \in Invoice
  BY <1>1 DEF NoInvoice, Invoice
<1>6. invoice \in [Bills -> Invoice]
  BY <1>2, <1>5
<1>7. mirror \in [Bills -> {"absent", "open", "failed", "paid"}]
  BY <1>2
<1>8. hook \in [Workers -> [pc : {"idle", "gate", "write"}, event : EventSet \cup {NoEvent}]]
  BY DEF Init, NoHook
<1>9. sweep \in [Sweepers -> [pc : {"idle", "look", "repair", "cancel", "void", "write"},
                              sub : Subs \cup {None}, flagged : BOOLEAN, inv : 0..MaxInvoices]]
  BY <1>1 DEF Init, NoSweep
<1>10. console \in [Staff -> [pc : {"idle", "cancel", "void", "write", "pay", "mirror"},
                              sub : Subs \cup {None}, flagged : BOOLEAN, write : BOOLEAN,
                              inv : 0..MaxInvoices]]
  BY <1>1 DEF Init, NoConsole
<1> QED BY <1>1, <1>2, <1>3, <1>4, <1>6, <1>7, <1>8, <1>9, <1>10 DEF Init, TypeOK, Invoice

LEMMA WriteIs ==
  ASSUME TypeOK, NEW status \in {"Active", "Paused", "Expired"}, Write(status)
  PROVE  /\ row' \in [status : {"Active", "Paused", "Expired"}, written : 0..MaxTime,
                      lapsed : 0..MaxTime, sub : Subs \cup {None}]
         /\ row'.status = status /\ row'.written = now /\ row'.sub = row.sub
         /\ row'.lapsed = IF status = "Expired" /\ row.status # "Expired" THEN now ELSE row.lapsed
BY DEF Write, TypeOK

LEMMA TickTypes == ASSUME TypeOK, Tick PROVE TypeOK'
<1>1. now' \in 0..MaxTime
  BY BillingAssumption DEF Tick, TypeOK
<1> QED BY <1>1 DEF Tick, TypeOK

(* What Stripe does by itself leaves the application alone.                *)
LEMMA StripeStepTypes ==
  ASSUME TypeOK, UNCHANGED App,
         live' \in [Subs -> {"none", "active", "past_due", "canceled"}],
         invoice' \in [Bills -> Invoice], events' \subseteq EventSet, fresh' \subseteq events'
  PROVE  TypeOK'
BY DEF TypeOK, App, Invoice

LEMMA DeclinedIs ==
  ASSUME TypeOK, NEW s \in Subs, NEW k \in Invoices, Declined(s, k)
  PROVE  /\ invoice' \in [Bills -> Invoice]
         /\ \A b \in Bills : /\ invoice'[b].made = invoice[b].made
                             /\ invoice'[b].status = invoice[b].status
         /\ live' \in [Subs -> {"none", "active", "past_due", "canceled"}]
         /\ live'[s] = "past_due" /\ live[s] # "canceled"
         /\ \A x \in Subs : x # s => live'[x] = live[x]
         /\ events' = events \cup {Emitted("failed", s, k)}
         /\ events' \subseteq EventSet /\ fresh' \subseteq events'
         /\ invoice[<<s, k>>].status # "none"
<1> DEFINE b == <<s, k>>
           i == [invoice[b] EXCEPT !.tried = TRUE]
<1>1. b \in Bills /\ invoice[b] \in Invoice /\ invoice[b].status = "open"
  BY BillsAre DEF TypeOK, Invoice, Declined
<1>2. i \in Invoice /\ i.made = invoice[b].made /\ i.status = invoice[b].status
  BY <1>1 DEF Invoice
<1>3. invoice' = [invoice EXCEPT ![b] = i]
  BY <1>1 DEF Declined, TypeOK
<1> HIDE DEF i
<1>4. /\ invoice' \in [Bills -> Invoice]
      /\ invoice'[b] = i /\ \A c \in Bills : c # b => invoice'[c] = invoice[c]
  BY <1>1, <1>2, <1>3, InvoiceTypes
<1>5. \A c \in Bills : /\ invoice'[c].made = invoice[c].made
                       /\ invoice'[c].status = invoice[c].status
  BY <1>1, <1>2, <1>4
<1>6. /\ live' \in [Subs -> {"none", "active", "past_due", "canceled"}]
      /\ live'[s] = "past_due" /\ live[s] # "canceled"
      /\ \A x \in Subs : x # s => live'[x] = live[x]
  BY DEF Declined, TypeOK
<1>7. k \in 0..MaxInvoices
  BY InvoicesAre
<1>8. {Emitted("failed", s, k)} \in SUBSET EventSet
  BY <1>7, EmittedIs
<1>9. Emit({Emitted("failed", s, k)})
  BY DEF Declined
<1>10. events' \subseteq EventSet /\ fresh' \subseteq events'
  BY <1>8, <1>9, EmitIs
<1> QED BY <1>1, <1>4, <1>5, <1>6, <1>9, <1>10 DEF Emit

LEMMA VoidedIs ==
  ASSUME TypeOK, NEW s \in Subs, NEW k \in Invoices, VoidedByHand(s, k)
  PROVE  /\ invoice' \in [Bills -> Invoice]
         /\ \A b \in Bills : /\ invoice'[b].made = invoice[b].made
                             /\ invoice'[b].status = "none" <=> invoice[b].status = "none"
         /\ live' \in [Subs -> {"none", "active", "past_due", "canceled"}]
         /\ \A x \in Subs : live'[x] = live[x] \/ (live[x] = "past_due" /\ live'[x] = "active")
<1> DEFINE b == <<s, k>>
           i == [invoice[b] EXCEPT !.status = "void"]
<1>1. b \in Bills /\ invoice[b] \in Invoice /\ invoice[b].status = "open"
  BY BillsAre DEF TypeOK, Invoice, VoidedByHand
<1>2. i \in Invoice /\ i.made = invoice[b].made /\ i.status = "void"
  BY <1>1 DEF Invoice
<1>3. invoice' = [invoice EXCEPT ![b] = i]
  BY <1>1 DEF VoidedByHand, TypeOK
<1> HIDE DEF i
<1>4. /\ invoice' \in [Bills -> Invoice]
      /\ invoice'[b] = i /\ \A c \in Bills : c # b => invoice'[c] = invoice[c]
  BY <1>1, <1>2, <1>3, InvoiceTypes
<1>5. \A c \in Bills : /\ invoice'[c].made = invoice[c].made
                       /\ invoice'[c].status = "none" <=> invoice[c].status = "none"
  BY <1>1, <1>2, <1>4
<1>6. /\ live' \in [Subs -> {"none", "active", "past_due", "canceled"}]
      /\ \A x \in Subs : live'[x] = live[x] \/ (live[x] = "past_due" /\ live'[x] = "active")
  BY DEF VoidedByHand, Recovered, TypeOK
<1> QED BY <1>4, <1>5, <1>6

LEMMA IssueIs ==
  ASSUME TypeOK, NEW s \in Subs, NEW k \in Invoices, Issue(s, k)
  PROVE  /\ invoice' \in [Bills -> Invoice] /\ invoice[<<s, k>>].status = "none"
         /\ invoice'[<<s, k>>].status = "open"
         /\ \A b \in Bills : b # <<s, k>> => invoice'[b] = invoice[b]
         /\ live[s] # "none"
<1> DEFINE b == <<s, k>>
           i == [status |-> "open", tried |-> FALSE, made |-> now]
<1>1. b \in Bills /\ i \in Invoice /\ i.status = "open"
  BY BillsAre DEF TypeOK, Invoice
<1>2. invoice' = [invoice EXCEPT ![b] = i]
  BY DEF Issue
<1> HIDE DEF i
<1> QED BY <1>1, <1>2, InvoiceTypes DEF Issue

LEMMA BillTypes ==
  ASSUME TypeOK, NEW s \in Subs,
         \/ QuoteStarts(s) \/ CanceledElsewhere(s)
         \/ \E k \in Invoices : Issue(s, k) \/ Pays(s, k) \/ Declined(s, k) \/ VoidedByHand(s, k)
  PROVE  TypeOK'
<1>1. CASE QuoteStarts(s)
  <2>1. live' \in [Subs -> {"none", "active", "past_due", "canceled"}]
    BY <1>1 DEF QuoteStarts, TypeOK
  <2> QED BY <1>1, <2>1, StripeStepTypes DEF QuoteStarts, TypeOK, Invoice
<1>2. CASE CanceledElsewhere(s)
  BY <1>2, CanceledIs, StripeStepTypes DEF CanceledElsewhere, TypeOK, Invoice
<1>3. ASSUME NEW k \in Invoices, Issue(s, k) PROVE TypeOK'
  BY <1>3, IssueIs, StripeStepTypes DEF Issue, TypeOK
<1>4. ASSUME NEW k \in Invoices, Pays(s, k) PROVE TypeOK'
  BY <1>4, PaidIs, StripeStepTypes DEF Pays
<1>5. ASSUME NEW k \in Invoices, Declined(s, k) PROVE TypeOK'
  BY <1>5, DeclinedIs, StripeStepTypes DEF Declined
<1>6. ASSUME NEW k \in Invoices, VoidedByHand(s, k) PROVE TypeOK'
  BY <1>6, VoidedIs, StripeStepTypes DEF VoidedByHand, TypeOK
<1> QED BY <1>1, <1>2, <1>3, <1>4, <1>5, <1>6

(* The placement is sold again, to a subscription that is new.             *)
LEMMA SoldIs ==
  ASSUME TypeOK, NEW s \in Subs, SoldAgain(s)
  PROVE  /\ invoice' \in [Bills -> Invoice] /\ invoice'[<<s, 1>>].status = "paid"
         /\ <<s, 1>> \in Bills /\ \A b \in Bills : b # <<s, 1>> => invoice'[b] = invoice[b]
         /\ live' \in [Subs -> {"none", "active", "past_due", "canceled"}]
         /\ live'[s] = "active" /\ \A x \in Subs : x # s => live'[x] = live[x]
         /\ events' = events \cup {Emitted("paid", s, 1)}
         /\ events' \subseteq EventSet /\ fresh' \subseteq events'
         /\ bill'.sub = s /\ row'.sub = s /\ bill'.failing = None
         /\ TypeOK'
<1> DEFINE b == <<s, 1>>
           i == [status |-> "paid", tried |-> TRUE, made |-> now]
<1>1. 1 \in Invoices /\ b \in Bills /\ i \in Invoice /\ i.status = "paid" /\ 1 \in 0..MaxInvoices
  <2>1. 1 \in Invoices /\ 1 \in 0..MaxInvoices
    BY BillingAssumption DEF Invoices
  <2>2. b \in Bills
    BY <2>1, BillsAre
  <2>3. now \in 0..MaxTime
    BY DEF TypeOK
  <2>4. i \in Invoice /\ i.status = "paid"
    BY <2>3 DEF Invoice
  <2> QED BY <2>1, <2>2, <2>4
<1>2. invoice' = [invoice EXCEPT ![b] = i]
  BY DEF SoldAgain
<1> HIDE DEF i
<1>3. /\ invoice' \in [Bills -> Invoice]
      /\ invoice'[b] = i /\ \A c \in Bills : c # b => invoice'[c] = invoice[c]
  BY <1>1, <1>2, InvoiceTypes
<1>4. /\ live' \in [Subs -> {"none", "active", "past_due", "canceled"}]
      /\ live'[s] = "active" /\ \A x \in Subs : x # s => live'[x] = live[x]
  BY DEF SoldAgain, TypeOK
<1>5. {Emitted("paid", s, 1)} \in SUBSET EventSet
  BY <1>1, EmittedIs
<1>6. Emit({Emitted("paid", s, 1)})
  BY DEF SoldAgain
<1>7. events' \subseteq EventSet /\ fresh' \subseteq events'
  BY <1>5, <1>6, EmitIs
<1>8. /\ bill' \in [sub : Subs \cup {None}, failing : (0..MaxTime) \cup {None}, void : BOOLEAN]
      /\ row' \in [status : {"Active", "Paused", "Expired"}, written : 0..MaxTime,
                   lapsed : 0..MaxTime, sub : Subs \cup {None}]
      /\ bill'.sub = s /\ row'.sub = s /\ bill'.failing = None
  BY DEF SoldAgain, TypeOK
<1>9. TypeOK'
  BY <1>3, <1>4, <1>7, <1>8 DEF SoldAgain, TypeOK, Invoice
<1> QED BY <1>1, <1>3, <1>4, <1>6, <1>7, <1>8, <1>9 DEF Emit

(***************************************************************************)
(* Types: the application's own steps.                                     *)
(***************************************************************************)
BillRow == [sub : Subs \cup {None}, failing : (0..MaxTime) \cup {None}, void : BOOLEAN]
Mirror == [Bills -> {"absent", "open", "failed", "paid"}]

LEMMA ResendTypes == ASSUME TypeOK, NEW e \in events, Resend(e) PROVE TypeOK'
<1>1. faults' \in 0..MaxFaults
  BY BillingAssumption DEF Resend, Fault, TypeOK
<1> QED BY <1>1 DEF Resend, TypeOK

(* What an event that arrives leaves in the mirror and the billing row.    *)
LEMMA MirrorIs ==
  ASSUME TypeOK, NEW w \in Workers, NEW e \in fresh, DeliverMirror(w, e),
         e.type # "deleted" => <<e.sub, e.inv>> \in Bills
  PROVE  LET b == <<e.sub, e.inv>>
             new == IF Resolves(e.sub) /\ bill.sub = None THEN e.sub ELSE bill.sub
         IN  /\ e \in EventSet /\ e.sub \in Subs
             /\ mirror' \in Mirror /\ bill' \in BillRow /\ bill'.sub = new
             /\ \A c \in Bills : mirror'[c] = mirror[c] \/ (c = b /\ e.type # "deleted"
                  /\ mirror'[c] = IF e.type = "paid" THEN "paid" ELSE "failed")
             /\ bill'.failing = IF e.type # "deleted" /\ new = e.sub
                                THEN FailingSince(e.sub, mirror', e.type = "paid") ELSE bill.failing
<1> DEFINE st == IF e.type = "paid" THEN "paid" ELSE "failed"
           known == IF e.type = "deleted" THEN mirror ELSE Upsert(e.sub, e.inv, st)
           new == IF Resolves(e.sub) /\ bill.sub = None THEN e.sub ELSE bill.sub
           at == IF e.type # "deleted" /\ new = e.sub
                 THEN FailingSince(e.sub, known, e.type = "paid") ELSE bill.failing
           vd == bill.void \/ (e.type = "deleted" /\ Resolves(e.sub))
<1>1. e \in EventSet /\ e.sub \in Subs /\ e.type \in {"paid", "failed", "deleted"}
  BY DEF TypeOK, EventSet
<1>2. known \in Mirror /\ \A c \in Bills : known[c] = mirror[c] \/
          (c = <<e.sub, e.inv>> /\ e.type # "deleted" /\ known[c] = st)
  <2>1. CASE e.type = "deleted"
    BY <2>1 DEF TypeOK, Mirror
  <2>2. CASE e.type # "deleted"
    <3>1. e.inv \in Invoices
      BY <2>2, BillsAre
    <3> QED BY <1>1, <2>2, <3>1, UpsertIs DEF Mirror
  <2> QED BY <2>1, <2>2
<1>3. mirror' = known /\ bill' = [sub |-> new, failing |-> at, void |-> vd]
  BY DEF DeliverMirror
<1> HIDE DEF known
<1>4. FailingSince(e.sub, known, e.type = "paid") \in (0..MaxTime) \cup {None}
  BY <1>1, FailingSinceIs
<1>5. new \in Subs \cup {None} /\ at \in (0..MaxTime) \cup {None} /\ vd \in BOOLEAN
  BY <1>1, <1>4 DEF TypeOK
<1>6. bill' \in BillRow /\ bill'.sub = new /\ bill'.failing = at
  <2> HIDE DEF new, at, vd
  <2> QED BY <1>3, <1>5 DEF BillRow
<1> QED BY <1>1, <1>2, <1>3, <1>6

LEMMA MirrorTypes ==
  ASSUME TypeOK, NEW w \in Workers, NEW e \in fresh, DeliverMirror(w, e),
         e.type # "deleted" => <<e.sub, e.inv>> \in Bills
  PROVE  TypeOK'
<1>1. mirror' \in Mirror /\ bill' \in BillRow /\ e \in EventSet
  BY MirrorIs
<1>2. hook' \in [Workers -> [pc : {"idle", "gate", "write"}, event : EventSet \cup {NoEvent}]]
      /\ fresh' \subseteq events
  BY SMTT(30), <1>1 DEF DeliverMirror, TypeOK
<1> QED BY <1>1, <1>2 DEF DeliverMirror, TypeOK, Mirror, BillRow

LEMMA EndsTypes ==
  ASSUME TypeOK, NEW w \in Workers, Ends(w)
  PROVE  /\ hook' \in [Workers -> [pc : {"idle", "gate", "write"}, event : EventSet \cup {NoEvent}]]
         /\ fresh' \subseteq events
<1>1. NoHook \in [pc : {"idle", "gate", "write"}, event : EventSet \cup {NoEvent}]
  BY DEF NoHook
<1> QED BY <1>1 DEF Ends, TypeOK

LEMMA HookTypes ==
  ASSUME TypeOK, NEW w \in Workers, HookStep(w) \/ DeliverCrash(w) PROVE TypeOK'
<1>1. CASE DeliverPasses(w)
  BY <1>1 DEF DeliverPasses, TypeOK
<1>2. CASE DeliverSkips(w) \/ DeliverSlotConflict(w)
  <2>1. Ends(w)
    BY <1>2 DEF DeliverSkips, DeliverSlotConflict
  <2> QED BY <1>2, <2>1, EndsTypes DEF DeliverSkips, DeliverSlotConflict, TypeOK
<1>3. CASE DeliverWrites(w)
  <2>1. Wanted(hook[w].event) \in {"Active", "Paused", "Expired"} /\ Ends(w)
    BY <1>3 DEF Wanted, DeliverWrites
  <2>2. row' \in [status : {"Active", "Paused", "Expired"}, written : 0..MaxTime,
                  lapsed : 0..MaxTime, sub : Subs \cup {None}]
    BY <1>3, <2>1, WriteIs DEF DeliverWrites
  <2> QED BY <1>3, <2>1, <2>2, EndsTypes DEF DeliverWrites, TypeOK
<1>4. CASE DeliverCrash(w)
  <2>1. faults' \in 0..MaxFaults
    BY <1>4, BillingAssumption DEF DeliverCrash, Fault, TypeOK
  <2>2. NoHook \in [pc : {"idle", "gate", "write"}, event : EventSet \cup {NoEvent}]
    BY DEF NoHook
  <2> QED BY <1>4, <2>1, <2>2 DEF DeliverCrash, TypeOK
<1> QED BY <1>1, <1>2, <1>3, <1>4 DEF HookStep

SweepRow == [pc : {"idle", "look", "repair", "cancel", "void", "write"},
             sub : Subs \cup {None}, flagged : BOOLEAN, inv : 0..MaxInvoices]

(* The latest invoice is mirrored again, the clock derived again.          *)
LEMMA RecoveredIs ==
  ASSUME TypeOK, SweepOK, NEW p \in Sweepers, SweepRecovered(p)
  PROVE  LET s == sweep[p].sub IN
         /\ mirror' \in Mirror /\ bill' \in BillRow /\ bill'.sub = bill.sub
         /\ \A b \in Bills : mirror'[b] = mirror[b] \/ (b[1] = s /\ invoice[b].status # "none")
         /\ bill'.failing = IF bill.sub = s THEN FailingSince(s, mirror', FALSE) ELSE bill.failing
<1> DEFINE s == sweep[p].sub
           k == sweep[p].inv
           known == IF k = 0 THEN mirror ELSE Upsert(s, k, InvoiceStatus(s, k))
           at == IF bill.sub = s THEN FailingSince(s, known, FALSE) ELSE bill.failing
<1>1. s \in Subs /\ (k # 0 => k \in Invoices /\ invoice[<<s, k>>].status # "none")
  BY DEF SweepRecovered, SweepOK
<1>2. mirror' = known
  BY DEF SweepRecovered
<1>3. bill' = IF bill.sub = s THEN [bill EXCEPT !.failing = FailingSince(s, known, FALSE)] ELSE bill
  BY DEF SweepRecovered
<1>4. /\ known \in Mirror
      /\ \A b \in Bills : known[b] = mirror[b] \/ (b[1] = s /\ invoice[b].status # "none")
  <2>1. CASE k = 0
    BY <2>1 DEF TypeOK, Mirror
  <2>2. CASE k # 0
    <3>1. InvoiceStatus(s, k) \in {"open", "failed", "paid"}
      BY DEF InvoiceStatus
    <3>2. /\ known \in Mirror
          /\ \A b \in Bills : known[b] = mirror[b] \/ b = <<s, k>>
      BY <1>1, <2>2, <3>1, UpsertIs DEF Mirror
    <3> QED BY <1>1, <2>2, <3>2
  <2> QED BY <2>1, <2>2
<1> HIDE DEF known
<1>5. FailingSince(s, known, FALSE) \in (0..MaxTime) \cup {None}
  BY <1>1, <1>4, FailingSinceIs
<1>6. bill' \in BillRow /\ bill'.sub = bill.sub /\ bill'.failing = at
  <2>1. bill \in BillRow
    BY DEF TypeOK, BillRow
  <2> QED BY <1>3, <1>5, <2>1 DEF BillRow
<1> QED BY <1>2, <1>4, <1>6

LEMMA SweepTypes ==
  ASSUME TypeOK, SweepOK, NEW p \in Sweepers, SweepStep(p) \/ SweepAbort(p)
  PROVE  TypeOK'
<1>0. /\ NoSweep \in SweepRow /\ sweep \in [Sweepers -> SweepRow]
      /\ sweep[p].pc # "idle" => sweep[p].sub \in Subs
  <2>1. 0 \in 0..MaxInvoices
    BY BillingAssumption
  <2> QED BY <2>1 DEF NoSweep, TypeOK, SweepRow, SweepOK
<1>1. CASE SweepRead(p)
  <2>1. sweep' \in [Sweepers -> SweepRow]
    BY <1>0, <1>1 DEF SweepRead, NoSweep, TypeOK, SweepRow
  <2> QED BY <1>1, <2>1 DEF SweepRead, TypeOK, SweepRow, Quiet
<1>2. CASE SweepDoomed(p) \/ SweepSpared(p)
  <2>1. sweep' \in [Sweepers -> SweepRow]
    BY <1>0, <1>2 DEF SweepDoomed, SweepSpared, SweepRow
  <2> QED BY <1>2, <2>1 DEF SweepDoomed, SweepSpared, TypeOK, SweepRow, Quiet
<1>3. CASE SweepRecovered(p)
  <2>1. mirror' \in Mirror /\ bill' \in BillRow
    BY <1>3, RecoveredIs DEF SweepRecovered
  <2>2. sweep' \in [Sweepers -> SweepRow]
    BY <1>0, <1>3 DEF SweepRecovered
  <2> QED BY <1>3, <2>1, <2>2 DEF SweepRecovered, TypeOK, SweepRow, Mirror, BillRow
<1>4. CASE SweepGone(p)
  <2>1. invoice' \in [Bills -> Invoice]
    BY <1>4, VoidOpenIs DEF SweepGone, Invoice
  <2>2. sweep' \in [Sweepers -> SweepRow]
    BY <1>0, <1>4 DEF SweepGone
  <2> QED BY <1>4, <2>1, <2>2 DEF SweepGone, TypeOK, SweepRow, Quiet, Invoice
<1>5. CASE SweepCancel(p)
  <2>1. /\ live' \in [Subs -> {"none", "active", "past_due", "canceled"}]
        /\ events' \subseteq EventSet /\ fresh' \subseteq events'
    BY <1>0, <1>5, CanceledIs DEF SweepCancel
  <2>2. sweep' \in [Sweepers -> SweepRow]
    BY <1>0, <1>5 DEF SweepCancel, SweepRow
  <2> QED BY <1>5, <2>1, <2>2 DEF SweepCancel, TypeOK, SweepRow, Quiet
<1>6. CASE SweepVoid(p)
  <2>1. invoice' \in [Bills -> Invoice]
    BY <1>6, VoidOpenIs DEF SweepVoid, Invoice
  <2>2. sweep' \in [Sweepers -> SweepRow]
    BY <1>0, <1>6 DEF SweepVoid, SweepRow
  <2> QED BY <1>6, <2>1, <2>2 DEF SweepVoid, TypeOK, SweepRow, Quiet, Invoice
<1>7. CASE SweepWrite(p)
  <2>1. row' \in [status : {"Active", "Paused", "Expired"}, written : 0..MaxTime,
                  lapsed : 0..MaxTime, sub : Subs \cup {None}]
    BY <1>7, WriteIs DEF SweepWrite
  <2>2. sweep' \in [Sweepers -> SweepRow]
    BY <1>0, <1>7 DEF SweepWrite
  <2>3. bill' \in BillRow
    BY <1>0, <1>7 DEF SweepWrite, TypeOK, SweepRow, BillRow
  <2> QED BY <1>7, <2>1, <2>2, <2>3 DEF SweepWrite, TypeOK, SweepRow, BillRow
<1>8. CASE SweepAbort(p)
  <2>1. faults' \in 0..MaxFaults
    BY <1>8, BillingAssumption DEF SweepAbort, Fault, TypeOK
  <2>2. sweep' \in [Sweepers -> SweepRow]
    BY <1>0, <1>8 DEF SweepAbort
  <2> QED BY <1>8, <2>1, <2>2 DEF SweepAbort, TypeOK, SweepRow, Quiet
<1>9. CASE SweepLive(p)
  <2>1. Latest(sweep[p].sub) \subseteq 0..MaxInvoices /\ 0 \in 0..MaxInvoices
    <3>1. Latest(sweep[p].sub) \subseteq Invoices
      BY DEF Latest
    <3>2. 0 \in 0..MaxInvoices
      BY BillingAssumption
    <3> QED BY <3>1, <3>2, InvoicesAre
  <2>2. PICK k \in 0..MaxInvoices : sweep' = [sweep EXCEPT ![p].pc = "repair", ![p].inv = k]
    BY <1>9, <2>1 DEF SweepLive
  <2>3. sweep' \in [Sweepers -> SweepRow]
    BY <1>0, <2>2 DEF SweepRow
  <2> QED BY <1>9, <2>3 DEF SweepLive, TypeOK, SweepRow, Quiet
<1> QED BY <1>1, <1>2, <1>3, <1>4, <1>5, <1>6, <1>7, <1>8, <1>9 DEF SweepStep

LEMMA VoidTypes ==
  ASSUME TypeOK, NEW p \in Voiders, VoidStep(p) \/ VoidAbort(p) PROVE TypeOK'
<1> DEFINE R == [pc : {"idle", "void", "write"}, sub : Subs \cup {None}]
<1>0. void \in [Voiders -> R] /\ [pc |-> "idle", sub |-> None] \in R
  BY DEF TypeOK
<1>1. CASE VoidRead(p)
  <2>1. [pc |-> "void", sub |-> bill.sub] \in R
    BY DEF TypeOK
  <2> HIDE DEF R
  <2>2. void' \in [Voiders -> R]
    BY <1>0, <1>1, <2>1 DEF VoidRead
  <2> USE DEF R
  <2> QED BY <1>1, <2>2 DEF VoidRead, TypeOK
<1>2. CASE VoidCall(p)
  <2>1. invoice' \in [Bills -> Invoice]
    BY <1>2, VoidOpenIs DEF VoidCall, Invoice
  <2>2. void' \in [Voiders -> R]
    BY <1>0, <1>2 DEF VoidCall
  <2> QED BY <1>2, <2>1, <2>2 DEF VoidCall, TypeOK, Invoice
<1>3. CASE VoidDone(p)
  <2>1. bill' \in BillRow
    BY <1>3 DEF VoidDone, TypeOK, BillRow
  <2>2. void' \in [Voiders -> R]
    BY <1>0, <1>3 DEF VoidDone
  <2> QED BY <1>3, <2>1, <2>2 DEF VoidDone, TypeOK, BillRow
<1>4. CASE VoidAbort(p)
  <2>1. faults' \in 0..MaxFaults
    BY <1>4, BillingAssumption DEF VoidAbort, Fault, TypeOK
  <2>2. void' \in [Voiders -> R]
    BY <1>0, <1>4 DEF VoidAbort
  <2> QED BY <1>4, <2>1, <2>2 DEF VoidAbort, TypeOK
<1> QED BY <1>1, <1>2, <1>3, <1>4 DEF VoidStep

ConsoleRow == [pc : {"idle", "cancel", "void", "write", "pay", "mirror"}, sub : Subs \cup {None},
               flagged : BOOLEAN, write : BOOLEAN, inv : 0..MaxInvoices]

LEMMA BeginIs ==
  ASSUME TypeOK, NEW p \in Staff, NEW op \in {"cancel", "pay"}, ConsoleBegin(p, op)
  PROVE  \E s \in Subs :
           /\ IF Stored # None THEN s = Stored /\ bill'.sub = bill.sub
              ELSE bill'.sub = s /\ s \in Stamped /\ live[s] # "none"
           /\ console'[p].pc = op /\ console'[p].sub = s
           /\ console' \in [Staff -> ConsoleRow] /\ \A q \in Staff : q # p => console'[q] = console[q]
           /\ bill' \in BillRow /\ bill'.failing = bill.failing /\ bill'.void = bill.void
<1>1. PICK s \in Subs :
       /\ IF Stored # None THEN s = Stored
          ELSE {s} = {x \in Stamped : live[x] \in {"active", "past_due"}}
       /\ bill' = [bill EXCEPT !.sub = IF Stored # None THEN bill.sub ELSE s]
       /\ console' = [console EXCEPT ![p] = [NoConsole EXCEPT !.pc = op, !.sub = s,
                         !.write = Stored = None \/ row.status # "Expired"]]
  BY DEF ConsoleBegin
<1> DEFINE wr == Stored = None \/ row.status # "Expired"
           c == [NoConsole EXCEPT !.pc = op, !.sub = s, !.write = wr]
<1>2. wr \in BOOLEAN /\ 0 \in 0..MaxInvoices
  BY BillingAssumption
<1> HIDE DEF wr
<1>3. c \in ConsoleRow /\ c.pc = op /\ c.sub = s
  BY <1>2 DEF NoConsole, ConsoleRow
<1>4. console' = [console EXCEPT ![p] = c] /\ console \in [Staff -> ConsoleRow]
  BY <1>1 DEF wr, TypeOK, ConsoleRow
<1> HIDE DEF c
<1>5. /\ bill' \in BillRow /\ bill'.failing = bill.failing /\ bill'.void = bill.void
      /\ bill'.sub = IF Stored # None THEN bill.sub ELSE s
  BY <1>1 DEF TypeOK, BillRow
<1>6. Stored = None => s \in Stamped /\ live[s] # "none"
  BY <1>1
<1> QED BY <1>1, <1>3, <1>4, <1>5, <1>6

LEMMA ConsoleTypes ==
  ASSUME TypeOK, NEW p \in Staff,
         console[p].pc # "idle" => console[p].sub \in Subs,
         console[p].pc = "mirror" => console[p].inv \in Invoices,
         (\E op \in {"cancel", "pay"} : ConsoleBegin(p, op)) \/ ConsoleStep(p) \/ ConsoleAbort(p)
  PROVE  TypeOK'
<1>0. NoConsole \in ConsoleRow /\ console \in [Staff -> ConsoleRow]
  BY BillingAssumption DEF NoConsole, TypeOK, ConsoleRow
<1>1. ASSUME NEW op \in {"cancel", "pay"}, ConsoleBegin(p, op) PROVE TypeOK'
  <2>1. bill' \in BillRow /\ console' \in [Staff -> ConsoleRow]
    BY <1>1, BeginIs
  <2>2. acts' \in 0..MaxActs
    <3>1. acts < MaxActs /\ acts' = acts + 1 /\ acts \in 0..MaxActs
      BY <1>1 DEF ConsoleBegin, TypeOK
    <3> QED BY <3>1, BillingAssumption
  <2> QED BY <1>1, <2>1, <2>2 DEF ConsoleBegin, TypeOK, BillRow, ConsoleRow, Desk
<1>2. CASE ConsoleCancel(p)
  <2>1. /\ live' \in [Subs -> {"none", "active", "past_due", "canceled"}]
        /\ events' \subseteq EventSet /\ fresh' \subseteq events'
    BY <1>2, CanceledIs DEF ConsoleCancel
  <2>2. console' \in [Staff -> ConsoleRow]
    BY <1>0, <1>2 DEF ConsoleCancel, ConsoleRow
  <2> QED BY <1>2, <2>1, <2>2 DEF ConsoleCancel, TypeOK, ConsoleRow, Desk
<1>3. CASE ConsoleVoid(p)
  <2>1. invoice' \in [Bills -> Invoice]
    BY <1>3, VoidOpenIs DEF ConsoleVoid, Invoice
  <2>2. console' \in [Staff -> ConsoleRow]
    BY <1>0, <1>3 DEF ConsoleVoid, ConsoleRow
  <2> QED BY <1>3, <2>1, <2>2 DEF ConsoleVoid, TypeOK, ConsoleRow, Desk, Invoice
<1>4. CASE ConsoleWrite(p)
  <2>1. row' \in [status : {"Active", "Paused", "Expired"}, written : 0..MaxTime,
                  lapsed : 0..MaxTime, sub : Subs \cup {None}]
    BY <1>4, WriteIs DEF ConsoleWrite, TypeOK
  <2>2. console' \in [Staff -> ConsoleRow]
    BY <1>0, <1>4 DEF ConsoleWrite
  <2>3. bill' \in BillRow
    BY <1>4 DEF ConsoleWrite, TypeOK, BillRow
  <2> QED BY <1>4, <2>1, <2>2, <2>3 DEF ConsoleWrite, TypeOK, ConsoleRow, BillRow, Desk
<1>5. CASE ConsolePay(p) /\ Open(console[p].sub) = {}
  <2>1. console' \in [Staff -> ConsoleRow]
    BY <1>0, <1>5 DEF ConsolePay
  <2> QED BY <1>5, <2>1 DEF ConsolePay, TypeOK, ConsoleRow, Desk
<1>6. CASE ConsolePay(p) /\ Open(console[p].sub) # {}
  <2> DEFINE s == console[p].sub
             k == Min(Open(s))
  <2>1. s \in Subs /\ Open(s) \in SUBSET Nat /\ Open(s) # {} /\ Open(s) \subseteq Invoices
    BY <1>6, InvoicesAre DEF ConsolePay, Open
  <2>2. k \in Invoices /\ k \in 0..MaxInvoices
    BY <2>1, MinIs, InvoicesAre
  <2>3. Paid(s, k) /\ console' = [console EXCEPT ![p].pc = "mirror", ![p].inv = k]
    BY <1>6 DEF ConsolePay
  <2> HIDE DEF k
  <2>4. /\ invoice' \in [Bills -> Invoice] /\ events' \subseteq EventSet /\ fresh' \subseteq events'
        /\ live' \in [Subs -> {"none", "active", "past_due", "canceled"}]
    BY <2>1, <2>2, <2>3, PaidIs
  <2>5. console' \in [Staff -> ConsoleRow]
    BY <1>0, <2>2, <2>3 DEF ConsoleRow
  <2> QED BY <1>6, <2>4, <2>5 DEF ConsolePay, TypeOK, ConsoleRow, Desk, Invoice
<1>7. CASE ConsoleMirror(p)
  <2>1. mirror' \in Mirror
    BY <1>7, UpsertIs DEF ConsoleMirror, Mirror
  <2>2. console' \in [Staff -> ConsoleRow]
    BY <1>0, <1>7 DEF ConsoleMirror
  <2> QED BY <1>7, <2>1, <2>2 DEF ConsoleMirror, TypeOK, ConsoleRow, Desk, Mirror
<1>8. CASE ConsoleAbort(p)
  <2>1. faults' \in 0..MaxFaults
    BY <1>8, BillingAssumption DEF ConsoleAbort, Fault, TypeOK
  <2>2. console' \in [Staff -> ConsoleRow]
    BY <1>0, <1>8 DEF ConsoleAbort
  <2> QED BY <1>8, <2>1, <2>2 DEF ConsoleAbort, TypeOK, ConsoleRow, Desk
<1> QED BY <1>1, <1>2, <1>3, <1>4, <1>5, <1>6, <1>7, <1>8 DEF ConsoleStep

LEMMA AdminTypes ==
  ASSUME TypeOK, NEW a \in Admins,
         (\E to \in {"touch", "Active", "Paused", "Expired"} : AdminBegin(a, to)) \/ AdminCommit(a)
  PROVE  TypeOK'
<1>1. ASSUME NEW to \in {"touch", "Active", "Paused", "Expired"}, AdminBegin(a, to) PROVE TypeOK'
  <2>1. acts' \in 0..MaxActs
    BY <1>1, BillingAssumption DEF AdminBegin, TypeOK
  <2> QED BY <1>1, <2>1 DEF AdminBegin, TypeOK
<1>2. CASE AdminCommit(a)
  <2>1. (IF admin[a] = "touch" THEN row.status ELSE admin[a]) \in {"Active", "Paused", "Expired"}
    BY <1>2 DEF AdminCommit, TypeOK
  <2>2. row' \in [status : {"Active", "Paused", "Expired"}, written : 0..MaxTime,
                  lapsed : 0..MaxTime, sub : Subs \cup {None}]
    BY <1>2, <2>1, WriteIs DEF AdminCommit
  <2> QED BY <1>2, <2>2 DEF AdminCommit, TypeOK
<1> QED BY <1>1, <1>2

(***************************************************************************)
(* What never goes back.                                                   *)
(***************************************************************************)
Inv == BillInv /\ FailureKeepsClock

(* A subscription that exists stays one, a canceled one stays canceled, an *)
(* invoice that was issued keeps its date, an event stays to be told.      *)
Grows ==
  /\ \A s \in Subs : /\ live[s] # "none" => live'[s] # "none"
                     /\ live[s] = "canceled" => live'[s] = "canceled"
  /\ \A b \in Bills : invoice[b].status # "none" =>
       invoice'[b].status # "none" /\ invoice'[b].made = invoice[b].made
  /\ events \subseteq events'

LEMMA SameGrows == ASSUME UNCHANGED <<live, invoice, events>> PROVE Grows
BY DEF Grows

LEMMA HookFrame ==
  ASSUME HookOK, UNCHANGED hook, events \subseteq events', bill'.sub = bill.sub PROVE HookOK'
BY DEF HookOK

LEMMA SweepFrame ==
  ASSUME TypeOK, SweepOK, Grows, UNCHANGED sweep, bill.sub # None => bill'.sub # None PROVE SweepOK'
BY BillsAre DEF SweepOK, Grows

LEMMA ConsoleFrame ==
  ASSUME TypeOK, ConsoleOK, Grows, UNCHANGED console PROVE ConsoleOK'
BY BillsAre DEF ConsoleOK, Grows

LEMMA LinkFrame ==
  ASSUME TypeOK, LinkOK, Grows, row'.sub = row.sub, bill'.sub = bill.sub,
         \A s \in Subs \ Stamped : live[s] = "none" => live'[s] = "none"
  PROVE  LinkOK'
BY DEF LinkOK, Grows, TypeOK

(* The mirror may lose failures, the clock runs on.                        *)
LEMMA ClockFrame ==
  ASSUME TypeOK, IssuedOK, FailureKeepsClock, Grows, bill'.sub = bill.sub,
         bill'.failing = bill.failing,
         \A b \in Bills : b[1] = bill.sub /\ mirror'[b] = "failed" => mirror[b] = "failed"
  PROVE  FailureKeepsClock'
<1>1. ASSUME NEW b \in Bills, b[1] = bill.sub, mirror'[b] = "failed"
      PROVE  bill.failing # None /\ bill.failing <= invoice[b].made /\ invoice'[b].made = invoice[b].made
  <2>1. mirror[b] = "failed" /\ invoice[b].status # "none"
    BY <1>1 DEF IssuedOK
  <2> QED BY <1>1, <2>1 DEF FailureKeepsClock, Grows
<1> QED BY <1>1 DEF FailureKeepsClock

(* The clock is derived again from the mirror.                             *)
LEMMA ClockDerived ==
  ASSUME TypeOK, NEW s \in Subs, NEW paid, bill'.sub = s,
         bill'.failing = FailingSince(s, mirror', paid), UNCHANGED invoice
  PROVE  FailureKeepsClock'
<1> DEFINE F == {k \in Invoices : mirror'[<<s, k>>] = "failed"}
<1>1. F # {} => bill'.failing \in 0..MaxTime
  BY FailingSinceIs
<1>2. \A k \in F : bill'.failing <= invoice[<<s, k>>].made
  BY FailingSinceIs
<1>3. ASSUME NEW b \in Bills, b[1] = s, mirror'[b] = "failed"
      PROVE  bill'.failing # None /\ bill'.failing <= invoice'[b].made
  <2>1. b = <<s, b[2]>> /\ b[2] \in F
    BY <1>3, BillsAre
  <2> QED BY <1>1, <1>2, <2>1, BillingAssumption
<1> QED BY <1>3 DEF FailureKeepsClock

(* Only the sale starts a subscription no rep stamped, only a subscription *)
(* that exists bills, and only what happened is told.                      *)
Honest ==
  /\ \A s \in Subs \ Stamped : live[s] = "none" => live'[s] = "none"
  /\ \A b \in Bills : live'[b[1]] = "none" => invoice'[b].status = "none"
  /\ \A e \in events' \ events :
       IF e.type = "deleted" THEN live'[e.sub] = "canceled"
       ELSE <<e.sub, e.inv>> \in Bills /\ invoice'[<<e.sub, e.inv>>].status # "none"

LEMMA SameHonest ==
  ASSUME IssuedOK, UNCHANGED <<live, invoice, events>> PROVE Honest
BY DEF Honest, IssuedOK

LEMMA IssuedFrame ==
  ASSUME TypeOK, IssuedOK, Grows, Honest,
         \A b \in Bills : mirror'[b] = mirror[b] \/ invoice[b].status # "none",
         bill'.sub = None =>
           bill.sub = None /\ \A b \in Bills : mirror'[b] = "failed" => mirror[b] = "failed"
  PROVE  IssuedOK'
<1>1. \A b \in Bills : live'[b[1]] = "none" => invoice'[b].status = "none"
  BY DEF Honest
<1>2. \A b \in Bills : mirror'[b] # "absent" => invoice'[b].status # "none"
  BY DEF IssuedOK, Grows
<1>3. ASSUME NEW e \in events', e.type # "deleted"
      PROVE  <<e.sub, e.inv>> \in Bills /\ invoice'[<<e.sub, e.inv>>].status # "none"
  <2>1. CASE e \in events
    BY <1>3, <2>1 DEF IssuedOK, Grows
  <2>2. CASE e \notin events
    BY <1>3, <2>2 DEF Honest
  <2> QED BY <2>1, <2>2
<1>4. ASSUME NEW e \in events', e.type = "deleted" PROVE live'[e.sub] = "canceled"
  <2>1. CASE e \in events
    BY <1>4, <2>1 DEF IssuedOK, Grows, TypeOK, EventSet
  <2>2. CASE e \notin events
    BY <1>4, <2>2 DEF Honest
  <2> QED BY <2>1, <2>2
<1>5. bill'.sub = None => \A b \in Bills : mirror'[b] # "failed"
  BY DEF IssuedOK
<1> QED BY <1>1, <1>2, <1>3, <1>4, <1>5 DEF IssuedOK

(* A step that neither links the row nor touches mirror and clock.         *)
LEMMA StepKeeps ==
  ASSUME Inv, TypeOK', Grows, Honest, row'.sub = row.sub, bill'.sub = bill.sub,
         bill'.failing = bill.failing, UNCHANGED mirror, HookOK', SweepOK', ConsoleOK'
  PROVE  Inv'
<1>1. LinkOK'
  BY LinkFrame DEF Inv, BillInv, Honest
<1>2. IssuedOK'
  BY IssuedFrame DEF Inv, BillInv, IssuedOK
<1>3. FailureKeepsClock'
  BY ClockFrame DEF Inv, BillInv
<1> QED BY <1>1, <1>2, <1>3 DEF Inv, BillInv

(* Nobody of the application moves.                                        *)
LEMMA StripeKeeps ==
  ASSUME Inv, TypeOK', Grows, Honest, UNCHANGED <<row, bill, mirror, hook, sweep, console>>
  PROVE  Inv'
<1>1. HookOK' /\ SweepOK' /\ ConsoleOK'
  BY HookFrame, SweepFrame, ConsoleFrame DEF Inv, BillInv, Grows
<1> QED BY <1>1, StepKeeps

(***************************************************************************)
(* Every action keeps them.                                                *)
(***************************************************************************)
LEMMA InitKeeps == ASSUME Init PROVE Inv
<1>1. TypeOK
  BY InitTypes
<1>2. PICK s \in {First, None}, sold \in {First, None}, status \in {"Active", "Paused"} :
       /\ sold \in {s, None}
       /\ row = [status |-> status, written |-> 0, lapsed |-> 0, sub |-> sold]
       /\ bill = [sub |-> s, failing |-> None, void |-> FALSE]
       /\ live = [x \in Subs |-> IF x = s THEN "active" ELSE "none"]
       /\ invoice = [b \in Bills |-> IF b = <<s, 1>>
            THEN [status |-> "paid", tried |-> TRUE, made |-> 0] ELSE NoInvoice]
       /\ mirror = [b \in Bills |-> IF b = <<s, 1>> THEN "paid" ELSE "absent"]
  BY DEF Init
<1>3. LinkOK
  BY <1>2, BillingAssumption DEF LinkOK
<1>4. IssuedOK
  <2>1. \A b \in Bills : mirror[b] # "failed"
    BY <1>2
  <2>2. \A b \in Bills : /\ live[b[1]] = "none" => invoice[b].status = "none"
                         /\ mirror[b] # "absent" => invoice[b].status # "none"
    BY <1>2, BillsAre DEF NoInvoice
  <2> QED BY <2>1, <2>2 DEF IssuedOK, Init
<1>5. HookOK /\ SweepOK /\ ConsoleOK
  BY DEF Init, HookOK, SweepOK, ConsoleOK, NoHook, NoSweep, NoConsole
<1>6. FailureKeepsClock
  BY <1>2 DEF FailureKeepsClock
<1> QED BY <1>1, <1>3, <1>4, <1>5, <1>6 DEF Inv, BillInv

LEMMA TickKeeps == ASSUME Inv, Tick PROVE Inv'
<1>1. TypeOK' /\ Grows /\ Honest
  BY TickTypes, SameGrows, SameHonest DEF Inv, BillInv, Tick
<1> QED BY <1>1, StripeKeeps DEF Tick

(* Stripe: a stamped subscription starts, one is billed, pays, fails or    *)
(* ends.                                                                   *)
LEMMA BillKeeps ==
  ASSUME Inv, NEW s \in Subs,
         \/ QuoteStarts(s) \/ CanceledElsewhere(s)
         \/ \E k \in Invoices : Issue(s, k) \/ Pays(s, k) \/ Declined(s, k) \/ VoidedByHand(s, k)
  PROVE  Inv'
<1>1. TypeOK /\ TypeOK' /\ IssuedOK
  BY BillTypes DEF Inv, BillInv
<1>2. CASE QuoteStarts(s)
  <2>1. Grows
    BY <1>1, <1>2 DEF Grows, QuoteStarts, TypeOK
  <2>2. Honest
    BY <1>1, <1>2, BillsAre DEF Honest, QuoteStarts, IssuedOK, TypeOK
  <2> QED BY <1>1, <1>2, <2>1, <2>2, StripeKeeps DEF QuoteStarts, App
<1>3. CASE CanceledElsewhere(s)
  <2>1. Canceled(s) /\ live[s] # "none" /\ UNCHANGED invoice
    BY <1>3 DEF CanceledElsewhere
  <2>2. Grows
    BY <1>1, <2>1, CanceledIs DEF Grows
  <2>3. Honest
    BY <1>1, <2>1, CanceledIs, BillsAre DEF Honest, IssuedOK, Emitted
  <2> QED BY <1>1, <1>3, <2>2, <2>3, StripeKeeps DEF CanceledElsewhere, App
<1>4. ASSUME NEW k \in Invoices, Issue(s, k) PROVE Inv'
  <2>1. <<s, k>> \in Bills /\ UNCHANGED <<live, events>>
    BY <1>4, BillsAre DEF Issue
  <2>2. Grows
    BY <1>1, <1>4, <2>1, IssueIs DEF Grows
  <2>3. Honest
    BY <1>1, <1>4, <2>1, IssueIs DEF Honest, IssuedOK
  <2> QED BY <1>1, <1>4, <2>2, <2>3, StripeKeeps DEF Issue, App
<1>5. ASSUME NEW k \in Invoices, Pays(s, k) PROVE Inv'
  <2>1. Paid(s, k) /\ <<s, k>> \in Bills
    BY <1>5, BillsAre DEF Pays
  <2>2. Grows
    BY <1>1, <2>1, PaidIs DEF Grows
  <2>3. Honest
    BY <1>1, <2>1, PaidIs, BillsAre DEF Honest, IssuedOK, Emitted
  <2> QED BY <1>1, <1>5, <2>2, <2>3, StripeKeeps DEF Pays, App
<1>6. ASSUME NEW k \in Invoices, Declined(s, k) PROVE Inv'
  <2>1. <<s, k>> \in Bills
    BY BillsAre
  <2>2. Grows
    BY <1>1, <1>6, DeclinedIs DEF Grows
  <2>3. Honest
    <3>1. live[s] # "none"
      BY <1>1, <1>6, <2>1, DeclinedIs DEF IssuedOK
    <3>2. \A x \in Subs : live[x] = "none" <=> live'[x] = "none"
      BY <1>1, <1>6, <3>1, DeclinedIs
    <3>3. \A b \in Bills : invoice'[b].status = invoice[b].status
      BY <1>1, <1>6, DeclinedIs
    <3>4. events' = events \cup {Emitted("failed", s, k)} /\ invoice[<<s, k>>].status # "none"
      BY <1>1, <1>6, DeclinedIs
    <3> QED BY <1>1, <2>1, <3>2, <3>3, <3>4, BillsAre DEF Honest, IssuedOK, Emitted
  <2> QED BY <1>1, <1>6, <2>2, <2>3, StripeKeeps DEF Declined, App
<1>7. ASSUME NEW k \in Invoices, VoidedByHand(s, k) PROVE Inv'
  <2>1. UNCHANGED events
    BY <1>7 DEF VoidedByHand
  <2>2. Grows
    BY <1>1, <1>7, <2>1, VoidedIs DEF Grows
  <2>3. Honest
    BY <1>1, <1>7, <2>1, VoidedIs, BillsAre DEF Honest, IssuedOK
  <2> QED BY <1>1, <1>7, <2>2, <2>3, StripeKeeps DEF VoidedByHand, App
<1> QED BY <1>2, <1>3, <1>4, <1>5, <1>6, <1>7

(* The subscription an event is checked against is the linked one.         *)
LEMMA StoredIs == ASSUME LinkOK PROVE Stored = bill.sub
BY DEF LinkOK, Stored

(* Nothing is delivered past its mirror before a subscription is linked.   *)
LEMMA NoHookYet ==
  ASSUME TypeOK, HookOK, bill.sub = None PROVE \A w \in Workers : hook[w].pc = "idle"
BY BillingAssumption DEF TypeOK, HookOK, EventSet

(* Nobody pays with, nobody is told of a subscription that is new.         *)
LEMMA SoldKeeps == ASSUME Inv, NEW s \in Subs, SoldAgain(s) PROVE Inv'
<1>1. TypeOK /\ IssuedOK /\ live[s] = "none"
  BY DEF Inv, BillInv, SoldAgain
<1>2. TypeOK'
  BY <1>1, SoldIs
<1>3. /\ <<s, 1>> \in Bills /\ invoice'[<<s, 1>>].status = "paid"
      /\ \A b \in Bills : b # <<s, 1>> => invoice'[b] = invoice[b]
  BY <1>1, SoldIs
<1>4. live'[s] = "active" /\ \A x \in Subs : x # s => live'[x] = live[x]
  BY <1>1, SoldIs
<1>5. events' = events \cup {Emitted("paid", s, 1)}
  BY <1>1, SoldIs
<1>6. \A b \in Bills : b[1] = s => invoice[b].status = "none"
  BY <1>1 DEF IssuedOK
<1>7. Grows
  BY <1>1, <1>3, <1>4, <1>5, <1>6 DEF Grows
<1>8. bill'.sub = s /\ row'.sub = s /\ live'[s] = "active" /\ s # None
  BY <1>1, <1>4, SoldIs, BillingAssumption
<1>9. LinkOK'
  BY <1>8 DEF LinkOK
<1>10. IssuedOK'
  <2>1. \A b \in Bills : live'[b[1]] = "none" => invoice'[b].status = "none"
    BY <1>1, <1>3, <1>4, BillsAre DEF IssuedOK
  <2>2. \A b \in Bills : mirror'[b] # "absent" => invoice'[b].status # "none"
    BY <1>1, <1>7 DEF IssuedOK, Grows, SoldAgain
  <2>3. \A e \in events' : e.type # "deleted" =>
          <<e.sub, e.inv>> \in Bills /\ invoice'[<<e.sub, e.inv>>].status # "none"
    BY <1>1, <1>7, <1>3, <1>5 DEF IssuedOK, Grows, Emitted
  <2>4. \A e \in events' : e.type = "deleted" => e \in events
    BY <1>5 DEF Emitted
  <2>5. \A e \in events' : e.type = "deleted" => live'[e.sub] = "canceled"
    BY <1>1, <1>7, <2>4 DEF IssuedOK, Grows, TypeOK, EventSet
  <2> QED BY <1>8, <2>1, <2>2, <2>3, <2>5 DEF IssuedOK
<1>11. HookOK'
  BY DEF HookOK, SoldAgain
<1>12. SweepOK' /\ ConsoleOK'
  BY <1>1, <1>7, <1>8, SweepFrame, ConsoleFrame DEF Inv, BillInv, SoldAgain
<1>13. FailureKeepsClock'
  <2>1. \A b \in Bills : b[1] = s => mirror[b] = "absent"
    BY <1>1 DEF IssuedOK
  <2>2. \A b \in Bills : b[1] = bill'.sub => mirror'[b] = "absent"
    BY <1>8, <2>1 DEF SoldAgain
  <2> QED BY <2>2 DEF FailureKeepsClock
<1> QED BY <1>2, <1>9, <1>10, <1>11, <1>12, <1>13 DEF Inv, BillInv

LEMMA ResendKeeps == ASSUME Inv, NEW e \in events, Resend(e) PROVE Inv'
<1>1. TypeOK' /\ Grows /\ Honest
  BY ResendTypes, SameGrows, SameHonest DEF Inv, BillInv, Resend
<1> QED BY <1>1, StripeKeeps DEF Resend

(* An event that resolves is about the subscription that is linked then;   *)
(* one that does not can be no failure of a placement not linked yet.      *)
LEMMA ResolvedIs ==
  ASSUME Inv, NEW e \in events
  PROVE  /\ e.sub \in Subs /\ e.sub # None /\ live[e.sub] # "none"
         /\ Resolves(e.sub) => e.sub = bill.sub \/ bill.sub = None
         /\ bill.sub = None => Resolves(e.sub)
<1>1. e.sub \in Subs /\ e.sub # None
  BY BillingAssumption DEF Inv, BillInv, TypeOK, EventSet
<1>2. live[e.sub] # "none"
  BY DEF Inv, BillInv, IssuedOK
<1>3. Stored = bill.sub /\ row.sub \in {None, bill.sub}
  BY StoredIs DEF Inv, BillInv, LinkOK
<1>4. bill.sub = None => e.sub \in Stamped
  BY <1>1, <1>2 DEF Inv, BillInv, LinkOK
<1> QED BY <1>1, <1>2, <1>3, <1>4 DEF Resolves

LEMMA MirrorKeeps ==
  ASSUME Inv, NEW w \in Workers, NEW e \in fresh, DeliverMirror(w, e) PROVE Inv'
<1> DEFINE b == <<e.sub, e.inv>>
           new == IF Resolves(e.sub) /\ bill.sub = None THEN e.sub ELSE bill.sub
<1>1. TypeOK /\ LinkOK /\ IssuedOK /\ HookOK /\ e \in events
  BY DEF Inv, BillInv, TypeOK
<1>2. e.type # "deleted" => b \in Bills /\ invoice[b].status # "none"
  BY <1>1 DEF IssuedOK
<1>3. TypeOK'
  BY <1>1, <1>2, MirrorTypes
<1>4. /\ e.sub \in Subs /\ bill'.sub = new
      /\ \A c \in Bills : mirror'[c] = mirror[c] \/ (c = b /\ e.type # "deleted"
                  /\ mirror'[c] = IF e.type = "paid" THEN "paid" ELSE "failed")
      /\ bill'.failing = IF e.type # "deleted" /\ new = e.sub
                         THEN FailingSince(e.sub, mirror', e.type = "paid") ELSE bill.failing
  BY <1>1, <1>2, MirrorIs
<1>5. /\ e.sub # None /\ live[e.sub] # "none"
      /\ Resolves(e.sub) => e.sub = bill.sub \/ bill.sub = None
      /\ bill.sub = None => Resolves(e.sub)
  BY <1>1, ResolvedIs
<1>6. bill.sub = None => new = e.sub
  BY <1>5
<1>7. bill.sub # None => new = bill.sub
  OBVIOUS
<1>8. UNCHANGED <<row, live, invoice, events, sweep, console>>
  BY DEF DeliverMirror
<1> HIDE DEF new
<1>9. Grows /\ Honest
  BY <1>1, <1>8, SameGrows, SameHonest
<1>10. new # None
  BY <1>5, <1>6, <1>7
<1>11. LinkOK'
  BY <1>1, <1>4, <1>5, <1>6, <1>7, <1>8, <1>10 DEF LinkOK
<1>12. IssuedOK'
  BY <1>1, <1>2, <1>4, <1>9, <1>10, IssuedFrame
<1>13. SweepOK' /\ ConsoleOK'
  BY <1>1, <1>4, <1>8, <1>9, <1>10, SweepFrame, ConsoleFrame DEF Inv, BillInv
<1>14. HookOK'
  <2>1. ASSUME NEW v \in Workers, hook'[v].pc # "idle"
        PROVE  hook'[v].event \in events /\ hook'[v].event.sub = new /\ hook'[v].event.type # "failed"
    <3>1. CASE hook'[v] = hook[v]
      <4>1. bill.sub # None
        BY <1>1, <2>1, <3>1, NoHookYet
      <4> QED BY <1>1, <1>7, <2>1, <3>1, <4>1 DEF HookOK
    <3>2. CASE hook'[v] # hook[v]
      <4>1. v = w /\ e.type # "failed" /\ Resolves(e.sub) /\ hook'[v].event = e
        BY <1>1, <3>2 DEF DeliverMirror, TypeOK
      <4> QED BY <1>1, <1>5, <1>6, <1>7, <4>1
    <3> QED BY <3>1, <3>2
  <2> QED BY <1>4, <1>8, <2>1 DEF HookOK
<1>15. FailureKeepsClock'
  <2>1. CASE e.type # "deleted" /\ new = e.sub
    BY <1>1, <1>4, <1>8, <2>1, ClockDerived
  <2>2. CASE bill.sub # None /\ ~(e.type # "deleted" /\ new = e.sub)
    <3>1. \A c \in Bills : c[1] = bill.sub /\ mirror'[c] = "failed" => mirror[c] = "failed"
      BY <1>4, <1>7, <2>2
    <3> QED BY <1>1, <1>4, <1>7, <1>9, <2>2, <3>1, ClockFrame DEF Inv
  <2>3. CASE bill.sub = None /\ e.type = "deleted"
    <3>1. \A c \in Bills : mirror'[c] # "failed"
      BY <1>1, <1>4, <2>3 DEF IssuedOK
    <3> QED BY <3>1 DEF FailureKeepsClock
  <2> QED BY <1>6, <2>1, <2>2, <2>3
<1> QED BY <1>3, <1>11, <1>12, <1>13, <1>14, <1>15 DEF Inv, BillInv

(* A delivery that goes on, ends or dies.                                  *)
LEMMA HookKeeps ==
  ASSUME Inv, NEW w \in Workers, HookStep(w) \/ DeliverCrash(w) PROVE Inv'
<1>1. TypeOK /\ IssuedOK /\ HookOK /\ TypeOK'
  BY HookTypes DEF Inv, BillInv
<1>2. UNCHANGED <<bill, mirror, live, invoice, events, sweep, console>>
  BY DEF HookStep, DeliverPasses, DeliverSkips, DeliverWrites, DeliverSlotConflict, DeliverCrash
<1>3. row'.sub = row.sub
  <2>1. CASE DeliverWrites(w)
    BY <1>1, <2>1 DEF DeliverWrites, Write, TypeOK
  <2>2. CASE ~DeliverWrites(w)
    BY <2>2 DEF HookStep, DeliverPasses, DeliverSkips, DeliverSlotConflict, DeliverCrash
  <2> QED BY <2>1, <2>2
<1>4. Grows /\ Honest
  BY <1>1, <1>2, SameGrows, SameHonest
<1>5. hook' = [hook EXCEPT ![w] = NoHook] \/ (hook[w].pc = "gate" /\ hook' = [hook EXCEPT ![w].pc = "write"])
  BY DEF HookStep, DeliverPasses, DeliverSkips, DeliverWrites, DeliverSlotConflict, DeliverCrash, Ends
<1>6. \A v \in Workers : hook'[v].pc # "idle" => hook[v].pc # "idle" /\ hook'[v].event = hook[v].event
  BY <1>1, <1>5 DEF TypeOK, NoHook
<1>7. HookOK'
  BY <1>1, <1>2, <1>6 DEF HookOK
<1>8. SweepOK' /\ ConsoleOK'
  BY <1>1, <1>2, <1>4, SweepFrame, ConsoleFrame DEF Inv, BillInv
<1> QED BY <1>1, <1>2, <1>3, <1>4, <1>7, <1>8, StepKeeps

(* One sweep, or one member of staff, moves.                               *)
LEMMA SweepMoves ==
  ASSUME TypeOK, SweepOK, Grows, NEW p \in Sweepers, NEW r, sweep' = [sweep EXCEPT ![p] = r],
         bill.sub # None => bill'.sub # None,
         r.pc # "idle" => r.sub \in Subs /\ live'[r.sub] # "none" /\ bill'.sub # None,
         r.pc \in {"void", "write"} => live'[r.sub] = "canceled",
         r.pc = "repair" /\ r.inv # 0 =>
           r.inv \in Invoices /\ invoice'[<<r.sub, r.inv>>].status # "none"
  PROVE  SweepOK'
<1>1. sweep'[p] = r /\ \A q \in Sweepers : q # p => sweep'[q] = sweep[q]
  BY DEF TypeOK
<1> QED BY <1>1, BillsAre DEF SweepOK, Grows

LEMMA ConsoleMoves ==
  ASSUME TypeOK, ConsoleOK, Grows, NEW p \in Staff, NEW r,
         console'[p] = r, \A q \in Staff : q # p => console'[q] = console[q],
         r.pc # "idle" => r.sub \in Subs /\ live'[r.sub] # "none",
         r.pc \in {"void", "write"} => live'[r.sub] = "canceled",
         r.pc = "mirror" => r.inv \in Invoices /\ invoice'[<<r.sub, r.inv>>].status # "none"
  PROVE  ConsoleOK'
BY BillsAre DEF ConsoleOK, Grows

(* Open invoices are voided at Stripe.                                     *)
LEMMA VoidOpenKeeps ==
  ASSUME TypeOK, IssuedOK, NEW s, VoidOpen(s), UNCHANGED <<live, events>>
  PROVE  Grows /\ Honest
<1>1. \A b \in Bills : /\ invoice'[b].made = invoice[b].made
                       /\ invoice'[b].status = "none" <=> invoice[b].status = "none"
  BY VoidOpenIs
<1> QED BY <1>1 DEF Grows, Honest, IssuedOK

(* A subscription is canceled.                                             *)
LEMMA CanceledKeeps ==
  ASSUME TypeOK, LinkOK, IssuedOK, NEW s \in Subs, live[s] # "none", Canceled(s), UNCHANGED invoice
  PROVE  Grows /\ Honest
<1>1. Grows
  BY CanceledIs DEF Grows
<1>2. Honest
  BY CanceledIs, BillsAre DEF Honest, IssuedOK, Emitted
<1> QED BY <1>1, <1>2

LEMMA SweepKeeps ==
  ASSUME Inv, NEW p \in Sweepers, SweepStep(p) \/ SweepAbort(p) PROVE Inv'
<1> DEFINE s == sweep[p].sub
<1>1. TypeOK /\ LinkOK /\ IssuedOK /\ HookOK /\ SweepOK /\ ConsoleOK /\ FailureKeepsClock
  BY DEF Inv, BillInv
<1>2. /\ sweep[p].pc # "idle" => s \in Subs /\ live[s] # "none" /\ bill.sub # None
      /\ sweep[p].pc \in {"void", "write"} => live[s] = "canceled"
  BY <1>1 DEF SweepOK
<1>3. TypeOK'
  BY <1>1, <1>2, SweepTypes
<1>4. sweep \in [Sweepers -> SweepRow]
  BY <1>1 DEF TypeOK, SweepRow
<1>5. ASSUME Grows, Honest, UNCHANGED <<hook, console, mirror>>, row'.sub = row.sub, bill'.sub = bill.sub,
             bill'.failing = bill.failing, SweepOK'
      PROVE  Inv'
  <2>1. HookOK' /\ ConsoleOK'
    BY <1>1, <1>5, HookFrame, ConsoleFrame DEF Grows
  <2> QED BY <1>3, <1>5, <2>1, StepKeeps
<1>6. CASE SweepRead(p)
  <2>1. UNCHANGED <<row, bill, mirror, live, invoice, events, hook, console>> /\ bill.sub # None
    BY <1>6 DEF SweepRead, Quiet
  <2>2. Grows /\ Honest
    BY <1>1, <2>1, SameGrows, SameHonest
  <2>3. bill.sub \in Subs /\ live[bill.sub] # "none"
    BY <1>1, <2>1 DEF LinkOK, TypeOK
  <2>4. SweepOK'
    <3> DEFINE r == [NoSweep EXCEPT !.pc = "look", !.sub = bill.sub, !.flagged = bill.void]
    <3>1. r.pc = "look" /\ r.sub = bill.sub
      BY DEF NoSweep
    <3>2. sweep' = [sweep EXCEPT ![p] = r]
      BY <1>6 DEF SweepRead
    <3> HIDE DEF r
    <3> QED BY <1>1, <2>1, <2>2, <2>3, <3>1, <3>2, SweepMoves
  <2> QED BY <1>5, <2>1, <2>2, <2>4
<1>7. CASE SweepDoomed(p) \/ SweepSpared(p) \/ SweepAbort(p)
  <2>1. UNCHANGED <<row, bill, mirror, live, invoice, events, hook, console>> /\ sweep[p].pc # "idle"
    BY <1>7 DEF SweepDoomed, SweepSpared, SweepAbort, Quiet
  <2>2. Grows /\ Honest
    BY <1>1, <2>1, SameGrows, SameHonest
  <2>3. sweep' = [sweep EXCEPT ![p] = [sweep[p] EXCEPT !.pc = "cancel"]]
        \/ sweep' = [sweep EXCEPT ![p] = NoSweep]
    BY <1>7 DEF SweepDoomed, SweepSpared, SweepAbort
  <2>4. [sweep[p] EXCEPT !.pc = "cancel"].sub = s /\ [sweep[p] EXCEPT !.pc = "cancel"].pc = "cancel"
    BY <1>4 DEF SweepRow
  <2>5. SweepOK'
    BY <1>1, <1>2, <2>1, <2>2, <2>3, <2>4, SweepMoves DEF NoSweep
  <2> QED BY <1>5, <2>1, <2>2, <2>5
<1>8. CASE SweepRecovered(p)
  <2>1. UNCHANGED <<row, live, invoice, events, hook, console>> /\ sweep[p].pc # "idle"
    BY <1>8 DEF SweepRecovered
  <2>2. /\ bill'.sub = bill.sub
        /\ \A b \in Bills : mirror'[b] = mirror[b] \/ (b[1] = s /\ invoice[b].status # "none")
        /\ bill'.failing = IF bill.sub = s THEN FailingSince(s, mirror', FALSE) ELSE bill.failing
    BY <1>1, <1>2, <1>8, <2>1, RecoveredIs
  <2>3. Grows /\ Honest
    BY <1>1, <2>1, SameGrows, SameHonest
  <2>4. SweepOK'
    <3>1. sweep' = [sweep EXCEPT ![p] = NoSweep]
      BY <1>8 DEF SweepRecovered
    <3> QED BY <1>1, <2>2, <2>3, <3>1, SweepMoves DEF NoSweep
  <2>5. HookOK' /\ ConsoleOK'
    BY <1>1, <2>1, <2>2, <2>3, HookFrame, ConsoleFrame
  <2>6. LinkOK'
    BY <1>1, <2>1, <2>2, <2>3, LinkFrame DEF Honest
  <2>7. FailureKeepsClock'
    <3>1. CASE bill.sub = s
      BY <1>1, <1>2, <2>1, <2>2, <3>1, ClockDerived
    <3>2. CASE bill.sub # s
      <4>1. \A b \in Bills : b[1] = bill.sub /\ mirror'[b] = "failed" => mirror[b] = "failed"
        BY <2>2, <3>2
      <4> QED BY <1>1, <2>2, <2>3, <3>2, <4>1, ClockFrame
    <3> QED BY <3>1, <3>2
  <2>8. IssuedOK'
    BY <1>1, <1>2, <2>1, <2>2, <2>3, IssuedFrame
  <2> QED BY <1>3, <2>4, <2>5, <2>6, <2>7, <2>8 DEF Inv, BillInv
<1>9. CASE SweepGone(p) \/ SweepVoid(p)
  <2>1. UNCHANGED <<row, bill, mirror, live, events, hook, console>> /\ sweep[p].pc # "idle" /\ VoidOpen(s)
    BY <1>9 DEF SweepGone, SweepVoid, Quiet
  <2>2. Grows /\ Honest
    BY <1>1, <2>1, VoidOpenKeeps
  <2>3. sweep' = [sweep EXCEPT ![p] = NoSweep] \/
        (sweep[p].pc = "void" /\ sweep' = [sweep EXCEPT ![p] = [sweep[p] EXCEPT !.pc = "write"]])
    BY <1>9 DEF SweepGone, SweepVoid
  <2>4. [sweep[p] EXCEPT !.pc = "write"].sub = s /\ [sweep[p] EXCEPT !.pc = "write"].pc = "write"
    BY <1>4 DEF SweepRow
  <2>5. SweepOK'
    BY <1>1, <1>2, <2>1, <2>2, <2>3, <2>4, SweepMoves DEF NoSweep
  <2> QED BY <1>5, <2>1, <2>2, <2>5
<1>10. CASE SweepCancel(p)
  <2>1. UNCHANGED <<row, bill, mirror, invoice, hook, console>> /\ sweep[p].pc # "idle" /\ Canceled(s)
    BY <1>10 DEF SweepCancel, Quiet
  <2>2. Grows /\ Honest /\ live'[s] = "canceled"
    BY <1>1, <1>2, <2>1, CanceledKeeps, CanceledIs
  <2>3. sweep' = [sweep EXCEPT ![p] = [sweep[p] EXCEPT !.pc = "void"]]
    BY <1>10 DEF SweepCancel
  <2>4. [sweep[p] EXCEPT !.pc = "void"].sub = s /\ [sweep[p] EXCEPT !.pc = "void"].pc = "void"
    BY <1>4 DEF SweepRow
  <2>5. SweepOK'
    BY <1>1, <1>2, <2>1, <2>2, <2>3, <2>4, SweepMoves
  <2> QED BY <1>5, <2>1, <2>2, <2>5
<1>11. CASE SweepWrite(p)
  <2>1. UNCHANGED <<mirror, live, invoice, events, hook, console>> /\ row'.sub = row.sub
        /\ bill'.sub = bill.sub /\ bill'.failing = bill.failing
    BY <1>1, <1>11 DEF SweepWrite, Write, TypeOK
  <2>2. Grows /\ Honest
    BY <1>1, <2>1, SameGrows, SameHonest
  <2>3. sweep' = [sweep EXCEPT ![p] = NoSweep]
    BY <1>11 DEF SweepWrite
  <2>4. SweepOK'
    BY <1>1, <2>1, <2>2, <2>3, SweepMoves DEF NoSweep
  <2> QED BY <1>5, <2>1, <2>2, <2>4
<1>12. CASE SweepLive(p)
  <2>1. UNCHANGED <<row, bill, mirror, live, invoice, events, hook, console>> /\ sweep[p].pc # "idle"
    BY <1>12 DEF SweepLive, Quiet
  <2>2. Grows /\ Honest
    BY <1>1, <2>1, SameGrows, SameHonest
  <2>3. PICK k : /\ sweep' = [sweep EXCEPT ![p].pc = "repair", ![p].inv = k]
                 /\ k # 0 => k \in Latest(s)
    BY <1>12 DEF SweepLive
  <2>4. k # 0 => k \in Invoices /\ invoice[<<s, k>>].status # "none"
    BY <2>3 DEF Latest
  <2>5. SweepOK'
    <3> DEFINE r == [[sweep[p] EXCEPT !.pc = "repair"] EXCEPT !.inv = k]
    <3>1. r.pc = "repair" /\ r.sub = s /\ r.inv = k
      BY <1>4 DEF SweepRow
    <3>2. sweep' = [sweep EXCEPT ![p] = r]
      BY <1>4, <2>3 DEF SweepRow
    <3> HIDE DEF r
    <3> QED BY <1>1, <1>2, <2>1, <2>2, <2>4, <3>1, <3>2, SweepMoves
  <2> QED BY <1>5, <2>1, <2>2, <2>5
<1> QED BY <1>6, <1>7, <1>8, <1>9, <1>10, <1>11, <1>12 DEF SweepStep

LEMMA VoidKeeps ==
  ASSUME Inv, NEW p \in Voiders, VoidStep(p) \/ VoidAbort(p) PROVE Inv'
<1>1. TypeOK /\ IssuedOK /\ HookOK /\ SweepOK /\ ConsoleOK /\ TypeOK'
  BY VoidTypes DEF Inv, BillInv
<1>2. /\ UNCHANGED <<row, mirror, live, events, hook, sweep, console>>
      /\ bill'.sub = bill.sub /\ bill'.failing = bill.failing
  BY <1>1 DEF VoidStep, VoidAbort, VoidRead, VoidCall, VoidDone, TypeOK
<1>3. Grows /\ Honest
  <2>1. CASE VoidCall(p)
    BY <1>1, <1>2, <2>1, VoidOpenKeeps DEF VoidCall
  <2>2. CASE ~VoidCall(p)
    <3>1. UNCHANGED invoice
      BY <2>2 DEF VoidStep, VoidAbort, VoidRead, VoidDone
    <3> QED BY <1>1, <1>2, <3>1, SameGrows, SameHonest
  <2> QED BY <2>1, <2>2
<1>4. HookOK' /\ SweepOK' /\ ConsoleOK'
  BY <1>1, <1>2, <1>3, HookFrame, SweepFrame, ConsoleFrame
<1> QED BY <1>1, <1>2, <1>3, <1>4, StepKeeps

LEMMA AdminKeeps ==
  ASSUME Inv, NEW a \in Admins,
         (\E to \in {"touch", "Active", "Paused", "Expired"} : AdminBegin(a, to)) \/ AdminCommit(a)
  PROVE  Inv'
<1>1. TypeOK /\ IssuedOK /\ TypeOK'
  BY AdminTypes DEF Inv, BillInv
<1>2. UNCHANGED <<bill, mirror, live, invoice, events, hook, sweep, console>>
  BY DEF AdminBegin, AdminCommit
<1>3. row'.sub = row.sub
  <2>1. CASE AdminCommit(a)
    BY <1>1, <2>1 DEF AdminCommit, Write, TypeOK
  <2>2. CASE ~AdminCommit(a)
    BY <2>2 DEF AdminBegin
  <2> QED BY <2>1, <2>2
<1>4. Grows /\ Honest
  BY <1>1, <1>2, SameGrows, SameHonest
<1>5. HookOK' /\ SweepOK' /\ ConsoleOK'
  BY <1>2, <1>4, HookFrame, SweepFrame, ConsoleFrame DEF Inv, BillInv
<1> QED BY <1>1, <1>2, <1>3, <1>4, <1>5, StepKeeps

(* A cancel or a retry begins: it may link the one stamped subscription.   *)
LEMMA BeginKeeps ==
  ASSUME Inv, NEW p \in Staff, NEW op \in {"cancel", "pay"}, ConsoleBegin(p, op), TypeOK' PROVE Inv'
<1>1. TypeOK /\ LinkOK /\ IssuedOK /\ HookOK /\ SweepOK /\ ConsoleOK /\ FailureKeepsClock
  BY DEF Inv, BillInv
<1>2. PICK s \in Subs :
           /\ IF Stored # None THEN s = Stored /\ bill'.sub = bill.sub
              ELSE bill'.sub = s /\ s \in Stamped /\ live[s] # "none"
           /\ console'[p].pc = op /\ console'[p].sub = s
           /\ \A q \in Staff : q # p => console'[q] = console[q]
           /\ bill'.failing = bill.failing
  BY <1>1, BeginIs
<1>3. UNCHANGED <<row, mirror, live, invoice, events, hook, sweep>>
  BY DEF ConsoleBegin, Desk
<1>4. Stored = bill.sub /\ s # None
  BY <1>1, StoredIs, BillingAssumption
<1>5. bill'.sub = s /\ live[s] # "none" /\ bill.sub \in {None, s} /\ row.sub \in {None, bill.sub}
  BY <1>1, <1>2, <1>4 DEF LinkOK
<1>6. Grows /\ Honest
  BY <1>1, <1>3, SameGrows, SameHonest
<1>7. LinkOK'
  BY <1>3, <1>4, <1>5 DEF LinkOK
<1>8. IssuedOK'
  BY <1>1, <1>3, <1>4, <1>5, <1>6, IssuedFrame
<1>9. HookOK'
  <2>1. CASE bill.sub = None
    BY <1>1, <1>3, <2>1, NoHookYet DEF HookOK
  <2>2. CASE bill.sub # None
    BY <1>1, <1>3, <1>5, <2>2 DEF HookOK
  <2> QED BY <2>1, <2>2
<1>10. SweepOK'
  BY <1>1, <1>3, <1>4, <1>5, <1>6, SweepFrame
<1>11. ConsoleOK'
  BY <1>1, <1>2, <1>3, <1>5, <1>6, ConsoleMoves
<1>12. FailureKeepsClock'
  <2>1. CASE bill.sub = None
    <3>1. \A b \in Bills : mirror'[b] # "failed"
      BY <1>1, <1>3, <2>1 DEF IssuedOK
    <3> QED BY <3>1 DEF FailureKeepsClock
  <2>2. CASE bill.sub # None
    BY <1>1, <1>2, <1>3, <1>5, <1>6, <2>2, ClockFrame
  <2> QED BY <2>1, <2>2
<1> QED BY <1>7, <1>8, <1>9, <1>10, <1>11, <1>12 DEF Inv, BillInv

LEMMA ConsoleKeeps ==
  ASSUME Inv, NEW p \in Staff,
         (\E op \in {"cancel", "pay"} : ConsoleBegin(p, op)) \/ ConsoleStep(p) \/ ConsoleAbort(p)
  PROVE  Inv'
<1> DEFINE s == console[p].sub
<1>1. TypeOK /\ LinkOK /\ IssuedOK /\ HookOK /\ SweepOK /\ ConsoleOK /\ FailureKeepsClock
  BY DEF Inv, BillInv
<1>2. /\ console[p].pc # "idle" => s \in Subs /\ live[s] # "none"
      /\ console[p].pc \in {"void", "write"} => live[s] = "canceled"
      /\ console[p].pc = "mirror" => console[p].inv \in Invoices
           /\ invoice[<<s, console[p].inv>>].status # "none"
  BY <1>1 DEF ConsoleOK
<1>3. TypeOK'
  BY <1>1, <1>2, ConsoleTypes
<1>4. console \in [Staff -> ConsoleRow]
  BY <1>1 DEF TypeOK, ConsoleRow
<1>5. ASSUME Grows, Honest, UNCHANGED <<row, mirror, hook, sweep>>, bill'.sub = bill.sub,
             bill'.failing = bill.failing, ConsoleOK'
      PROVE  Inv'
  <2>1. HookOK' /\ SweepOK'
    BY <1>1, <1>5, HookFrame, SweepFrame DEF Grows
  <2> QED BY <1>3, <1>5, <2>1, StepKeeps
<1>6. ASSUME NEW r, console' = [console EXCEPT ![p] = r]
      PROVE  console'[p] = r /\ \A q \in Staff : q # p => console'[q] = console[q]
  BY <1>4, <1>6
<1>7. NoConsole.pc = "idle"
  BY DEF NoConsole
<1>8. CASE ConsoleCancel(p)
  <2>1. UNCHANGED <<row, bill, mirror, invoice, hook, sweep>> /\ console[p].pc # "idle" /\ Canceled(s)
    BY <1>8 DEF ConsoleCancel, Desk
  <2>2. Grows /\ Honest /\ live'[s] = "canceled"
    BY <1>1, <1>2, <2>1, CanceledKeeps, CanceledIs
  <2> DEFINE r == [console[p] EXCEPT !.pc = "void"]
  <2>3. console' = [console EXCEPT ![p] = r]
    BY <1>8 DEF ConsoleCancel
  <2>4. r.sub = s /\ r.pc = "void"
    BY <1>4 DEF ConsoleRow
  <2> HIDE DEF r
  <2>5. ConsoleOK'
    BY <1>1, <1>2, <1>6, <2>1, <2>2, <2>3, <2>4, ConsoleMoves
  <2> QED BY <1>5, <2>1, <2>2, <2>5
<1>9. CASE ConsoleVoid(p)
  <2>1. UNCHANGED <<row, bill, mirror, live, events, hook, sweep>> /\ console[p].pc = "void" /\ VoidOpen(s)
    BY <1>9 DEF ConsoleVoid, Desk
  <2>2. Grows /\ Honest
    BY <1>1, <2>1, VoidOpenKeeps
  <2> DEFINE r == [console[p] EXCEPT !.pc = "write"]
  <2>3. console' = [console EXCEPT ![p] = r]
    BY <1>9 DEF ConsoleVoid
  <2>4. r.sub = s /\ r.pc = "write" /\ live'[s] = "canceled" /\ s \in Subs
    BY <1>2, <1>4, <2>1 DEF ConsoleRow
  <2> HIDE DEF r
  <2>5. ConsoleOK'
    <3>1. console'[p] = r /\ \A q \in Staff : q # p => console'[q] = console[q]
      BY <1>6, <2>3
    <3>2. /\ r.sub \in Subs /\ live'[r.sub] # "none" /\ live'[r.sub] = "canceled"
          /\ r.pc # "mirror"
      BY <2>4
    <3> QED BY <1>1, <2>2, <3>1, <3>2, ConsoleMoves
  <2> QED BY <1>5, <2>1, <2>2, <2>5
<1>10. CASE ConsoleWrite(p) \/ ConsoleAbort(p) \/ (ConsolePay(p) /\ Open(s) = {})
  <2>1. UNCHANGED <<mirror, live, invoice, events, hook, sweep>> /\ row'.sub = row.sub
        /\ bill'.sub = bill.sub /\ bill'.failing = bill.failing
    BY ZenonT(40), <1>1, <1>10 DEF ConsoleWrite, ConsoleAbort, ConsolePay, Write, Desk, TypeOK
  <2>2. Grows /\ Honest
    BY <1>1, <2>1, SameGrows, SameHonest
  <2>3. console' = [console EXCEPT ![p] = NoConsole]
    BY <1>10 DEF ConsoleWrite, ConsoleAbort, ConsolePay
  <2>4. ConsoleOK'
    BY <1>1, <1>6, <2>1, <2>2, <2>3, <1>7, ConsoleMoves
  <2>5. HookOK' /\ SweepOK'
    BY <1>1, <2>1, <2>2, HookFrame, SweepFrame
  <2> QED BY <1>3, <2>1, <2>2, <2>4, <2>5, StepKeeps
<1>11. CASE ConsolePay(p) /\ Open(s) # {}
  <2>1. UNCHANGED <<row, bill, mirror, hook, sweep>> /\ console[p].pc = "pay"
    BY <1>11 DEF ConsolePay, Desk
  <2> DEFINE k == Min(Open(s))
             r == [console[p] EXCEPT !.pc = "mirror", !.inv = k]
  <2>2. s \in Subs /\ Open(s) \in SUBSET Nat /\ Open(s) # {} /\ Open(s) \subseteq Invoices
    BY <1>2, <1>11, <2>1, InvoicesAre DEF Open
  <2>3. k \in Invoices
    BY <2>2, MinIs
  <2>4. Paid(s, k) /\ console' = [console EXCEPT ![p].pc = "mirror", ![p].inv = k]
    BY <1>11 DEF ConsolePay
  <2> HIDE DEF k
  <2>5. console' = [console EXCEPT ![p] = r] /\ r.sub = s /\ r.pc = "mirror" /\ r.inv = k
    BY <1>4, <2>4 DEF ConsoleRow
  <2> HIDE DEF r
  <2>6. Grows
    BY <1>1, <2>2, <2>3, <2>4, PaidIs DEF Grows
  <2>7. Honest
    <3>1. <<s, k>> \in Bills
      BY <2>2, <2>3, BillsAre
    <3>2. /\ \A b \in Bills : invoice'[b].status = "none" <=> invoice[b].status = "none"
          /\ \A x \in Subs : live[x] = "none" <=> live'[x] = "none"
      BY <1>1, <2>2, <2>3, <2>4, PaidIs
    <3>3. events' = events \cup {Emitted("paid", s, k)} /\ invoice[<<s, k>>].status # "none"
      BY <1>1, <2>2, <2>3, <2>4, PaidIs
    <3> QED BY <1>1, <3>1, <3>2, <3>3, BillsAre DEF Honest, IssuedOK, Emitted
  <2>8. invoice'[<<s, k>>].status # "none"
    BY <1>1, <2>2, <2>3, <2>4, PaidIs, BillsAre
  <2>9. live'[s] # "none"
    BY <1>2, <2>1, <2>6 DEF Grows
  <2>10. ConsoleOK'
    BY <1>1, <1>6, <2>2, <2>3, <2>5, <2>6, <2>8, <2>9, ConsoleMoves
  <2> QED BY <1>5, <2>1, <2>6, <2>7, <2>10
<1>12. CASE ConsoleMirror(p)
  <2> DEFINE k == console[p].inv
  <2>1. UNCHANGED <<row, bill, live, invoice, events, hook, sweep>> /\ console[p].pc = "mirror"
    BY <1>12 DEF ConsoleMirror, Desk
  <2>2. s \in Subs /\ k \in Invoices /\ invoice[<<s, k>>].status # "none"
    BY <1>2, <2>1
  <2>3. \A b \in Bills : mirror'[b] = mirror[b] \/ (b = <<s, k>> /\ mirror'[b] = "paid")
    BY <1>1, <1>12, <2>2, UpsertIs DEF ConsoleMirror
  <2>4. Grows /\ Honest
    BY <1>1, <2>1, SameGrows, SameHonest
  <2>5. console' = [console EXCEPT ![p] = NoConsole]
    BY <1>12 DEF ConsoleMirror
  <2>6. ConsoleOK'
    BY <1>1, <1>6, <2>4, <2>5, <1>7, ConsoleMoves
  <2>7. HookOK' /\ SweepOK' /\ LinkOK'
    BY <1>1, <2>1, <2>4, HookFrame, SweepFrame, LinkFrame DEF Honest
  <2>8. IssuedOK'
    BY <1>1, <2>1, <2>2, <2>3, <2>4, IssuedFrame
  <2>9. FailureKeepsClock'
    BY <1>1, <2>1, <2>3, <2>4, ClockFrame
  <2> QED BY <1>3, <2>6, <2>7, <2>8, <2>9 DEF Inv, BillInv
<1>13. ASSUME NEW op \in {"cancel", "pay"}, ConsoleBegin(p, op) PROVE Inv'
  BY <1>3, <1>13, BeginKeeps
<1> QED BY <1>8, <1>9, <1>10, <1>11, <1>12, <1>13 DEF ConsoleStep

LEMMA NextKeeps == ASSUME Inv, [Next]_vars PROVE Inv'
<1>1. CASE Tick
  BY <1>1, TickKeeps
<1>2. ASSUME NEW s \in Subs, SoldAgain(s) PROVE Inv'
  BY <1>2, SoldKeeps
<1>3. CASE Bill
  BY <1>2, <1>3, BillKeeps DEF Bill
<1>4. ASSUME NEW e \in events, Resend(e) PROVE Inv'
  BY <1>4, ResendKeeps
<1>5. ASSUME NEW w \in Workers, NEW e \in fresh, DeliverMirror(w, e) PROVE Inv'
  BY <1>5, MirrorKeeps
<1>6. ASSUME NEW w \in Workers, HookStep(w) \/ DeliverCrash(w) PROVE Inv'
  BY <1>6, HookKeeps
<1>7. ASSUME NEW p \in Sweepers, SweepStep(p) \/ SweepAbort(p) PROVE Inv'
  BY <1>7, SweepKeeps
<1>8. ASSUME NEW p \in Voiders, VoidStep(p) \/ VoidAbort(p) PROVE Inv'
  BY <1>8, VoidKeeps
<1>9. ASSUME NEW p \in Staff, \/ \E op \in {"cancel", "pay"} : ConsoleBegin(p, op)
                              \/ ConsoleStep(p) \/ ConsoleAbort(p) PROVE Inv'
  BY <1>9, ConsoleKeeps
<1>10. ASSUME NEW a \in Admins,
              \/ \E to \in {"touch", "Active", "Paused", "Expired"} : AdminBegin(a, to)
              \/ AdminCommit(a)
       PROVE  Inv'
  BY <1>10, AdminKeeps
<1>11. CASE UNCHANGED vars
  BY <1>11 DEF Inv, BillInv, TypeOK, LinkOK, IssuedOK, HookOK, SweepOK, ConsoleOK,
               FailureKeepsClock, vars
<1> QED BY <1>1, <1>3, <1>4, <1>5, <1>6, <1>7, <1>8, <1>9, <1>10, <1>11 DEF Next

(***************************************************************************)
(* The theorems.                                                           *)
(***************************************************************************)
LEMMA Invariant == Spec => []Inv
<1>1. Init => Inv
  BY InitKeeps
<1>2. Inv /\ [Next]_vars => Inv'
  BY NextKeeps
<1> QED BY <1>1, <1>2, PTL DEF Spec

(* Types of the variables, whoever bills, sweeps, voids and edits.         *)
THEOREM BillingTypes == Spec => []TypeOK
<1>1. Inv => TypeOK
  BY DEF Inv, BillInv
<1> QED BY <1>1, Invariant, PTL

(* While the mirror shows a failed invoice of the linked subscription the  *)
(* grace clock runs, from the oldest of them or earlier: whatever the      *)
(* order, the repetition or the loss of the events, and whoever sweeps,    *)
(* retries or sells the placement again meanwhile.                         *)
THEOREM ClockIsKept == Spec => []FailureKeepsClock
<1>1. Inv => FailureKeepsClock
  BY DEF Inv
<1> QED BY <1>1, Invariant, PTL

(* Who writes the row.                                                     *)
LEMMA WrittenBy ==
  ASSUME [Next]_vars, row' # row
  PROVE  \/ \E w \in Workers : DeliverWrites(w)
         \/ \E p \in Sweepers : SweepWrite(p)
         \/ \E p \in Staff : ConsoleWrite(p)
         \/ \E s \in Subs : SoldAgain(s)
         \/ \E a \in Admins : AdminCommit(a)
<1>1. ~Tick /\ ~(\E e \in events : Resend(e)) /\ ~UNCHANGED vars
  BY DEF Tick, Resend, vars
<1>2. ASSUME Bill PROVE \E s \in Subs : SoldAgain(s)
  BY <1>2 DEF Bill, QuoteStarts, CanceledElsewhere, Issue, Pays, Declined, VoidedByHand, App
<1>3. ASSUME NEW w \in Workers,
             (\E e \in fresh : DeliverMirror(w, e)) \/ HookStep(w) \/ DeliverCrash(w)
      PROVE  DeliverWrites(w)
  BY <1>3 DEF DeliverMirror, HookStep, DeliverPasses, DeliverSkips, DeliverSlotConflict,
              DeliverCrash
<1>4. ASSUME NEW p \in Sweepers, SweepStep(p) \/ SweepAbort(p) PROVE SweepWrite(p)
  BY <1>4 DEF SweepStep, SweepRead, SweepDoomed, SweepLive, SweepRecovered,
              SweepGone, SweepSpared, SweepCancel, SweepVoid, SweepAbort, Quiet
<1>5. ASSUME NEW p \in Voiders, VoidStep(p) \/ VoidAbort(p) PROVE FALSE
  BY <1>5 DEF VoidStep, VoidRead, VoidCall, VoidDone, VoidAbort
<1>6. ASSUME NEW p \in Staff, \/ \E op \in {"cancel", "pay"} : ConsoleBegin(p, op)
                              \/ ConsoleStep(p) \/ ConsoleAbort(p)
      PROVE  ConsoleWrite(p)
  BY <1>6 DEF ConsoleBegin, ConsoleStep, ConsoleCancel, ConsoleVoid, ConsolePay, ConsoleMirror,
              ConsoleAbort
<1>7. ASSUME NEW a \in Admins,
             \/ \E to \in {"touch", "Active", "Paused", "Expired"} : AdminBegin(a, to)
             \/ AdminCommit(a)
      PROVE  AdminCommit(a)
  BY <1>7 DEF AdminBegin
<1> QED BY <1>1, <1>2, <1>3, <1>4, <1>5, <1>6, <1>7 DEF Next

(* An admin's edit that is committed is over.                              *)
LEMMA CommitEnds ==
  ASSUME TypeOK, NEW a \in Admins, AdminCommit(a) PROVE admin' # admin
BY DEF AdminCommit, TypeOK

(* A board comes down only when the subscription stored for it is canceled *)
(* at Stripe, however the deliveries, the sweeps and the console           *)
(* interleave.  Two writes are let off: an admin's edit, and the last      *)
(* write of a sweep or a console cancel begun for an earlier sale of the   *)
(* row, which the code does not stop.                                      *)
THEOREM ExpiredOnlyAfterCancel == Spec => ExpiredAfterCancel
<1> DEFINE Step == row.status # "Expired" /\ row'.status = "Expired" /\ admin' = admin
             => WritesEarlierSale \/ \E s \in Subs : s = Stored /\ live[s] = "canceled"
<1>1. ASSUME Inv, [Next]_vars PROVE Step
  <2> SUFFICES ASSUME row.status # "Expired", row'.status = "Expired", admin' = admin,
                      ~WritesEarlierSale
               PROVE  \E s \in Subs : s = Stored /\ live[s] = "canceled"
    OBVIOUS
  <2>1. TypeOK /\ IssuedOK /\ HookOK /\ SweepOK /\ ConsoleOK /\ Stored = bill.sub
    BY <1>1, StoredIs DEF Inv, BillInv
  <2>2. ASSUME NEW w \in Workers, DeliverWrites(w)
        PROVE  \E s \in Subs : s = Stored /\ live[s] = "canceled"
    <3>1. hook[w].event \in events /\ hook[w].event.sub = bill.sub
      BY <2>1, <2>2 DEF HookOK, DeliverWrites
    <3>2. row'.status = Wanted(hook[w].event)
      BY <2>1, <2>2 DEF DeliverWrites, Write, TypeOK
    <3>3. hook[w].event.type = "deleted"
      BY <2>1, <2>2, <3>1, <3>2 DEF Wanted, HookOK, DeliverWrites, TypeOK, EventSet
    <3>4. live[hook[w].event.sub] = "canceled" /\ hook[w].event.sub \in Subs
      BY <2>1, <3>1, <3>3 DEF IssuedOK, TypeOK, EventSet
    <3> QED BY <2>1, <3>1, <3>4
  <2>3. ASSUME NEW p \in Sweepers, SweepWrite(p)
        PROVE  \E s \in Subs : s = Stored /\ live[s] = "canceled"
    <3>1. sweep[p].pc = "write" /\ sweep'[p] # sweep[p]
      BY <2>1, <2>3 DEF SweepWrite, NoSweep, TypeOK
    <3> QED BY <2>1, <3>1 DEF SweepOK, WritesEarlierSale
  <2>4. ASSUME NEW p \in Staff, ConsoleWrite(p)
        PROVE  \E s \in Subs : s = Stored /\ live[s] = "canceled"
    <3>1. console[p].pc = "write" /\ console'[p] # console[p]
      BY <2>1, <2>4 DEF ConsoleWrite, NoConsole, TypeOK
    <3> QED BY <2>1, <3>1 DEF ConsoleOK, WritesEarlierSale
  <2>5. \A s \in Subs : ~SoldAgain(s)
    BY DEF SoldAgain
  <2>6. \A a \in Admins : ~AdminCommit(a)
    BY <2>1, CommitEnds
  <2> QED BY <1>1, <2>2, <2>3, <2>4, <2>5, <2>6, WrittenBy
<1>2. Inv /\ [Next]_vars => [Step]_vars
  BY <1>1
<1>3. [][Step]_vars => ExpiredAfterCancel
  BY PTL DEF ExpiredAfterCancel
<1> QED BY <1>2, <1>3, Invariant, PTL DEF Spec

(***************************************************************************)
(* What a late payment may bring back.                                     *)
(***************************************************************************)
OneWorker == \A v, w \in Workers : v = w

(* Who lets a delivery past the gate.                                      *)
LEMMA PassedBy ==
  ASSUME TypeOK, [Next]_vars, NEW w \in Workers, hook'[w].pc = "write", hook'[w] # hook[w]
  PROVE  DeliverPasses(w)
<1>1. hook' # hook
  OBVIOUS
<1>2. ~Tick /\ ~Bill /\ ~(\E e \in events : Resend(e)) /\ ~UNCHANGED vars
  BY <1>1 DEF Tick, Bill, Resend, vars, QuoteStarts, CanceledElsewhere, SoldAgain, Issue, Pays,
              Declined, VoidedByHand, App
<1>3. ASSUME NEW p \in Sweepers, SweepStep(p) \/ SweepAbort(p) PROVE FALSE
  BY <1>1, <1>3 DEF SweepStep, SweepRead, SweepDoomed, SweepLive, SweepRecovered,
                    SweepGone, SweepSpared, SweepCancel, SweepVoid, SweepWrite, SweepAbort, Quiet
<1>4. ASSUME NEW p \in Voiders, VoidStep(p) \/ VoidAbort(p) PROVE FALSE
  BY <1>1, <1>4 DEF VoidStep, VoidRead, VoidCall, VoidDone, VoidAbort
<1>5. ASSUME NEW p \in Staff, \/ \E op \in {"cancel", "pay"} : ConsoleBegin(p, op)
                              \/ ConsoleStep(p) \/ ConsoleAbort(p)
      PROVE  FALSE
  BY <1>1, <1>5 DEF ConsoleBegin, ConsoleStep, ConsoleCancel, ConsoleVoid, ConsoleWrite,
                    ConsolePay, ConsoleMirror, ConsoleAbort, Desk
<1>6. ASSUME NEW a \in Admins,
             \/ \E to \in {"touch", "Active", "Paused", "Expired"} : AdminBegin(a, to)
             \/ AdminCommit(a)
      PROVE  FALSE
  BY <1>1, <1>6 DEF AdminBegin, AdminCommit
<1>7. ASSUME NEW v \in Workers,
             (\E e \in fresh : DeliverMirror(v, e)) \/ HookStep(v) \/ DeliverCrash(v)
      PROVE  DeliverPasses(w)
  <2>1. v = w /\ hook'[v].pc = "write"
    BY <1>7 DEF TypeOK, DeliverMirror, HookStep, DeliverPasses, DeliverSkips, DeliverWrites,
                DeliverSlotConflict, DeliverCrash, Ends
  <2>2. DeliverPasses(v)
    BY <1>7, <2>1 DEF TypeOK, DeliverMirror, HookStep, DeliverSkips, DeliverWrites,
                DeliverSlotConflict, DeliverCrash, Ends, NoHook
  <2> QED BY <2>1, <2>2
<1> QED BY <1>2, <1>3, <1>4, <1>5, <1>6, <1>7 DEF Next

(* The clock only ticks.                                                   *)
LEMMA ClockTicks == ASSUME TypeOK, [Next]_vars PROVE now \in Nat /\ now' \in Nat /\ now <= now'
<1>1. now \in Nat
  BY BillingAssumption DEF TypeOK
<1>2. CASE Tick
  BY <1>1, <1>2 DEF Tick
<1>3. CASE now' = now
  BY <1>1, <1>3
<1>4. ASSUME now' # now, ~Tick PROVE FALSE
  <2>1. ~Bill /\ ~(\E e \in events : Resend(e)) /\ ~UNCHANGED vars
    BY <1>4 DEF Bill, Resend, vars, QuoteStarts, CanceledElsewhere, SoldAgain, Issue, Pays,
                Declined, VoidedByHand, App
  <2>2. \A w \in Workers : ~((\E e \in fresh : DeliverMirror(w, e)) \/ HookStep(w) \/ DeliverCrash(w))
    BY <1>4 DEF DeliverMirror, HookStep, DeliverPasses, DeliverSkips, DeliverWrites,
                DeliverSlotConflict, DeliverCrash
  <2>3. \A p \in Sweepers : ~(SweepStep(p) \/ SweepAbort(p))
    BY <1>4 DEF SweepStep, SweepRead, SweepDoomed, SweepLive, SweepRecovered,
                SweepGone, SweepSpared, SweepCancel, SweepVoid, SweepWrite, SweepAbort, Quiet
  <2>4. \A p \in Voiders : ~(VoidStep(p) \/ VoidAbort(p))
    BY <1>4 DEF VoidStep, VoidRead, VoidCall, VoidDone, VoidAbort
  <2>5. \A p \in Staff : ~(\/ \E op \in {"cancel", "pay"} : ConsoleBegin(p, op)
                           \/ ConsoleStep(p) \/ ConsoleAbort(p))
    BY <1>4 DEF ConsoleBegin, ConsoleStep, ConsoleCancel, ConsoleVoid, ConsoleWrite, ConsolePay,
                ConsoleMirror, ConsoleAbort, Desk
  <2>6. \A a \in Admins : ~(\/ \E to \in {"touch", "Active", "Paused", "Expired"} : AdminBegin(a, to)
                            \/ AdminCommit(a))
    BY <1>4 DEF AdminBegin, AdminCommit
  <2> QED BY <1>4, <2>1, <2>2, <2>3, <2>4, <2>5, <2>6 DEF Next
<1> QED BY <1>2, <1>3, <1>4

(* Every write stamps the row with the clock.                              *)
LEMMA StampedIs ==
  ASSUME TypeOK, PassedOK, NEW status \in {"Active", "Paused", "Expired"}, Write(status),
         UNCHANGED now
  PROVE  row'.lapsed <= row'.written /\ row'.written <= now'
<1>1. row.lapsed \in Nat /\ row.written \in Nat /\ now \in Nat
  BY BillingAssumption DEF TypeOK
<1> QED BY <1>1, WriteIs DEF PassedOK

LEMMA PassedKeeps ==
  ASSUME OneWorker, Admins = {}, Inv, PassedOK, [Next]_vars PROVE PassedOK'
<1>1. TypeOK /\ HookOK /\ TypeOK'
  BY NextKeeps DEF Inv, BillInv
<1>2. /\ row.lapsed \in Nat /\ row.written \in Nat /\ now \in Nat /\ now' \in Nat
      /\ \A e \in EventSet : e.at \in Nat
  BY <1>1, ClockTicks, BillingAssumption DEF TypeOK, EventSet
<1>3. now <= now'
  BY <1>1, ClockTicks
<1>4. ASSUME NEW w \in Workers, hook'[w].pc = "write", hook'[w] # hook[w], hook'[w].event.type = "paid"
      PROVE  row'.status = "Expired" /\ row'.lapsed <= hook'[w].event.at
  <2>1. DeliverPasses(w)
    BY <1>1, <1>4, PassedBy
  <2>2. hook'[w].event = hook[w].event /\ UNCHANGED row /\ ~Refuses(hook[w].event)
    BY <1>1, <2>1 DEF DeliverPasses, TypeOK
  <2>3. hook[w].event \in EventSet
    BY <1>1, <2>1 DEF DeliverPasses, HookOK, TypeOK
  <2>4. row.status = "Expired" /\ row.written <= hook[w].event.at
    BY <1>1, <1>2, <1>4, <2>2, <2>3 DEF Refuses, Wanted, TypeOK
  <2> QED BY <1>2, <2>2, <2>3, <2>4 DEF PassedOK
<1>5. CASE UNCHANGED row
  <2>1. row'.lapsed <= row'.written /\ row'.written <= now'
    BY <1>2, <1>3, <1>5 DEF PassedOK
  <2> QED BY <1>4, <1>5, <2>1 DEF PassedOK
<1>6. ASSUME NEW w \in Workers, DeliverWrites(w) PROVE PassedOK'
  <2>1. Wanted(hook[w].event) \in {"Active", "Paused", "Expired"} /\ UNCHANGED now
        /\ Write(Wanted(hook[w].event))
    BY <1>6 DEF DeliverWrites, Wanted
  <2>2. row'.lapsed <= row'.written /\ row'.written <= now'
    BY <1>1, <2>1, StampedIs
  <2>3. \A v \in Workers : hook'[v].pc = "idle"
    BY <1>1, <1>6 DEF OneWorker, DeliverWrites, Ends, NoHook, TypeOK
  <2> QED BY <2>2, <2>3 DEF PassedOK
<1>7. ASSUME Write("Expired"), UNCHANGED <<now, hook>> PROVE PassedOK'
  <2>1. row'.lapsed <= row'.written /\ row'.written <= now'
    BY <1>1, <1>7, StampedIs
  <2>2. row'.status = "Expired" /\ (row.status = "Expired" => row'.lapsed = row.lapsed)
    BY <1>1, <1>7, WriteIs
  <2> QED BY <1>7, <2>1, <2>2 DEF PassedOK
<1>8. ASSUME NEW p \in Sweepers, SweepWrite(p) PROVE PassedOK'
  BY <1>7, <1>8 DEF SweepWrite
<1>9. ASSUME NEW p \in Staff, ConsoleWrite(p) PROVE PassedOK'
  <2>1. CASE console[p].write
    BY <1>7, <1>9, <2>1 DEF ConsoleWrite, Desk
  <2>2. CASE ~console[p].write
    BY <1>5, <1>9, <2>2 DEF ConsoleWrite
  <2> QED BY <2>1, <2>2
<1>10. ASSUME NEW s \in Subs, SoldAgain(s) PROVE PassedOK'
  <2>1. row'.lapsed = row.lapsed /\ row'.written = now /\ now' = now
    BY <1>1, <1>10 DEF SoldAgain, TypeOK
  <2>2. \A v \in Workers : hook'[v].pc = "idle"
    BY <1>10 DEF SoldAgain
  <2> QED BY <1>2, <2>1, <2>2 DEF PassedOK
<1> QED BY <1>5, <1>6, <1>8, <1>9, <1>10, WrittenBy

(* Outside an admin's edit a lapsed board comes back only for an invoice   *)
(* of its own subscription paid since it came down, however old the events *)
(* that are delivered again: where one delivery runs at a time and nobody  *)
(* edits the row between a gate and its write.                             *)
THEOREM ReactivatedOnlyByPayment ==
  ASSUME OneWorker, Admins = {} PROVE Spec => ReactivatedByPayment
<1> DEFINE Step == row.status = "Expired" /\ row'.status = "Active" /\ row'.sub = row.sub
                   /\ admin' = admin
             => \E e \in events : e.type = "paid" /\ e.sub = Stored /\ e.at >= row.lapsed
<1>1. Init => PassedOK
  BY DEF Init, PassedOK, NoHook
<1>2. Inv /\ PassedOK /\ [Next]_vars => PassedOK'
  BY PassedKeeps
<1>3. ASSUME Inv, PassedOK, [Next]_vars PROVE Step
  <2> SUFFICES ASSUME row.status = "Expired", row'.status = "Active", row'.sub = row.sub,
                      admin' = admin
               PROVE  \E e \in events : e.type = "paid" /\ e.sub = Stored /\ e.at >= row.lapsed
    OBVIOUS
  <2>1. TypeOK /\ LinkOK /\ HookOK /\ Stored = bill.sub
    BY <1>3, StoredIs DEF Inv, BillInv
  <2>2. PICK w \in Workers : DeliverWrites(w)
    <3>1. \A s \in Subs : ~SoldAgain(s)
      <4> SUFFICES ASSUME NEW s \in Subs, SoldAgain(s) PROVE FALSE
        OBVIOUS
      <4>1. live[s] = "none" /\ s # None /\ row.sub = s
        BY <2>1, SoldIs, BillingAssumption DEF SoldAgain
      <4> QED BY <2>1, <4>1 DEF LinkOK
    <3>2. \A p \in Sweepers : ~SweepWrite(p)
      BY <2>1, WriteIs DEF SweepWrite
    <3>3. \A p \in Staff : ~ConsoleWrite(p)
      BY <2>1, WriteIs DEF ConsoleWrite
    <3> QED BY <1>3, <3>1, <3>2, <3>3, WrittenBy
  <2> DEFINE e == hook[w].event
  <2>3. hook[w].pc = "write" /\ e \in events /\ e \in EventSet /\ e.sub = bill.sub /\ e.type # "failed"
    BY <2>1, <2>2 DEF DeliverWrites, HookOK, TypeOK
  <2>4. row'.status = Wanted(e)
    BY <2>1, <2>2 DEF DeliverWrites, Write, TypeOK
  <2>5. e.type = "paid"
    BY <2>4 DEF Wanted
  <2>6. row.lapsed <= e.at
    BY <1>3, <2>3, <2>5 DEF PassedOK
  <2>7. e.at \in Nat /\ row.lapsed \in Nat
    BY <2>1, <2>3, BillingAssumption DEF EventSet, TypeOK
  <2> QED BY <2>1, <2>3, <2>5, <2>6, <2>7
<1>4. Inv /\ PassedOK /\ [Next]_vars => [Step]_vars
  BY <1>3
<1>5. [][Step]_vars => ReactivatedByPayment
  BY PTL DEF ReactivatedByPayment
<1> QED BY <1>1, <1>2, <1>4, <1>5, Invariant, PTL DEF Spec
=============================================================================
