--------------------------- MODULE CheckoutProofs ---------------------------
(***************************************************************************)
(* What holds of Checkout for every value of its constants.                *)
(***************************************************************************)
EXTENDS Checkout, TLAPS

(***************************************************************************)
(* Type correctness.  TypeOK is not inductive alone: what a delivery or a  *)
(* follow-up in progress writes is typed only when it names an intent.     *)
(***************************************************************************)
Named ==
  /\ \A w \in Workers : delivery[w].verdict # "none" => delivery[w].intent \in Intents
  /\ \A p \in Resolvers : resolver[p].pc # "idle" => resolver[p].intent \in Intents
LEMMA InitTypeOK == ASSUME Init PROVE TypeOK
<1>0. MaxInvoices \in Nat \ {0} /\ MaxTime \in Nat /\ MaxFaults \in Nat
  BY CheckoutAssumption
<1>1. \A s \in ListedRows : s \in SponsorRow
  BY DEF ListedRows, NoRow, Live, SponsorRow
<1>2. NoRow \in ListedRows
  BY DEF ListedRows
<1>3. sponsor \in [Rows -> SponsorRow]
  <2>1. PICK listed \in [Companies \X Slots -> ListedRows] :
       sponsor = [r \in Rows |-> IF r \in Companies \X Slots THEN listed[r] ELSE NoRow]
    BY DEF Init
  <2>2. \A r \in Rows : (IF r \in Companies \X Slots THEN listed[r] ELSE NoRow) \in ListedRows
    BY <1>2, <2>1
  <2> QED BY <1>1, <2>1, <2>2
<1>4. now \in 0..MaxTime /\ faults \in 0..MaxFaults
  BY <1>0 DEF Init
<1>5. /\ NoIntent \in IntentRow /\ NoStripe \in Purchase /\ NoDraft \in Draft
      /\ NoDelivery \in Delivery /\ NoResolver \in Resolver /\ NoStaff \in StaffState
      /\ NoAdmin \in AdminState
  BY DEF NoIntent, NoStripe, NoDraft, NoDelivery, NoResolver, NoStaff, NoAdmin,
    IntentRow, Purchase, Draft, Delivery, Resolver, StaffState, AdminState
<1> QED
  BY <1>3, <1>4, <1>5 DEF Init, TypeOK, Bills

(* The field updates the actions make.                                     *)
LEMMA IntentUpdate ==
  ASSUME NEW r \in IntentRow
  PROVE  /\ \A v \in {"open", "completed", "expired", "released", "conflict"} :
              [r EXCEPT !.status = v] \in IntentRow
         /\ [r EXCEPT !.minted = TRUE] \in IntentRow
         /\ \A v \in BOOLEAN : [r EXCEPT !.resolved = v] \in IntentRow
BY DEF IntentRow

LEMMA PurchaseUpdate ==
  ASSUME NEW r \in Purchase
  PROVE  /\ \A v \in {"open", "expired"} : [r EXCEPT !.session = v] \in Purchase
         /\ [r EXCEPT !.sub = "canceled"] \in Purchase
BY DEF Purchase

(* What a request keeps of its SELECT, and what it has decided later.      *)
LEMMA SelectedIs ==
  ASSUME TypeOK
  PROVE  /\ Selected \in Draft /\ Selected.lapsed = Lapsed
         /\ Selected.until = now + SessionTicks + GraceTicks
         /\ NoDraft \in Draft /\ NoDraft.lapsed = {}
<1>1. now \in Nat /\ now + SessionTicks + GraceTicks \in Nat
  BY CheckoutAssumption DEF TypeOK
<1> QED BY <1>1 DEF Selected, NoDraft, Draft, Lapsed

LEMMA BeginIs ==
  ASSUME TypeOK, NEW i \in Intents, NEW s \in Slots, NEW b \in Buyers,
         NEW c \in Codes \cup {None}, OpenBegin(i, s, b, c)
  PROVE  /\ draft'[i] \in Draft /\ draft'[i].slot = s /\ draft'[i].code = c
         /\ draft'[i].lapsed = Lapsed \/ draft'[i].lapsed = draft[i].lapsed
         /\ \A j \in Intents \ {i} : draft'[j] = draft[j] /\ request'[j] = request[j]
         /\ request'[i] = "opening" /\ request[i] \in {"idle", "reading"}
         /\ UNCHANGED <<now, intent, sponsor, uses, active, stripe, bill, answer, backing,
                        delivery, resolver, staff, sweep, admin, faults>>
         /\ i \notin Interrupted => /\ request[i] = "idle" /\ draft'[i].lapsed = Lapsed
                                   /\ draft'[i].until = now + SessionTicks + GraceTicks
<1> DEFINE seen == IF i \in Interrupted THEN draft[i] ELSE Selected
           d == [slot |-> s, buyer |-> b, code |-> c, until |-> seen.until,
                 lapsed |-> seen.lapsed]
<1>1. seen \in Draft
  BY SelectedIs DEF TypeOK
<1>2. d \in Draft
  BY <1>1 DEF Draft
<1>3. /\ draft' = [draft EXCEPT ![i] = d] /\ request' = [request EXCEPT ![i] = "opening"]
      /\ request[i] = IF i \in Interrupted THEN "reading" ELSE "idle"
      /\ UNCHANGED <<now, intent, sponsor, uses, active, stripe, bill, answer, backing,
                     delivery, resolver, staff, sweep, admin, faults>>
  BY DEF OpenBegin
<1>4. draft'[i] = d /\ request'[i] = "opening"
  <2> HIDE DEF d
  <2> QED BY <1>3 DEF TypeOK
<1>5. \A j \in Intents \ {i} : draft'[j] = draft[j] /\ request'[j] = request[j]
  BY <1>3 DEF TypeOK
<1>6. d.slot = s /\ d.code = c /\ d.lapsed = seen.lapsed /\ d.until = seen.until
  OBVIOUS
<1>7. /\ i \in Interrupted => seen.lapsed = draft[i].lapsed
      /\ i \notin Interrupted => seen.lapsed = Lapsed
                                /\ seen.until = now + SessionTicks + GraceTicks
  BY SelectedIs
<1> HIDE DEF d, seen
<1> QED BY <1>2, <1>3, <1>4, <1>5, <1>6, <1>7

(* The POST that opens and mints keeps the types.                          *)
LEMMA RequestTypeOK ==
  ASSUME TypeOK, NEW i \in Intents, RequestStep(i) PROVE TypeOK'
<1>0. /\ intent \in [Intents -> IntentRow] /\ stripe \in [Intents -> Purchase]
      /\ draft \in [Intents -> Draft] /\ now \in Nat /\ faults \in 0..MaxFaults
      /\ request \in [Intents -> {"idle", "reading", "opening", "minting", "answered"}]
  BY CheckoutAssumption DEF TypeOK
<1>a. intent[i] \in IntentRow /\ stripe[i] \in Purchase /\ draft[i] \in Draft
  BY <1>0
<1>b. NoDraft \in Draft
  BY DEF NoDraft, Draft
<1>1. ASSUME NEW s \in Slots, NEW b \in Buyers, NEW c \in Codes \cup {None}, OpenBegin(i, s, b, c)
      PROVE TypeOK'
  <2>1. draft' \in [Intents -> Draft]
    <3>1. draft' = [draft EXCEPT ![i] = draft'[i]]
      BY <1>0, <1>1 DEF OpenBegin
    <3> QED BY <1>0, <1>1, <3>1, BeginIs
  <2> QED BY <1>1, <2>1 DEF TypeOK, OpenBegin
<1>2. ASSUME OpenCommit(i) PROVE TypeOK'
  <2>1. intent' \in [Intents -> IntentRow]
    <3>1. [NoIntent EXCEPT !.status = "open", !.slot = draft[i].slot, !.buyer = draft[i].buyer,
                           !.code = draft[i].code, !.until = draft[i].until] \in IntentRow
      BY <1>a DEF Draft, IntentRow, NoIntent
    <3>2. \A j \in Intents : [intent[j] EXCEPT !.status = "expired"] \in IntentRow
      BY <1>0, IntentUpdate
    <3> QED BY <1>0, <1>2, <3>1, <3>2 DEF OpenCommit
  <2> QED BY <1>b, <1>2, <2>1 DEF TypeOK, OpenCommit
<1>3. ASSUME OpenLoses(i) \/ OpenRefused(i) PROVE TypeOK'
  BY <1>3, <1>b DEF TypeOK, OpenLoses, OpenRefused
<1>7. ASSUME OpenRead(i) PROVE TypeOK'
  BY <1>0, <1>7, SelectedIs DEF TypeOK, OpenRead
<1>4. ASSUME Mint(i) PROVE TypeOK'
  <2>1. intent' \in [Intents -> IntentRow]
    BY <1>0, <1>a, <1>4, IntentUpdate DEF Mint
  <2>2. stripe' \in [Intents -> Purchase]
    BY <1>0, <1>a, <1>4, PurchaseUpdate DEF Mint
  <2> QED BY <1>4, <2>1, <2>2 DEF TypeOK, Mint
<1>5. ASSUME MintFail(i) PROVE TypeOK'
  <2>1. intent' \in [Intents -> IntentRow]
    BY <1>0, <1>a, <1>5, IntentUpdate DEF MintFail
  <2>2. faults' \in 0..MaxFaults
    BY <1>0, <1>5, CheckoutAssumption DEF MintFail, Fault
  <2> QED BY <1>5, <2>1, <2>2 DEF TypeOK, MintFail
<1>6. ASSUME MintCrash(i) PROVE TypeOK'
  <2>1. faults' \in 0..MaxFaults
    BY <1>0, <1>6, CheckoutAssumption DEF MintCrash, Fault
  <2> QED BY <1>6, <2>1 DEF TypeOK, MintCrash
<1> QED BY <1>1, <1>2, <1>3, <1>4, <1>5, <1>6, <1>7 DEF RequestStep

(* So do the clock, the buyer's page, Stripe billing and the buyer's back. *)
LEMMA TickTypeOK == ASSUME TypeOK, Tick PROVE TypeOK'
<1>1. now' \in 0..MaxTime
  BY CheckoutAssumption DEF TypeOK, Tick
<1>2. stripe' \in [Intents -> Purchase]
  <2>1. \A i \in Intents : [stripe[i] EXCEPT !.session = "expired"] \in Purchase
    BY PurchaseUpdate DEF TypeOK
  <2> QED BY <2>1 DEF TypeOK, Tick
<1> QED BY <1>1, <1>2 DEF TypeOK, Tick

LEMMA BuyerTypeOK ==
  ASSUME TypeOK, NEW i \in Intents, BuyerStep(i) PROVE TypeOK'
<1>0. /\ intent \in [Intents -> IntentRow] /\ stripe \in [Intents -> Purchase]
      /\ bill \in [Intents -> Bills] /\ backing \in SUBSET Intents
      /\ intent[i] \in IntentRow /\ stripe[i] \in Purchase /\ bill[i] \in Bills
  BY DEF TypeOK
<1>1. ASSUME NEW cleared \in BOOLEAN, NEW amountOk \in BOOLEAN, Complete(i, cleared, amountOk)
      PROVE TypeOK'
  <2>1. stripe' \in [Intents -> Purchase]
    <3>1. [session |-> "complete", sub |-> IF cleared THEN "active" ELSE "none",
           amountOk |-> amountOk] \in Purchase
      BY DEF Purchase
    <3> QED BY <1>0, <1>1, <3>1 DEF Complete
  <2>2. bill' \in [Intents -> Bills]
    <3>1. [bill[i] EXCEPT ![1] = "paid"] \in Bills
      BY <1>0 DEF Bills
    <3> QED BY <1>0, <1>1, <3>1 DEF Complete
  <2> QED BY <1>1, <2>1, <2>2 DEF TypeOK, Complete
<1>2. ASSUME NEW k \in Invoices, Renew(i, k) \/ Charge(i, k) PROVE TypeOK'
  <2>1. [bill[i] EXCEPT ![k] = "open"] \in Bills /\ [bill[i] EXCEPT ![k] = "paid"] \in Bills
    BY <1>0 DEF Bills
  <2>2. bill' \in [Intents -> Bills]
    BY <1>0, <1>2, <2>1 DEF Renew, Charge
  <2> QED BY <1>2, <2>2 DEF TypeOK, Renew, Charge
<1>3. ASSUME BuyerBack(i) PROVE TypeOK'
  <2>1. stripe' \in [Intents -> Purchase]
    BY <1>0, <1>3, PurchaseUpdate DEF BuyerBack
  <2>2. backing' \in SUBSET Intents
    BY <1>0, <1>3 DEF BuyerBack
  <2> QED BY <1>3, <2>1, <2>2 DEF TypeOK, BuyerBack
<1>4. ASSUME BuyerReleased(i) PROVE TypeOK'
  <2>1. intent' \in [Intents -> IntentRow]
    BY <1>0, <1>4, IntentUpdate DEF BuyerReleased
  <2>2. backing' \in SUBSET Intents
    BY <1>0, <1>4 DEF BuyerReleased
  <2> QED BY <1>4, <2>1, <2>2 DEF TypeOK, BuyerReleased
<1> QED BY <1>1, <1>2, <1>3, <1>4 DEF BuyerStep

(* The webhook.                                                            *)
LEMMA AckTypeOK == ASSUME TypeOK, NEW i \in Intents, DeliverAck(i) PROVE TypeOK'
BY DEF TypeOK, DeliverAck

LEMMA DeliverTypeOK ==
  ASSUME TypeOK, Named, NEW w \in Workers, DeliverStep(w) PROVE TypeOK'
<1>0. /\ intent \in [Intents -> IntentRow] /\ sponsor \in [Rows -> SponsorRow]
      /\ delivery \in [Workers -> Delivery] /\ delivery[w] \in Delivery
      /\ uses \in [Codes -> Nat] /\ answer \in [Intents -> {"none", "ok", "error"}]
  BY DEF TypeOK
<1>1. NoDelivery \in Delivery
  BY DEF NoDelivery, Delivery
<1>2. ASSUME NEW i \in Intents, DeliverBegin(w, i) PROVE TypeOK'
  <2>1. (IF intent[i].code = None THEN 0 ELSE uses[intent[i].code]) \in Nat
    BY <1>0 DEF IntentRow
  <2>2. intent[i].resolved \in BOOLEAN
    BY <1>0 DEF IntentRow
  <2>3. delivery' \in [Workers -> Delivery]
    <3> DEFINE d == [pc |-> "commit", intent |-> i,
                     verdict |-> IF Refused(i) THEN "conflict" ELSE "activate",
                     reuse |-> sponsor[SaleRow(i)].status # "absent",
                     stamped |-> intent[i].resolved,
                     uses |-> IF intent[i].code = None THEN 0 ELSE uses[intent[i].code]]
    <3>1. d \in Delivery
      BY <2>1, <2>2 DEF Delivery
    <3>2. delivery' = [delivery EXCEPT ![w] = d]
      BY <1>2 DEF DeliverBegin
    <3> HIDE DEF d
    <3> QED BY <1>0, <3>1, <3>2
  <2> QED BY <1>2, <2>3 DEF TypeOK, DeliverBegin
<1>3. ASSUME DeliverConflict(w) PROVE TypeOK'
  <2> DEFINE i == delivery[w].intent
  <2>1. delivery' \in [Workers -> Delivery]
    BY <1>0, <1>1, <1>3 DEF DeliverConflict, DeliverDone
  <2>2. answer' \in [Intents -> {"none", "ok", "error"}]
    BY <1>0, <1>3 DEF DeliverConflict, DeliverDone
  <2>3. intent' \in [Intents -> IntentRow]
    <3>1. i \in Intents
      BY <1>3 DEF DeliverConflict, Named
    <3> DEFINE q == [intent[i] EXCEPT !.status = "conflict"]
               v == intent[i].resolved /\ ~delivery[w].stamped
    <3>2. q \in IntentRow
      BY <1>0, <3>1, IntentUpdate
    <3>3. v \in BOOLEAN
      OBVIOUS
    <3>4. [q EXCEPT !.resolved = v] \in IntentRow
      <4> HIDE DEF q, v
      <4> QED BY <3>2, <3>3, IntentUpdate
    <3> QED BY <1>0, <1>3, <3>1, <3>4 DEF DeliverConflict
  <2> QED BY <1>3, <2>1, <2>2, <2>3 DEF TypeOK, DeliverConflict
<1>4. ASSUME DeliverActivate(w) PROVE TypeOK'
  <2> DEFINE i == delivery[w].intent
  <2>0. i \in Intents
    BY <1>4 DEF DeliverActivate, Named
  <2>1. delivery' \in [Workers -> Delivery]
    BY <1>0, <1>1, <1>4 DEF DeliverActivate, DeliverDone
  <2>2. answer' \in [Intents -> {"none", "ok", "error"}]
    BY <1>0, <1>4 DEF DeliverActivate, DeliverDone
  <2>3. intent' \in [Intents -> IntentRow]
    BY <1>0, <1>4, <2>0, IntentUpdate DEF DeliverActivate
  <2>4. sponsor' \in [Rows -> SponsorRow]
    <3>1. [status |-> "Active", tier |-> "exclusive", sub |-> i] \in SponsorRow
      BY <2>0 DEF SponsorRow, Live
    <3> QED BY <1>0, <1>4, <3>1 DEF DeliverActivate
  <2>5. uses' \in [Codes -> Nat]
    <3>1. UsesAfter(w) \in Nat
      BY <1>0 DEF UsesAfter, Delivery
    <3> QED BY <1>0, <1>4, <3>1 DEF DeliverActivate
  <2> QED BY <1>4, <2>1, <2>2, <2>3, <2>4, <2>5 DEF TypeOK, DeliverActivate
<1>5. ASSUME DeliverError(w) PROVE TypeOK'
  BY <1>0, <1>1, <1>5 DEF TypeOK, DeliverError, DeliverDone
<1>6. ASSUME NEW r \in Rows, Revive(w, r) PROVE TypeOK'
  <2>1. [sponsor[r] EXCEPT !.status = "Active"] \in SponsorRow
    BY <1>0 DEF SponsorRow, Live
  <2>2. sponsor' \in [Rows -> SponsorRow]
    BY <1>0, <1>6, <2>1 DEF Revive
  <2> QED BY <1>6, <2>2 DEF TypeOK, Revive
<1> QED BY <1>2, <1>3, <1>4, <1>5, <1>6 DEF DeliverStep

(* The follow-up of a conflict.                                            *)
LEMMA ResolveTypeOK ==
  ASSUME TypeOK, Named, NEW p \in Resolvers, ResolveStep(p) PROVE TypeOK'
<1> DEFINE i == resolver[p].intent
<1>0. /\ intent \in [Intents -> IntentRow] /\ stripe \in [Intents -> Purchase]
      /\ bill \in [Intents -> Bills] /\ faults \in 0..MaxFaults
      /\ resolver \in [Resolvers -> Resolver] /\ resolver[p] \in Resolver
  BY DEF TypeOK
<1>1. NoResolver \in Resolver
  BY DEF NoResolver, Resolver
<1>2. ASSUME NEW j \in Intents, ResolveBegin(p, j) PROVE TypeOK'
  <2>1. [pc |-> "cancel", intent |-> j, todo |-> {}] \in Resolver
    BY DEF Resolver
  <2>2. resolver' \in [Resolvers -> Resolver]
    BY <1>0, <1>2, <2>1 DEF ResolveBegin
  <2> QED BY <1>2, <2>2 DEF TypeOK, ResolveBegin
<1>3. ASSUME ResolveCancel(p) PROVE TypeOK'
  <2>1. i \in Intents
    BY <1>3 DEF ResolveCancel, Named
  <2>2. stripe' \in [Intents -> Purchase]
    BY <1>0, <1>3, <2>1, PurchaseUpdate DEF ResolveCancel
  <2>3. [resolver[p] EXCEPT !.pc = "void"] \in Resolver
    BY <1>0 DEF Resolver
  <2>4. resolver' \in [Resolvers -> Resolver]
    BY <1>0, <1>3, <2>3 DEF ResolveCancel
  <2> QED BY <1>3, <2>2, <2>4 DEF TypeOK, ResolveCancel
<1>4. ASSUME ResolveVoid(p) PROVE TypeOK'
  <2>1. i \in Intents
    BY <1>4 DEF ResolveVoid, Named
  <2>2. [k \in Invoices |-> IF bill[i][k] = "open" THEN "void" ELSE bill[i][k]] \in Bills
    BY <1>0, <2>1 DEF Bills
  <2>3. bill' \in [Intents -> Bills]
    BY <1>0, <1>4, <2>2 DEF ResolveVoid
  <2>4. [resolver[p] EXCEPT !.pc = "refund", !.todo = {k \in Invoices : bill[i][k] = "paid"}]
          \in Resolver
    BY <1>0 DEF Resolver
  <2>5. resolver' \in [Resolvers -> Resolver]
    BY <1>0, <1>4, <2>4 DEF ResolveVoid
  <2> QED BY <1>4, <2>3, <2>5 DEF TypeOK, ResolveVoid
<1>5. ASSUME NEW k \in Invoices, ResolveRefund(p, k) PROVE TypeOK'
  <2>1. i \in Intents
    BY <1>5 DEF ResolveRefund, Named
  <2>2. [bill[i] EXCEPT ![k] = "refunded"] \in Bills
    BY <1>0, <2>1 DEF Bills
  <2>3. bill' \in [Intents -> Bills]
    BY <1>0, <1>5, <2>1, <2>2 DEF ResolveRefund
  <2>4. [resolver[p] EXCEPT !.todo = resolver[p].todo \ {k}] \in Resolver
    BY <1>0 DEF Resolver
  <2>5. resolver' \in [Resolvers -> Resolver]
    BY <1>0, <1>5, <2>4 DEF ResolveRefund
  <2> QED BY <1>5, <2>3, <2>5 DEF TypeOK, ResolveRefund
<1>6. ASSUME ResolveFinish(p) PROVE TypeOK'
  <2>1. i \in Intents
    BY <1>6 DEF ResolveFinish, Named
  <2>2. intent' \in [Intents -> IntentRow]
    BY <1>0, <1>6, <2>1, IntentUpdate DEF ResolveFinish
  <2>3. resolver' \in [Resolvers -> Resolver]
    BY <1>0, <1>1, <1>6 DEF ResolveFinish
  <2> QED BY <1>6, <2>2, <2>3 DEF TypeOK, ResolveFinish
<1>7. ASSUME ResolveAbort(p) PROVE TypeOK'
  <2>1. faults' \in 0..MaxFaults
    BY <1>0, <1>7, CheckoutAssumption DEF ResolveAbort, Fault
  <2>2. resolver' \in [Resolvers -> Resolver]
    BY <1>0, <1>1, <1>7 DEF ResolveAbort
  <2> QED BY <1>7, <2>1, <2>2 DEF TypeOK, ResolveAbort
<1> QED BY <1>2, <1>3, <1>4, <1>5, <1>6, <1>7 DEF ResolveStep

(* Staff releasing holds and the hourly sweep.                             *)
LEMMA StaffTypeOK ==
  ASSUME TypeOK, NEW p \in Staff, StaffStep(p) PROVE TypeOK'
<1> DEFINE i == staff[p].intent
<1>0. /\ intent \in [Intents -> IntentRow] /\ stripe \in [Intents -> Purchase]
      /\ staff \in [Staff -> StaffState] /\ staff[p] \in StaffState
  BY DEF TypeOK
<1>1. NoStaff \in StaffState
  BY DEF NoStaff, StaffState
<1>2. ASSUME NEW j \in Intents, StaffLook(p, j) PROVE TypeOK'
  <2>1. staff' \in [Staff -> StaffState]
    BY <1>0, <1>2 DEF StaffLook, StaffState
  <2> QED BY <1>2, <2>1 DEF TypeOK, StaffLook
<1>3. ASSUME StaffExpire(p) PROVE TypeOK'
  <2>1. \A j \in Intents : [stripe[j] EXCEPT !.session = "expired"] \in Purchase
    BY <1>0, PurchaseUpdate
  <2>2. stripe' \in [Intents -> Purchase]
    BY <1>0, <1>3, <2>1 DEF StaffExpire
  <2>3. [staff[p] EXCEPT !.pc = "write"] \in StaffState
    BY <1>0 DEF StaffState
  <2>4. staff' \in [Staff -> StaffState]
    BY <1>0, <1>3, <2>3 DEF StaffExpire
  <2> QED BY <1>3, <2>2, <2>4 DEF TypeOK, StaffExpire
<1>4. ASSUME StaffWrite(p) PROVE TypeOK'
  <2>1. \A j \in Intents : [intent[j] EXCEPT !.status = "released"] \in IntentRow
    BY <1>0, IntentUpdate
  <2>2. intent' \in [Intents -> IntentRow]
    BY <1>0, <1>4, <2>1 DEF StaffWrite
  <2>3. staff' \in [Staff -> StaffState]
    BY <1>0, <1>1, <1>4 DEF StaffWrite
  <2> QED BY <1>4, <2>2, <2>3 DEF TypeOK, StaffWrite
<1> QED BY <1>2, <1>3, <1>4 DEF StaffStep

LEMMA SweepTypeOK ==
  ASSUME TypeOK, NEW p \in Sweepers, SweepStep(p) PROVE TypeOK'
<1>1. ASSUME SweepRead(p) PROVE TypeOK'
  BY <1>1 DEF TypeOK, SweepRead, Lapsed
<1>2. ASSUME SweepWrite(p) PROVE TypeOK'
  <2>1. \A j \in Intents : [intent[j] EXCEPT !.status = "expired"] \in IntentRow
    BY IntentUpdate DEF TypeOK
  <2>2. intent' \in [Intents -> IntentRow]
    BY <1>2, <2>1 DEF TypeOK, SweepWrite
  <2>3. sweep' \in [Sweepers -> SUBSET Intents]
    BY <1>2 DEF TypeOK, SweepWrite
  <2> QED BY <1>2, <2>2, <2>3 DEF TypeOK, SweepWrite
<1> QED BY <1>1, <1>2 DEF SweepStep

(* Staff editing sponsor rows and codes.                                   *)
LEMMA AdminTypeOK ==
  ASSUME TypeOK, NEW a \in Admins, AdminStep(a) PROVE TypeOK'
<1>0. /\ sponsor \in [Rows -> SponsorRow]
      /\ admin \in [Admins -> AdminState] /\ admin[a] \in AdminState
  BY DEF TypeOK
<1>1. NoAdmin \in AdminState
  BY DEF NoAdmin, AdminState
<1>2. ASSUME NEW op \in AdminOps, NEW r \in Rows, NEW t \in {"exclusive", "silver"},
             AdminBegin(a, op, r, t)
      PROVE TypeOK'
  <2>1. [pc |-> op, row |-> r, tier |-> t] \in AdminState
    BY DEF AdminState
  <2>2. admin' \in [Admins -> AdminState]
    BY <1>0, <1>2, <2>1 DEF AdminBegin
  <2> QED BY <1>2, <2>2 DEF TypeOK, AdminBegin
<1>3. ASSUME AdminCommit(a) PROVE TypeOK'
  <2>1. admin' \in [Admins -> AdminState]
    BY <1>0, <1>1, <1>3 DEF AdminCommit
  <2>2. admin[a].pc \in AdminOps /\ admin[a].tier \in {"exclusive", "silver"}
    BY <1>0, <1>3 DEF AdminCommit, AdminState
  <2>3. \A r \in Rows : AdminWritten(admin[a].pc, r, admin[a].tier) \in SponsorRow
    <3> SUFFICES ASSUME NEW r \in Rows
                 PROVE  AdminWritten(admin[a].pc, r, admin[a].tier) \in SponsorRow
      OBVIOUS
    <3>1. sponsor[r] \in SponsorRow
      BY <1>0
    <3>2. [sponsor[r] EXCEPT !.status = "Active"] \in SponsorRow
      BY <3>1 DEF SponsorRow, Live
    <3>3. [sponsor[r] EXCEPT !.status = "Paused"] \in SponsorRow
      BY <3>1 DEF SponsorRow, Live
    <3>4. [sponsor[r] EXCEPT !.status = "Expired"] \in SponsorRow
      BY <3>1 DEF SponsorRow, Live
    <3>5. NoRow \in SponsorRow
      BY DEF NoRow, SponsorRow
    <3>6. [status |-> "Active", tier |-> admin[a].tier, sub |-> None] \in SponsorRow
      BY <2>2 DEF SponsorRow, Live
    <3> QED BY <2>2, <3>2, <3>3, <3>4, <3>5, <3>6 DEF AdminWritten, AdminOps
  <2>4. sponsor' \in [Rows -> SponsorRow]
    BY <1>0, <1>3, <2>3 DEF AdminCommit
  <2> QED BY <1>3, <2>1, <2>4 DEF TypeOK, AdminCommit
<1> QED BY <1>2, <1>3 DEF AdminStep

LEMMA CodeTypeOK == ASSUME TypeOK, NEW c \in Codes, CodePatched(c) PROVE TypeOK'
BY DEF TypeOK, CodePatched

(* Naming is kept by whoever writes a delivery or a follow-up.             *)
LEMMA NamedKept == ASSUME TypeOK, Named, [Next]_vars PROVE Named'
<1>0. /\ delivery \in [Workers -> Delivery] /\ resolver \in [Resolvers -> Resolver]
  BY DEF TypeOK
<1>1. ASSUME NEW w \in Workers, DeliverStep(w) PROVE Named'
  <2>1. ASSUME NEW i \in Intents, DeliverBegin(w, i) PROVE Named'
    BY <1>0, <2>1 DEF Named, DeliverBegin
  <2>2. ASSUME DeliverConflict(w) \/ DeliverActivate(w) \/ DeliverError(w) PROVE Named'
    BY <1>0, <2>2 DEF Named, DeliverConflict, DeliverActivate, DeliverError, DeliverDone,
      NoDelivery
  <2>3. ASSUME NEW r \in Rows, Revive(w, r) PROVE Named'
    BY <2>3 DEF Named, Revive
  <2> QED BY <1>1, <2>1, <2>2, <2>3 DEF DeliverStep
<1>2. ASSUME NEW p \in Resolvers, ResolveStep(p) PROVE Named'
  <2>1. ASSUME NEW i \in Intents, ResolveBegin(p, i) PROVE Named'
    BY <1>0, <2>1 DEF Named, ResolveBegin
  <2>2. ASSUME ResolveCancel(p) \/ ResolveVoid(p) \/ (\E k \in Invoices : ResolveRefund(p, k))
        PROVE Named'
    <3>1. resolver'[p].intent = resolver[p].intent
      <4>1. resolver[p] \in Resolver
        BY <1>0
      <4>2. \A v : [resolver[p] EXCEPT !.todo = v].intent = resolver[p].intent
        BY <4>1 DEF Resolver
      <4>3. ASSUME ResolveCancel(p) PROVE resolver'[p].intent = resolver[p].intent
        BY <1>0, <4>1, <4>3 DEF ResolveCancel, Resolver
      <4>4. ASSUME ResolveVoid(p) PROVE resolver'[p].intent = resolver[p].intent
        BY <1>0, <4>1, <4>4 DEF ResolveVoid, Resolver
      <4>5. ASSUME NEW k \in Invoices, ResolveRefund(p, k)
            PROVE resolver'[p].intent = resolver[p].intent
        <5>1. resolver'[p] = [resolver[p] EXCEPT !.todo = resolver[p].todo \ {k}]
          BY <1>0, <4>5 DEF ResolveRefund
        <5> QED BY <4>2, <5>1
      <4> QED BY <2>2, <4>3, <4>4, <4>5
    <3>2. resolver[p].pc # "idle"
      BY <2>2 DEF ResolveCancel, ResolveVoid, ResolveRefund
    <3>3. \A q \in Resolvers \ {p} : resolver'[q] = resolver[q]
      BY <1>0, <2>2 DEF ResolveCancel, ResolveVoid, ResolveRefund
    <3>4. UNCHANGED delivery
      BY <2>2 DEF ResolveCancel, ResolveVoid, ResolveRefund
    <3> QED BY <3>1, <3>2, <3>3, <3>4 DEF Named
  <2>3. ASSUME ResolveFinish(p) \/ ResolveAbort(p) PROVE Named'
    BY <1>0, <2>3 DEF Named, ResolveFinish, ResolveAbort, NoResolver
  <2> QED BY <1>2, <2>1, <2>2, <2>3 DEF ResolveStep
<1>3. ASSUME UNCHANGED <<delivery, resolver>> PROVE Named'
  BY <1>3 DEF Named
<1>4. ASSUME NEW i \in Intents, RequestStep(i) \/ BuyerStep(i) \/ DeliverAck(i)
      PROVE UNCHANGED <<delivery, resolver>>
  BY <1>4 DEF RequestStep, OpenRead, OpenRefused, OpenBegin, OpenCommit, OpenLoses, Mint, MintFail, MintCrash,
    BuyerStep, Complete, Renew, Charge, BuyerBack, BuyerReleased, DeliverAck
<1>5. ASSUME \/ Tick \/ (\E p \in Staff : StaffStep(p)) \/ (\E p \in Sweepers : SweepStep(p))
             \/ (\E a \in Admins : AdminStep(a)) \/ (\E c \in Codes : CodePatched(c))
             \/ UNCHANGED vars
      PROVE UNCHANGED <<delivery, resolver>>
  BY <1>5 DEF Tick, StaffStep, StaffLook, StaffExpire, StaffWrite, SweepStep, SweepRead,
    SweepWrite, AdminStep, AdminBegin, AdminCommit, CodePatched, vars
<1> QED BY <1>1, <1>2, <1>3, <1>4, <1>5 DEF Next

LEMMA TypeKept == ASSUME TypeOK, Named, [Next]_vars PROVE TypeOK'
<1>1. CASE Next
  BY <1>1, RequestTypeOK, TickTypeOK, BuyerTypeOK, AckTypeOK, DeliverTypeOK, ResolveTypeOK,
    StaffTypeOK, SweepTypeOK, AdminTypeOK, CodeTypeOK DEF Next
<1>2. CASE UNCHANGED vars
  BY <1>2 DEF TypeOK, vars
<1> QED BY <1>1, <1>2

LEMMA InitNamed == ASSUME Init PROVE Named
BY DEF Init, Named, NoDelivery, NoResolver

(* Every variable keeps its type, the rows a transaction writes by key     *)
(* included.                                                               *)
THEOREM TypeCorrect == Spec => []TypeOK
<1>1. Init => TypeOK /\ Named
  BY InitTypeOK, InitNamed
<1>2. TypeOK /\ Named /\ [Next]_vars => (TypeOK /\ Named)'
  BY TypeKept, NamedKept
<1> QED BY <1>1, <1>2, PTL DEF Spec

(***************************************************************************)
(* Money: what a conflict marked resolved has behind it.                   *)
(***************************************************************************)
(* A session is minted once, and only a paid one has a subscription.       *)
MintedOnce == \A i \in Intents :
  /\ request[i] # "answered" => stripe[i].session = "none"
  /\ stripe[i].sub # "none" => stripe[i].session = "complete"

(* Deliveries, conflicts and follow-ups are about completed sessions.      *)
AfterPayment ==
  /\ \A w \in Workers : delivery[w].verdict # "none"
                          => stripe[delivery[w].intent].session = "complete"
  /\ \A i \in Intents : intent[i].status = "conflict" => stripe[i].session = "complete"
  /\ \A p \in Resolvers : resolver[p].pc # "idle"
                            => stripe[resolver[p].intent].session = "complete"

(* A follow-up past its cancel deals with a subscription that is over, and *)
(* past its void with a bill on which nothing is open, every paid invoice  *)
(* still on its list.                                                      *)
FollowUp == \A p \in Resolvers :
  /\ resolver[p].pc \in {"void", "refund"} => stripe[resolver[p].intent].sub = "canceled"
  /\ resolver[p].pc = "refund" => \A k \in Invoices :
       /\ bill[resolver[p].intent][k] # "open"
       /\ bill[resolver[p].intent][k] = "paid" => k \in resolver[p].todo

MoneyInv == TypeOK /\ Named /\ MintedOnce /\ AfterPayment /\ FollowUp
            /\ RefundAfterCancel /\ ResolvedIsReturned

(* A step that leaves Stripe alone may end deliveries and follow-ups, move *)
(* requests forward, and write intents as the invariant allows.            *)
LEMMA MoneyFrame ==
  ASSUME MoneyInv, TypeOK', Named', UNCHANGED <<stripe, bill>>,
         \A i \in Intents : intent'[i].status = "conflict" => stripe[i].session = "complete",
         \A i \in Intents : intent'[i].resolved => Returned(i),
         \A i \in Intents : request'[i] # "answered" => request[i] # "answered",
         \A w \in Workers : delivery'[w].verdict # "none" => delivery'[w] = delivery[w],
         \A p \in Resolvers : resolver'[p].pc # "idle" => resolver'[p] = resolver[p]
  PROVE  MoneyInv'
<1>1. MintedOnce'
  BY DEF MoneyInv, MintedOnce
<1>2. AfterPayment'
  BY DEF MoneyInv, AfterPayment
<1>3. FollowUp'
  BY DEF MoneyInv, FollowUp
<1>4. RefundAfterCancel' /\ ResolvedIsReturned'
  BY DEF MoneyInv, RefundAfterCancel, ResolvedIsReturned, Returned
<1> QED BY <1>1, <1>2, <1>3, <1>4 DEF MoneyInv

(* A step that only closes sessions.                                       *)
LEMMA MoneyClose ==
  ASSUME MoneyInv, TypeOK', Named', UNCHANGED <<bill, intent, request, delivery, resolver>>,
         \A i \in Intents : /\ stripe'[i].sub = stripe[i].sub
                            /\ \/ stripe'[i].session = stripe[i].session
                               \/ stripe[i].session \in {"open", "expired"}
                                  /\ stripe'[i].session = "expired"
  PROVE  MoneyInv'
<1>0. \A i \in Intents : stripe[i].session = "complete" => stripe'[i].session = "complete"
  OBVIOUS
<1>1. MintedOnce'
  BY DEF MoneyInv, MintedOnce
<1>2. AfterPayment'
  BY <1>0 DEF MoneyInv, AfterPayment, Named
<1>3. FollowUp'
  BY DEF MoneyInv, FollowUp, Named
<1>4. RefundAfterCancel' /\ ResolvedIsReturned'
  BY DEF MoneyInv, RefundAfterCancel, ResolvedIsReturned, Returned
<1> QED BY <1>1, <1>2, <1>3, <1>4 DEF MoneyInv

LEMMA MoneyRequest ==
  ASSUME MoneyInv, TypeOK', Named', NEW i \in Intents, RequestStep(i) PROVE MoneyInv'
<1>0. /\ intent \in [Intents -> IntentRow] /\ stripe \in [Intents -> Purchase]
      /\ request \in [Intents -> {"idle", "reading", "opening", "minting", "answered"}]
  BY DEF MoneyInv, TypeOK
<1>a. \A j \in Intents : /\ intent[j].status = "conflict" => stripe[j].session = "complete"
                         /\ intent[j].resolved => Returned(j)
  BY DEF MoneyInv, AfterPayment, ResolvedIsReturned
<1>1. ASSUME \/ \E s \in Slots, b \in Buyers, c \in Codes \cup {None} : OpenBegin(i, s, b, c)
             \/ OpenRead(i) \/ OpenRefused(i)
      PROVE MoneyInv'
  <2>1. \A j \in Intents : request'[j] # "answered" => request[j] # "answered"
    BY <1>0, <1>1 DEF OpenBegin, OpenRead, OpenRefused
  <2> QED BY <1>1, <1>a, <2>1, MoneyFrame DEF OpenBegin, OpenRead, OpenRefused
<1>2. ASSUME OpenCommit(i) PROVE MoneyInv'
  <2>1. \A j \in Intents : request'[j] # "answered" => request[j] # "answered"
    BY <1>0, <1>2 DEF OpenCommit
  <2>2. \A j \in Intents : /\ intent'[j].status = "conflict" => intent[j].status = "conflict"
                           /\ intent'[j].resolved => intent[j].resolved
    <3> TAKE j \in Intents
    <3>1. CASE j = i
      BY <1>2, <3>1 DEF OpenCommit, NoIntent
    <3>2. CASE j # i
      BY <1>0, <1>2, <3>2 DEF OpenCommit, IntentRow
    <3> QED BY <3>1, <3>2
  <2> QED BY <1>2, <1>a, <2>1, <2>2, MoneyFrame DEF OpenCommit
<1>3. ASSUME OpenLoses(i) PROVE MoneyInv'
  <2>1. \A j \in Intents : request'[j] # "answered" => request[j] # "answered"
    BY <1>0, <1>3 DEF OpenLoses
  <2> QED BY <1>3, <1>a, <2>1, MoneyFrame DEF OpenLoses
<1>4. ASSUME Mint(i) PROVE MoneyInv'
  <2>1. /\ stripe[i].session = "none" /\ stripe[i].sub = "none"
    BY <1>0, <1>4 DEF Mint, MoneyInv, MintedOnce, Purchase
  <2>2. /\ stripe'[i].session = "open" /\ stripe'[i].sub = "none"
        /\ \A j \in Intents \ {i} : stripe'[j] = stripe[j]
    BY <1>0, <1>4, <2>1 DEF Mint, Purchase
  <2>3. \A j \in Intents : /\ intent'[j].status = intent[j].status
                           /\ intent'[j].resolved = intent[j].resolved
    BY <1>0, <1>4 DEF Mint, IntentRow
  <2>4. /\ request'[i] = "answered" /\ \A j \in Intents \ {i} : request'[j] = request[j]
        /\ UNCHANGED <<bill, delivery, resolver>>
    BY <1>0, <1>4 DEF Mint
  <2>5. MintedOnce'
    BY <2>2, <2>4 DEF MoneyInv, MintedOnce
  <2>6. AfterPayment'
    BY <2>1, <2>2, <2>3, <2>4 DEF MoneyInv, AfterPayment, Named
  <2>7. FollowUp'
    BY <2>1, <2>2, <2>4 DEF MoneyInv, FollowUp, Named
  <2>8. RefundAfterCancel' /\ ResolvedIsReturned'
    BY <2>1, <2>2, <2>3, <2>4 DEF MoneyInv, RefundAfterCancel, ResolvedIsReturned, Returned
  <2> QED BY <2>5, <2>6, <2>7, <2>8 DEF MoneyInv
<1>5. ASSUME MintFail(i) PROVE MoneyInv'
  <2>1. \A j \in Intents : request'[j] # "answered" => request[j] # "answered"
    BY <1>0, <1>5 DEF MintFail
  <2>2. \A j \in Intents : /\ intent'[j].status = "conflict" => intent[j].status = "conflict"
                           /\ intent'[j].resolved => intent[j].resolved
    BY <1>0, <1>5 DEF MintFail, IntentRow
  <2> QED BY <1>5, <1>a, <2>1, <2>2, MoneyFrame DEF MintFail
<1>6. ASSUME MintCrash(i) PROVE MoneyInv'
  <2>1. \A j \in Intents : request'[j] # "answered" => request[j] # "answered"
    BY <1>0, <1>6 DEF MintCrash
  <2> QED BY <1>6, <1>a, <2>1, MoneyFrame DEF MintCrash
<1> QED BY <1>1, <1>2, <1>3, <1>4, <1>5, <1>6 DEF RequestStep

LEMMA MoneyTick == ASSUME MoneyInv, TypeOK', Named', Tick PROVE MoneyInv'
<1>1. \A i \in Intents : /\ stripe'[i].sub = stripe[i].sub
                         /\ \/ stripe'[i].session = stripe[i].session
                            \/ stripe[i].session \in {"open", "expired"}
                               /\ stripe'[i].session = "expired"
  BY DEF MoneyInv, TypeOK, Tick, Purchase
<1> QED BY <1>1, MoneyClose DEF Tick

LEMMA MoneyBuyer ==
  ASSUME MoneyInv, TypeOK', Named', NEW i \in Intents, BuyerStep(i) PROVE MoneyInv'
<1>0. /\ intent \in [Intents -> IntentRow] /\ stripe \in [Intents -> Purchase]
      /\ bill \in [Intents -> Bills]
  BY DEF MoneyInv, TypeOK
<1>a. \A j \in Intents : /\ intent[j].status = "conflict" => stripe[j].session = "complete"
                         /\ intent[j].resolved => Returned(j)
  BY DEF MoneyInv, AfterPayment, ResolvedIsReturned
<1>1. ASSUME NEW cleared \in BOOLEAN, NEW amountOk \in BOOLEAN, Complete(i, cleared, amountOk)
      PROVE MoneyInv'
  <2>1. /\ stripe[i].session = "open" /\ stripe[i].sub = "none"
    BY <1>0, <1>1 DEF Complete, Payable, MoneyInv, MintedOnce, Purchase
  <2>2. /\ stripe'[i].session = "complete"
        /\ \A j \in Intents \ {i} : stripe'[j] = stripe[j] /\ bill'[j] = bill[j]
    BY <1>0, <1>1 DEF Complete
  <2>3. \A k \in Invoices : bill'[i][k] = "refunded" => bill[i][k] = "refunded"
    BY <1>0, <1>1 DEF Complete, Bills
  <2>4. UNCHANGED <<intent, request, delivery, resolver>>
    BY <1>1 DEF Complete
  <2>5. MintedOnce'
    BY <2>1, <2>2, <2>4 DEF MoneyInv, MintedOnce
  <2>6. AfterPayment'
    BY <2>2, <2>4 DEF MoneyInv, AfterPayment, Named
  <2>7. FollowUp'
    BY <2>1, <2>2, <2>4 DEF MoneyInv, FollowUp, Named, AfterPayment
  <2>8. RefundAfterCancel' /\ ResolvedIsReturned'
    BY <2>1, <2>2, <2>3, <2>4 DEF MoneyInv, RefundAfterCancel, ResolvedIsReturned, Returned
  <2> QED BY <2>5, <2>6, <2>7, <2>8 DEF MoneyInv
<1>2. ASSUME NEW k \in Invoices, Renew(i, k) \/ Charge(i, k) PROVE MoneyInv'
  <2>1. /\ UNCHANGED <<intent, stripe, request, delivery, resolver>>
        /\ \A j \in Intents \ {i} : bill'[j] = bill[j]
        /\ \A m \in Invoices \ {k} : bill'[i][m] = bill[i][m]
        /\ bill'[i][k] # "refunded"
    BY <1>0, <1>2 DEF Renew, Charge, Bills
  <2>2. stripe[i].sub = "active" \/ bill[i][k] = "open"
    BY <1>2 DEF Renew, Charge
  <2>3. MintedOnce' /\ AfterPayment'
    BY <2>1 DEF MoneyInv, MintedOnce, AfterPayment
  <2>4. FollowUp'
    BY <2>1, <2>2 DEF MoneyInv, FollowUp, Named
  <2>5. RefundAfterCancel' /\ ResolvedIsReturned'
    BY <2>1, <2>2 DEF MoneyInv, RefundAfterCancel, ResolvedIsReturned, Returned
  <2> QED BY <2>3, <2>4, <2>5 DEF MoneyInv
<1>3. ASSUME BuyerBack(i) PROVE MoneyInv'
  <2>1. \A j \in Intents : /\ stripe'[j].sub = stripe[j].sub
                           /\ \/ stripe'[j].session = stripe[j].session
                              \/ stripe[j].session \in {"open", "expired"}
                                 /\ stripe'[j].session = "expired"
    BY <1>0, <1>3 DEF BuyerBack, Purchase
  <2> QED BY <1>3, <2>1, MoneyClose DEF BuyerBack
<1>4. ASSUME BuyerReleased(i) PROVE MoneyInv'
  <2>1. \A j \in Intents : /\ intent'[j].status = "conflict" => intent[j].status = "conflict"
                           /\ intent'[j].resolved => intent[j].resolved
    BY <1>0, <1>4 DEF BuyerReleased, IntentRow
  <2> QED BY <1>4, <1>a, <2>1, MoneyFrame DEF BuyerReleased
<1> QED BY <1>1, <1>2, <1>3, <1>4 DEF BuyerStep

LEMMA MoneyDeliver ==
  ASSUME MoneyInv, TypeOK', Named', NEW w \in Workers, DeliverStep(w) PROVE MoneyInv'
<1>0. /\ intent \in [Intents -> IntentRow] /\ delivery \in [Workers -> Delivery]
  BY DEF MoneyInv, TypeOK
<1>a. \A j \in Intents : /\ intent[j].status = "conflict" => stripe[j].session = "complete"
                         /\ intent[j].resolved => Returned(j)
  BY DEF MoneyInv, AfterPayment, ResolvedIsReturned
<1>1. ASSUME NEW i \in Intents, DeliverBegin(w, i) PROVE MoneyInv'
  <2>1. /\ UNCHANGED <<intent, stripe, bill, request, resolver>>
        /\ stripe[i].session = "complete" /\ delivery'[w].intent = i
        /\ \A v \in Workers \ {w} : delivery'[v] = delivery[v]
    BY <1>0, <1>1 DEF DeliverBegin, Delivered
  <2>2. MintedOnce' /\ AfterPayment' /\ FollowUp'
    BY <2>1 DEF MoneyInv, MintedOnce, AfterPayment, FollowUp
  <2>3. RefundAfterCancel' /\ ResolvedIsReturned'
    BY <2>1 DEF MoneyInv, RefundAfterCancel, ResolvedIsReturned, Returned
  <2> QED BY <2>2, <2>3 DEF MoneyInv
<1>b. ASSUME DeliverConflict(w) \/ DeliverActivate(w) \/ DeliverError(w)
      PROVE  \A v \in Workers : delivery'[v].verdict # "none" => delivery'[v] = delivery[v]
  BY <1>0, <1>b DEF DeliverConflict, DeliverActivate, DeliverError, DeliverDone, NoDelivery
<1>2. ASSUME DeliverConflict(w) PROVE MoneyInv'
  <2> DEFINE i == delivery[w].intent
  <2>1. i \in Intents /\ stripe[i].session = "complete"
    BY <1>2 DEF DeliverConflict, MoneyInv, Named, AfterPayment
  <2>2. \A j \in Intents : /\ intent'[j].status = "conflict" => stripe[j].session = "complete"
                           /\ intent'[j].resolved => intent[j].resolved
    <3> TAKE j \in Intents
    <3>1. CASE j = i
      <4>1. intent'[i].resolved = (intent[i].resolved /\ ~delivery[w].stamped)
        BY <1>0, <1>2, <2>1 DEF DeliverConflict, IntentRow
      <4> QED BY <2>1, <3>1, <4>1
    <3>2. CASE j # i
      BY <1>0, <1>2, <1>a, <3>2 DEF DeliverConflict
    <3> QED BY <3>1, <3>2
  <2> QED BY <1>2, <1>a, <1>b, <2>2, MoneyFrame DEF DeliverConflict
<1>3. ASSUME DeliverActivate(w) PROVE MoneyInv'
  <2>1. \A j \in Intents : /\ intent'[j].status = "conflict" => intent[j].status = "conflict"
                           /\ intent'[j].resolved => intent[j].resolved
    BY <1>0, <1>3 DEF DeliverActivate, IntentRow
  <2> QED BY <1>3, <1>a, <1>b, <2>1, MoneyFrame DEF DeliverActivate
<1>4. ASSUME DeliverError(w) PROVE MoneyInv'
  BY <1>4, <1>a, <1>b, MoneyFrame DEF DeliverError
<1>5. ASSUME NEW r \in Rows, Revive(w, r) PROVE MoneyInv'
  BY <1>5, <1>a, MoneyFrame DEF Revive
<1> QED BY <1>1, <1>2, <1>3, <1>4, <1>5 DEF DeliverStep

LEMMA MoneyResolve ==
  ASSUME MoneyInv, TypeOK', Named', NEW p \in Resolvers, ResolveStep(p) PROVE MoneyInv'
<1> DEFINE i == resolver[p].intent
<1>0. /\ intent \in [Intents -> IntentRow] /\ stripe \in [Intents -> Purchase]
      /\ bill \in [Intents -> Bills]
      /\ resolver \in [Resolvers -> Resolver] /\ resolver[p] \in Resolver
  BY DEF MoneyInv, TypeOK
<1>a. \A j \in Intents : /\ intent[j].status = "conflict" => stripe[j].session = "complete"
                         /\ intent[j].resolved => Returned(j)
  BY DEF MoneyInv, AfterPayment, ResolvedIsReturned
<1>1. ASSUME NEW j \in Intents, ResolveBegin(p, j) PROVE MoneyInv'
  <2>1. /\ UNCHANGED <<intent, stripe, bill, request, delivery>>
        /\ resolver'[p] = [pc |-> "cancel", intent |-> j, todo |-> {}]
        /\ \A q \in Resolvers \ {p} : resolver'[q] = resolver[q]
        /\ stripe[j].session = "complete"
    BY <1>0, <1>1, <1>a DEF ResolveBegin
  <2>2. MintedOnce' /\ AfterPayment' /\ FollowUp'
    BY <2>1 DEF MoneyInv, MintedOnce, AfterPayment, FollowUp
  <2>3. RefundAfterCancel' /\ ResolvedIsReturned'
    BY <2>1 DEF MoneyInv, RefundAfterCancel, ResolvedIsReturned, Returned
  <2> QED BY <2>2, <2>3 DEF MoneyInv
<1>2. ASSUME ResolveCancel(p) PROVE MoneyInv'
  <2>1. /\ i \in Intents /\ stripe[i].session = "complete"
    BY <1>2 DEF ResolveCancel, MoneyInv, Named, AfterPayment
  <2>2. /\ stripe'[i].sub = "canceled" /\ stripe'[i].session = "complete"
        /\ \A j \in Intents \ {i} : stripe'[j] = stripe[j]
    BY <1>0, <1>2, <2>1 DEF ResolveCancel, Purchase
  <2>3. /\ resolver'[p].pc = "void" /\ resolver'[p].intent = i
        /\ \A q \in Resolvers \ {p} : resolver'[q] = resolver[q]
        /\ UNCHANGED <<intent, bill, request, delivery>>
    BY <1>0, <1>2 DEF ResolveCancel, Resolver
  <2>4. MintedOnce'
    BY <2>1, <2>2, <2>3 DEF MoneyInv, MintedOnce
  <2>5. AfterPayment'
    BY <2>1, <2>2, <2>3 DEF MoneyInv, AfterPayment, Named
  <2>6. FollowUp'
    BY <2>1, <2>2, <2>3 DEF MoneyInv, FollowUp, Named
  <2>7. RefundAfterCancel' /\ ResolvedIsReturned'
    BY <2>1, <2>2, <2>3 DEF MoneyInv, RefundAfterCancel, ResolvedIsReturned, Returned
  <2> QED BY <2>4, <2>5, <2>6, <2>7 DEF MoneyInv
<1>3. ASSUME ResolveVoid(p) PROVE MoneyInv'
  <2>1. i \in Intents /\ stripe[i].sub = "canceled"
    BY <1>3 DEF ResolveVoid, MoneyInv, Named, FollowUp
  <2>2. /\ \A j \in Intents \ {i} : bill'[j] = bill[j]
        /\ \A k \in Invoices : bill'[i][k] = IF bill[i][k] = "open" THEN "void" ELSE bill[i][k]
    BY <1>0, <1>3, <2>1 DEF ResolveVoid
  <2>3. /\ resolver'[p].pc = "refund" /\ resolver'[p].intent = i
        /\ resolver'[p].todo = {k \in Invoices : bill[i][k] = "paid"}
        /\ \A q \in Resolvers \ {p} : resolver'[q] = resolver[q]
        /\ resolver[p].pc = "void"
        /\ UNCHANGED <<intent, stripe, request, delivery>>
    BY <1>0, <1>3 DEF ResolveVoid, Resolver
  <2>4. MintedOnce' /\ AfterPayment'
    BY <2>3 DEF MoneyInv, MintedOnce, AfterPayment
  <2>5. FollowUp'
    BY <2>1, <2>2, <2>3 DEF MoneyInv, FollowUp, Named
  <2>6. RefundAfterCancel' /\ ResolvedIsReturned'
    BY <2>1, <2>2, <2>3 DEF MoneyInv, RefundAfterCancel, ResolvedIsReturned, Returned
  <2> QED BY <2>4, <2>5, <2>6 DEF MoneyInv
<1>4. ASSUME NEW k \in Invoices, ResolveRefund(p, k) PROVE MoneyInv'
  <2>1. i \in Intents /\ stripe[i].sub = "canceled"
    BY <1>4 DEF ResolveRefund, MoneyInv, Named, FollowUp
  <2>2. /\ \A j \in Intents \ {i} : bill'[j] = bill[j]
        /\ bill'[i][k] = "refunded" /\ \A m \in Invoices \ {k} : bill'[i][m] = bill[i][m]
    BY <1>0, <1>4, <2>1 DEF ResolveRefund, Bills
  <2>3. resolver'[p] = [resolver[p] EXCEPT !.todo = resolver[p].todo \ {k}]
    BY <1>0, <1>4 DEF ResolveRefund
  <2>4. /\ resolver'[p].pc = "refund" /\ resolver'[p].intent = i
        /\ resolver'[p].todo = resolver[p].todo \ {k}
        /\ \A q \in Resolvers \ {p} : resolver'[q] = resolver[q]
        /\ resolver[p].pc = "refund"
        /\ UNCHANGED <<intent, stripe, request, delivery>>
    BY <1>0, <1>4, <2>3 DEF ResolveRefund, Resolver
  <2>5. MintedOnce' /\ AfterPayment'
    BY <2>4 DEF MoneyInv, MintedOnce, AfterPayment
  <2>6. FollowUp'
    BY <2>1, <2>2, <2>4 DEF MoneyInv, FollowUp, Named
  <2>7. RefundAfterCancel' /\ ResolvedIsReturned'
    BY <2>1, <2>2, <2>4 DEF MoneyInv, RefundAfterCancel, ResolvedIsReturned, Returned
  <2> QED BY <2>5, <2>6, <2>7 DEF MoneyInv
<1>5. ASSUME ResolveFinish(p) \/ ResolveAbort(p) PROVE MoneyInv'
  <2>1. \A q \in Resolvers : resolver'[q].pc # "idle" => resolver'[q] = resolver[q]
    BY <1>0, <1>5 DEF ResolveFinish, ResolveAbort, NoResolver
  <2>2. CASE ResolveFinish(p)
    <3>1. Returned(i) /\ i \in Intents
      BY <2>2 DEF ResolveFinish, Returned, MoneyInv, FollowUp, Named
    <3>2. \A j \in Intents : /\ intent'[j].status = intent[j].status
                             /\ intent'[j].resolved => intent[j].resolved \/ j = i
      BY <1>0, <2>2 DEF ResolveFinish, IntentRow
    <3> QED BY <1>a, <2>1, <2>2, <3>1, <3>2, MoneyFrame DEF ResolveFinish
  <2>3. CASE ResolveAbort(p)
    BY <1>a, <2>1, <2>3, MoneyFrame DEF ResolveAbort
  <2> QED BY <1>5, <2>2, <2>3
<1> QED BY <1>1, <1>2, <1>3, <1>4, <1>5 DEF ResolveStep

LEMMA MoneyStaff ==
  ASSUME MoneyInv, TypeOK', Named', NEW p \in Staff, StaffStep(p) PROVE MoneyInv'
<1>0. /\ intent \in [Intents -> IntentRow] /\ stripe \in [Intents -> Purchase]
  BY DEF MoneyInv, TypeOK
<1>a. \A j \in Intents : /\ intent[j].status = "conflict" => stripe[j].session = "complete"
                         /\ intent[j].resolved => Returned(j)
  BY DEF MoneyInv, AfterPayment, ResolvedIsReturned
<1>1. ASSUME NEW j \in Intents, StaffLook(p, j) PROVE MoneyInv'
  BY <1>1, <1>a, MoneyFrame DEF StaffLook
<1>2. ASSUME StaffExpire(p) PROVE MoneyInv'
  <2>1. \A j \in Intents : /\ stripe'[j].sub = stripe[j].sub
                           /\ \/ stripe'[j].session = stripe[j].session
                              \/ stripe[j].session \in {"open", "expired"}
                                 /\ stripe'[j].session = "expired"
    BY <1>0, <1>2 DEF StaffExpire, Purchase
  <2> QED BY <1>2, <2>1, MoneyClose DEF StaffExpire
<1>3. ASSUME StaffWrite(p) PROVE MoneyInv'
  <2>1. \A j \in Intents : /\ intent'[j].status = "conflict" => intent[j].status = "conflict"
                           /\ intent'[j].resolved => intent[j].resolved
    BY <1>0, <1>3 DEF StaffWrite, IntentRow
  <2> QED BY <1>3, <1>a, <2>1, MoneyFrame DEF StaffWrite
<1> QED BY <1>1, <1>2, <1>3 DEF StaffStep

LEMMA MoneyOthers ==
  ASSUME MoneyInv, TypeOK', Named',
         \/ \E i \in Intents : DeliverAck(i)
         \/ \E p \in Sweepers : SweepStep(p)
         \/ \E a \in Admins : AdminStep(a)
         \/ \E c \in Codes : CodePatched(c)
         \/ UNCHANGED vars
  PROVE  MoneyInv'
<1>a. \A j \in Intents : /\ intent[j].status = "conflict" => stripe[j].session = "complete"
                         /\ intent[j].resolved => Returned(j)
  BY DEF MoneyInv, AfterPayment, ResolvedIsReturned
<1>1. ASSUME NEW p \in Sweepers, SweepWrite(p) PROVE MoneyInv'
  <2>1. \A j \in Intents : /\ intent'[j].status = "conflict" => intent[j].status = "conflict"
                           /\ intent'[j].resolved => intent[j].resolved
    BY <1>1 DEF SweepWrite, MoneyInv, TypeOK, IntentRow
  <2> QED BY <1>1, <1>a, <2>1, MoneyFrame DEF SweepWrite
<1>2. ASSUME UNCHANGED <<intent, stripe, bill, request, delivery, resolver>> PROVE MoneyInv'
  BY <1>2, <1>a, MoneyFrame
<1> QED BY <1>1, <1>2 DEF DeliverAck, SweepStep, SweepRead, AdminStep, AdminBegin, AdminCommit,
  CodePatched, vars

LEMMA InitMoney == ASSUME Init PROVE MoneyInv
<1>1. TypeOK /\ Named
  BY InitTypeOK, InitNamed
<1>2. MintedOnce /\ AfterPayment /\ FollowUp /\ RefundAfterCancel /\ ResolvedIsReturned
  BY DEF Init, MintedOnce, AfterPayment, FollowUp, RefundAfterCancel, ResolvedIsReturned,
    NoStripe, NoDelivery, NoResolver, NoIntent
<1> QED BY <1>1, <1>2 DEF MoneyInv

LEMMA MoneyKept == ASSUME MoneyInv, [Next]_vars PROVE MoneyInv'
<1>1. TypeOK' /\ Named'
  BY TypeKept, NamedKept DEF MoneyInv
<1>2. CASE Next
  BY <1>1, <1>2, MoneyTick, MoneyRequest, MoneyBuyer, MoneyDeliver, MoneyResolve, MoneyStaff,
    MoneyOthers DEF Next
<1>3. CASE UNCHANGED vars
  BY <1>1, <1>3, MoneyOthers
<1> QED BY <1>2, <1>3

(* Money goes back only after the subscription is over, whatever the       *)
(* follow-ups of one conflict do at the same time.                         *)
THEOREM RefundsFollowCancel == Spec => []RefundAfterCancel
<1>1. Init => MoneyInv
  BY InitMoney
<1>2. MoneyInv /\ [Next]_vars => MoneyInv'
  BY MoneyKept
<1>3. MoneyInv => RefundAfterCancel
  BY DEF MoneyInv
<1> QED BY <1>1, <1>2, <1>3, PTL DEF Spec

(* A resolved conflict owes nothing, in every interleaving of deliveries,  *)
(* follow-ups, renewals, failures, staff and sweeps.                       *)
THEOREM ResolvedOwesNothing == Spec => []ResolvedIsReturned
<1>1. Init => MoneyInv
  BY InitMoney
<1>2. MoneyInv /\ [Next]_vars => MoneyInv'
  BY MoneyKept
<1>3. MoneyInv => ResolvedIsReturned
  BY DEF MoneyInv
<1> QED BY <1>1, <1>2, <1>3, PTL DEF Spec

(***************************************************************************)
(* The hold behind a payable session, when no staff member releases holds. *)
(***************************************************************************)
(* While the request can still mint, or the session can still be paid, the *)
(* hold is open; a buyer's release works on a session that is closed.      *)
HoldStands == \A i \in Intents :
  /\ request[i] = "minting" /\ now < SessionEnd(i) => Open(i)
  /\ Payable(i) => Open(i)
  /\ i \in backing => stripe[i].session \in {"expired", "complete"}

(* What a request or a sweep is about to expire has lapsed, and its row    *)
(* will not be opened again.                                               *)
Asked(j) == request[j] \in {"minting", "answered"}
OnlyLapsed ==
  /\ \A j \in Intents : Open(j) => Asked(j)
  /\ \A i, j \in Intents : j \in draft[i].lapsed => intent[j].until < now /\ Asked(j)
  /\ \A p \in Sweepers : \A j \in sweep[p] : intent[j].until < now /\ Asked(j)

HeldInv == MoneyInv /\ HoldStands /\ OnlyLapsed

(* A hold's session never outlives it.                                     *)
LEMMA SessionInsideHold ==
  ASSUME TypeOK, NEW i \in Intents PROVE intent[i].until < now => ~(now < SessionEnd(i))
<1>1. intent[i].until \in Nat /\ now \in Nat /\ GraceTicks \in Nat
  BY CheckoutAssumption DEF TypeOK, IntentRow
<1> QED BY <1>1 DEF SessionEnd

(* A step that opens neither a hold nor a session, and closes a hold only  *)
(* when it has lapsed or its request and its session are past.             *)
LEMMA HeldFrame ==
  ASSUME HeldInv, MoneyInv', now' = now,
         \A j \in Intents : intent'[j].until = intent[j].until,
         \A j \in Intents : intent'[j].status = "open" => intent[j].status = "open",
         \A j \in Intents : \/ intent[j].status = "open" => intent'[j].status = "open"
                            \/ intent[j].until < now
                            \/ stripe'[j].session # "open" /\ request'[j] # "minting",
         \A j \in Intents : request'[j] = "minting" => request[j] = "minting",
         \A j \in Intents : Asked(j) => request'[j] \in {"minting", "answered"},
         \A j \in Intents : stripe'[j].session = "open" => stripe[j].session = "open",
         \A j \in backing' : stripe'[j].session \in {"expired", "complete"},
         \A i \in Intents : draft'[i].lapsed \subseteq draft[i].lapsed,
         \A p \in Sweepers : sweep'[p] \subseteq sweep[p]
  PROVE  HeldInv'
<1>0. \A j \in Intents : intent[j].until < now => ~(now < SessionEnd(j))
  BY SessionInsideHold DEF HeldInv, MoneyInv
<1>a. \A i \in Intents : draft'[i].lapsed \subseteq Intents
  BY DEF MoneyInv, TypeOK, Draft
<1>b. \A p \in Sweepers : sweep'[p] \subseteq Intents
  BY DEF MoneyInv, TypeOK
<1>1. HoldStands'
  <2> SUFFICES ASSUME NEW j \in Intents
               PROVE  /\ (request[j] = "minting" /\ now < SessionEnd(j) => Open(j))'
                      /\ (Payable(j) => Open(j))'
                      /\ (j \in backing => stripe[j].session \in {"expired", "complete"})'
    BY DEF HoldStands
  <2>1. (now < SessionEnd(j))' = (now < SessionEnd(j))
    BY DEF SessionEnd
  <2> QED BY <1>0, <2>1 DEF HeldInv, HoldStands, Payable, Open
<1>2. OnlyLapsed'
  BY <1>a, <1>b DEF HeldInv, OnlyLapsed, Asked, Open
<1> QED BY <1>1, <1>2 DEF HeldInv

LEMMA HeldRequest ==
  ASSUME HeldInv, MoneyInv', NEW i \in Intents, RequestStep(i) PROVE HeldInv'
<1>0. /\ intent \in [Intents -> IntentRow] /\ stripe \in [Intents -> Purchase]
      /\ request \in [Intents -> {"idle", "reading", "opening", "minting", "answered"}]
      /\ draft \in [Intents -> Draft]
  BY DEF HeldInv, MoneyInv, TypeOK
<1>a. \A j \in Intents : intent[j].until < now => ~(now < SessionEnd(j))
  BY SessionInsideHold DEF HeldInv, MoneyInv
<1>b. \A j \in backing : stripe[j].session \in {"expired", "complete"} /\ j \in Intents
  BY DEF HeldInv, HoldStands, MoneyInv, TypeOK
<1>1. ASSUME \/ \E s \in Slots, b \in Buyers, c \in Codes \cup {None} : OpenBegin(i, s, b, c)
             \/ OpenRead(i)
      PROVE HeldInv'
  <2>1. /\ UNCHANGED <<now, intent, stripe, backing, sweep>>
        /\ request[i] \in {"idle", "reading"} /\ request'[i] \in {"reading", "opening"}
        /\ \A j \in Intents \ {i} : request'[j] = request[j] /\ draft'[j] = draft[j]
        /\ draft'[i].lapsed = Lapsed \/ draft'[i].lapsed = draft[i].lapsed
    <3>1. CASE OpenRead(i)
      BY <1>0, <3>1, SelectedIs DEF OpenRead, HeldInv, MoneyInv
    <3> QED BY <1>1, <3>1, BeginIs DEF HeldInv, MoneyInv
  <2>2. HoldStands'
    BY <2>1 DEF HeldInv, HoldStands, Payable, Open, SessionEnd
  <2>3. OnlyLapsed'
    <3>1. \A j \in Intents : Asked(j) => Asked(j)'
      BY <2>1 DEF Asked
    <3>2. \A j \in Intents : Open(j)' => Open(j) /\ Asked(j)'
      BY <2>1, <3>1 DEF HeldInv, OnlyLapsed, Open
    <3>3. \A j \in Intents : j \in Lapsed => intent'[j].until < now' /\ Asked(j)'
      BY <2>1, <3>1 DEF HeldInv, OnlyLapsed, Lapsed
    <3>4. \A k, j \in Intents : j \in draft'[k].lapsed => intent'[j].until < now' /\ Asked(j)'
      <4>1. \A k, j \in Intents : j \in draft'[k].lapsed => j \in draft[k].lapsed \/ j \in Lapsed
        BY <2>1
      <4> QED BY <2>1, <3>1, <3>3, <4>1 DEF HeldInv, OnlyLapsed
    <3>5. \A p \in Sweepers : sweep[p] \subseteq Intents
      BY DEF HeldInv, MoneyInv, TypeOK
    <3>6. \A p \in Sweepers : \A j \in sweep'[p] : intent'[j].until < now' /\ Asked(j)'
      BY <2>1, <3>1, <3>5 DEF HeldInv, OnlyLapsed
    <3> QED BY <3>2, <3>4, <3>6 DEF OnlyLapsed
  <2> QED BY <2>2, <2>3 DEF HeldInv
<1>2. ASSUME OpenCommit(i) PROVE HeldInv'
  <2>1. /\ UNCHANGED <<now, stripe, backing, sweep>> /\ request[i] = "opening"
        /\ request'[i] = "minting" /\ \A j \in Intents \ {i} : request'[j] = request[j]
        /\ draft'[i].lapsed = {} /\ \A j \in Intents \ {i} : draft'[j] = draft[j]
    BY <1>0, <1>2 DEF OpenCommit, NoDraft
  <2>2. intent'[i].status = "open"
    BY <1>2 DEF OpenCommit, NoIntent
  <2>3. \A j \in Intents \ {i} :
          /\ intent'[j].until = intent[j].until
          /\ intent'[j].status = "open" => intent[j].status = "open"
          /\ intent[j].status = "open" => intent'[j].status = "open" \/ intent[j].until < now
    <3> TAKE j \in Intents \ {i}
    <3>1. CASE j \in draft[i].lapsed
      <4>1. intent[j].until < now
        BY <3>1 DEF HeldInv, OnlyLapsed
      <4>2. intent'[j] = [intent[j] EXCEPT !.status = "expired"]
        BY <1>2, <3>1 DEF OpenCommit
      <4> QED BY <1>0, <4>1, <4>2 DEF IntentRow
    <3>2. CASE j \notin draft[i].lapsed
      BY <1>2, <3>2 DEF OpenCommit
    <3> QED BY <3>1, <3>2
  <2>4. stripe[i].session = "none"
    BY <2>1 DEF HeldInv, MoneyInv, MintedOnce
  <2>5. HoldStands'
    <3> SUFFICES ASSUME NEW j \in Intents
                 PROVE  /\ (request[j] = "minting" /\ now < SessionEnd(j) => Open(j))'
                        /\ (Payable(j) => Open(j))'
                        /\ (j \in backing => stripe[j].session \in {"expired", "complete"})'
      BY DEF HoldStands
    <3>1. CASE j = i
      BY <1>b, <2>1, <2>2, <3>1 DEF Open
    <3>2. CASE j # i
      <4>1. (now < SessionEnd(j))' = (now < SessionEnd(j))
        BY <2>1, <2>3, <3>2 DEF SessionEnd
      <4> QED BY <1>a, <2>1, <2>3, <3>2, <4>1 DEF HeldInv, HoldStands, Payable, Open
    <3> QED BY <3>1, <3>2
  <2>6. OnlyLapsed'
    <3>1. \A j \in Intents : Open(j)' => Asked(j)'
      BY <2>1, <2>3 DEF HeldInv, OnlyLapsed, Asked, Open
    <3>2. \A k, j \in Intents : j \in draft'[k].lapsed => intent'[j].until < now /\ Asked(j)'
      BY <2>1, <2>3 DEF HeldInv, OnlyLapsed, Asked
    <3>3. \A p \in Sweepers : \A j \in sweep[p] : intent'[j].until < now /\ Asked(j)'
      <4> TAKE p \in Sweepers
      <4> TAKE j \in sweep[p]
      <4>1. j \in Intents /\ intent[j].until < now /\ Asked(j)
        BY DEF HeldInv, OnlyLapsed, MoneyInv, TypeOK
      <4> QED BY <2>1, <2>3, <4>1 DEF Asked
    <3> QED BY <2>1, <3>1, <3>2, <3>3 DEF OnlyLapsed
  <2> QED BY <2>5, <2>6 DEF HeldInv
<1>3. ASSUME OpenLoses(i) \/ OpenRefused(i) PROVE HeldInv'
  <2>1. /\ \A j \in Intents : draft'[j].lapsed \subseteq draft[j].lapsed
        /\ \A j \in Intents : request'[j] = "minting" => request[j] = "minting"
        /\ \A j \in Intents : Asked(j) => request'[j] \in {"minting", "answered"}
        /\ UNCHANGED <<now, intent, stripe, backing, sweep>>
    BY <1>0, <1>3 DEF OpenLoses, OpenRefused, NoDraft, Asked
  <2> QED BY <1>b, <2>1, HeldFrame
<1>4. ASSUME Mint(i) PROVE HeldInv'
  <2>1. /\ UNCHANGED <<now, draft, backing, sweep>> /\ request[i] = "minting"
        /\ request'[i] = "answered" /\ \A j \in Intents \ {i} : request'[j] = request[j]
        /\ \A j \in Intents \ {i} : stripe'[j] = stripe[j] /\ intent'[j] = intent[j]
        /\ now < SessionEnd(i)
    BY <1>0, <1>4 DEF Mint
  <2>2. Open(i) /\ stripe[i].session = "none"
    BY <2>1 DEF HeldInv, HoldStands, MoneyInv, MintedOnce
  <2>3. intent'[i].until = intent[i].until /\ intent'[i].status = intent[i].status
    BY <1>0, <1>4 DEF Mint, IntentRow
  <2>4. HoldStands'
    <3> SUFFICES ASSUME NEW j \in Intents
                 PROVE  /\ (request[j] = "minting" /\ now < SessionEnd(j) => Open(j))'
                        /\ (Payable(j) => Open(j))'
                        /\ (j \in backing => stripe[j].session \in {"expired", "complete"})'
      BY DEF HoldStands
    <3>1. CASE j = i
      BY <1>b, <2>1, <2>2, <2>3, <3>1 DEF Open
    <3>2. CASE j # i
      BY <2>1, <3>2 DEF HeldInv, HoldStands, Payable, Open, SessionEnd
    <3> QED BY <3>1, <3>2
  <2>5. OnlyLapsed'
    <3>1. \A j \in Intents : /\ intent'[j].until = intent[j].until
                             /\ intent'[j].status = intent[j].status
                             /\ Asked(j) => Asked(j)'
      BY <2>1, <2>3 DEF Asked
    <3>2. \A k \in Intents : draft[k].lapsed \subseteq Intents
      BY <1>0 DEF Draft
    <3>3. \A p \in Sweepers : sweep[p] \subseteq Intents
      BY DEF HeldInv, MoneyInv, TypeOK
    <3> QED BY <2>1, <3>1, <3>2, <3>3 DEF HeldInv, OnlyLapsed, Open
  <2> QED BY <2>4, <2>5 DEF HeldInv
<1>5. ASSUME MintFail(i) \/ MintCrash(i) PROVE HeldInv'
  <2>1. /\ UNCHANGED <<now, stripe, draft, backing, sweep>>
        /\ request[i] = "minting" /\ request'[i] = "answered"
        /\ \A j \in Intents \ {i} : request'[j] = request[j] /\ intent'[j] = intent[j]
    BY <1>0, <1>5 DEF MintFail, MintCrash
  <2>2. /\ intent'[i].until = intent[i].until
        /\ intent'[i].status = "open" => intent[i].status = "open"
    BY <1>0, <1>5 DEF MintFail, MintCrash, IntentRow
  <2>3. stripe[i].session = "none"
    BY <2>1 DEF HeldInv, MoneyInv, MintedOnce
  <2>4. \A j \in Intents : /\ intent'[j].until = intent[j].until
                           /\ intent'[j].status = "open" => intent[j].status = "open"
                           /\ \/ intent[j].status = "open" => intent'[j].status = "open"
                              \/ stripe'[j].session # "open" /\ request'[j] # "minting"
                           /\ request'[j] = "minting" => request[j] = "minting"
                           /\ Asked(j) => request'[j] \in {"minting", "answered"}
    BY <2>1, <2>2, <2>3 DEF Asked
  <2> QED BY <1>b, <2>1, <2>4, HeldFrame
<1> QED BY <1>1, <1>2, <1>3, <1>4, <1>5 DEF RequestStep

LEMMA HeldTick == ASSUME HeldInv, MoneyInv', Tick PROVE HeldInv'
<1>0. now \in Nat /\ now' = now + 1 /\ UNCHANGED <<intent, request, draft, backing, sweep>>
  BY CheckoutAssumption DEF Tick, HeldInv, MoneyInv, TypeOK
<1>1. \A i \in Intents : /\ (now < SessionEnd(i))' => now < SessionEnd(i)
                         /\ intent[i].until \in Nat
  BY <1>0, CheckoutAssumption DEF SessionEnd, HeldInv, MoneyInv, TypeOK, IntentRow
<1>2. \A i \in Intents : /\ stripe'[i].session = "open" => stripe[i].session = "open"
                         /\ stripe[i].session \in {"expired", "complete"}
                              => stripe'[i].session = stripe[i].session
  BY DEF HeldInv, MoneyInv, TypeOK, Tick, Purchase
<1>3. HoldStands'
  BY <1>0, <1>1, <1>2 DEF HeldInv, HoldStands, Payable, Open
<1>4. OnlyLapsed'
  <2>1. \A i \in Intents : intent[i].until < now => intent[i].until < now'
    BY <1>0, <1>1
  <2>2. \A i \in Intents : draft[i].lapsed \subseteq Intents
    BY DEF HeldInv, MoneyInv, TypeOK, Draft
  <2>3. \A p \in Sweepers : sweep[p] \subseteq Intents
    BY DEF HeldInv, MoneyInv, TypeOK
  <2> QED BY <1>0, <2>1, <2>2, <2>3 DEF HeldInv, OnlyLapsed, Asked, Open
<1> QED BY <1>3, <1>4 DEF HeldInv

LEMMA HeldBuyer ==
  ASSUME HeldInv, MoneyInv', NEW i \in Intents, BuyerStep(i) PROVE HeldInv'
<1>0. /\ intent \in [Intents -> IntentRow] /\ stripe \in [Intents -> Purchase]
  BY DEF HeldInv, MoneyInv, TypeOK
<1>b. \A j \in backing : stripe[j].session \in {"expired", "complete"} /\ j \in Intents
  BY DEF HeldInv, HoldStands, MoneyInv, TypeOK
<1>1. ASSUME NEW cleared \in BOOLEAN, NEW amountOk \in BOOLEAN, Complete(i, cleared, amountOk)
      PROVE HeldInv'
  <2>1. /\ UNCHANGED <<now, intent, request, draft, backing, sweep>>
        /\ stripe'[i].session = "complete" /\ \A j \in Intents \ {i} : stripe'[j] = stripe[j]
    BY <1>0, <1>1 DEF Complete
  <2> QED BY <1>b, <2>1, HeldFrame DEF Asked
<1>2. ASSUME NEW k \in Invoices, Renew(i, k) \/ Charge(i, k) PROVE HeldInv'
  BY <1>b, <1>2, HeldFrame DEF Renew, Charge, Asked
<1>3. ASSUME BuyerBack(i) PROVE HeldInv'
  <2>1. /\ UNCHANGED <<now, intent, request, draft, sweep>> /\ backing' = backing \cup {i}
        /\ stripe'[i].session = "expired" /\ \A j \in Intents \ {i} : stripe'[j] = stripe[j]
    BY <1>0, <1>3 DEF BuyerBack, Purchase
  <2> QED BY <1>b, <2>1, HeldFrame DEF Asked
<1>4. ASSUME BuyerReleased(i) PROVE HeldInv'
  <2>1. /\ UNCHANGED <<now, stripe, request, draft, sweep>>
        /\ backing' \subseteq backing /\ i \in backing
        /\ \A j \in Intents \ {i} : intent'[j] = intent[j]
    BY <1>0, <1>4 DEF BuyerReleased
  <2>2. /\ intent'[i].until = intent[i].until
        /\ intent'[i].status = "open" => intent[i].status = "open"
    BY <1>0, <1>4 DEF BuyerReleased, IntentRow
  <2>3. stripe[i].session \in {"expired", "complete"} /\ request[i] = "answered"
    BY <1>b, <2>1 DEF HeldInv, MoneyInv, MintedOnce
  <2>4. \A j \in Intents : /\ intent'[j].until = intent[j].until
                           /\ intent'[j].status = "open" => intent[j].status = "open"
                           /\ \/ intent[j].status = "open" => intent'[j].status = "open"
                              \/ stripe'[j].session # "open" /\ request'[j] # "minting"
    BY <2>1, <2>2, <2>3
  <2> QED BY <1>b, <2>1, <2>4, HeldFrame DEF Asked
<1> QED BY <1>1, <1>2, <1>3, <1>4 DEF BuyerStep

LEMMA HeldDeliver ==
  ASSUME HeldInv, MoneyInv', NEW w \in Workers, DeliverStep(w) PROVE HeldInv'
<1>0. intent \in [Intents -> IntentRow]
  BY DEF HeldInv, MoneyInv, TypeOK
<1>b. \A j \in backing : stripe[j].session \in {"expired", "complete"} /\ j \in Intents
  BY DEF HeldInv, HoldStands, MoneyInv, TypeOK
<1>1. ASSUME \/ \E i \in Intents : DeliverBegin(w, i)
             \/ DeliverError(w) \/ \E r \in Rows : Revive(w, r)
      PROVE HeldInv'
  BY <1>b, <1>1, HeldFrame DEF DeliverBegin, DeliverError, Revive, Asked
<1>2. ASSUME DeliverConflict(w) \/ DeliverActivate(w) PROVE HeldInv'
  <2> DEFINE i == delivery[w].intent
  <2>1. i \in Intents /\ stripe[i].session = "complete"
    BY <1>2 DEF DeliverConflict, DeliverActivate, HeldInv, MoneyInv, Named, AfterPayment
  <2>2. request[i] = "answered"
    BY <2>1 DEF HeldInv, MoneyInv, MintedOnce
  <2>3. /\ UNCHANGED <<now, stripe, request, draft, backing, sweep>>
        /\ \A j \in Intents \ {i} : intent'[j] = intent[j]
    BY <1>0, <1>2 DEF DeliverConflict, DeliverActivate
  <2>4. intent'[i].until = intent[i].until /\ intent'[i].status # "open"
    <3>1. ASSUME DeliverConflict(w)
          PROVE  intent'[i].until = intent[i].until /\ intent'[i].status # "open"
      <4>1. intent'[i] = [intent[i] EXCEPT !.status = "conflict",
                            !.resolved = intent[i].resolved /\ ~delivery[w].stamped]
        BY <1>0, <2>1, <3>1 DEF DeliverConflict
      <4> QED BY <1>0, <2>1, <4>1 DEF IntentRow
    <3>2. ASSUME DeliverActivate(w)
          PROVE  intent'[i].until = intent[i].until /\ intent'[i].status # "open"
      BY <1>0, <2>1, <3>2 DEF DeliverActivate, IntentRow
    <3> QED BY <1>2, <3>1, <3>2
  <2>5. \A j \in Intents : /\ intent'[j].until = intent[j].until
                           /\ intent'[j].status = "open" => intent[j].status = "open"
                           /\ \/ intent[j].status = "open" => intent'[j].status = "open"
                              \/ stripe'[j].session # "open" /\ request'[j] # "minting"
    BY <2>1, <2>2, <2>3, <2>4
  <2> QED BY <1>b, <2>3, <2>5, HeldFrame DEF Asked
<1> QED BY <1>1, <1>2 DEF DeliverStep

LEMMA HeldResolve ==
  ASSUME HeldInv, MoneyInv', NEW p \in Resolvers, ResolveStep(p) PROVE HeldInv'
<1>0. intent \in [Intents -> IntentRow] /\ stripe \in [Intents -> Purchase]
  BY DEF HeldInv, MoneyInv, TypeOK
<1>b. \A j \in backing : stripe[j].session \in {"expired", "complete"} /\ j \in Intents
  BY DEF HeldInv, HoldStands, MoneyInv, TypeOK
<1>1. UNCHANGED <<now, request, draft, backing, sweep>>
  BY DEF ResolveStep, ResolveBegin, ResolveCancel, ResolveVoid, ResolveRefund, ResolveFinish,
    ResolveAbort
<1>c. resolver[p].pc # "idle" => resolver[p].intent \in Intents
  BY DEF HeldInv, MoneyInv, Named
<1>2. \A j \in Intents : stripe'[j].session = stripe[j].session
  <2>1. ASSUME ResolveCancel(p), NEW j \in Intents PROVE stripe'[j].session = stripe[j].session
    BY <1>0, <2>1 DEF ResolveCancel, Purchase
  <2>2. ASSUME ~ResolveCancel(p) PROVE UNCHANGED stripe
    BY <2>2 DEF ResolveStep, ResolveBegin, ResolveVoid, ResolveRefund, ResolveFinish, ResolveAbort
  <2> QED BY <2>1, <2>2
<1>3. \A j \in Intents : intent'[j].until = intent[j].until /\ intent'[j].status = intent[j].status
  <2>1. ASSUME ResolveFinish(p), NEW j \in Intents
        PROVE  intent'[j].until = intent[j].until /\ intent'[j].status = intent[j].status
    BY <1>0, <1>c, <2>1 DEF ResolveFinish, IntentRow
  <2>2. ASSUME ~ResolveFinish(p) PROVE UNCHANGED intent
    BY <2>2 DEF ResolveStep, ResolveBegin, ResolveCancel, ResolveVoid, ResolveRefund, ResolveAbort
  <2> QED BY <2>1, <2>2
<1> QED BY <1>b, <1>1, <1>2, <1>3, HeldFrame DEF Asked

LEMMA HeldSweep ==
  ASSUME HeldInv, MoneyInv', NEW p \in Sweepers, SweepStep(p) PROVE HeldInv'
<1>0. intent \in [Intents -> IntentRow] /\ sweep \in [Sweepers -> SUBSET Intents]
  BY DEF HeldInv, MoneyInv, TypeOK
<1>b. \A j \in backing : stripe[j].session \in {"expired", "complete"} /\ j \in Intents
  BY DEF HeldInv, HoldStands, MoneyInv, TypeOK
<1>1. ASSUME SweepRead(p) PROVE HeldInv'
  <2>1. /\ UNCHANGED <<now, intent, stripe, request, draft, backing>>
        /\ sweep'[p] = Lapsed /\ \A q \in Sweepers \ {p} : sweep'[q] = sweep[q]
    BY <1>0, <1>1 DEF SweepRead
  <2>2. HoldStands'
    BY <2>1 DEF HeldInv, HoldStands, Payable, Open, SessionEnd
  <2>3. OnlyLapsed'
    BY <2>1 DEF HeldInv, OnlyLapsed, Asked, Open, Lapsed
  <2> QED BY <2>2, <2>3 DEF HeldInv
<1>2. ASSUME SweepWrite(p) PROVE HeldInv'
  <2>1. /\ UNCHANGED <<now, stripe, request, draft, backing>>
        /\ \A q \in Sweepers : sweep'[q] \subseteq sweep[q]
    BY <1>0, <1>2 DEF SweepWrite
  <2>2. \A j \in Intents : /\ intent'[j].until = intent[j].until
                           /\ intent'[j].status = "open" => intent[j].status = "open"
                           /\ \/ intent[j].status = "open" => intent'[j].status = "open"
                              \/ intent[j].until < now
    BY <1>0, <1>2 DEF SweepWrite, IntentRow, HeldInv, OnlyLapsed
  <2> QED BY <1>b, <2>1, <2>2, HeldFrame DEF Asked
<1> QED BY <1>1, <1>2 DEF SweepStep

LEMMA HeldOthers ==
  ASSUME HeldInv, MoneyInv',
         \/ \E i \in Intents : DeliverAck(i)
         \/ \E a \in Admins : AdminStep(a)
         \/ \E c \in Codes : CodePatched(c)
         \/ UNCHANGED vars
  PROVE  HeldInv'
<1>b. \A j \in backing : stripe[j].session \in {"expired", "complete"} /\ j \in Intents
  BY DEF HeldInv, HoldStands, MoneyInv, TypeOK
<1>1. UNCHANGED <<now, intent, stripe, request, draft, backing, sweep>>
  BY DEF DeliverAck, AdminStep, AdminBegin, AdminCommit, CodePatched, vars
<1> QED BY <1>b, <1>1, HeldFrame DEF Asked

LEMMA InitHeld == ASSUME Init PROVE HeldInv
<1>1. MoneyInv
  BY InitMoney
<1>2. HoldStands
  BY DEF Init, HoldStands, Payable, NoStripe
<1>3. OnlyLapsed
  BY DEF Init, OnlyLapsed, Open, NoIntent, NoDraft
<1> QED BY <1>1, <1>2, <1>3 DEF HeldInv

(* Without the console's release, a buyer can pay only while the slot is   *)
(* still held for them, whatever requests, releases by buyers, webhooks,   *)
(* sweeps, admins and failures interleave with it.                         *)
THEOREM PayableHoldStands == ASSUME Staff = {} PROVE Spec => []PayableIsHeld
<1>1. Init => HeldInv
  BY InitHeld
<1>2. HeldInv /\ [Next]_vars => HeldInv'
  <2> SUFFICES ASSUME HeldInv, [Next]_vars PROVE HeldInv'
    OBVIOUS
  <2>1. MoneyInv'
    BY MoneyKept DEF HeldInv
  <2>2. CASE Next
    BY <2>1, <2>2, HeldTick, HeldRequest, HeldBuyer, HeldDeliver, HeldResolve, HeldSweep,
      HeldOthers DEF Next
  <2>3. CASE UNCHANGED vars
    BY <2>1, <2>3, HeldOthers
  <2> QED BY <2>2, <2>3
<1>3. HeldInv => PayableIsHeld
  <2> SUFFICES ASSUME HeldInv, NEW i \in Intents, Payable(i) PROVE HoldLive(i)
    BY DEF PayableIsHeld
  <2>1. Open(i) /\ now < SessionEnd(i)
    BY DEF HeldInv, HoldStands, Payable
  <2>2. intent[i].until >= now
    <3>1. intent[i].until \in Nat /\ now \in Nat
      BY CheckoutAssumption DEF HeldInv, MoneyInv, TypeOK, IntentRow
    <3> QED BY <2>1, <3>1, SessionInsideHold DEF HeldInv, MoneyInv
  <2> QED BY <2>1, <2>2 DEF HoldLive
<1> QED BY <1>1, <1>2, <1>3, PTL DEF Spec
=============================================================================
