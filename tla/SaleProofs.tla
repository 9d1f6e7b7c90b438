----------------------------- MODULE SaleProofs -----------------------------
(***************************************************************************)
(* Who gets the slot, who has paid for it, and what SlotSale promises of   *)
(* it, for every value of Checkout's constants.  The hypotheses say which  *)
(* of the actors that write the same rows are left out, and each theorem   *)
(* leaves out only those that really break what it states.                 *)
(***************************************************************************)
EXTENDS CheckoutProofs, FiniteSetTheorems

(* Neither the console's release nor the sweep writes intents, and nobody  *)
(* commits while a request expires lapsed holds: the three writers that    *)
(* set a status without reading it again.                                  *)
Quiet == Staff = {} /\ Sweepers = {} /\ Interrupted = {}

(* Deliveries of completed sessions are handled one at a time.             *)
OneWorker == \A v, w \in Workers : v = w

(* No code is bound to a company: every sale gets a row of its own.        *)
Unbound == \A c \in Codes : CompanyOf[c] = None

(***************************************************************************)
(* What a step does to the intents' rows.                                  *)
(***************************************************************************)
(* Only the INSERT writes what was asked for; the status of a locked row   *)
(* stays, and no row is opened again.                                      *)
SameSale(j) ==
  /\ intent'[j].slot = intent[j].slot /\ intent'[j].code = intent[j].code
  /\ intent'[j].until = intent[j].until
StatusStep(j) ==
  \/ intent'[j].status = intent[j].status
  \/ ~IntentLocked(j) /\ intent'[j].status \in {"expired", "released", "completed", "conflict"}

(* A single field of one row is written.                                   *)
LEMMA RowWritten ==
  ASSUME NEW r \in IntentRow
  PROVE  /\ \A v : /\ [r EXCEPT !.status = v].slot = r.slot
                   /\ [r EXCEPT !.status = v].code = r.code
                   /\ [r EXCEPT !.status = v].until = r.until
                   /\ [r EXCEPT !.status = v].status = v
                   /\ [r EXCEPT !.status = v].minted = r.minted
                   /\ [r EXCEPT !.status = v].resolved = r.resolved
         /\ [r EXCEPT !.minted = TRUE].slot = r.slot /\ [r EXCEPT !.minted = TRUE].code = r.code
         /\ [r EXCEPT !.minted = TRUE].until = r.until
         /\ [r EXCEPT !.minted = TRUE].status = r.status
         /\ [r EXCEPT !.minted = TRUE].resolved = r.resolved
         /\ [r EXCEPT !.resolved = TRUE].slot = r.slot
         /\ [r EXCEPT !.resolved = TRUE].code = r.code
         /\ [r EXCEPT !.resolved = TRUE].until = r.until
         /\ [r EXCEPT !.resolved = TRUE].status = r.status
         /\ [r EXCEPT !.resolved = TRUE].resolved = TRUE
         /\ \A v \in BOOLEAN :
              /\ [r EXCEPT !.status = "conflict", !.resolved = v].slot = r.slot
              /\ [r EXCEPT !.status = "conflict", !.resolved = v].code = r.code
              /\ [r EXCEPT !.status = "conflict", !.resolved = v].until = r.until
              /\ [r EXCEPT !.status = "conflict", !.resolved = v].status = "conflict"
              /\ [r EXCEPT !.status = "conflict", !.resolved = v].resolved = v
BY DEF IntentRow

(* The actions that write an intent, one by one.                           *)
LEMMA OpenCommitWrites ==
  ASSUME TypeOK, NEW i \in Intents, OpenCommit(i)
  PROVE  /\ intent'[i].slot = draft[i].slot /\ intent'[i].code = draft[i].code
         /\ intent'[i].until = draft[i].until /\ intent'[i].status = "open"
         /\ intent'[i].resolved = FALSE
         /\ \A j \in Intents \ {i} :
              /\ SameSale(j) /\ intent'[j].resolved = intent[j].resolved
              /\ intent'[j].status = IF j \in draft[i].lapsed THEN "expired"
                                     ELSE intent[j].status
<1>0. intent \in [Intents -> IntentRow]
  BY DEF TypeOK
<1>1. intent'[i] = [NoIntent EXCEPT !.status = "open", !.slot = draft[i].slot,
                      !.buyer = draft[i].buyer, !.code = draft[i].code, !.until = draft[i].until]
  BY DEF OpenCommit
<1>2. \A j \in Intents \ {i} :
        intent'[j] = IF j \in draft[i].lapsed THEN [intent[j] EXCEPT !.status = "expired"]
                     ELSE intent[j]
  BY DEF OpenCommit
<1>3. /\ intent'[i].slot = draft[i].slot /\ intent'[i].code = draft[i].code
      /\ intent'[i].until = draft[i].until /\ intent'[i].status = "open"
      /\ intent'[i].resolved = FALSE
  BY <1>1 DEF NoIntent
<1>4. ASSUME NEW j \in Intents \ {i}
      PROVE  /\ SameSale(j) /\ intent'[j].resolved = intent[j].resolved
             /\ intent'[j].status = IF j \in draft[i].lapsed THEN "expired"
                                    ELSE intent[j].status
  <2>1. CASE j \in draft[i].lapsed
    <3>1. intent'[j] = [intent[j] EXCEPT !.status = "expired"] /\ intent[j] \in IntentRow
      BY <1>0, <1>2, <2>1
    <3> QED BY <2>1, <3>1, RowWritten DEF SameSale
  <2>2. CASE j \notin draft[i].lapsed
    BY <1>2, <2>2 DEF SameSale
  <2> QED BY <2>1, <2>2
<1> QED BY <1>3, <1>4

LEMMA MintWrites ==
  ASSUME TypeOK, NEW i \in Intents, Mint(i), NEW j \in Intents
  PROVE  SameSale(j) /\ intent'[j].status = intent[j].status
                     /\ intent'[j].resolved = intent[j].resolved
<1>0. intent \in [Intents -> IntentRow]
  BY DEF TypeOK
<1>1. intent'[j] = IF j = i THEN [intent[i] EXCEPT !.minted = TRUE] ELSE intent[j]
  BY <1>0 DEF Mint
<1> QED BY <1>0, <1>1, RowWritten DEF SameSale

LEMMA MintFailWrites ==
  ASSUME TypeOK, NEW i \in Intents, MintFail(i), NEW j \in Intents
  PROVE  SameSale(j) /\ intent'[j].resolved = intent[j].resolved
         /\ intent'[j].status = IF j = i THEN "expired" ELSE intent[j].status
<1>0. intent \in [Intents -> IntentRow]
  BY DEF TypeOK
<1>1. intent'[j] = IF j = i THEN [intent[i] EXCEPT !.status = "expired"] ELSE intent[j]
  BY <1>0 DEF MintFail
<1> QED BY <1>0, <1>1, RowWritten DEF SameSale

LEMMA ReleasedWrites ==
  ASSUME TypeOK, NEW i \in Intents, BuyerReleased(i), NEW j \in Intents
  PROVE  SameSale(j) /\ intent'[j].resolved = intent[j].resolved
         /\ intent'[j].status = IF j = i /\ Open(i) THEN "released" ELSE intent[j].status
<1>0. intent \in [Intents -> IntentRow]
  BY DEF TypeOK
<1>1. intent'[j] = IF j = i /\ Open(i) THEN [intent[i] EXCEPT !.status = "released"]
                   ELSE intent[j]
  BY <1>0 DEF BuyerReleased
<1> QED BY <1>0, <1>1, RowWritten DEF SameSale

LEMMA ConflictWrites ==
  ASSUME TypeOK, Named, NEW w \in Workers, DeliverConflict(w), NEW j \in Intents
  PROVE  SameSale(j) /\ IF j = delivery[w].intent
           THEN /\ intent'[j].status = "conflict"
                /\ intent'[j].resolved = (intent[j].resolved /\ ~delivery[w].stamped)
           ELSE intent'[j] = intent[j]
<1>0. intent \in [Intents -> IntentRow] /\ delivery[w].intent \in Intents
      /\ delivery[w].stamped \in BOOLEAN
  BY DEF TypeOK, Named, DeliverConflict, Delivery
<1> DEFINE i == delivery[w].intent
           v == intent[i].resolved /\ ~delivery[w].stamped
<1>1. intent'[j] = IF j = i THEN [intent[i] EXCEPT !.status = "conflict", !.resolved = v]
                   ELSE intent[j]
  BY <1>0 DEF DeliverConflict
<1>2. v \in BOOLEAN
  BY <1>0 DEF IntentRow
<1> QED BY <1>0, <1>1, <1>2, RowWritten DEF SameSale

LEMMA ActivateWrites ==
  ASSUME TypeOK, Named, NEW w \in Workers, DeliverActivate(w), NEW j \in Intents
  PROVE  SameSale(j) /\ intent'[j].resolved = intent[j].resolved
         /\ intent'[j].status = IF j = delivery[w].intent THEN "completed" ELSE intent[j].status
<1>0. intent \in [Intents -> IntentRow] /\ delivery[w].intent \in Intents
  BY DEF TypeOK, Named, DeliverActivate
<1>1. intent'[j] = IF j = delivery[w].intent
                   THEN [intent[j] EXCEPT !.status = "completed"] ELSE intent[j]
  BY <1>0 DEF DeliverActivate
<1> QED BY <1>0, <1>1, RowWritten DEF SameSale

LEMMA FinishWrites ==
  ASSUME TypeOK, Named, NEW p \in Resolvers, ResolveFinish(p), NEW j \in Intents
  PROVE  SameSale(j) /\ intent'[j].status = intent[j].status
         /\ intent'[j].resolved = IF j = resolver[p].intent THEN TRUE ELSE intent[j].resolved
<1>0. intent \in [Intents -> IntentRow] /\ resolver[p].intent \in Intents
  BY DEF TypeOK, Named, ResolveFinish
<1>1. intent'[j] = IF j = resolver[p].intent
                   THEN [intent[j] EXCEPT !.resolved = TRUE] ELSE intent[j]
  BY <1>0 DEF ResolveFinish
<1> QED BY <1>0, <1>1, RowWritten DEF SameSale

LEMMA StaffWrites ==
  ASSUME TypeOK, NEW p \in Staff, StaffWrite(p), NEW j \in Intents
  PROVE  SameSale(j) /\ intent'[j].resolved = intent[j].resolved
         /\ intent'[j].status = IF j = staff[p].intent THEN "released" ELSE intent[j].status
<1>0. intent \in [Intents -> IntentRow]
  BY DEF TypeOK
<1>1. intent'[j] = IF j = staff[p].intent
                   THEN [intent[j] EXCEPT !.status = "released"] ELSE intent[j]
  BY <1>0 DEF StaffWrite
<1> QED BY <1>0, <1>1, RowWritten DEF SameSale

LEMMA SweepWrites ==
  ASSUME TypeOK, NEW p \in Sweepers, SweepWrite(p), NEW j \in Intents
  PROVE  SameSale(j) /\ intent'[j].resolved = intent[j].resolved
         /\ intent'[j].status = IF j \in sweep[p] THEN "expired" ELSE intent[j].status
<1>0. intent \in [Intents -> IntentRow]
  BY DEF TypeOK
<1>1. intent'[j] = IF j \in sweep[p] THEN [intent[j] EXCEPT !.status = "expired"]
                   ELSE intent[j]
  BY DEF SweepWrite
<1> QED BY <1>0, <1>1, RowWritten DEF SameSale

(* Every other action leaves the intents alone.                            *)
WritesIntents ==
  \/ \E i \in Intents : OpenCommit(i) \/ Mint(i) \/ MintFail(i) \/ BuyerReleased(i)
  \/ \E w \in Workers : DeliverConflict(w) \/ DeliverActivate(w)
  \/ \E p \in Resolvers : ResolveFinish(p)
  \/ \E p \in Staff : StaffWrite(p)
  \/ \E p \in Sweepers : SweepWrite(p)

LEMMA OthersKeepIntents ==
  ASSUME [Next]_vars, ~WritesIntents PROVE intent' = intent
<1>1. ASSUME NEW i \in Intents, RequestStep(i) \/ BuyerStep(i) \/ DeliverAck(i)
      PROVE  intent' = intent
  BY <1>1 DEF WritesIntents, RequestStep, OpenRead, OpenRefused, OpenBegin, OpenLoses,
    MintCrash, BuyerStep, Complete, Renew, Charge, BuyerBack, DeliverAck
<1>2. ASSUME NEW w \in Workers, DeliverStep(w) PROVE intent' = intent
  BY <1>2 DEF WritesIntents, DeliverStep, DeliverBegin, DeliverError, Revive
<1>3. ASSUME NEW p \in Resolvers, ResolveStep(p) PROVE intent' = intent
  BY <1>3 DEF WritesIntents, ResolveStep, ResolveBegin, ResolveCancel, ResolveVoid,
    ResolveRefund, ResolveAbort
<1>4. ASSUME \/ Tick \/ (\E p \in Staff : StaffStep(p)) \/ (\E p \in Sweepers : SweepStep(p))
             \/ (\E a \in Admins : AdminStep(a)) \/ (\E c \in Codes : CodePatched(c))
             \/ UNCHANGED vars
      PROVE  intent' = intent
  BY <1>4 DEF WritesIntents, Tick, StaffStep, StaffLook, StaffExpire, SweepStep, SweepRead,
    AdminStep, AdminBegin, AdminCommit, CodePatched, vars
<1> QED BY <1>1, <1>2, <1>3, <1>4 DEF Next

LEMMA RowsKept ==
  ASSUME TypeOK, Named, [Next]_vars, \A i \in Intents : ~OpenCommit(i)
  PROVE  \A j \in Intents : SameSale(j) /\ StatusStep(j)
<1> SUFFICES ASSUME NEW j \in Intents PROVE SameSale(j) /\ StatusStep(j)
  OBVIOUS
<1>1. CASE ~WritesIntents
  BY <1>1, OthersKeepIntents DEF SameSale, StatusStep
<1>2. ASSUME NEW i \in Intents, Mint(i) \/ MintFail(i) \/ BuyerReleased(i)
      PROVE  SameSale(j) /\ StatusStep(j)
  <2>1. CASE Mint(i)
    BY <2>1, MintWrites DEF StatusStep
  <2>2. CASE MintFail(i)
    BY <2>2, MintFailWrites DEF StatusStep, MintFail
  <2>3. CASE BuyerReleased(i)
    BY <2>3, ReleasedWrites DEF StatusStep, BuyerReleased
  <2> QED BY <1>2, <2>1, <2>2, <2>3
<1>3. ASSUME NEW w \in Workers, DeliverConflict(w) PROVE SameSale(j) /\ StatusStep(j)
  BY <1>3, ConflictWrites DEF StatusStep, DeliverConflict
<1>4. ASSUME NEW w \in Workers, DeliverActivate(w) PROVE SameSale(j) /\ StatusStep(j)
  BY <1>4, ActivateWrites DEF StatusStep, DeliverActivate
<1>5. ASSUME NEW p \in Resolvers, ResolveFinish(p) PROVE SameSale(j) /\ StatusStep(j)
  BY <1>5, FinishWrites DEF StatusStep
<1>6. ASSUME NEW p \in Staff, StaffWrite(p) PROVE SameSale(j) /\ StatusStep(j)
  BY <1>6, StaffWrites DEF StatusStep, StaffWrite
<1>7. ASSUME NEW p \in Sweepers, SweepWrite(p) PROVE SameSale(j) /\ StatusStep(j)
  BY <1>7, SweepWrites DEF StatusStep, SweepWrite
<1> QED BY <1>1, <1>2, <1>3, <1>4, <1>5, <1>6, <1>7 DEF WritesIntents

(***************************************************************************)
(* Locks and holds.                                                        *)
(***************************************************************************)
(* The lapsed holds a request has flushed stay open until it commits, and  *)
(* two requests have not flushed the same one.                             *)
LocksOpen ==
  /\ \A k, j \in Intents : request[k] = "opening" /\ j \in draft[k].lapsed => Open(j)
  /\ \A k, l \in Intents : request[k] = "opening" /\ request[l] = "opening"
       /\ draft[k].lapsed \cap draft[l].lapsed # {} => k = l

(* What is asked for is a slot, and a slot has one open hold.              *)
OneHold ==
  /\ \A i \in Intents : Asked(i) => intent[i].slot \in Slots
  /\ \A i \in Intents : request[i] = "opening" => draft[i].slot \in Slots
  /\ \A i, j \in Intents : Open(i) /\ Open(j) /\ intent[i].slot = intent[j].slot => i = j

LockInv == HeldInv /\ LocksOpen /\ OneHold

(* A step that begins no request and commits none.                         *)
LEMMA LockFrame ==
  ASSUME LockInv, HeldInv', \A j \in Intents : SameSale(j) /\ StatusStep(j),
         \A k \in Intents : request'[k] = "opening"
                              => request[k] = "opening" /\ draft'[k] = draft[k],
         \A k \in Intents : Asked(k)' => Asked(k)
  PROVE  LockInv'
<1>1. \A j \in Intents : Open(j)' => Open(j)
  BY DEF StatusStep, Open
<1>2. ASSUME NEW k \in Intents, NEW j \in Intents, request'[k] = "opening",
             j \in draft'[k].lapsed
      PROVE  Open(j)'
  <2>1. request[k] = "opening" /\ j \in draft[k].lapsed
    BY <1>2
  <2> QED BY <2>1 DEF LockInv, LocksOpen, Open, IntentLocked, StatusStep
<1>3. LocksOpen'
  BY <1>2 DEF LockInv, LocksOpen
<1>4. OneHold'
  BY <1>1 DEF LockInv, OneHold, SameSale
<1> QED BY <1>3, <1>4 DEF LockInv

LEMMA LockBegin ==
  ASSUME Interrupted = {}, LockInv, HeldInv', NEW i \in Intents, NEW s \in Slots, NEW b \in Buyers,
         NEW c \in Codes \cup {None}, OpenBegin(i, s, b, c)
  PROVE  LockInv'
<1>0. /\ request \in [Intents -> {"idle", "reading", "opening", "minting", "answered"}]
      /\ draft \in [Intents -> Draft]
  BY DEF LockInv, HeldInv, MoneyInv, TypeOK
<1>1. /\ request[i] = "idle" /\ request'[i] = "opening" /\ intent' = intent
      /\ draft'[i].slot = s /\ draft'[i].lapsed = Lapsed
      /\ \A k \in Intents \ {i} : request'[k] = request[k] /\ draft'[k] = draft[k]
  BY BeginIs DEF LockInv, HeldInv, MoneyInv
<1>2. \A j \in Lapsed : ~IntentLocked(j) /\ Open(j) /\ j \in Intents
  BY SelectedIs DEF LockInv, HeldInv, MoneyInv, OpenBegin, Lapsed
<1>3. \A k \in Intents : draft[k].lapsed \subseteq Intents
  BY <1>0 DEF Draft
<1>4. \A k, j \in Intents : request'[k] = "opening" /\ j \in draft'[k].lapsed => Open(j)'
  BY <1>1, <1>2 DEF LockInv, LocksOpen, Open
<1>5. ASSUME NEW k \in Intents, NEW l \in Intents, request'[k] = "opening",
             request'[l] = "opening", draft'[k].lapsed \cap draft'[l].lapsed # {}
      PROVE  k = l
  <2>1. PICK j : j \in draft'[k].lapsed /\ j \in draft'[l].lapsed
    BY <1>5
  <2>2. CASE k # i /\ l # i
    BY <1>1, <1>5, <2>2 DEF LockInv, LocksOpen
  <2>3. CASE k = i /\ l # i
    BY <1>1, <1>2, <1>5, <2>1, <2>3 DEF IntentLocked
  <2>4. CASE k # i /\ l = i
    BY <1>1, <1>2, <1>5, <2>1, <2>4 DEF IntentLocked
  <2> QED BY <2>2, <2>3, <2>4
<1>6. OneHold'
  BY <1>1 DEF LockInv, OneHold, Asked, Open
<1> QED BY <1>4, <1>5, <1>6 DEF LockInv, LocksOpen

LEMMA LockCommit ==
  ASSUME LockInv, HeldInv', NEW i \in Intents, OpenCommit(i) PROVE LockInv'
<1>0. /\ request \in [Intents -> {"idle", "reading", "opening", "minting", "answered"}]
      /\ draft \in [Intents -> Draft] /\ TypeOK
  BY DEF LockInv, HeldInv, MoneyInv, TypeOK
<1>1. /\ request[i] = "opening" /\ request'[i] = "minting"
      /\ \A k \in Intents \ {i} : request'[k] = request[k] /\ draft'[k] = draft[k]
  BY <1>0 DEF OpenCommit
<1>2. /\ intent'[i].slot = draft[i].slot
      /\ \A j \in Intents \ {i} :
              /\ SameSale(j)
              /\ intent'[j].status = IF j \in draft[i].lapsed THEN "expired"
                                     ELSE intent[j].status
  BY <1>0, OpenCommitWrites
<1>3. ~Open(i)
  BY <1>1 DEF LockInv, HeldInv, OnlyLapsed, Asked
<1>4. ASSUME NEW k \in Intents, NEW j \in Intents, request'[k] = "opening",
             j \in draft'[k].lapsed
      PROVE  Open(j)'
  <2>1. k # i /\ request[k] = "opening" /\ j \in draft[k].lapsed
    BY <1>1, <1>4
  <2>2. Open(j) /\ j # i /\ j \notin draft[i].lapsed
    BY <1>1, <1>3, <2>1 DEF LockInv, LocksOpen
  <2> QED BY <1>2, <2>2 DEF Open
<1>5. LocksOpen'
  BY <1>1, <1>4 DEF LockInv, LocksOpen
<1>6. \A j \in Intents \ {i} : Open(j)' => Open(j) /\ j \notin draft[i].lapsed
  BY <1>2 DEF Open
<1>7. \A j \in Intents \ {i} : Open(j)' => intent'[j].slot # draft[i].slot
  BY <1>2, <1>6 DEF OpenCommit, HoldFree, SameSale
<1>8. OneHold'
  <2>1. \A j \in Intents : Asked(j)' => intent'[j].slot \in Slots
    BY <1>1, <1>2 DEF LockInv, OneHold, Asked, SameSale
  <2>2. \A j \in Intents : request'[j] = "opening" => draft'[j].slot \in Slots
    BY <1>1 DEF LockInv, OneHold
  <2>3. \A j, k \in Intents : Open(j)' /\ Open(k)' /\ intent'[j].slot = intent'[k].slot => j = k
    BY <1>2, <1>6, <1>7 DEF LockInv, OneHold, SameSale
  <2> QED BY <2>1, <2>2, <2>3 DEF OneHold
<1> QED BY <1>5, <1>8 DEF LockInv

(* HeldInv is inductive without the console's release.                     *)
LEMMA HeldKept == ASSUME Staff = {}, HeldInv, [Next]_vars PROVE HeldInv'
<1>1. MoneyInv'
  BY MoneyKept DEF HeldInv
<1>2. CASE Next
  BY <1>1, <1>2, HeldTick, HeldRequest, HeldBuyer, HeldDeliver, HeldResolve, HeldSweep,
    HeldOthers DEF Next
<1>3. CASE UNCHANGED vars
  BY <1>1, <1>3, HeldOthers
<1> QED BY <1>2, <1>3

(* Requests move forward, one at a time.                                   *)
LEMMA RequestsKept ==
  ASSUME TypeOK, [Next]_vars,
         \A i \in Intents : ~OpenCommit(i),
         \A i \in Intents, s \in Slots, b \in Buyers, c \in Codes \cup {None} :
           ~OpenBegin(i, s, b, c)
  PROVE  /\ \A k \in Intents : request'[k] = "opening"
                                 => request[k] = "opening" /\ draft'[k] = draft[k]
         /\ \A k \in Intents : Asked(k)' => Asked(k)
<1>0. request \in [Intents -> {"idle", "reading", "opening", "minting", "answered"}]
      /\ draft \in [Intents -> Draft]
  BY DEF TypeOK
<1>1. ASSUME NEW i \in Intents, \/ OpenRead(i) \/ OpenRefused(i) \/ OpenLoses(i)
                                \/ Mint(i) \/ MintFail(i) \/ MintCrash(i)
      PROVE  /\ \A k \in Intents : request'[k] = "opening"
                                     => request[k] = "opening" /\ draft'[k] = draft[k]
             /\ \A k \in Intents : Asked(k)' => Asked(k)
  BY <1>0, <1>1 DEF OpenRead, OpenRefused, OpenLoses, Mint, MintFail, MintCrash, Asked
<1>2. ASSUME NEW i \in Intents, BuyerStep(i) \/ DeliverAck(i)
      PROVE  UNCHANGED <<request, draft>>
  BY <1>2 DEF BuyerStep, Complete, Renew, Charge, BuyerBack, BuyerReleased, DeliverAck
<1>3. ASSUME \/ \E w \in Workers : DeliverStep(w)
             \/ \E p \in Resolvers : ResolveStep(p)
      PROVE  UNCHANGED <<request, draft>>
  BY <1>3 DEF DeliverStep, DeliverBegin, DeliverConflict, DeliverActivate, DeliverError,
    Revive, ResolveStep, ResolveBegin, ResolveCancel, ResolveVoid, ResolveRefund,
    ResolveFinish, ResolveAbort
<1>4. ASSUME \/ Tick \/ (\E p \in Staff : StaffStep(p)) \/ (\E p \in Sweepers : SweepStep(p))
             \/ (\E a \in Admins : AdminStep(a)) \/ (\E c \in Codes : CodePatched(c))
             \/ UNCHANGED vars
      PROVE  UNCHANGED <<request, draft>>
  BY <1>4 DEF Tick, StaffStep, StaffLook, StaffExpire, StaffWrite, SweepStep, SweepRead,
    SweepWrite, AdminStep, AdminBegin, AdminCommit, CodePatched, vars
<1>5. CASE UNCHANGED <<request, draft>>
  BY <1>5 DEF Asked
<1> QED BY <1>1, <1>2, <1>3, <1>4, <1>5 DEF Next, RequestStep

LEMMA LockKept ==
  ASSUME Staff = {}, Interrupted = {}, LockInv, [Next]_vars PROVE LockInv'
<1>1. HeldInv'
  BY HeldKept DEF LockInv
<1>2. TypeOK /\ Named
  BY DEF LockInv, HeldInv, MoneyInv
<1>3. CASE \E i \in Intents : OpenCommit(i)
  BY <1>1, <1>3, LockCommit
<1>4. CASE \E i \in Intents, s \in Slots, b \in Buyers, c \in Codes \cup {None} :
             OpenBegin(i, s, b, c)
  BY <1>1, <1>4, LockBegin
<1>5. CASE /\ \A i \in Intents : ~OpenCommit(i)
           /\ \A i \in Intents, s \in Slots, b \in Buyers, c \in Codes \cup {None} :
                ~OpenBegin(i, s, b, c)
  BY <1>1, <1>2, <1>5, LockFrame, RowsKept, RequestsKept
<1> QED BY <1>3, <1>4, <1>5

LEMMA InitLock == ASSUME Init PROVE LockInv
<1>1. HeldInv
  BY InitHeld
<1>2. LocksOpen /\ OneHold
  BY DEF Init, LocksOpen, OneHold, Asked, Open, NoIntent
<1> QED BY <1>1, <1>2 DEF LockInv

(***************************************************************************)
(* A paid session, and the rows of the board.                              *)
(***************************************************************************)
(* What the session of a paid sale says is final.                          *)
LEMMA CompleteStays ==
  ASSUME MoneyInv, [Next]_vars, NEW i \in Intents, stripe[i].session = "complete"
  PROVE  /\ stripe'[i].session = "complete" /\ stripe'[i].amountOk = stripe[i].amountOk
         /\ SameSale(i)
         /\ (~\E p \in Resolvers : ResolveCancel(p) /\ resolver[p].intent = i)
              => stripe'[i].sub = stripe[i].sub
<1>0. /\ stripe \in [Intents -> Purchase] /\ TypeOK /\ Named
      /\ request[i] = "answered"
  BY DEF MoneyInv, TypeOK, MintedOnce
<1>1. SameSale(i)
  <2>1. CASE \E k \in Intents : OpenCommit(k)
    <3>1. PICK k \in Intents : OpenCommit(k)
      BY <2>1
    <3>2. k # i
      BY <1>0, <3>1 DEF OpenCommit
    <3> QED BY <1>0, <3>1, <3>2, OpenCommitWrites
  <2>2. CASE \A k \in Intents : ~OpenCommit(k)
    BY <1>0, <2>2, RowsKept
  <2> QED BY <2>1, <2>2
<1> DEFINE Kept == /\ stripe'[i].session = "complete"
                   /\ stripe'[i].amountOk = stripe[i].amountOk
                   /\ (~\E p \in Resolvers : ResolveCancel(p) /\ resolver[p].intent = i)
                        => stripe'[i].sub = stripe[i].sub
<1>2. ASSUME stripe'[i] = stripe[i] PROVE Kept
  BY <1>2
<1>3. ASSUME NEW k \in Intents, RequestStep(k) PROVE Kept
  <2>1. CASE Mint(k)
    <3>1. k # i
      BY <1>0, <2>1 DEF Mint
    <3> QED BY <1>0, <1>2, <2>1, <3>1 DEF Mint
  <2>2. CASE ~Mint(k)
    BY <1>2, <1>3, <2>2 DEF RequestStep, OpenRead, OpenRefused, OpenBegin, OpenCommit,
      OpenLoses, MintFail, MintCrash
  <2> QED BY <2>1, <2>2
<1>4. ASSUME NEW k \in Intents, BuyerStep(k) \/ DeliverAck(k) PROVE Kept
  <2>1. ASSUME NEW c \in BOOLEAN, NEW o \in BOOLEAN, Complete(k, c, o) PROVE Kept
    <3>1. k # i
      BY <2>1 DEF Complete, Payable
    <3> QED BY <1>0, <1>2, <2>1, <3>1 DEF Complete
  <2>2. ASSUME BuyerBack(k) PROVE Kept
    <3>1. k # i
      BY <2>2 DEF BuyerBack
    <3> QED BY <1>0, <1>2, <2>2, <3>1 DEF BuyerBack
  <2>3. ASSUME \/ \E m \in Invoices : Renew(k, m) \/ Charge(k, m)
               \/ BuyerReleased(k) \/ DeliverAck(k)
        PROVE  Kept
    BY <1>2, <2>3 DEF Renew, Charge, BuyerReleased, DeliverAck
  <2> QED BY <1>4, <2>1, <2>2, <2>3 DEF BuyerStep
<1>5. ASSUME Tick PROVE Kept
  BY <1>2, <1>5 DEF Tick
<1>6. ASSUME NEW p \in Resolvers, ResolveStep(p) PROVE Kept
  <2>1. CASE ResolveCancel(p)
    <3>1. CASE resolver[p].intent = i
      <4>1. stripe'[i] = [stripe[i] EXCEPT !.sub = "canceled"]
        BY <1>0, <2>1, <3>1 DEF ResolveCancel
      <4> QED BY <1>0, <1>6, <2>1, <3>1, <4>1 DEF Purchase
    <3>2. CASE resolver[p].intent # i
      BY <1>0, <1>2, <2>1, <3>2 DEF ResolveCancel
    <3> QED BY <3>1, <3>2
  <2>2. CASE ~ResolveCancel(p)
    BY <1>2, <1>6, <2>2 DEF ResolveStep, ResolveBegin, ResolveVoid, ResolveRefund,
      ResolveFinish, ResolveAbort
  <2> QED BY <2>1, <2>2
<1>7. ASSUME NEW p \in Staff, StaffStep(p) PROVE Kept
  <2>1. CASE StaffExpire(p)
    BY <1>0, <1>2, <2>1 DEF StaffExpire
  <2>2. CASE ~StaffExpire(p)
    BY <1>2, <1>7, <2>2 DEF StaffStep, StaffLook, StaffWrite
  <2> QED BY <2>1, <2>2
<1>8. ASSUME \/ \E w \in Workers : DeliverStep(w)
             \/ \E p \in Sweepers : SweepStep(p)
             \/ \E a \in Admins : AdminStep(a)
             \/ \E c \in Codes : CodePatched(c)
             \/ UNCHANGED vars
      PROVE  Kept
  BY <1>2, <1>8 DEF DeliverStep, DeliverBegin, DeliverConflict, DeliverActivate, DeliverError,
    Revive, SweepStep, SweepRead, SweepWrite, AdminStep, AdminBegin, AdminCommit, CodePatched,
    vars
<1>9. Kept
  BY <1>3, <1>4, <1>5, <1>6, <1>7, <1>8 DEF Next
<1> QED BY <1>1, <1>9

(* Who writes the sponsors, and what.                                      *)
LEMMA ActivateRow ==
  ASSUME TypeOK, NEW w \in Workers, DeliverActivate(w), NEW r \in Rows
  PROVE  IF r = SaleRow(delivery[w].intent)
         THEN /\ sponsor'[r].status = "Active" /\ sponsor'[r].tier = "exclusive"
              /\ sponsor'[r].sub = delivery[w].intent
         ELSE sponsor'[r] = sponsor[r]
<1>1. sponsor'[r] = IF r = SaleRow(delivery[w].intent)
        THEN [status |-> "Active", tier |-> "exclusive", sub |-> delivery[w].intent]
        ELSE sponsor[r]
  BY DEF TypeOK, DeliverActivate
<1> QED BY <1>1

LEMMA AdminRow ==
  ASSUME TypeOK, NEW a \in Admins, AdminCommit(a), NEW r \in Rows
  PROVE  \/ sponsor'[r] = sponsor[r]
         \/ /\ r = admin[a].row /\ admin[a].pc = "create" /\ sponsor[r].status = "absent"
            /\ sponsor'[r].sub = None
         \/ /\ r = admin[a].row /\ admin[a].pc = "delete" /\ sponsor[r].status # "absent"
            /\ sponsor'[r].sub = None /\ sponsor'[r].status = "absent"
         \/ /\ r = admin[a].row /\ sponsor[r].status # "absent"
            /\ sponsor'[r].sub = sponsor[r].sub /\ sponsor'[r].tier = sponsor[r].tier
            /\ \/ admin[a].pc = "activate" /\ sponsor'[r].status = "Active"
               \/ admin[a].pc = "pause" /\ sponsor'[r].status = "Paused"
               \/ admin[a].pc = "expire" /\ sponsor'[r].status = "Expired"
<1> DEFINE m == admin[a]
<1>0. sponsor \in [Rows -> SponsorRow] /\ admin[a] \in AdminState
  BY DEF TypeOK
<1>1. CASE r # m.row \/ ~AdminCommits(m.pc, m.row, m.tier)
  BY <1>0, <1>1 DEF AdminCommit
<1>2. CASE r = m.row /\ AdminCommits(m.pc, m.row, m.tier)
  <2>1. sponsor'[r] = AdminWritten(m.pc, r, m.tier)
    BY <1>0, <1>2 DEF AdminCommit
  <2>2. (sponsor[r].status = "absent") = (m.pc = "create")
    BY <1>2 DEF AdminCommits
  <2>3. m.pc \in AdminOps
    BY <1>0 DEF AdminCommit, AdminState
  <2>4. CASE m.pc = "create"
    BY <1>2, <2>1, <2>2, <2>4 DEF AdminWritten
  <2>5. CASE m.pc = "delete"
    BY <1>2, <2>1, <2>2, <2>5 DEF AdminWritten, NoRow
  <2>6. CASE m.pc = "activate"
    BY <1>0, <1>2, <2>1, <2>2, <2>6 DEF AdminWritten, SponsorRow
  <2>7. CASE m.pc = "pause"
    BY <1>0, <1>2, <2>1, <2>2, <2>7 DEF AdminWritten, SponsorRow
  <2>8. CASE m.pc = "expire"
    BY <1>0, <1>2, <2>1, <2>2, <2>8 DEF AdminWritten, SponsorRow
  <2> QED BY <2>3, <2>4, <2>5, <2>6, <2>7, <2>8 DEF AdminOps
<1> QED BY <1>1, <1>2

(* Or the company's own card went through again.                           *)
Revived(r) ==
  /\ sponsor[r].status = "Expired" /\ sponsor[r].sub = Earlier
  /\ sponsor'[r].status = "Active" /\ sponsor'[r].sub = Earlier
  /\ sponsor'[r].tier = sponsor[r].tier
  /\ \E w \in Workers : Revive(w, r)

LEMMA OthersKeepSponsors ==
  ASSUME TypeOK, [Next]_vars, \A w \in Workers : ~DeliverActivate(w),
         \A a \in Admins : ~AdminCommit(a), NEW r \in Rows
  PROVE  sponsor'[r] = sponsor[r] \/ Revived(r)
<1>1. ASSUME NEW i \in Intents, RequestStep(i) \/ BuyerStep(i) \/ DeliverAck(i)
      PROVE  sponsor' = sponsor
  BY <1>1 DEF RequestStep, OpenRead, OpenRefused, OpenBegin, OpenCommit, OpenLoses, Mint,
    MintFail, MintCrash, BuyerStep, Complete, Renew, Charge, BuyerBack, BuyerReleased,
    DeliverAck
<1>2. ASSUME NEW w \in Workers, DeliverStep(w) PROVE sponsor'[r] = sponsor[r] \/ Revived(r)
  <2>1. ASSUME NEW q \in Rows, Revive(w, q) PROVE sponsor'[r] = sponsor[r] \/ Revived(r)
    <3>1. sponsor[q] \in SponsorRow /\ sponsor \in [Rows -> SponsorRow]
      BY DEF TypeOK
    <3>2. sponsor'[r] = IF r = q THEN [sponsor[q] EXCEPT !.status = "Active"] ELSE sponsor[r]
      BY <2>1, <3>1 DEF Revive
    <3>3. [sponsor[q] EXCEPT !.status = "Active"].status = "Active"
          /\ [sponsor[q] EXCEPT !.status = "Active"].sub = sponsor[q].sub
          /\ [sponsor[q] EXCEPT !.status = "Active"].tier = sponsor[q].tier
      BY <3>1 DEF SponsorRow
    <3>4. sponsor[q].status = "Expired" /\ sponsor[q].sub = Earlier
      BY <2>1 DEF Revive
    <3> QED BY <2>1, <3>2, <3>3, <3>4 DEF Revived
  <2>2. CASE DeliverConflict(w) \/ DeliverError(w) \/ \E i \in Intents : DeliverBegin(w, i)
    BY <2>2 DEF DeliverBegin, DeliverConflict, DeliverError
  <2> QED BY <1>2, <2>1, <2>2 DEF DeliverStep
<1>3. ASSUME NEW p \in Resolvers, ResolveStep(p) PROVE sponsor' = sponsor
  BY <1>3 DEF ResolveStep, ResolveBegin, ResolveCancel, ResolveVoid, ResolveRefund,
    ResolveFinish, ResolveAbort
<1>4. ASSUME \/ Tick \/ (\E p \in Staff : StaffStep(p)) \/ (\E p \in Sweepers : SweepStep(p))
             \/ (\E a \in Admins : AdminStep(a)) \/ (\E c \in Codes : CodePatched(c))
             \/ UNCHANGED vars
      PROVE  sponsor' = sponsor
  BY <1>4 DEF Tick, StaffStep, StaffLook, StaffExpire, StaffWrite, SweepStep, SweepRead,
    SweepWrite, AdminStep, AdminBegin, CodePatched, vars
<1> QED BY <1>1, <1>2, <1>3, <1>4 DEF Next

(***************************************************************************)
(* The rows sales have written, when every sale has a row of its own.      *)
(***************************************************************************)
(* A row with a sale's subscription is that sale's, live and exclusive;    *)
(* a sale's row has its subscription; staff have decided to create, expire *)
(* or delete companies' rows only (R15).                                   *)
SaleRows ==
  /\ \A r \in Rows : sponsor[r].sub \in Intents =>
       /\ r = <<sponsor[r].sub, intent[sponsor[r].sub].slot>>
       /\ sponsor[r].status \in Live /\ sponsor[r].tier = "exclusive"
       /\ stripe[sponsor[r].sub].session = "complete"
  /\ \A r \in Rows : r[1] \in Intents /\ sponsor[r].status # "absent" => sponsor[r].sub = r[1]
  /\ \A a \in Admins : admin[a].pc \in {"create", "expire", "delete"}
                         => admin[a].row[1] \in Companies

RowInv == MoneyInv /\ SaleRows

LEMMA OwnSupplier ==
  ASSUME Unbound, TypeOK, NEW i \in Intents
  PROVE  Supplier(i) = i /\ SaleRow(i) = <<i, intent[i].slot>>
<1>1. intent[i].code \in Codes \cup {None}
  BY DEF TypeOK, IntentRow
<1> QED BY <1>1 DEF Unbound, Supplier, SaleRow

LEMMA RowsFrame ==
  ASSUME RowInv, MoneyInv', [Next]_vars, admin' = admin,
         \A r \in Rows : sponsor'[r] = sponsor[r] \/ Revived(r)
  PROVE  RowInv'
<1>0. Earlier \notin Intents
  BY CheckoutAssumption
<1>1. ASSUME NEW r \in Rows, sponsor[r].sub \in Intents
      PROVE  /\ r = <<sponsor[r].sub, intent'[sponsor[r].sub].slot>>
             /\ stripe'[sponsor[r].sub].session = "complete"
  <2>1. sponsor[r].sub \in Intents /\ stripe[sponsor[r].sub].session = "complete"
    BY <1>1 DEF RowInv, SaleRows, MoneyInv, TypeOK, SponsorRow
  <2>2. SameSale(sponsor[r].sub) /\ stripe'[sponsor[r].sub].session = "complete"
    BY <2>1, CompleteStays DEF RowInv
  <2> QED BY <1>1, <2>2 DEF RowInv, SaleRows, SameSale
<1>2. ASSUME NEW r \in Rows
      PROVE  /\ sponsor'[r].sub \in Intents => sponsor'[r] = sponsor[r]
             /\ r[1] \in Intents /\ sponsor'[r].status # "absent" => sponsor'[r].sub = r[1]
  <2>1. CASE sponsor'[r] = sponsor[r]
    BY <2>1 DEF RowInv, SaleRows
  <2>2. CASE Revived(r)
    BY <1>0, <2>2 DEF Revived, RowInv, SaleRows
  <2> QED BY <2>1, <2>2
<1> QED BY <1>1, <1>2 DEF RowInv, SaleRows

LEMMA RowsActivate ==
  ASSUME Unbound, RowInv, MoneyInv', NEW w \in Workers, DeliverActivate(w) PROVE RowInv'
<1> DEFINE i == delivery[w].intent
<1>0. /\ TypeOK /\ Named /\ i \in Intents /\ stripe[i].session = "complete"
      /\ stripe' = stripe /\ admin' = admin
  BY DEF RowInv, MoneyInv, Named, AfterPayment, DeliverActivate
<1>1. \A j \in Intents : intent'[j].slot = intent[j].slot
  BY <1>0, ActivateWrites DEF SameSale
<1>2. SaleRow(i) = <<i, intent[i].slot>>
  BY <1>0, OwnSupplier
<1>3. ASSUME NEW r \in Rows
      PROVE  /\ sponsor'[r].sub \in Intents =>
                  /\ r = <<sponsor'[r].sub, intent'[sponsor'[r].sub].slot>>
                  /\ sponsor'[r].status \in Live /\ sponsor'[r].tier = "exclusive"
                  /\ stripe[sponsor'[r].sub].session = "complete"
             /\ r[1] \in Intents /\ sponsor'[r].status # "absent" => sponsor'[r].sub = r[1]
  <2>1. CASE r = SaleRow(i)
    <3>1. sponsor'[r].status = "Active" /\ sponsor'[r].tier = "exclusive" /\ sponsor'[r].sub = i
      BY <1>0, <2>1, ActivateRow
    <3> QED BY <1>0, <1>1, <1>2, <2>1, <3>1 DEF Live
  <2>2. CASE r # SaleRow(i)
    <3>1. sponsor'[r] = sponsor[r]
      BY <1>0, <2>2, ActivateRow
    <3> QED BY <1>1, <3>1 DEF RowInv, SaleRows
  <2> QED BY <2>1, <2>2
<1> QED BY <1>0, <1>3 DEF RowInv, SaleRows

LEMMA RowsAdmin ==
  ASSUME RowInv, MoneyInv', NEW a \in Admins, AdminStep(a) PROVE RowInv'
<1>0. /\ TypeOK /\ admin \in [Admins -> AdminState] /\ None \notin Intents
      /\ Intents \cap Companies = {}
      /\ \A r \in Rows : r[1] \in Companies \cup Intents
  BY CheckoutAssumption DEF RowInv, MoneyInv, TypeOK, Rows, Suppliers
<1>1. ASSUME NEW op \in AdminOps, NEW r \in Rows, NEW t \in {"exclusive", "silver"},
             AdminBegin(a, op, r, t)
      PROVE  RowInv'
  <2>1. /\ admin'[a].pc = op /\ admin'[a].row = r
        /\ \A b \in Admins \ {a} : admin'[b] = admin[b]
        /\ UNCHANGED <<intent, sponsor, stripe>>
    BY <1>0, <1>1 DEF AdminBegin
  <2>2. op \in {"create", "expire", "delete"} => r[1] \in Companies
    <3>1. CASE op = "create"
      BY <1>1, <3>1 DEF AdminBegin
    <3>2. CASE op \in {"expire", "delete"}
      <4>1. sponsor[r].status # "absent" /\ ~BillingActive(r)
        BY <1>1, <3>2 DEF AdminBegin, AdminMay, Live
      <4>2. CASE r[1] \in Intents
        <5>1. sponsor[r].sub = r[1] /\ sponsor[r].sub \in Intents /\ sponsor[r].sub # None
          BY <1>0, <4>1, <4>2 DEF RowInv, SaleRows
        <5>2. sponsor[r].status \in Live
          BY <5>1 DEF RowInv, SaleRows
        <5> QED BY <4>1, <5>1, <5>2 DEF BillingActive, Live
      <4> QED BY <1>0, <4>2
    <3> QED BY <3>1, <3>2
  <2> QED BY <2>1, <2>2 DEF RowInv, SaleRows
<1>2. ASSUME AdminCommit(a) PROVE RowInv'
  <2>1. /\ admin'[a].pc = "idle" /\ \A b \in Admins \ {a} : admin'[b] = admin[b]
        /\ UNCHANGED <<intent, stripe>>
    BY <1>0, <1>2 DEF AdminCommit, NoAdmin
  <2>2. ASSUME NEW r \in Rows
        PROVE  /\ sponsor'[r].sub \in Intents =>
                    /\ sponsor'[r].sub = sponsor[r].sub
                    /\ sponsor'[r].status \in Live /\ sponsor'[r].tier = "exclusive"
               /\ r[1] \in Intents /\ sponsor'[r].status # "absent" => sponsor'[r].sub = r[1]
    <3>1. CASE sponsor'[r] = sponsor[r]
      BY <3>1 DEF RowInv, SaleRows
    <3>2. CASE r = admin[a].row /\ admin[a].pc \in {"create", "expire", "delete"}
               /\ (sponsor'[r].sub = None \/ sponsor'[r].sub = sponsor[r].sub)
      <4>1. r[1] \in Companies /\ r[1] \notin Intents
        BY <1>0, <3>2 DEF RowInv, SaleRows
      <4>2. sponsor[r].sub \notin Intents
        BY <4>1 DEF RowInv, SaleRows
      <4> QED BY <1>0, <3>2, <4>1, <4>2
    <3>3. CASE /\ sponsor[r].status # "absent" /\ sponsor'[r].status \in {"Active", "Paused"}
               /\ sponsor'[r].sub = sponsor[r].sub /\ sponsor'[r].tier = sponsor[r].tier
      BY <3>3 DEF RowInv, SaleRows, Live
    <3> QED BY <1>0, <1>2, <3>1, <3>2, <3>3, AdminRow
  <2> QED BY <2>1, <2>2 DEF RowInv, SaleRows
<1> QED BY <1>1, <1>2 DEF AdminStep

LEMMA OthersKeepAdmins ==
  ASSUME [Next]_vars, \A a \in Admins : ~AdminStep(a) PROVE admin' = admin
<1>1. ASSUME NEW i \in Intents, RequestStep(i) \/ BuyerStep(i) \/ DeliverAck(i)
      PROVE  admin' = admin
  BY <1>1 DEF RequestStep, OpenRead, OpenRefused, OpenBegin, OpenCommit, OpenLoses, Mint,
    MintFail, MintCrash, BuyerStep, Complete, Renew, Charge, BuyerBack, BuyerReleased,
    DeliverAck
<1>2. ASSUME \/ \E w \in Workers : DeliverStep(w)
             \/ \E p \in Resolvers : ResolveStep(p)
      PROVE  admin' = admin
  BY <1>2 DEF DeliverStep, DeliverBegin, DeliverConflict, DeliverActivate, DeliverError,
    Revive, ResolveStep, ResolveBegin, ResolveCancel, ResolveVoid, ResolveRefund,
    ResolveFinish, ResolveAbort
<1>3. ASSUME \/ Tick \/ (\E p \in Staff : StaffStep(p)) \/ (\E p \in Sweepers : SweepStep(p))
             \/ (\E c \in Codes : CodePatched(c)) \/ UNCHANGED vars
      PROVE  admin' = admin
  BY <1>3 DEF Tick, StaffStep, StaffLook, StaffExpire, StaffWrite, SweepStep, SweepRead,
    SweepWrite, CodePatched, vars
<1> QED BY <1>1, <1>2, <1>3 DEF Next

LEMMA RowsKeptByAll == ASSUME Unbound, RowInv, [Next]_vars PROVE RowInv'
<1>1. MoneyInv'
  BY MoneyKept DEF RowInv
<1>2. CASE \E a \in Admins : AdminStep(a)
  BY <1>1, <1>2, RowsAdmin
<1>3. CASE \E w \in Workers : DeliverActivate(w)
  BY <1>1, <1>3, RowsActivate
<1>4. CASE (\A a \in Admins : ~AdminStep(a)) /\ (\A w \in Workers : ~DeliverActivate(w))
  BY <1>1, <1>4, RowsFrame, OthersKeepAdmins, OthersKeepSponsors
    DEF AdminStep, RowInv, MoneyInv
<1> QED BY <1>2, <1>3, <1>4

LEMMA InitRows == ASSUME Init PROVE RowInv
<1>1. MoneyInv
  BY InitMoney
<1>2. PICK listed \in [Companies \X Slots -> ListedRows] :
        sponsor = [r \in Rows |-> IF r \in Companies \X Slots THEN listed[r] ELSE NoRow]
  BY DEF Init
<1>3. ASSUME NEW r \in Rows
      PROVE  sponsor[r].sub \notin Intents /\ (r[1] \in Intents => sponsor[r].status = "absent")
  <2>1. CASE r \in Companies \X Slots
    <3>1. sponsor[r] \in ListedRows /\ r[1] \notin Intents
      BY <1>2, <2>1, CheckoutAssumption
    <3> QED BY <3>1, CheckoutAssumption DEF ListedRows, NoRow
  <2>2. CASE r \notin Companies \X Slots
    BY <1>2, <2>2, CheckoutAssumption DEF NoRow
  <2> QED BY <2>1, <2>2
<1>4. \A a \in Admins : admin[a].pc = "idle"
  BY DEF Init, NoAdmin
<1> QED BY <1>1, <1>3, <1>4 DEF RowInv, SaleRows

(***************************************************************************)
(* A company's row, with bound codes, when no staff write sponsors and     *)
(* deliveries are handled one at a time.                                   *)
(***************************************************************************)
(* A sale's row has its subscription; an idle worker has decided nothing;  *)
(* the row a delivery is about to write carries no live sponsor.           *)
FreeRow ==
  /\ \A r \in Rows : r[1] \in Intents /\ sponsor[r].status # "absent" => sponsor[r].sub = r[1]
  /\ \A w \in Workers : delivery[w].pc = "idle" => delivery[w].verdict = "none"
  /\ \A w \in Workers, r \in Rows :
       delivery[w].verdict = "activate" /\ r = SaleRow(delivery[w].intent)
         => sponsor[r].status \notin Live

FreeInv == MoneyInv /\ FreeRow

LEMMA SupplierKinds ==
  ASSUME TypeOK, NEW i \in Intents
  PROVE  Supplier(i) = i \/ Supplier(i) \in Companies
<1>1. intent[i].code \in Codes \cup {None}
  BY DEF TypeOK, IntentRow
<1> QED BY <1>1, CheckoutAssumption DEF Supplier

LEMMA SaleRowStays ==
  ASSUME NEW i \in Intents, SameSale(i) PROVE SaleRow(i)' = SaleRow(i)
BY DEF SameSale, SaleRow, Supplier

(* Who changes deliveries.                                                 *)
LEMMA OthersKeepDeliveries ==
  ASSUME [Next]_vars, \A w \in Workers : ~DeliverStep(w) PROVE delivery' = delivery
<1>1. ASSUME NEW i \in Intents, RequestStep(i) \/ BuyerStep(i) \/ DeliverAck(i)
      PROVE  delivery' = delivery
  BY <1>1 DEF RequestStep, OpenRead, OpenRefused, OpenBegin, OpenCommit, OpenLoses, Mint,
    MintFail, MintCrash, BuyerStep, Complete, Renew, Charge, BuyerBack, BuyerReleased,
    DeliverAck
<1>2. ASSUME NEW p \in Resolvers, ResolveStep(p) PROVE delivery' = delivery
  BY <1>2 DEF ResolveStep, ResolveBegin, ResolveCancel, ResolveVoid, ResolveRefund,
    ResolveFinish, ResolveAbort
<1>3. ASSUME \/ Tick \/ (\E p \in Staff : StaffStep(p)) \/ (\E p \in Sweepers : SweepStep(p))
             \/ (\E a \in Admins : AdminStep(a)) \/ (\E c \in Codes : CodePatched(c))
             \/ UNCHANGED vars
      PROVE  delivery' = delivery
  BY <1>3 DEF Tick, StaffStep, StaffLook, StaffExpire, StaffWrite, SweepStep, SweepRead,
    SweepWrite, AdminStep, AdminBegin, AdminCommit, CodePatched, vars
<1> QED BY <1>1, <1>2, <1>3 DEF Next

LEMMA DeliveryEnds ==
  ASSUME TypeOK, NEW w \in Workers, DeliverConflict(w) \/ DeliverActivate(w) \/ DeliverError(w)
  PROVE  /\ delivery'[w].verdict = "none"
         /\ \A v \in Workers \ {w} : delivery'[v] = delivery[v]
BY DEF TypeOK, DeliverConflict, DeliverActivate, DeliverError, DeliverDone, NoDelivery

LEMMA DeliveryBegins ==
  ASSUME TypeOK, NEW w \in Workers, NEW i \in Intents, DeliverBegin(w, i)
  PROVE  /\ delivery'[w].pc = "commit"
         /\ delivery'[w].intent = i /\ delivery'[w].stamped = intent[i].resolved
         /\ delivery'[w].verdict = IF Refused(i) THEN "conflict" ELSE "activate"
         /\ delivery'[w].uses = IF intent[i].code = None THEN 0 ELSE uses[intent[i].code]
         /\ \A v \in Workers \ {w} : delivery'[v] = delivery[v]
         /\ UNCHANGED <<intent, sponsor, stripe, bill, resolver>>
<1>1. delivery' = [delivery EXCEPT ![w] =
         [pc |-> "commit", intent |-> i,
          verdict |-> IF Refused(i) THEN "conflict" ELSE "activate",
          reuse |-> sponsor[SaleRow(i)].status # "absent",
          stamped |-> intent[i].resolved,
          uses |-> IF intent[i].code = None THEN 0 ELSE uses[intent[i].code]]]
  BY DEF DeliverBegin
<1>2. delivery'[w] =
         [pc |-> "commit", intent |-> i,
          verdict |-> IF Refused(i) THEN "conflict" ELSE "activate",
          reuse |-> sponsor[SaleRow(i)].status # "absent",
          stamped |-> intent[i].resolved,
          uses |-> IF intent[i].code = None THEN 0 ELSE uses[intent[i].code]]
  BY <1>1 DEF TypeOK
<1> QED BY <1>1, <1>2 DEF TypeOK, DeliverBegin

(* What each delivery has decided stands, apart from the one that moves.   *)
LEMMA DeliveriesKept ==
  ASSUME TypeOK, [Next]_vars, NEW v \in Workers, delivery'[v].verdict # "none"
  PROVE  delivery'[v] = delivery[v] \/ \E i \in Intents : DeliverBegin(v, i)
<1>1. CASE \A w \in Workers : ~DeliverStep(w)
  BY <1>1, OthersKeepDeliveries
<1>2. ASSUME NEW w \in Workers, NEW i \in Intents, DeliverBegin(w, i)
      PROVE  delivery'[v] = delivery[v] \/ \E j \in Intents : DeliverBegin(v, j)
  BY <1>2, DeliveryBegins
<1>3. ASSUME NEW w \in Workers, DeliverConflict(w) \/ DeliverActivate(w) \/ DeliverError(w)
      PROVE  delivery'[v] = delivery[v]
  BY <1>3, DeliveryEnds
<1>4. ASSUME NEW w \in Workers, NEW r \in Rows, Revive(w, r) PROVE delivery'[v] = delivery[v]
  BY <1>4 DEF Revive
<1> QED BY <1>1, <1>2, <1>3, <1>4 DEF DeliverStep

LEMMA FreeKept ==
  ASSUME Admins = {}, OneWorker, FreeInv, [Next]_vars PROVE FreeInv'
<1>0. /\ TypeOK /\ Named /\ MoneyInv /\ None \notin Intents /\ Intents \cap Companies = {}
  BY CheckoutAssumption DEF FreeInv, MoneyInv
<1>1. MoneyInv'
  BY <1>0, MoneyKept
<1>2. ASSUME NEW w \in Workers, DeliverActivate(w) PROVE FreeRow'
  <2> DEFINE i == delivery[w].intent
  <2>1. i \in Intents /\ (SaleRow(i)[1] = i \/ SaleRow(i)[1] \in Companies)
    BY <1>0, <1>2, SupplierKinds DEF DeliverActivate, Named, SaleRow
  <2>2. ASSUME NEW r \in Rows, r[1] \in Intents, sponsor'[r].status # "absent"
        PROVE  sponsor'[r].sub = r[1]
    BY <1>0, <1>2, <2>1, <2>2, ActivateRow DEF FreeInv, FreeRow
  <2>3. \A v \in Workers : delivery'[v].verdict = "none"
    BY <1>0, <1>2, DeliveryEnds DEF OneWorker
  <2> QED BY <2>2, <2>3 DEF FreeRow
<1>3. CASE \A w \in Workers : ~DeliverActivate(w)
  <2>1. \A r \in Rows : sponsor'[r] = sponsor[r] \/ Revived(r)
    BY <1>0, <1>3, OthersKeepSponsors
  <2>2. ASSUME NEW v \in Workers, NEW r \in Rows, delivery'[v].verdict = "activate",
               r = SaleRow(delivery[v].intent)'
        PROVE  sponsor[r].status \notin Live
    <3>1. CASE delivery'[v] = delivery[v]
      <4>1. PICK i \in Intents : i = delivery[v].intent /\ stripe[i].session = "complete"
        BY <1>0, <2>2, <3>1 DEF Named, MoneyInv, AfterPayment
      <4>2. SaleRow(i)' = SaleRow(i)
        BY <1>0, <4>1, CompleteStays, SaleRowStays
      <4>3. r = SaleRow(i)'
        BY <2>2, <3>1, <4>1 DEF SaleRow, Supplier
      <4> QED BY <4>1, <4>2, <2>2, <3>1, <4>3 DEF FreeInv, FreeRow
    <3>2. ASSUME NEW i \in Intents, DeliverBegin(v, i) PROVE sponsor[r].status \notin Live
      <4>1. /\ delivery'[v].intent = i /\ ~Refused(i) /\ intent' = intent
        BY <1>0, <2>2, <3>2, DeliveryBegins
      <4>2. r = SaleRow(i)
        <5>1. r = SaleRow(i)' /\ SameSale(i)
          BY <2>2, <4>1 DEF SaleRow, Supplier, SameSale
        <5> QED BY <5>1, SaleRowStays
      <4>3. CASE Supplier(i) # i
        BY <4>1, <4>2, <4>3 DEF Refused
      <4>4. CASE Supplier(i) = i
        <5>1. r[1] = i /\ sponsor[r].sub # i
          BY <3>2, <4>2, <4>4 DEF SaleRow, DeliverBegin, Recorded
        <5> QED BY <5>1 DEF FreeInv, FreeRow, Live
      <4> QED BY <4>3, <4>4
    <3> QED BY <1>0, <2>2, <3>1, <3>2, DeliveriesKept
  <2>3. ASSUME NEW v \in Workers, NEW r \in Rows, delivery'[v].verdict # "none", Revived(r)
        PROVE  FALSE
    <3>1. PICK w \in Workers : Revive(w, r)
      BY <2>3 DEF Revived
    <3>2. v = w /\ delivery[w].pc = "idle" /\ delivery' = delivery
      BY <3>1 DEF OneWorker, Revive
    <3> QED BY <2>3, <3>2 DEF FreeInv, FreeRow
  <2>4. ASSUME NEW r \in Rows, r[1] \in Intents, sponsor'[r].status # "absent"
        PROVE  sponsor'[r].sub = r[1]
    BY <2>1, <2>4, CheckoutAssumption DEF Revived, FreeInv, FreeRow
  <2>5. ASSUME NEW v \in Workers, delivery'[v].pc = "idle" PROVE delivery'[v].verdict = "none"
    BY <1>0, <2>5, DeliveriesKept, DeliveryBegins DEF FreeInv, FreeRow
  <2>6. ASSUME NEW v \in Workers, NEW r \in Rows, delivery'[v].verdict = "activate",
               r = SaleRow(delivery[v].intent)'
        PROVE  sponsor'[r].status \notin Live
    BY <2>1, <2>2, <2>3, <2>6
  <2> QED BY <1>1, <2>4, <2>5, <2>6 DEF FreeInv, FreeRow
<1> QED BY <1>1, <1>2, <1>3 DEF FreeInv

(* No sale takes a live sponsor's subscription from its row, whether the   *)
(* row is a buyer's own or a company's that a code is bound to, sold by    *)
(* quote before or revived by its own paid invoice while a hold on it was  *)
(* open: deliveries are handled one at a time, staff leave the sponsors    *)
(* alone, and the sweep, releases and several processes do as they like.   *)
THEOREM BoundSubscriptionStays ==
  ASSUME Admins = {}, OneWorker PROVE Spec => SubscriptionKept
<1>1. Init => FreeInv
  <2> SUFFICES ASSUME Init PROVE FreeInv
    OBVIOUS
  <2>1. RowInv
    BY InitRows
  <2>2. \A w \in Workers : delivery[w].verdict = "none"
    BY DEF Init, NoDelivery
  <2> QED BY <2>1, <2>2 DEF RowInv, SaleRows, FreeInv, FreeRow
<1>2. FreeInv /\ [Next]_vars => FreeInv'
  BY FreeKept
<1>3. FreeInv /\ [Next]_vars =>
        [\A r \in Rows : sponsor[r].status \in Live /\ sponsor[r].sub # None
                           => sponsor'[r].sub = sponsor[r].sub]_vars
  <2> SUFFICES ASSUME FreeInv, [Next]_vars, NEW r \in Rows, sponsor[r].status \in Live
               PROVE  sponsor'[r].sub = sponsor[r].sub
    OBVIOUS
  <2>0. TypeOK
    BY DEF FreeInv, MoneyInv
  <2>1. ASSUME NEW w \in Workers, DeliverActivate(w) PROVE sponsor'[r] = sponsor[r]
    <3>1. r # SaleRow(delivery[w].intent)
      BY <2>1 DEF FreeInv, FreeRow, DeliverActivate
    <3> QED BY <2>0, <2>1, <3>1, ActivateRow
  <2> QED BY <2>0, <2>1, OthersKeepSponsors DEF Revived
<1> QED BY <1>1, <1>2, <1>3, PTL DEF Spec, SubscriptionKept

(***************************************************************************)
(* What a paid checkout comes to, when neither the console's release nor   *)
(* the sweep overwrites a status.                                          *)
(***************************************************************************)
(* A first invoice is never left open and comes with its subscription;     *)
(* what is settled, or about to be, was paid for; only a conflict is ever  *)
(* resolved, canceled or followed up.                                      *)
Settlement ==
  /\ \A i \in Intents : /\ bill[i][1] \in {"none", "paid", "refunded"}
                        /\ bill[i][1] # "none" => stripe[i].sub # "none"
  /\ \A i \in Intents : Settled(i) => Cleared(i)
  /\ \A i \in Intents : intent[i].resolved \/ stripe[i].sub = "canceled"
                          => intent[i].status = "conflict"
  /\ \A w \in Workers : delivery[w].verdict # "none"
                          => Cleared(delivery[w].intent) /\ ~delivery[w].stamped
  /\ \A p \in Resolvers : resolver[p].pc # "idle"
                            => intent[resolver[p].intent].status = "conflict"

(* A sale on the board is completed, and no delivery still means to refuse *)
(* a completed sale.                                                       *)
Board ==
  /\ \A r \in Rows : sponsor[r].sub \in Intents
                      => intent[sponsor[r].sub].status = "completed"
  /\ \A w \in Workers : delivery[w].verdict = "conflict"
                          => intent[delivery[w].intent].status # "completed"

SaleInv == LockInv /\ Settlement /\ Board

(* No delivery activates a sale that has been refused or is being refused. *)
(* This is not part of the code: it is what the cases below must show.     *)
Fresh == \A w \in Workers : DeliverActivate(w) =>
  /\ intent[delivery[w].intent].status # "conflict"
  /\ \A v \in Workers : delivery[v].verdict = "conflict"
                          => delivery[v].intent # delivery[w].intent

(* Who writes subscriptions and first invoices.                            *)
LEMMA SubWrites ==
  ASSUME TypeOK, Named, [Next]_vars, NEW i \in Intents
  PROVE  \/ stripe'[i].sub = stripe[i].sub
         \/ stripe'[i].sub = "active" /\ \E o \in BOOLEAN : Complete(i, TRUE, o)
         \/ stripe'[i].sub = "none" /\ \E o \in BOOLEAN : Complete(i, FALSE, o)
         \/ stripe'[i].sub = "canceled"
            /\ \E p \in Resolvers : ResolveCancel(p) /\ resolver[p].intent = i
<1> DEFINE Goal ==
         \/ stripe'[i].sub = stripe[i].sub
         \/ stripe'[i].sub = "active" /\ \E o \in BOOLEAN : Complete(i, TRUE, o)
         \/ stripe'[i].sub = "none" /\ \E o \in BOOLEAN : Complete(i, FALSE, o)
         \/ stripe'[i].sub = "canceled"
            /\ \E p \in Resolvers : ResolveCancel(p) /\ resolver[p].intent = i
<1>0. stripe \in [Intents -> Purchase]
  BY DEF TypeOK
<1>a. \A k \in Intents, v \in {"open", "expired"} :
        [stripe[k] EXCEPT !.session = v].sub = stripe[k].sub
  BY <1>0 DEF Purchase
<1>1. ASSUME NEW k \in Intents, RequestStep(k) PROVE Goal
  <2>1. CASE Mint(k)
    <3>1. stripe'[i] = IF i = k THEN [stripe[k] EXCEPT !.session = "open"] ELSE stripe[i]
      BY <1>0, <2>1 DEF Mint
    <3> QED BY <1>a, <3>1
  <2>2. CASE ~Mint(k)
    BY <1>1, <2>2 DEF RequestStep, OpenRead, OpenRefused, OpenBegin, OpenCommit, OpenLoses,
      MintFail, MintCrash
  <2> QED BY <2>1, <2>2
<1>2. ASSUME NEW k \in Intents, BuyerStep(k) \/ DeliverAck(k) PROVE Goal
  <2>1. ASSUME NEW c \in BOOLEAN, NEW o \in BOOLEAN, Complete(k, c, o) PROVE Goal
    <3>1. CASE k = i
      <4>1. stripe'[i].sub = IF c THEN "active" ELSE "none"
        BY <1>0, <2>1, <3>1 DEF Complete
      <4>2. CASE c = TRUE
        BY <2>1, <3>1, <4>1, <4>2
      <4>3. CASE c = FALSE
        BY <2>1, <3>1, <4>1, <4>3
      <4> QED BY <4>2, <4>3
    <3>2. CASE k # i
      BY <1>0, <2>1, <3>2 DEF Complete
    <3> QED BY <3>1, <3>2
  <2>2. ASSUME BuyerBack(k) PROVE Goal
    <3>1. stripe'[i] = IF i = k THEN [stripe[k] EXCEPT !.session = "expired"] ELSE stripe[i]
      BY <1>0, <2>2 DEF BuyerBack
    <3> QED BY <1>a, <3>1
  <2>3. ASSUME \/ \E m \in Invoices : Renew(k, m) \/ Charge(k, m)
               \/ BuyerReleased(k) \/ DeliverAck(k)
        PROVE  Goal
    BY <2>3 DEF Renew, Charge, BuyerReleased, DeliverAck
  <2> QED BY <1>2, <2>1, <2>2, <2>3 DEF BuyerStep
<1>3. ASSUME Tick PROVE Goal
  <2>1. stripe'[i] = stripe[i] \/ stripe'[i] = [stripe[i] EXCEPT !.session = "expired"]
    BY <1>3 DEF Tick
  <2> QED BY <1>a, <2>1
<1>4. ASSUME NEW p \in Resolvers, ResolveStep(p) PROVE Goal
  <2>1. CASE ResolveCancel(p) /\ resolver[p].intent = i
    <3>1. stripe'[i] = [stripe[i] EXCEPT !.sub = "canceled"]
      BY <1>0, <2>1 DEF ResolveCancel
    <3>2. stripe'[i].sub = "canceled"
      BY <1>0, <3>1 DEF Purchase
    <3> QED BY <2>1, <3>2
  <2>2. CASE ResolveCancel(p) /\ resolver[p].intent # i
    BY <1>0, <2>2 DEF ResolveCancel
  <2>3. CASE ~ResolveCancel(p)
    BY <1>4, <2>3 DEF ResolveStep, ResolveBegin, ResolveVoid, ResolveRefund, ResolveFinish,
      ResolveAbort
  <2> QED BY <2>1, <2>2, <2>3
<1>5. ASSUME NEW p \in Staff, StaffStep(p) PROVE Goal
  <2>1. CASE StaffExpire(p)
    <3>1. stripe'[i] = stripe[i] \/ stripe'[i] = [stripe[i] EXCEPT !.session = "expired"]
      BY <1>0, <2>1 DEF StaffExpire
    <3> QED BY <1>a, <3>1
  <2>2. CASE ~StaffExpire(p)
    BY <1>5, <2>2 DEF StaffStep, StaffLook, StaffWrite
  <2> QED BY <2>1, <2>2
<1>6. ASSUME \/ \E w \in Workers : DeliverStep(w)
             \/ \E p \in Sweepers : SweepStep(p)
             \/ \E a \in Admins : AdminStep(a)
             \/ \E c \in Codes : CodePatched(c)
             \/ UNCHANGED vars
      PROVE  Goal
  BY <1>6 DEF DeliverStep, DeliverBegin, DeliverConflict, DeliverActivate, DeliverError,
    Revive, SweepStep, SweepRead, SweepWrite, AdminStep, AdminBegin, AdminCommit, CodePatched,
    vars
<1> QED BY <1>1, <1>2, <1>3, <1>4, <1>5, <1>6 DEF Next

LEMMA FirstInvoiceWrites ==
  ASSUME TypeOK, Named, [Next]_vars, NEW i \in Intents, bill[i][1] # "open"
  PROVE  \/ bill'[i][1] = bill[i][1]
         \/ bill'[i][1] = "paid" /\ \E o \in BOOLEAN : Complete(i, TRUE, o)
         \/ bill'[i][1] = "refunded"
            /\ \E p \in Resolvers : ResolveRefund(p, 1) /\ resolver[p].intent = i
<1> DEFINE Goal ==
         \/ bill'[i][1] = bill[i][1]
         \/ bill'[i][1] = "paid" /\ \E o \in BOOLEAN : Complete(i, TRUE, o)
         \/ bill'[i][1] = "refunded"
            /\ \E p \in Resolvers : ResolveRefund(p, 1) /\ resolver[p].intent = i
<1>0. bill \in [Intents -> Bills] /\ 1 \in Invoices
  BY CheckoutAssumption DEF TypeOK, Invoices
<1>a. bill[i] \in [Invoices -> {"none", "open", "paid", "void", "refunded"}]
  BY <1>0 DEF Bills
<1>1. ASSUME NEW k \in Intents, NEW c \in BOOLEAN, NEW o \in BOOLEAN, Complete(k, c, o)
      PROVE  Goal
  <2>1. CASE c /\ k = i
    <3>1. bill'[i] = [bill[i] EXCEPT ![1] = "paid"]
      BY <1>0, <1>1, <2>1 DEF Complete
    <3>2. bill'[i][1] = "paid"
      BY <1>0, <1>a, <3>1
    <3>3. Complete(i, TRUE, o)
      BY <1>1, <2>1
    <3> QED BY <3>2, <3>3
  <2>2. CASE ~c \/ k # i
    BY <1>0, <1>1, <2>2 DEF Complete
  <2> QED BY <2>1, <2>2
<1>2. ASSUME NEW k \in Intents, NEW m \in Invoices, Renew(k, m) \/ Charge(k, m) PROVE Goal
  <2>1. k = i => m # 1
    BY <1>2 DEF Renew, Charge
  <2>2. CASE k = i
    <3>1. \E v : bill'[i] = [bill[i] EXCEPT ![m] = v]
      BY <1>0, <1>2, <2>2 DEF Renew, Charge
    <3> QED BY <1>0, <1>a, <2>1, <2>2, <3>1
  <2>3. CASE k # i
    BY <1>0, <1>2, <2>3 DEF Renew, Charge
  <2> QED BY <2>2, <2>3
<1>3. ASSUME NEW p \in Resolvers, ResolveVoid(p) PROVE Goal
  <2>1. CASE resolver[p].intent = i
    <3>1. bill'[i] = [k \in Invoices |-> IF bill[i][k] = "open" THEN "void" ELSE bill[i][k]]
      BY <1>0, <1>3, <2>1 DEF ResolveVoid
    <3> QED BY <1>0, <3>1
  <2>2. CASE resolver[p].intent # i
    BY <1>0, <1>3, <2>2 DEF ResolveVoid
  <2> QED BY <2>1, <2>2
<1>4. ASSUME NEW p \in Resolvers, NEW k \in Invoices, ResolveRefund(p, k) PROVE Goal
  <2>1. CASE resolver[p].intent = i /\ k = 1
    <3>1. bill'[i] = [bill[i] EXCEPT ![1] = "refunded"]
      BY <1>0, <1>4, <2>1 DEF ResolveRefund
    <3> QED BY <1>0, <1>4, <1>a, <2>1, <3>1
  <2>2. CASE resolver[p].intent = i /\ k # 1
    <3>1. bill'[i] = [bill[i] EXCEPT ![k] = "refunded"]
      BY <1>0, <1>4, <2>2 DEF ResolveRefund
    <3> QED BY <1>0, <1>a, <2>2, <3>1
  <2>3. CASE resolver[p].intent # i
    BY <1>0, <1>4, <2>3 DEF ResolveRefund
  <2> QED BY <2>1, <2>2, <2>3
<1>5. ASSUME bill' = bill PROVE Goal
  BY <1>5
<1>6. ASSUME NEW k \in Intents, RequestStep(k) \/ BuyerStep(k) \/ DeliverAck(k) PROVE Goal
  BY <1>1, <1>2, <1>5, <1>6 DEF RequestStep, OpenRead, OpenRefused, OpenBegin, OpenCommit,
    OpenLoses, Mint, MintFail, MintCrash, BuyerStep, BuyerBack, BuyerReleased, DeliverAck
<1>7. ASSUME NEW p \in Resolvers, ResolveStep(p) PROVE Goal
  BY <1>3, <1>4, <1>5, <1>7 DEF ResolveStep, ResolveBegin, ResolveCancel, ResolveFinish,
    ResolveAbort
<1>8. ASSUME \/ Tick \/ (\E w \in Workers : DeliverStep(w))
             \/ (\E p \in Staff : StaffStep(p)) \/ (\E p \in Sweepers : SweepStep(p))
             \/ (\E a \in Admins : AdminStep(a)) \/ (\E c \in Codes : CodePatched(c))
             \/ UNCHANGED vars
      PROVE  Goal
  BY <1>8 DEF Tick, DeliverStep, DeliverBegin, DeliverConflict, DeliverActivate, DeliverError,
    Revive, StaffStep, StaffLook, StaffExpire, StaffWrite, SweepStep, SweepRead, SweepWrite,
    AdminStep, AdminBegin, AdminCommit, CodePatched, vars
<1> QED BY <1>6, <1>7, <1>8 DEF Next

(* A paid first invoice belongs to a complete session.                     *)
LEMMA ClearedIsComplete ==
  ASSUME SaleInv, NEW i \in Intents, Cleared(i)
  PROVE  stripe[i].session = "complete" /\ stripe[i].sub # "none" /\ request[i] = "answered"
<1>1. stripe[i].sub # "none"
  BY DEF SaleInv, Settlement, Cleared
<1> QED BY <1>1 DEF SaleInv, LockInv, HeldInv, MoneyInv, MintedOnce

LEMMA ClearedStays ==
  ASSUME SaleInv, [Next]_vars, NEW i \in Intents
  PROVE  /\ Cleared(i) => Cleared(i)'
         /\ bill'[i][1] \in {"none", "paid", "refunded"}
         /\ bill'[i][1] # "none" => stripe'[i].sub # "none"
<1>0. /\ TypeOK /\ Named /\ MoneyInv /\ bill[i][1] \in {"none", "paid", "refunded"}
      /\ bill[i][1] # "none" => stripe[i].sub # "none"
  BY DEF SaleInv, LockInv, HeldInv, MoneyInv, Settlement
<1>1. bill'[i][1] \in {"none", "paid", "refunded"} /\ (Cleared(i) => Cleared(i)')
  BY <1>0, FirstInvoiceWrites DEF Cleared
<1>2. ASSUME Cleared(i) PROVE stripe'[i].sub # "none"
  <2>1. \A c, o \in BOOLEAN : ~Complete(i, c, o)
    BY <1>2, ClearedIsComplete DEF Complete, Payable
  <2> QED BY <1>0, <1>2, <2>1, SubWrites DEF Cleared
<1>3. ASSUME ~Cleared(i), bill'[i][1] # "none" PROVE stripe'[i].sub # "none"
  <2>1. bill[i][1] = "none"
    BY <1>0, <1>3 DEF Cleared
  <2>2. ~\E p \in Resolvers : ResolveRefund(p, 1) /\ resolver[p].intent = i
    <3>1. ASSUME NEW p \in Resolvers, ResolveRefund(p, 1), resolver[p].intent = i PROVE FALSE
      <4>1. intent[i].status = "conflict"
        BY <3>1 DEF ResolveRefund, SaleInv, Settlement
      <4> QED BY <1>3, <4>1 DEF SaleInv, Settlement, Settled
    <3> QED BY <3>1
  <2>3. PICK o \in BOOLEAN : Complete(i, TRUE, o)
    BY <1>0, <1>3, <2>1, <2>2, FirstInvoiceWrites
  <2> QED BY <1>0, <2>3 DEF Complete, TypeOK
<1> QED BY <1>1, <1>2, <1>3

(* What is settled stays as it was settled.                                *)
LEMMA SettledStays ==
  ASSUME Quiet, SaleInv, Fresh, [Next]_vars, NEW j \in Intents
  PROVE  /\ Settled(j) => intent'[j].status = intent[j].status
         /\ Settled(j)' => Settled(j) \/ Cleared(j)
         /\ intent'[j].resolved => intent[j].resolved
                \/ \E p \in Resolvers : ResolveFinish(p) /\ resolver[p].intent = j
         /\ intent'[j].status = "completed" => intent[j].status = "completed"
                \/ \E w \in Workers : DeliverActivate(w) /\ delivery[w].intent = j
<1> DEFINE Goal ==
         /\ Settled(j) => intent'[j].status = intent[j].status
         /\ Settled(j)' => Settled(j) \/ Cleared(j)
         /\ intent'[j].resolved => intent[j].resolved
                \/ \E p \in Resolvers : ResolveFinish(p) /\ resolver[p].intent = j
         /\ intent'[j].status = "completed" => intent[j].status = "completed"
                \/ \E w \in Workers : DeliverActivate(w) /\ delivery[w].intent = j
<1>0. TypeOK /\ Named
  BY DEF SaleInv, LockInv, HeldInv, MoneyInv
<1>a. Settled(j) => request[j] = "answered" /\ ~Open(j)
  BY ClearedIsComplete DEF SaleInv, Settlement, Settled, Open
<1>1. ASSUME NEW i \in Intents, OpenCommit(i) PROVE Goal
  <2>1. CASE j = i
    <3>1. ~Settled(j)
      BY <1>1, <1>a, <2>1 DEF OpenCommit
    <3>2. intent'[j].status = "open" /\ intent'[j].resolved = FALSE
      BY <1>0, <1>1, <2>1, OpenCommitWrites
    <3> QED BY <3>1, <3>2 DEF Settled
  <2>2. CASE j # i
    <3>1. /\ intent'[j].resolved = intent[j].resolved
          /\ intent'[j].status = IF j \in draft[i].lapsed THEN "expired" ELSE intent[j].status
      BY <1>0, <1>1, <2>2, OpenCommitWrites
    <3>2. j \in draft[i].lapsed => Open(j)
      BY <1>1 DEF OpenCommit, SaleInv, LockInv, LocksOpen
    <3> QED BY <1>a, <3>1, <3>2 DEF Settled
  <2> QED BY <2>1, <2>2
<1>2. ASSUME NEW i \in Intents, Mint(i) PROVE Goal
  BY <1>0, <1>2, MintWrites DEF Settled
<1>3. ASSUME NEW i \in Intents, MintFail(i) PROVE Goal
  <2>1. j = i => ~Settled(j)
    BY <1>3, <1>a DEF MintFail
  <2> QED BY <1>0, <1>3, <2>1, MintFailWrites DEF Settled
<1>4. ASSUME NEW i \in Intents, BuyerReleased(i) PROVE Goal
  BY <1>0, <1>4, <1>a, ReleasedWrites DEF Settled
<1>5. ASSUME NEW w \in Workers, DeliverConflict(w) PROVE Goal
  <2>1. CASE j = delivery[w].intent
    <3>1. intent'[j].status = "conflict" /\ (intent'[j].resolved => intent[j].resolved)
      BY <1>0, <1>5, <2>1, ConflictWrites
    <3>2. intent[j].status # "completed" /\ Cleared(j)
      BY <1>5, <2>1 DEF DeliverConflict, SaleInv, Board, Settlement
    <3> QED BY <3>1, <3>2 DEF Settled
  <2>2. CASE j # delivery[w].intent
    BY <1>0, <1>5, <2>2, ConflictWrites DEF Settled
  <2> QED BY <2>1, <2>2
<1>6. ASSUME NEW w \in Workers, DeliverActivate(w) PROVE Goal
  <2>1. CASE j = delivery[w].intent
    <3>1. intent'[j].status = "completed" /\ intent'[j].resolved = intent[j].resolved
      BY <1>0, <1>6, <2>1, ActivateWrites
    <3>2. intent[j].status # "conflict" /\ Cleared(j)
      BY <1>6, <2>1 DEF Fresh, DeliverActivate, SaleInv, Settlement
    <3> QED BY <1>6, <2>1, <3>1, <3>2 DEF Settled
  <2>2. CASE j # delivery[w].intent
    BY <1>0, <1>6, <2>2, ActivateWrites DEF Settled
  <2> QED BY <2>1, <2>2
<1>7. ASSUME NEW p \in Resolvers, ResolveFinish(p) PROVE Goal
  BY <1>0, <1>7, FinishWrites DEF Settled
<1>8. CASE ~WritesIntents
  BY <1>8, OthersKeepIntents DEF Settled
<1> QED BY <1>1, <1>2, <1>3, <1>4, <1>5, <1>6, <1>7, <1>8 DEF WritesIntents, Quiet

(* A follow-up deals with one intent from its begin to its end.            *)
LEMMA ResolversKept ==
  ASSUME TypeOK, [Next]_vars, NEW p \in Resolvers, resolver'[p].pc # "idle"
  PROVE  \/ resolver[p].pc # "idle" /\ resolver'[p].intent = resolver[p].intent
         \/ \E i \in Intents : ResolveBegin(p, i) /\ resolver'[p].intent = i
<1> DEFINE Goal == \/ resolver[p].pc # "idle" /\ resolver'[p].intent = resolver[p].intent
                   \/ \E i \in Intents : ResolveBegin(p, i) /\ resolver'[p].intent = i
<1>0. resolver \in [Resolvers -> Resolver]
  BY DEF TypeOK
<1>1. ASSUME UNCHANGED resolver PROVE Goal
  BY <1>1
<1>2. ASSUME NEW q \in Resolvers, ResolveStep(q), q # p PROVE Goal
  BY <1>0, <1>2 DEF ResolveStep, ResolveBegin, ResolveCancel, ResolveVoid, ResolveRefund,
    ResolveFinish, ResolveAbort
<1>3. ASSUME ResolveStep(p) PROVE Goal
  <2>1. ASSUME NEW i \in Intents, ResolveBegin(p, i) PROVE Goal
    BY <1>0, <2>1 DEF ResolveBegin
  <2>2. ASSUME ResolveCancel(p) PROVE Goal
    BY <1>0, <2>2 DEF ResolveCancel, Resolver
  <2>3. ASSUME ResolveVoid(p) PROVE Goal
    BY <1>0, <2>3 DEF ResolveVoid, Resolver
  <2>4. ASSUME NEW k \in Invoices, ResolveRefund(p, k) PROVE Goal
    <3>1. resolver'[p] = [resolver[p] EXCEPT !.todo = resolver[p].todo \ {k}]
      BY <1>0, <2>4 DEF ResolveRefund
    <3> QED BY <1>0, <2>4, <3>1 DEF Resolver, ResolveRefund
  <2>5. ASSUME ResolveFinish(p) \/ ResolveAbort(p) PROVE FALSE
    BY <1>0, <2>5 DEF ResolveFinish, ResolveAbort, NoResolver
  <2> QED BY <1>3, <2>1, <2>2, <2>3, <2>4, <2>5 DEF ResolveStep
<1>4. ASSUME NEW i \in Intents, RequestStep(i) \/ BuyerStep(i) \/ DeliverAck(i)
      PROVE  UNCHANGED resolver
  BY <1>4 DEF RequestStep, OpenRead, OpenRefused, OpenBegin, OpenCommit, OpenLoses, Mint,
    MintFail, MintCrash, BuyerStep, Complete, Renew, Charge, BuyerBack, BuyerReleased,
    DeliverAck
<1>5. ASSUME \/ Tick \/ (\E w \in Workers : DeliverStep(w))
             \/ (\E q \in Staff : StaffStep(q)) \/ (\E q \in Sweepers : SweepStep(q))
             \/ (\E a \in Admins : AdminStep(a)) \/ (\E c \in Codes : CodePatched(c))
             \/ UNCHANGED vars
      PROVE  UNCHANGED resolver
  BY <1>5 DEF Tick, DeliverStep, DeliverBegin, DeliverConflict, DeliverActivate, DeliverError,
    Revive, StaffStep, StaffLook, StaffExpire, StaffWrite, SweepStep, SweepRead, SweepWrite,
    AdminStep, AdminBegin, AdminCommit, CodePatched, vars
<1> QED BY <1>1, <1>2, <1>3, <1>4, <1>5 DEF Next

LEMMA SettlementKept ==
  ASSUME Quiet, SaleInv, Fresh, [Next]_vars PROVE Settlement'
<1>0. /\ TypeOK /\ Named /\ MoneyInv /\ Settlement
  BY DEF SaleInv, LockInv, HeldInv, MoneyInv
<1>1. \A i \in Intents : Settled(i)' => Cleared(i)'
  BY ClearedStays, SettledStays DEF SaleInv, Settlement
<1>2. ASSUME NEW i \in Intents, intent[i].status = "conflict" PROVE intent'[i].status = "conflict"
  BY <1>2, SettledStays DEF Settled
<1>3. ASSUME NEW i \in Intents, intent'[i].resolved \/ stripe'[i].sub = "canceled"
      PROVE  intent'[i].status = "conflict"
  <2>1. ASSUME NEW p \in Resolvers, resolver[p].pc # "idle", resolver[p].intent = i
        PROVE  intent[i].status = "conflict"
    BY <1>0, <2>1 DEF Settlement
  <2>2. CASE intent'[i].resolved
    <3>1. CASE intent[i].resolved
      BY <1>0, <1>2, <3>1 DEF Settlement
    <3>2. CASE ~intent[i].resolved
      <4>1. PICK p \in Resolvers : ResolveFinish(p) /\ resolver[p].intent = i
        BY <2>2, <3>2, SettledStays
      <4> QED BY <1>2, <2>1, <4>1 DEF ResolveFinish
    <3> QED BY <3>1, <3>2
  <2>3. CASE stripe'[i].sub = "canceled"
    <3>1. CASE stripe[i].sub = "canceled"
      BY <1>0, <1>2, <3>1 DEF Settlement
    <3>2. CASE stripe[i].sub # "canceled"
      <4>1. PICK p \in Resolvers : ResolveCancel(p) /\ resolver[p].intent = i
        BY <1>0, <2>3, <3>2, SubWrites
      <4> QED BY <1>2, <2>1, <4>1 DEF ResolveCancel
    <3> QED BY <3>1, <3>2
  <2> QED BY <1>3, <2>2, <2>3
<1>4. ASSUME NEW w \in Workers, delivery'[w].verdict # "none"
      PROVE  Cleared(delivery[w].intent)' /\ ~delivery'[w].stamped
  <2>1. CASE delivery'[w] = delivery[w]
    <3>1. delivery[w].verdict # "none" /\ delivery[w].intent \in Intents
      BY <1>0, <1>4, <2>1 DEF Named
    <3>2. Cleared(delivery[w].intent) /\ ~delivery[w].stamped
      BY <1>0, <3>1 DEF Settlement
    <3>3. PICK i \in Intents : i = delivery[w].intent
      BY <3>1
    <3>4. Cleared(i)'
      BY <3>2, <3>3, ClearedStays
    <3> QED BY <2>1, <3>2, <3>3, <3>4 DEF Cleared
  <2>2. ASSUME NEW i \in Intents, DeliverBegin(w, i)
        PROVE  Cleared(delivery[w].intent)' /\ ~delivery'[w].stamped
    <3>1. delivery'[w].intent = i /\ delivery'[w].stamped = intent[i].resolved
      BY <1>0, <2>2, DeliveryBegins
    <3>2. Cleared(i) /\ ~Settled(i)
      BY <2>2 DEF DeliverBegin
    <3>3. ~intent[i].resolved
      BY <1>0, <3>2 DEF Settlement, Settled
    <3>4. Cleared(i)'
      BY <3>2, ClearedStays
    <3> QED BY <3>1, <3>3, <3>4 DEF Cleared
  <2> QED BY <1>0, <1>4, <2>1, <2>2, DeliveriesKept
<1>5. ASSUME NEW p \in Resolvers, resolver'[p].pc # "idle"
      PROVE  intent'[resolver'[p].intent].status = "conflict"
  <2>1. CASE resolver[p].pc # "idle" /\ resolver'[p].intent = resolver[p].intent
    BY <1>0, <1>2, <2>1 DEF Settlement, Named
  <2>2. ASSUME NEW i \in Intents, ResolveBegin(p, i), resolver'[p].intent = i
        PROVE  intent'[resolver'[p].intent].status = "conflict"
    BY <1>2, <2>2 DEF ResolveBegin
  <2> QED BY <1>0, <1>5, <2>1, <2>2, ResolversKept
<1> QED BY <1>1, <1>3, <1>4, <1>5, ClearedStays DEF Settlement

LEMMA BoardKept ==
  ASSUME Quiet, SaleInv, Fresh, [Next]_vars PROVE Board'
<1>0. /\ TypeOK /\ Named /\ Board /\ Settlement
  BY DEF SaleInv, LockInv, HeldInv, MoneyInv
<1>1. ASSUME NEW i \in Intents, intent[i].status = "completed"
      PROVE  intent'[i].status = "completed"
  BY <1>1, SettledStays DEF Settled
<1>2. ASSUME NEW r \in Rows, sponsor'[r].sub \in Intents
      PROVE  intent'[sponsor'[r].sub].status = "completed"
  <2>1. CASE sponsor'[r].sub = sponsor[r].sub
    BY <1>0, <1>1, <1>2, <2>1 DEF Board
  <2>2. ASSUME NEW w \in Workers, DeliverActivate(w), sponsor'[r].sub # sponsor[r].sub
        PROVE  intent'[sponsor'[r].sub].status = "completed"
    <3>1. sponsor'[r].sub = delivery[w].intent /\ delivery[w].intent \in Intents
      BY <1>0, <2>2, ActivateRow DEF Named, DeliverActivate
    <3> QED BY <1>0, <2>2, <3>1, ActivateWrites
  <2>3. ASSUME NEW a \in Admins, AdminCommit(a), sponsor'[r].sub # sponsor[r].sub
        PROVE  FALSE
    BY <1>0, <1>2, <2>3, AdminRow, CheckoutAssumption
  <2> QED BY <1>0, <2>1, <2>2, <2>3, OthersKeepSponsors DEF Revived
<1>3. ASSUME NEW v \in Workers, delivery'[v].verdict = "conflict"
      PROVE  intent'[delivery'[v].intent].status # "completed"
  <2>1. CASE delivery'[v] = delivery[v]
    <3>1. delivery[v].intent \in Intents /\ intent[delivery[v].intent].status # "completed"
      BY <1>0, <1>3, <2>1 DEF Named, Board
    <3>2. ASSUME NEW w \in Workers, DeliverActivate(w), delivery[w].intent = delivery[v].intent
          PROVE  FALSE
      BY <1>3, <2>1, <3>2 DEF Fresh
    <3> QED BY <2>1, <3>1, <3>2, SettledStays
  <2>2. ASSUME NEW i \in Intents, DeliverBegin(v, i)
        PROVE  intent'[delivery'[v].intent].status # "completed"
    BY <1>0, <2>2, DeliveryBegins DEF DeliverBegin, Settled
  <2> QED BY <1>0, <1>3, <2>1, <2>2, DeliveriesKept
<1> QED BY <1>2, <1>3 DEF Board

LEMMA SaleKept ==
  ASSUME Quiet, SaleInv, Fresh, [Next]_vars PROVE SaleInv'
BY LockKept, SettlementKept, BoardKept DEF SaleInv, Quiet

LEMMA InitSale == ASSUME Init PROVE SaleInv
<1>1. LockInv /\ RowInv
  BY InitLock, InitRows
<1>2. 1 \in Invoices
  BY CheckoutAssumption DEF Invoices
<1>3. Settlement
  BY <1>2 DEF Init, Settlement, Settled, NoIntent, NoStripe, NoDelivery, NoResolver
<1>4. \A r \in Rows : sponsor[r].sub \notin Intents
  <2> SUFFICES ASSUME NEW r \in Rows, sponsor[r].sub \in Intents PROVE FALSE
    OBVIOUS
  <2>1. stripe[sponsor[r].sub].session = "complete" /\ sponsor[r].sub \in Intents
    BY <1>1 DEF RowInv, SaleRows
  <2> QED BY <2>1 DEF Init, NoStripe
<1>5. Board
  BY <1>4 DEF Init, Board, NoDelivery
<1> QED BY <1>1, <1>3, <1>5 DEF SaleInv

(* What the invariant says of a sale on the board.                         *)
LEMMA SaleInvMeans == ASSUME SaleInv PROVE SoldIsPaid
<1> SUFFICES ASSUME NEW i \in Intents, Sold(i)
             PROVE  stripe[i].sub = "active" /\ bill[i][1] = "paid"
  BY DEF SoldIsPaid
<1>1. intent[i].status = "completed"
  BY CheckoutAssumption DEF Sold, SaleInv, Board
<1>2. Cleared(i) /\ stripe[i].sub # "canceled"
  BY <1>1 DEF SaleInv, Settlement, Settled
<1>3. stripe[i].sub = "active"
  BY <1>2, ClearedIsComplete DEF SaleInv, LockInv, HeldInv, MoneyInv, TypeOK, Purchase
<1>4. 1 \in Invoices /\ bill[i][1] # "refunded"
  BY <1>2, CheckoutAssumption DEF Invoices, SaleInv, LockInv, HeldInv, MoneyInv,
    RefundAfterCancel
<1> QED BY <1>2, <1>3, <1>4 DEF Cleared

(***************************************************************************)
(* One worker: a delivery's intent stays unsettled until it commits.       *)
(***************************************************************************)
Undecided == \A w \in Workers :
  delivery[w].verdict # "none" => ~Settled(delivery[w].intent)

LEMMA UndecidedIsFresh == ASSUME OneWorker, SaleInv, Undecided PROVE Fresh
BY DEF OneWorker, Undecided, Fresh, DeliverActivate, Settled

LEMMA UndecidedKept ==
  ASSUME Quiet, OneWorker, SaleInv, Undecided, [Next]_vars PROVE Undecided'
<1>0. TypeOK /\ Named
  BY DEF SaleInv, LockInv, HeldInv, MoneyInv
<1> SUFFICES ASSUME NEW v \in Workers, delivery'[v].verdict # "none"
             PROVE  intent'[delivery'[v].intent].status \notin {"completed", "conflict"}
  BY DEF Undecided, Settled
<1>1. CASE delivery'[v] = delivery[v]
  <2> DEFINE i == delivery[v].intent
  <2>1. i \in Intents /\ ~Settled(i)
    BY <1>0, <1>1 DEF Named, Undecided
  <2>2. \A w \in Workers : ~DeliverConflict(w) /\ ~DeliverActivate(w)
    BY <1>0, DeliveryEnds DEF OneWorker
  <2>3. intent'[i].status = intent[i].status
        \/ intent'[i].status \notin {"completed", "conflict"}
    <3>1. CASE ~WritesIntents
      BY <3>1, OthersKeepIntents
    <3>2. ASSUME NEW k \in Intents, OpenCommit(k)
          PROVE  intent'[i].status = intent[i].status
                 \/ intent'[i].status \notin {"completed", "conflict"}
      BY <1>0, <2>1, <3>2, OpenCommitWrites
    <3>3. ASSUME NEW k \in Intents, Mint(k) PROVE intent'[i].status = intent[i].status
      BY <1>0, <2>1, <3>3, MintWrites
    <3>4. ASSUME NEW k \in Intents, MintFail(k)
          PROVE  intent'[i].status = intent[i].status
                 \/ intent'[i].status \notin {"completed", "conflict"}
      BY <1>0, <2>1, <3>4, MintFailWrites
    <3>5. ASSUME NEW k \in Intents, BuyerReleased(k)
          PROVE  intent'[i].status = intent[i].status
                 \/ intent'[i].status \notin {"completed", "conflict"}
      BY <1>0, <2>1, <3>5, ReleasedWrites
    <3>6. ASSUME NEW p \in Resolvers, ResolveFinish(p) PROVE intent'[i].status = intent[i].status
      BY <1>0, <2>1, <3>6, FinishWrites
    <3> QED BY <2>2, <3>1, <3>2, <3>3, <3>4, <3>5, <3>6 DEF WritesIntents, Quiet
  <2> QED BY <1>1, <2>1, <2>3 DEF Settled
<1>2. ASSUME NEW i \in Intents, DeliverBegin(v, i)
      PROVE  intent'[delivery'[v].intent].status \notin {"completed", "conflict"}
  BY <1>0, <1>2, DeliveryBegins DEF DeliverBegin, Settled
<1> QED BY <1>0, <1>1, <1>2, DeliveriesKept

LEMMA OneWorkerKept ==
  ASSUME Quiet, OneWorker
  PROVE  /\ Init => SaleInv /\ Undecided
         /\ SaleInv /\ Undecided /\ [Next]_vars => (SaleInv /\ Undecided)'
<1>1. Init => SaleInv /\ Undecided
  BY InitSale DEF Init, Undecided, NoDelivery
<1>2. SaleInv /\ Undecided /\ [Next]_vars => (SaleInv /\ Undecided)'
  BY SaleKept, UndecidedIsFresh, UndecidedKept
<1> QED BY <1>1, <1>2

(***************************************************************************)
(* One sale per slot.                                                      *)
(***************************************************************************)
(* One of these stands behind a decision to activate: with one worker, no  *)
(* sale has the slot; with no staff at the sponsors, no row of the slot is *)
(* paused, so that the flush meets every sale there is.                    *)
SlotFree == \A w \in Workers, r \in Rows :
  delivery[w].verdict = "activate" /\ r[2] = intent[delivery[w].intent].slot
    => sponsor[r].sub \notin Intents
NonePaused == \A w \in Workers, r \in Rows :
  delivery[w].verdict = "activate" /\ r[2] = intent[delivery[w].intent].slot
      /\ sponsor[r].tier = "exclusive"
    => sponsor[r].status # "Paused"

OneRow == \A r, q \in Rows :
  sponsor[r].sub \in Intents /\ sponsor[q].sub \in Intents /\ r[2] = q[2] => r = q

(* The slot of a delivery in progress does not change.                     *)
LEMMA DeliverySlot ==
  ASSUME MoneyInv, [Next]_vars, NEW w \in Workers, delivery[w].verdict # "none"
  PROVE  /\ delivery[w].intent \in Intents
         /\ intent'[delivery[w].intent].slot = intent[delivery[w].intent].slot
BY CompleteStays DEF MoneyInv, Named, AfterPayment, SameSale

LEMMA FreshSlot ==
  ASSUME Unbound, RowInv, SlotFree \/ NonePaused, NEW w \in Workers, DeliverActivate(w),
         NEW r \in Rows, r[2] = intent[delivery[w].intent].slot
  PROVE  sponsor[r].sub \notin Intents
<1> DEFINE i == delivery[w].intent
<1>1. CASE SlotFree
  BY <1>1 DEF SlotFree, DeliverActivate
<1>2. CASE NonePaused
  <2> SUFFICES ASSUME sponsor[r].sub \in Intents PROVE FALSE
    OBVIOUS
  <2>1. /\ TypeOK /\ i \in Intents /\ sponsor[r].status = "Active"
        /\ sponsor[r].tier = "exclusive" /\ r[1] = sponsor[r].sub
    BY <1>2 DEF NonePaused, RowInv, SaleRows, MoneyInv, Named, Live, DeliverActivate
  <2>2. r = SaleRow(i)
    BY <2>1 DEF DeliverActivate, FlushOk, ShownBy, Occupants
  <2>3. sponsor[r].sub = i
    BY <2>1, <2>2, OwnSupplier
  <2> QED BY <2>3 DEF DeliverActivate, FlushOk, Recorded
<1> QED BY <1>1, <1>2

LEMMA OneRowKept ==
  ASSUME Unbound, RowInv, SlotFree \/ NonePaused, OneRow, [Next]_vars PROVE OneRow'
<1>0. TypeOK /\ Named /\ None \notin Intents /\ Earlier \notin Intents
  BY CheckoutAssumption DEF RowInv, MoneyInv
<1>1. ASSUME NEW w \in Workers, DeliverActivate(w) PROVE OneRow'
  <2> DEFINE i == delivery[w].intent
  <2>1. i \in Intents /\ SaleRow(i) = <<i, intent[i].slot>>
    BY <1>0, <1>1, OwnSupplier DEF Named, DeliverActivate
  <2>2. \A r \in Rows : r[2] = intent[i].slot => sponsor[r].sub \notin Intents
    BY <1>1, FreshSlot
  <2>3. \A r \in Rows : r # SaleRow(i) => sponsor'[r] = sponsor[r]
    BY <1>0, <1>1, ActivateRow
  <2>4. SaleRow(i)[2] = intent[i].slot
    BY <2>1
  <2> QED BY <2>2, <2>3, <2>4 DEF OneRow
<1>2. ASSUME NEW a \in Admins, AdminCommit(a) PROVE OneRow'
  <2>1. \A r \in Rows : sponsor'[r].sub \in Intents => sponsor[r].sub \in Intents
    BY <1>0, <1>2, AdminRow
  <2> QED BY <2>1 DEF OneRow
<1>3. CASE \A r \in Rows : sponsor'[r] = sponsor[r] \/ Revived(r)
  BY <1>0, <1>3 DEF OneRow, Revived
<1> QED BY <1>0, <1>1, <1>2, <1>3, OthersKeepSponsors

LEMMA SlotFreeKept ==
  ASSUME Unbound, OneWorker, RowInv, SlotFree, [Next]_vars PROVE SlotFree'
<1>0. TypeOK /\ Named /\ MoneyInv
  BY DEF RowInv, MoneyInv
<1>1. ASSUME NEW w \in Workers, DeliverActivate(w) PROVE SlotFree'
  BY <1>0, <1>1, DeliveryEnds DEF OneWorker, SlotFree
<1>2. CASE \A w \in Workers : ~DeliverActivate(w)
  <2>1. ASSUME NEW r \in Rows, sponsor[r].sub \notin Intents PROVE sponsor'[r].sub \notin Intents
    BY <1>0, <1>2, <2>1, AdminRow, OthersKeepSponsors, CheckoutAssumption DEF Revived
  <2> SUFFICES ASSUME NEW v \in Workers, NEW r \in Rows, delivery'[v].verdict = "activate",
                      r[2] = intent'[delivery'[v].intent].slot
               PROVE  sponsor[r].sub \notin Intents
    BY <2>1 DEF SlotFree
  <2>2. CASE delivery'[v] = delivery[v]
    BY <1>0, <2>2, DeliverySlot DEF SlotFree
  <2>3. ASSUME NEW i \in Intents, DeliverBegin(v, i) PROVE sponsor[r].sub \notin Intents
    <3>1. delivery'[v].intent = i /\ ~Refused(i) /\ intent' = intent
      BY <1>0, <2>3, DeliveryBegins
    <3>2. ~Occupied(intent[i].slot) /\ r[2] = intent[i].slot
      BY <3>1 DEF Refused
    <3> QED BY <3>2 DEF Occupied, Occupants, RowInv, SaleRows
  <2> QED BY <1>0, <2>2, <2>3, DeliveriesKept
<1> QED BY <1>1, <1>2

LEMMA NonePausedKept ==
  ASSUME Admins = {}, MoneyInv, NonePaused, [Next]_vars PROVE NonePaused'
<1>0. TypeOK /\ Named
  BY DEF MoneyInv
<1>1. ASSUME NEW r \in Rows, sponsor'[r].status = "Paused" PROVE sponsor'[r] = sponsor[r]
  BY <1>0, <1>1, ActivateRow, OthersKeepSponsors DEF Revived
<1> SUFFICES ASSUME NEW v \in Workers, NEW r \in Rows, delivery'[v].verdict = "activate",
                    r[2] = intent'[delivery'[v].intent].slot,
                    sponsor[r].tier = "exclusive", sponsor[r].status = "Paused"
             PROVE  FALSE
  BY <1>1 DEF NonePaused
<1>2. CASE delivery'[v] = delivery[v]
  BY <1>0, <1>2, DeliverySlot DEF NonePaused
<1>3. ASSUME NEW i \in Intents, DeliverBegin(v, i) PROVE FALSE
  <2>1. delivery'[v].intent = i /\ ~Refused(i) /\ intent' = intent
    BY <1>0, <1>3, DeliveryBegins
  <2> QED BY <2>1 DEF Refused, Occupied, Occupants, Live
<1> QED BY <1>0, <1>2, <1>3, DeliveriesKept

LEMMA RowsMean == ASSUME RowInv, OneRow PROVE OneSale
<1> SUFFICES ASSUME NEW i \in Intents, NEW j \in Intents, Sold(i), Sold(j),
                    intent[i].slot = intent[j].slot
             PROVE  i = j
  BY DEF OneSale
<1>1. PICK r \in Rows : sponsor[r].sub = i
  BY DEF Sold
<1>2. PICK q \in Rows : sponsor[q].sub = j
  BY DEF Sold
<1>3. r = <<i, intent[i].slot>> /\ q = <<j, intent[j].slot>>
  BY <1>1, <1>2, CheckoutAssumption DEF RowInv, SaleRows
<1>4. r = q
  BY <1>1, <1>2, <1>3, CheckoutAssumption DEF OneRow
<1> QED BY <1>1, <1>2, <1>4

(* A slot is sold once, whatever the console's release and the sweep write *)
(* meanwhile: with any number of admins when deliveries are handled one at *)
(* a time, with any number of workers when no staff edit sponsors.         *)
THEOREM SlotSoldOnce ==
  ASSUME Unbound, OneWorker \/ Admins = {} PROVE Spec => []OneSale
<1>1. Init => RowInv /\ OneRow /\ SlotFree /\ NonePaused
  <2> SUFFICES ASSUME Init PROVE RowInv /\ OneRow /\ SlotFree /\ NonePaused
    OBVIOUS
  <2>1. RowInv
    BY InitRows
  <2>2. SlotFree /\ NonePaused
    BY DEF Init, SlotFree, NonePaused, NoDelivery
  <2>3. \A i \in Intents : stripe[i].session # "complete"
    BY DEF Init, NoStripe
  <2>4. \A r \in Rows : sponsor[r].sub \notin Intents
    BY <2>1, <2>3 DEF RowInv, SaleRows
  <2> QED BY <2>1, <2>2, <2>4 DEF OneRow
<1>2. CASE OneWorker
  <2>1. RowInv /\ OneRow /\ SlotFree /\ [Next]_vars => (RowInv /\ OneRow /\ SlotFree)'
    BY <1>2, RowsKeptByAll, OneRowKept, SlotFreeKept
  <2> QED BY <1>1, <2>1, RowsMean, PTL DEF Spec
<1>3. CASE Admins = {}
  <2>1. RowInv /\ OneRow /\ NonePaused /\ [Next]_vars => (RowInv /\ OneRow /\ NonePaused)'
    BY <1>3, RowsKeptByAll, OneRowKept, NonePausedKept DEF RowInv
  <2> QED BY <1>1, <2>1, RowsMean, PTL DEF Spec
<1> QED BY <1>2, <1>3

(***************************************************************************)
(* Several workers and no staff at the sponsors: the reason a sale is      *)
(* refused for never goes away, so no worker activates what another one    *)
(* has refused.                                                            *)
(***************************************************************************)
Excluded(i) ==
  \/ ~stripe[i].amountOk
  \/ \E r \in Rows : /\ r[2] = intent[i].slot /\ sponsor[r].tier = "exclusive"
                     /\ sponsor[r].status \in Live /\ sponsor[r].sub # i

Reasons ==
  /\ \A w \in Workers : delivery[w].verdict = "activate" => stripe[delivery[w].intent].amountOk
  /\ \A w \in Workers : delivery[w].verdict = "conflict" => Excluded(delivery[w].intent)
  /\ \A i \in Intents : intent[i].status = "conflict" => Excluded(i)

ReasonInv == RowInv /\ NonePaused /\ Reasons

LEMMA ReasonsAreFresh ==
  ASSUME Unbound, ReasonInv, NEW w \in Workers, DeliverActivate(w)
  PROVE  ~Excluded(delivery[w].intent)
<1> DEFINE i == delivery[w].intent
<1>0. TypeOK /\ i \in Intents
  BY DEF ReasonInv, RowInv, MoneyInv, Named, DeliverActivate
<1>1. stripe[i].amountOk
  BY DEF ReasonInv, Reasons, DeliverActivate
<1> SUFFICES ASSUME NEW r \in Rows, r[2] = intent[i].slot, sponsor[r].tier = "exclusive",
                    sponsor[r].status \in Live, sponsor[r].sub # i
             PROVE  FALSE
  BY <1>1 DEF Excluded
<1>2. sponsor[r].status = "Active"
  BY DEF Live, ReasonInv, NonePaused, DeliverActivate
<1>3. r = SaleRow(i)
  BY <1>2 DEF DeliverActivate, FlushOk, ShownBy, Occupants
<1>4. r[1] = i
  BY <1>0, <1>3, OwnSupplier
<1>5. sponsor[r].sub = i
  BY <1>0, <1>4 DEF ReasonInv, RowInv, SaleRows, Live
<1> QED BY <1>5

LEMMA ExcludedStays ==
  ASSUME Unbound, Admins = {}, RowInv, [Next]_vars, NEW i \in Intents,
         stripe[i].session = "complete", Excluded(i)
  PROVE  Excluded(i)'
<1>0. TypeOK /\ Named /\ MoneyInv
  BY DEF RowInv, MoneyInv
<1>1. stripe'[i].amountOk = stripe[i].amountOk /\ intent'[i].slot = intent[i].slot
  BY <1>0, CompleteStays DEF SameSale
<1>2. CASE ~stripe[i].amountOk
  BY <1>1, <1>2 DEF Excluded
<1>3. CASE stripe[i].amountOk
  <2>1. PICK r \in Rows : /\ r[2] = intent[i].slot /\ sponsor[r].tier = "exclusive"
                          /\ sponsor[r].status \in Live /\ sponsor[r].sub # i
    BY <1>3 DEF Excluded
  <2>2. ASSUME NEW w \in Workers, DeliverActivate(w) PROVE sponsor'[r] = sponsor[r]
    <3>1. delivery[w].intent \in Intents /\ ~Recorded(delivery[w].intent)
      BY <1>0, <2>2 DEF Named, DeliverActivate, FlushOk
    <3>2. r # SaleRow(delivery[w].intent)
      <4> SUFFICES ASSUME r = SaleRow(delivery[w].intent) PROVE FALSE
        OBVIOUS
      <4>1. r[1] = delivery[w].intent
        BY <1>0, <3>1, OwnSupplier
      <4>2. sponsor[r].sub = delivery[w].intent
        BY <2>1, <3>1, <4>1 DEF RowInv, SaleRows, Live
      <4> QED BY <3>1, <4>2 DEF Recorded
    <3> QED BY <1>0, <2>2, <3>2, ActivateRow
  <2>3. sponsor'[r] = sponsor[r]
    BY <1>0, <2>1, <2>2, OthersKeepSponsors DEF Revived, Live
  <2> QED BY <1>1, <2>1, <2>3 DEF Excluded
<1> QED BY <1>2, <1>3

LEMMA ReasonsKept ==
  ASSUME Unbound, Admins = {}, ReasonInv, [Next]_vars PROVE ReasonInv'
<1>0. TypeOK /\ Named /\ RowInv /\ MoneyInv /\ Reasons
  BY DEF ReasonInv, RowInv, MoneyInv
<1>1. RowInv' /\ NonePaused'
  BY RowsKeptByAll, NonePausedKept DEF ReasonInv, RowInv
<1>2. ASSUME NEW v \in Workers, delivery'[v].verdict # "none"
      PROVE  /\ delivery'[v].verdict = "activate" => stripe'[delivery'[v].intent].amountOk
             /\ delivery'[v].verdict = "conflict" => Excluded(delivery[v].intent)'
  <2>1. CASE delivery'[v] = delivery[v]
    <3>1. PICK i \in Intents : i = delivery[v].intent /\ stripe[i].session = "complete"
      BY <1>0, <1>2, <2>1 DEF Named, MoneyInv, AfterPayment
    <3>2. stripe'[i].amountOk = stripe[i].amountOk
      BY <1>0, <3>1, CompleteStays
    <3>3. delivery[v].verdict = "conflict" => Excluded(i)'
      BY <1>0, <3>1, ExcludedStays DEF Reasons
    <3> QED BY <1>0, <2>1, <3>1, <3>2, <3>3 DEF Reasons, Excluded
  <2>2. ASSUME NEW i \in Intents, DeliverBegin(v, i)
        PROVE  /\ delivery'[v].verdict = "activate" => stripe'[delivery'[v].intent].amountOk
               /\ delivery'[v].verdict = "conflict" => Excluded(delivery[v].intent)'
    <3>1. /\ delivery'[v].intent = i /\ UNCHANGED <<intent, sponsor, stripe>>
          /\ delivery'[v].verdict = IF Refused(i) THEN "conflict" ELSE "activate"
      BY <1>0, <2>2, DeliveryBegins
    <3>2. Refused(i) => Excluded(i)
      <4>1. ~Recorded(i) /\ Supplier(i) = i
        BY <1>0, <2>2, OwnSupplier DEF DeliverBegin
      <4> QED BY <4>1 DEF Refused, Excluded, Occupied, Occupants, Recorded
    <3> QED BY <3>1, <3>2 DEF Refused, Excluded
  <2> QED BY <1>0, <1>2, <2>1, <2>2, DeliveriesKept
<1>3. ASSUME NEW i \in Intents, intent'[i].status = "conflict" PROVE Excluded(i)'
  <2>1. CASE intent[i].status = "conflict"
    BY <1>0, <2>1, ExcludedStays DEF Reasons, MoneyInv, AfterPayment
  <2>2. CASE intent[i].status # "conflict"
    <3>1. \E w \in Workers : DeliverConflict(w) /\ delivery[w].intent = i
      <4>1. ASSUME NEW k \in Intents, OpenCommit(k) PROVE FALSE
        BY <1>0, <1>3, <2>2, <4>1, OpenCommitWrites
      <4>2. ASSUME NEW k \in Intents, Mint(k) \/ MintFail(k) \/ BuyerReleased(k) PROVE FALSE
        BY <1>0, <1>3, <2>2, <4>2, MintWrites, MintFailWrites, ReleasedWrites
      <4>3. ASSUME NEW w \in Workers, DeliverActivate(w) PROVE FALSE
        BY <1>0, <1>3, <2>2, <4>3, ActivateWrites
      <4>4. ASSUME NEW p \in Resolvers, ResolveFinish(p) PROVE FALSE
        BY <1>0, <1>3, <2>2, <4>4, FinishWrites
      <4>5. ASSUME NEW p \in Staff, StaffWrite(p) PROVE FALSE
        BY <1>0, <1>3, <2>2, <4>5, StaffWrites
      <4>6. ASSUME NEW p \in Sweepers, SweepWrite(p) PROVE FALSE
        BY <1>0, <1>3, <2>2, <4>6, SweepWrites
      <4>7. PICK w \in Workers : DeliverConflict(w)
        BY <1>3, <2>2, <4>1, <4>2, <4>3, <4>4, <4>5, <4>6, OthersKeepIntents DEF WritesIntents
      <4> QED BY <1>0, <1>3, <2>2, <4>7, ConflictWrites
    <3>2. Excluded(i) /\ stripe[i].session = "complete"
      BY <1>0, <3>1 DEF DeliverConflict, Reasons, MoneyInv, AfterPayment
    <3> QED BY <1>0, <3>2, ExcludedStays
  <2> QED BY <2>1, <2>2
<1> QED BY <1>1, <1>2, <1>3 DEF ReasonInv, Reasons

LEMMA ReasonsFresh == ASSUME Unbound, ReasonInv PROVE Fresh
BY ReasonsAreFresh DEF Fresh, ReasonInv, Reasons, RowInv, MoneyInv, Named, DeliverActivate

LEMMA SeveralWorkersKept ==
  ASSUME Quiet, Unbound, Admins = {}
  PROVE  /\ Init => SaleInv /\ ReasonInv
         /\ SaleInv /\ ReasonInv /\ [Next]_vars => (SaleInv /\ ReasonInv)'
<1>1. Init => SaleInv /\ ReasonInv
  <2> SUFFICES ASSUME Init PROVE SaleInv /\ ReasonInv
    OBVIOUS
  <2>1. SaleInv /\ RowInv
    BY InitSale, InitRows
  <2>2. NonePaused /\ Reasons
    BY DEF Init, NonePaused, Reasons, NoDelivery, NoIntent
  <2> QED BY <2>1, <2>2 DEF ReasonInv
<1>2. SaleInv /\ ReasonInv /\ [Next]_vars => (SaleInv /\ ReasonInv)'
  BY SaleKept, ReasonsFresh, ReasonsKept
<1> QED BY <1>1, <1>2

(* A sponsor a sale has put on the board has a live subscription and a     *)
(* paid first invoice: whatever staff do to the sponsors meanwhile, when   *)
(* deliveries are handled one at a time, and with any number of workers    *)
(* when staff leave the sponsors alone.                                    *)
THEOREM SponsorsHavePaid ==
  ASSUME Quiet, OneWorker \/ (Unbound /\ Admins = {}) PROVE Spec => []SoldIsPaid
<1>1. SaleInv => SoldIsPaid
  BY SaleInvMeans
<1>2. CASE OneWorker
  BY <1>1, <1>2, OneWorkerKept, PTL DEF Spec
<1>3. CASE Unbound /\ Admins = {}
  BY <1>1, <1>3, SeveralWorkersKept, PTL DEF Spec
<1> QED BY <1>2, <1>3

(***************************************************************************)
(* Checkout implements SlotSale, step by step, when only buyers, workers,  *)
(* follow-ups, failures and code changes write the same rows.              *)
(***************************************************************************)
RefInv == SaleInv /\ ReasonInv /\ OneRow

(* Only a complete session can be sold, paid or resolved.                  *)
PhaseForm == \A i \in Intents :
  Phase(i) = IF stripe[i].session = "complete"
             THEN IF Sold(i) THEN "kept" ELSE IF intent[i].resolved THEN "returned"
                  ELSE IF Cleared(i) THEN "paid" ELSE "withdrawn"
             ELSE IF stripe[i].session = "none" THEN "new"
                  ELSE IF Payable(i) THEN "offered" ELSE "withdrawn"

LEMMA SoldIsCompleted ==
  RefInv => \A i \in Intents : Sold(i) => intent[i].status = "completed"
BY CheckoutAssumption DEF RefInv, SaleInv, Board, Sold

LEMMA PhasesAre == RefInv => PhaseForm
<1> SUFFICES ASSUME RefInv, NEW i \in Intents, stripe[i].session # "complete"
             PROVE  ~Sold(i) /\ ~intent[i].resolved /\ ~Cleared(i)
  BY DEF PhaseForm, Phase, Payable
<1>1. ~Cleared(i)
  BY ClearedIsComplete DEF RefInv
<1>2. ~Settled(i)
  BY <1>1 DEF RefInv, SaleInv, Settlement
<1>3. ~Sold(i)
  BY <1>2, SoldIsCompleted DEF Settled
<1>4. ~intent[i].resolved
  BY <1>2 DEF RefInv, SaleInv, Settlement, Settled
<1> QED BY <1>1, <1>3, <1>4

LEMMA PhasesAreNext == RefInv' => PhaseForm'
BY PhasesAre, PTL

(* The steps of SlotSale, in terms of phases.                              *)
LEMMA WithdrawStep ==
  ASSUME \A j \in Intents : \/ Phase(j)' = Phase(j)
                            \/ Phase(j) = "offered" /\ Phase(j)' = "withdrawn",
         \A j \in Intents : Phase(j) # "new" => intent'[j].slot = intent[j].slot
  PROVE  [Sale!Next]_(Sale!vars)
<1> DEFINE W == {j \in Intents : Phase(j) = "offered" /\ Phase(j)' = "withdrawn"}
<1>1. \A j \in Intents : Phase(j)' = IF j \in W THEN "withdrawn" ELSE Phase(j)
  OBVIOUS
<1>2. \A j \in Intents : (IF Phase(j)' = "new" THEN None ELSE intent'[j].slot)
                           = (IF Phase(j) = "new" THEN None ELSE intent[j].slot)
  BY <1>1
<1>3. CASE W = {}
  <2>1. \A j \in Intents : Phase(j)' = Phase(j)
    BY <1>1, <1>3
  <2> QED BY <1>2, <2>1 DEF Sale!vars
<1>4. CASE W # {}
  <2>1. Sale!Withdraw(W)
    BY <1>1, <1>2 DEF Sale!Withdraw
  <2>2. W \in SUBSET Intents
    OBVIOUS
  <2> QED BY <1>4, <2>1, <2>2 DEF Sale!Next
<1> QED BY <1>3, <1>4

LEMMA MoveStep ==
  ASSUME NEW i \in Intents,
         \A j \in Intents \ {i} : Phase(j)' = Phase(j),
         \A j \in Intents : Phase(j) # "new" => intent'[j].slot = intent[j].slot,
         \/ Phase(i) = "offered" /\ Phase(i)' = "paid"
         \/ Phase(i) = "paid" /\ Phase(i)' = "returned"
         \/ /\ Phase(i) = "paid" /\ Phase(i)' = "kept"
            /\ \A j \in Intents : intent[j].slot = intent[i].slot => Phase(j) # "kept"
  PROVE  Sale!Next
<1>1. \A j \in Intents : (IF Phase(j)' = "new" THEN None ELSE intent'[j].slot)
                           = (IF Phase(j) = "new" THEN None ELSE intent[j].slot)
  OBVIOUS
<1>2. \A v : [[j \in Intents |-> Phase(j)] EXCEPT ![i] = v]
               = [j \in Intents |-> IF j = i THEN v ELSE Phase(j)]
  OBVIOUS
<1>3. CASE Phase(i) = "offered" /\ Phase(i)' = "paid"
  <2>1. Sale!Pay(i)
    BY <1>1, <1>2, <1>3 DEF Sale!Pay
  <2> QED BY <2>1 DEF Sale!Next
<1>4. CASE Phase(i) = "paid" /\ Phase(i)' = "returned"
  <2>1. Sale!Return(i)
    BY <1>1, <1>2, <1>4 DEF Sale!Return
  <2> QED BY <2>1 DEF Sale!Next
<1>5. CASE /\ Phase(i) = "paid" /\ Phase(i)' = "kept"
           /\ \A j \in Intents : intent[j].slot = intent[i].slot => Phase(j) # "kept"
  <2>1. Sale!Keep(i)
    BY <1>1, <1>2, <1>5 DEF Sale!Keep, Sale!At
  <2> QED BY <2>1 DEF Sale!Next
<1> QED BY <1>3, <1>4, <1>5

LEMMA OfferStep ==
  ASSUME NEW i \in Intents, intent[i].slot \in Slots,
         \A j \in Intents \ {i} : Phase(j)' = Phase(j),
         \A j \in Intents : intent'[j].slot = intent[j].slot,
         Phase(i) = "new", Phase(i)' = "offered",
         \A j \in Intents : intent[j].slot = intent[i].slot => Phase(j) # "offered"
  PROVE  Sale!Next
<1>1. PICK s \in Slots : s = intent[i].slot
  OBVIOUS
<1>2. \A j \in Intents \ {i} :
        (IF Phase(j)' = "new" THEN None ELSE intent'[j].slot)
          = (IF Phase(j) = "new" THEN None ELSE intent[j].slot)
  OBVIOUS
<1>3. Sale!Offer(i, s)
  BY <1>1, <1>2 DEF Sale!Offer, Sale!At
<1> QED BY <1>3 DEF Sale!Next

(* What a phase depends on.                                                *)
LEMMA PhaseFrame ==
  ASSUME NEW j \in Intents, now' = now, intent'[j].until = intent[j].until,
         stripe'[j].session = stripe[j].session, Sold(j)' = Sold(j),
         intent'[j].resolved = intent[j].resolved, Cleared(j)' = Cleared(j)
  PROVE  Phase(j)' = Phase(j)
<1>1. Payable(j)' = Payable(j)
  BY DEF Payable, SessionEnd
<1> QED BY <1>1 DEF Phase

LEMMA SoldFrame ==
  ASSUME NEW j \in Intents, \A r \in Rows : sponsor'[r] = sponsor[r] \/ Revived(r)
  PROVE  Sold(j)' = Sold(j)
BY CheckoutAssumption DEF Sold, Revived

LEMMA ClearedFrame ==
  ASSUME SaleInv, [Next]_vars, NEW j \in Intents, \A o \in BOOLEAN : ~Complete(j, TRUE, o)
  PROVE  Cleared(j)' = Cleared(j)
<1>0. TypeOK /\ Named /\ bill[j][1] \in {"none", "paid", "refunded"}
  BY DEF SaleInv, LockInv, HeldInv, MoneyInv, Settlement
<1>1. ASSUME NEW p \in Resolvers, ResolveRefund(p, 1), resolver[p].intent = j PROVE Cleared(j)
  BY <1>1 DEF ResolveRefund, SaleInv, Settlement, Settled
<1>2. Cleared(j)' => Cleared(j)
  BY <1>0, <1>1, FirstInvoiceWrites DEF Cleared
<1> QED BY <1>2, ClearedStays DEF Cleared

LEMMA ResolvedFrame ==
  ASSUME Quiet, SaleInv, Fresh, [Next]_vars, NEW j \in Intents,
         \A p \in Resolvers : ~(ResolveFinish(p) /\ resolver[p].intent = j)
  PROVE  intent'[j].resolved = intent[j].resolved
<1>0. TypeOK /\ Named /\ intent[j].resolved \in BOOLEAN /\ intent'[j].resolved \in BOOLEAN
  <2>1. TypeOK /\ Named
    BY DEF SaleInv, LockInv, HeldInv, MoneyInv
  <2>2. TypeOK'
    BY <2>1, TypeKept
  <2> QED BY <2>1, <2>2 DEF TypeOK, IntentRow
<1>1. intent'[j].resolved => intent[j].resolved
  BY SettledStays
<1>2. ASSUME intent[j].resolved PROVE intent'[j].resolved
  <2>0. Settled(j) /\ request[j] = "answered"
    BY <1>2, ClearedIsComplete DEF SaleInv, Settlement, Settled
  <2>1. ASSUME NEW i \in Intents, OpenCommit(i) PROVE intent'[j].resolved
    <3>1. i # j
      BY <2>0, <2>1 DEF OpenCommit
    <3> QED BY <1>0, <1>2, <2>1, <3>1, OpenCommitWrites
  <2>2. ASSUME NEW i \in Intents, Mint(i) \/ MintFail(i) \/ BuyerReleased(i)
        PROVE  intent'[j].resolved
    BY <1>0, <1>2, <2>2, MintWrites, MintFailWrites, ReleasedWrites
  <2>3. ASSUME NEW w \in Workers, DeliverConflict(w) PROVE intent'[j].resolved
    <3>1. ~delivery[w].stamped
      BY <2>3 DEF DeliverConflict, SaleInv, Settlement
    <3> QED BY <1>0, <1>2, <2>3, <3>1, ConflictWrites
  <2>4. ASSUME NEW w \in Workers, DeliverActivate(w) PROVE intent'[j].resolved
    BY <1>0, <1>2, <2>4, ActivateWrites
  <2>5. ASSUME NEW p \in Resolvers, ResolveFinish(p) PROVE intent'[j].resolved
    BY <1>0, <1>2, <2>5, FinishWrites
  <2>6. CASE ~WritesIntents
    BY <1>2, <2>6, OthersKeepIntents
  <2> QED BY <2>1, <2>2, <2>3, <2>4, <2>5, <2>6 DEF WritesIntents, Quiet
<1> QED BY <1>0, <1>1, <1>2

(* A slot that has been asked for is not asked for anew.                   *)
LEMMA SlotsStay ==
  ASSUME RefInv, [Next]_vars, NEW j \in Intents, Phase(j) # "new"
  PROVE  intent'[j].slot = intent[j].slot
<1>0. TypeOK /\ Named /\ MoneyInv
  BY DEF RefInv, SaleInv, LockInv, HeldInv, MoneyInv
<1>1. stripe[j].session # "none"
  BY PhasesAre DEF PhaseForm
<1>2. ASSUME NEW i \in Intents, OpenCommit(i) PROVE intent'[j].slot = intent[j].slot
  <2>1. i # j
    BY <1>0, <1>1, <1>2 DEF OpenCommit, MoneyInv, MintedOnce
  <2> QED BY <1>0, <1>2, <2>1, OpenCommitWrites DEF SameSale
<1>3. CASE \A i \in Intents : ~OpenCommit(i)
  BY <1>0, <1>3, RowsKept DEF SameSale
<1> QED BY <1>2, <1>3

(* The steps that change no phase.                                         *)
LEMMA StutterStep ==
  ASSUME Quiet, RefInv, Fresh, [Next]_vars, now' = now,
         \A r \in Rows : sponsor'[r] = sponsor[r] \/ Revived(r),
         \A j \in Intents : stripe'[j].session = stripe[j].session,
         \A j \in Intents, o \in BOOLEAN : ~Complete(j, TRUE, o),
         \A p \in Resolvers : ~ResolveFinish(p),
         \A i \in Intents : ~OpenCommit(i)
  PROVE  [Sale!Next]_(Sale!vars)
<1> SUFFICES ASSUME NEW j \in Intents PROVE Phase(j)' = Phase(j)
  BY SlotsStay, WithdrawStep
<1>1. intent'[j].until = intent[j].until
  BY RowsKept DEF SameSale, RefInv, SaleInv, LockInv, HeldInv, MoneyInv
<1>2. intent'[j].resolved = intent[j].resolved /\ Cleared(j)' = Cleared(j)
  BY ResolvedFrame, ClearedFrame DEF RefInv
<1> QED BY <1>1, <1>2, SoldFrame, PhaseFrame

LEMMA CommitStep ==
  ASSUME Quiet, RefInv, RefInv', Fresh, [Next]_vars, NEW i \in Intents, OpenCommit(i)
  PROVE  [Sale!Next]_(Sale!vars)
<1>0. /\ TypeOK /\ Named /\ UNCHANGED <<now, sponsor, stripe, bill>> /\ PhaseForm /\ PhaseForm'
      /\ stripe[i].session = "none"
  BY PhasesAre, PhasesAreNext DEF RefInv, SaleInv, LockInv, HeldInv, MoneyInv, MintedOnce,
    OpenCommit
<1> SUFFICES ASSUME NEW j \in Intents PROVE Phase(j)' = Phase(j)
  BY SlotsStay, WithdrawStep
<1>1. CASE j = i
  BY <1>0, <1>1 DEF PhaseForm
<1>2. CASE j # i
  <2>1. intent'[j].until = intent[j].until /\ intent'[j].resolved = intent[j].resolved
    BY <1>0, <1>2, OpenCommitWrites DEF SameSale
  <2>2. Cleared(j)' = Cleared(j)
    BY <1>0 DEF Cleared
  <2> QED BY <1>0, <2>1, <2>2, SoldFrame, PhaseFrame
<1> QED BY <1>1, <1>2

LEMMA TickStep ==
  ASSUME Quiet, RefInv, RefInv', Fresh, Tick PROVE [Sale!Next]_(Sale!vars)
<1>0. /\ TypeOK /\ TypeOK' /\ PhaseForm /\ PhaseForm'
      /\ UNCHANGED <<intent, sponsor, bill>> /\ now \in Nat /\ now' = now + 1
  BY PhasesAre, PhasesAreNext, CheckoutAssumption
  DEF RefInv, SaleInv, LockInv, HeldInv, MoneyInv, TypeOK, Tick
<1> SUFFICES ASSUME NEW j \in Intents
             PROVE  \/ Phase(j)' = Phase(j)
                    \/ Phase(j) = "offered" /\ Phase(j)' = "withdrawn"
  BY <1>0, WithdrawStep
<1>1. stripe'[j] = IF stripe[j].session = "open" /\ now' >= SessionEnd(j)
                   THEN [stripe[j] EXCEPT !.session = "expired"] ELSE stripe[j]
  BY DEF Tick
<1>2. /\ stripe[j] \in Purchase
      /\ stripe[j].session = "open" => stripe'[j].session \in {"open", "expired"}
      /\ stripe[j].session # "open" => stripe'[j].session = stripe[j].session
  BY <1>0, <1>1 DEF TypeOK, Purchase
<1>3. Payable(j)' => Payable(j)
  <2>1. SessionEnd(j)' = SessionEnd(j) /\ SessionEnd(j) \in Int
    BY <1>0, CheckoutAssumption DEF SessionEnd, TypeOK, IntentRow
  <2> QED BY <1>0, <1>2, <2>1 DEF Payable
<1>4. Sold(j)' = Sold(j) /\ Cleared(j)' = Cleared(j)
  BY <1>0 DEF Sold, Cleared
<1>5. CASE stripe[j].session = "open"
  BY <1>0, <1>2, <1>3, <1>5 DEF PhaseForm
<1>6. CASE stripe[j].session # "open"
  <2>1. ~Payable(j) /\ ~Payable(j)'
    BY <1>2, <1>6 DEF Payable
  <2> QED BY <1>0, <1>2, <1>4, <1>6, <2>1 DEF PhaseForm
<1> QED BY <1>5, <1>6

LEMMA MintStep ==
  ASSUME Quiet, RefInv, RefInv', Fresh, [Next]_vars, NEW i \in Intents, Mint(i)
  PROVE  [Sale!Next]_(Sale!vars)
<1>0. /\ TypeOK /\ Named /\ PhaseForm /\ PhaseForm' /\ UNCHANGED <<now, sponsor, bill>>
      /\ stripe \in [Intents -> Purchase] /\ request[i] = "minting" /\ now < SessionEnd(i)
  BY PhasesAre, PhasesAreNext DEF RefInv, SaleInv, LockInv, HeldInv, MoneyInv, TypeOK, Mint
<1>1. \A j \in Intents : SameSale(j) /\ intent'[j].resolved = intent[j].resolved
  BY <1>0, MintWrites
<1>2. \A j \in Intents : Sold(j)' = Sold(j) /\ Cleared(j)' = Cleared(j)
  BY <1>0 DEF Sold, Cleared
<1>3. /\ stripe[i].session = "none" /\ stripe'[i].session = "open"
      /\ \A j \in Intents \ {i} : stripe'[j] = stripe[j]
  BY <1>0 DEF Mint, Purchase, RefInv, SaleInv, LockInv, HeldInv, MoneyInv, MintedOnce
<1>4. \A j \in Intents \ {i} : Phase(j)' = Phase(j)
  BY <1>0, <1>1, <1>2, <1>3, PhaseFrame DEF SameSale
<1>5. Phase(i) = "new"
  BY <1>0, <1>3 DEF PhaseForm
<1>6. Payable(i)'
  BY <1>0, <1>1, <1>3 DEF Payable, SessionEnd, SameSale
<1>7. Phase(i)' = "offered"
  BY <1>0, <1>3, <1>6 DEF PhaseForm
<1>8. Open(i) /\ intent[i].slot \in Slots
  BY <1>0 DEF RefInv, SaleInv, LockInv, OneHold, HeldInv, HoldStands, Asked
<1>9. ASSUME NEW j \in Intents, intent[j].slot = intent[i].slot PROVE Phase(j) # "offered"
  <2> SUFFICES ASSUME Phase(j) = "offered" PROVE FALSE
    OBVIOUS
  <2>1. Payable(j)
    BY <1>0 DEF PhaseForm
  <2>2. Open(j)
    BY <2>1 DEF RefInv, SaleInv, LockInv, HeldInv, HoldStands
  <2>3. j = i
    BY <1>8, <1>9, <2>2 DEF RefInv, SaleInv, LockInv, OneHold
  <2> QED BY <1>5, <2>3
<1> QED BY <1>1, <1>4, <1>5, <1>7, <1>8, <1>9, OfferStep DEF SameSale

LEMMA CompleteStep ==
  ASSUME Quiet, RefInv, RefInv', Fresh, [Next]_vars,
         NEW i \in Intents, NEW c \in BOOLEAN, NEW o \in BOOLEAN, Complete(i, c, o)
  PROVE  [Sale!Next]_(Sale!vars)
<1>0. /\ TypeOK /\ Named /\ PhaseForm /\ PhaseForm' /\ UNCHANGED <<now, sponsor, intent>>
      /\ Payable(i) /\ stripe[i].session = "open" /\ 1 \in Invoices
  BY PhasesAre, PhasesAreNext, CheckoutAssumption
  DEF RefInv, SaleInv, LockInv, HeldInv, MoneyInv, Complete, Payable, Invoices
<1>1. /\ stripe'[i].session = "complete"
      /\ \A j \in Intents \ {i} : stripe'[j] = stripe[j] /\ bill'[j] = bill[j]
  BY <1>0 DEF Complete, TypeOK
<1>2. \A j \in Intents : Sold(j)' = Sold(j)
  BY <1>0 DEF Sold
<1>3. \A j \in Intents \ {i} : Phase(j)' = Phase(j)
  <2> SUFFICES ASSUME NEW j \in Intents \ {i} PROVE Phase(j)' = Phase(j)
    OBVIOUS
  <2>1. Cleared(j)' = Cleared(j)
    BY <1>1 DEF Cleared
  <2> QED BY <1>0, <1>1, <1>2, <2>1, PhaseFrame
<1>4. Phase(i) = "offered" /\ ~Sold(i) /\ ~intent[i].resolved /\ ~Cleared(i)
  <2>1. ~Cleared(i)
    BY <1>0, ClearedIsComplete DEF RefInv
  <2>2. ~Settled(i)
    BY <2>1 DEF RefInv, SaleInv, Settlement
  <2>3. ~Sold(i)
    BY <2>2, SoldIsCompleted DEF Settled
  <2>4. ~intent[i].resolved
    BY <2>2 DEF RefInv, SaleInv, Settlement, Settled
  <2> QED BY <1>0, <2>1, <2>3, <2>4 DEF PhaseForm
<1>5. CASE c
  <2>1. Cleared(i)'
    BY <1>0, <1>5 DEF Complete, Cleared, TypeOK, Bills
  <2>2. Phase(i)' = "paid"
    BY <1>0, <1>1, <1>2, <1>4, <2>1 DEF PhaseForm
  <2> QED BY <1>0, <1>3, <1>4, <2>2, MoveStep
<1>6. CASE ~c
  <2>1. ~Cleared(i)'
    BY <1>4, <1>6 DEF Complete, Cleared
  <2>2. Phase(i)' = "withdrawn"
    BY <1>0, <1>1, <1>2, <1>4, <2>1 DEF PhaseForm
  <2> QED BY <1>0, <1>3, <1>4, <2>2, WithdrawStep
<1> QED BY <1>5, <1>6

LEMMA BackStep ==
  ASSUME Quiet, RefInv, RefInv', Fresh, [Next]_vars, NEW i \in Intents, BuyerBack(i)
  PROVE  [Sale!Next]_(Sale!vars)
<1>0. /\ TypeOK /\ PhaseForm /\ PhaseForm' /\ UNCHANGED <<now, sponsor, intent, bill>>
      /\ stripe \in [Intents -> Purchase] /\ stripe[i].session \in {"open", "expired"}
  BY PhasesAre, PhasesAreNext DEF RefInv, SaleInv, LockInv, HeldInv, MoneyInv, TypeOK,
    BuyerBack
<1>1. /\ stripe'[i].session = "expired"
      /\ \A j \in Intents \ {i} : stripe'[j] = stripe[j]
  BY <1>0 DEF BuyerBack, Purchase
<1>2. \A j \in Intents : Sold(j)' = Sold(j) /\ Cleared(j)' = Cleared(j)
  BY <1>0 DEF Sold, Cleared
<1>3. \A j \in Intents \ {i} : Phase(j)' = Phase(j)
  BY <1>0, <1>1, <1>2, PhaseFrame
<1>4. Phase(i) \in {"offered", "withdrawn"} /\ Phase(i)' = "withdrawn"
  BY <1>0, <1>1 DEF PhaseForm, Payable
<1> QED BY <1>0, <1>3, <1>4, WithdrawStep

LEMMA KeepStep ==
  ASSUME Unbound, Quiet, RefInv, RefInv', Fresh, [Next]_vars,
         NEW w \in Workers, NEW i \in Intents, DeliverActivate(w), i = delivery[w].intent
  PROVE  [Sale!Next]_(Sale!vars)
<1>0. /\ TypeOK /\ Named /\ PhaseForm /\ PhaseForm' /\ UNCHANGED <<now, stripe, bill>>
      /\ RowInv /\ NonePaused
  BY PhasesAre, PhasesAreNext
  DEF RefInv, ReasonInv, RowInv, MoneyInv, Named, DeliverActivate
<1>1. \A j \in Intents : SameSale(j) /\ intent'[j].resolved = intent[j].resolved
  BY <1>0, ActivateWrites
<1>2. \A r \in Rows : r[2] = intent[i].slot => sponsor[r].sub \notin Intents
  BY <1>0, FreshSlot
<1>3. SaleRow(i) = <<i, intent[i].slot>>
  BY <1>0, OwnSupplier
<1>4. \A r \in Rows : IF r = SaleRow(i) THEN sponsor'[r].sub = i /\ sponsor'[r].status = "Active"
                      ELSE sponsor'[r] = sponsor[r]
  BY <1>0, ActivateRow
<1>5. \A j \in Intents \ {i} : Sold(j)' = Sold(j)
  <2> SUFFICES ASSUME NEW j \in Intents \ {i} PROVE Sold(j)' = Sold(j)
    OBVIOUS
  <2>1. \A r \in Rows : r = SaleRow(i) => sponsor[r].sub # j /\ sponsor'[r].sub # j
    BY <1>2, <1>3, <1>4, CheckoutAssumption
  <2> QED BY <1>4, <2>1 DEF Sold
<1>6. \A j \in Intents : Cleared(j)' = Cleared(j)
  BY <1>0 DEF Cleared
<1>7. \A j \in Intents \ {i} : Phase(j)' = Phase(j)
  BY <1>0, <1>1, <1>5, <1>6, PhaseFrame DEF SameSale
<1>8. /\ Cleared(i) /\ stripe[i].session = "complete" /\ ~Sold(i) /\ ~intent[i].resolved
      /\ intent[i].slot \in Slots
  <2>1. Cleared(i) /\ intent[i].status # "conflict"
    BY DEF RefInv, SaleInv, Settlement, DeliverActivate, Fresh
  <2>2. stripe[i].session = "complete" /\ request[i] = "answered"
    BY <1>0, <2>1, ClearedIsComplete DEF RefInv
  <2>3. intent[i].slot \in Slots
    BY <1>0, <2>2 DEF RefInv, SaleInv, LockInv, OneHold, Asked
  <2>4. ~intent[i].resolved
    BY <1>0, <2>1 DEF RefInv, SaleInv, Settlement
  <2>5. ~Sold(i)
    BY DEF Sold, DeliverActivate, FlushOk, Recorded
  <2> QED BY <2>1, <2>2, <2>3, <2>4, <2>5
<1>9. Phase(i) = "paid"
  BY <1>0, <1>8 DEF PhaseForm
<1>10. Sold(i)'
  <2>1. SaleRow(i) \in Rows
    BY <1>0, <1>3, <1>8 DEF Rows, Suppliers
  <2>2. PICK r \in Rows : r = SaleRow(i)
    BY <2>1
  <2>3. \E q \in Rows : sponsor'[q].sub = i /\ sponsor'[q].status \in Live
    BY <1>4, <2>2 DEF Live
  <2> QED BY <2>3 DEF Sold
<1>11. Phase(i)' = "kept"
  BY <1>0, <1>8, <1>10 DEF PhaseForm
<1>12. ASSUME NEW j \in Intents, intent[j].slot = intent[i].slot PROVE Phase(j) # "kept"
  <2> SUFFICES ASSUME Sold(j) PROVE FALSE
    BY <1>0 DEF PhaseForm
  <2>1. PICK r \in Rows : sponsor[r].sub = j
    BY DEF Sold
  <2>2. r[2] = intent[i].slot
    BY <1>0, <1>12, <2>1, CheckoutAssumption DEF RowInv, SaleRows
  <2> QED BY <1>2, <2>1, <2>2, CheckoutAssumption
<1> QED BY <1>0, <1>1, <1>7, <1>9, <1>11, <1>12, MoveStep DEF SameSale

LEMMA FinishStep ==
  ASSUME Quiet, RefInv, RefInv', Fresh, [Next]_vars,
         NEW p \in Resolvers, NEW i \in Intents, ResolveFinish(p), i = resolver[p].intent
  PROVE  [Sale!Next]_(Sale!vars)
<1>0. /\ TypeOK /\ Named /\ PhaseForm /\ PhaseForm'
      /\ UNCHANGED <<now, stripe, bill, sponsor>> /\ resolver[p].pc # "idle"
  BY PhasesAre, PhasesAreNext DEF RefInv, SaleInv, LockInv, HeldInv, MoneyInv, ResolveFinish
<1>1. \A j \in Intents :
        SameSale(j) /\ intent'[j].resolved = IF j = i THEN TRUE ELSE intent[j].resolved
  BY <1>0, FinishWrites
<1>2. \A j \in Intents : Sold(j)' = Sold(j) /\ Cleared(j)' = Cleared(j)
  BY <1>0 DEF Sold, Cleared
<1>3. \A j \in Intents \ {i} : Phase(j)' = Phase(j)
  BY <1>0, <1>1, <1>2, PhaseFrame DEF SameSale
<1>4. Cleared(i) /\ ~Sold(i) /\ stripe[i].session = "complete"
  <2>1. intent[i].status = "conflict"
    BY <1>0 DEF RefInv, SaleInv, Settlement
  <2>2. Cleared(i)
    BY <2>1 DEF RefInv, SaleInv, Settlement, Settled
  <2> QED BY <2>1, <2>2, SoldIsCompleted, ClearedIsComplete DEF RefInv
<1>5. Phase(i)' = "returned" /\ Phase(i) = IF intent[i].resolved THEN "returned" ELSE "paid"
  BY <1>0, <1>1, <1>2, <1>4 DEF PhaseForm
<1>6. CASE intent[i].resolved
  <2>1. \A j \in Intents : Phase(j)' = Phase(j)
    BY <1>3, <1>5, <1>6
  <2> QED BY <1>1, <2>1, WithdrawStep DEF SameSale
<1>7. CASE ~intent[i].resolved
  BY <1>1, <1>3, <1>5, <1>7, MoveStep DEF SameSale
<1> QED BY <1>6, <1>7

(* A step of the checkout that changes neither the clock, nor a session,   *)
(* nor the board, nor marks a conflict resolved, changes no phase.         *)
LEMMA SameSessions ==
  ASSUME Quiet, TypeOK, Named, [Next]_vars, ~Tick,
         \A i \in Intents : ~Mint(i) /\ ~BuyerBack(i),
         \A i \in Intents, c \in BOOLEAN, o \in BOOLEAN : ~Complete(i, c, o)
  PROVE  now' = now /\ \A j \in Intents : stripe'[j].session = stripe[j].session
<1>0. stripe \in [Intents -> Purchase]
  BY DEF TypeOK
<1>1. CASE UNCHANGED vars
  BY <1>1 DEF vars
<1>2. ASSUME NEW i \in Intents, RequestStep(i) PROVE UNCHANGED <<now, stripe>>
  BY <1>2 DEF RequestStep, OpenRead, OpenRefused, OpenBegin, OpenCommit, OpenLoses, MintFail,
    MintCrash
<1>3. ASSUME NEW i \in Intents, BuyerStep(i) PROVE UNCHANGED <<now, stripe>>
  BY <1>3 DEF BuyerStep, Renew, Charge, BuyerReleased
<1>4. ASSUME NEW i \in Intents, DeliverAck(i) PROVE UNCHANGED <<now, stripe>>
  BY <1>4 DEF DeliverAck
<1>5. ASSUME NEW w \in Workers, DeliverStep(w) PROVE UNCHANGED <<now, stripe>>
  BY <1>5 DEF DeliverStep, DeliverBegin, DeliverConflict, DeliverActivate, DeliverError,
    Revive
<1>6. ASSUME NEW p \in Resolvers, ResolveCancel(p)
      PROVE  now' = now /\ \A j \in Intents : stripe'[j].session = stripe[j].session
  <2>1. resolver[p].intent \in Intents /\ now' = now
        /\ stripe' = [stripe EXCEPT ![resolver[p].intent].sub = "canceled"]
    BY <1>6 DEF ResolveCancel, Named
  <2> QED BY <1>0, <2>1 DEF Purchase
<1>7. ASSUME NEW p \in Resolvers, ResolveStep(p), ~ResolveCancel(p)
      PROVE  UNCHANGED <<now, stripe>>
  BY <1>7 DEF ResolveStep, ResolveBegin, ResolveVoid, ResolveRefund, ResolveFinish,
    ResolveAbort
<1>8. ASSUME NEW a \in Admins, AdminStep(a) PROVE UNCHANGED <<now, stripe>>
  BY <1>8 DEF AdminStep, AdminBegin, AdminCommit
<1>9. ASSUME NEW c \in Codes, CodePatched(c) PROVE UNCHANGED <<now, stripe>>
  BY <1>9 DEF CodePatched
<1> QED BY <1>1, <1>2, <1>3, <1>4, <1>5, <1>6, <1>7, <1>8, <1>9 DEF Next, Quiet

LEMMA SaleStep ==
  ASSUME Quiet, Unbound, Admins = {}, RefInv, RefInv', [Next]_vars
  PROVE  [Sale!Next]_(Sale!vars)
<1>0. Fresh /\ TypeOK /\ Named
  BY ReasonsFresh DEF RefInv, SaleInv, LockInv, HeldInv, MoneyInv
<1>1. CASE Tick
  BY <1>0, <1>1, TickStep
<1>2. ASSUME NEW i \in Intents, Mint(i) PROVE [Sale!Next]_(Sale!vars)
  BY <1>0, <1>2, MintStep
<1>3. ASSUME NEW i \in Intents, BuyerBack(i) PROVE [Sale!Next]_(Sale!vars)
  BY <1>0, <1>3, BackStep
<1>4. ASSUME NEW i \in Intents, NEW c \in BOOLEAN, NEW o \in BOOLEAN, Complete(i, c, o)
      PROVE  [Sale!Next]_(Sale!vars)
  BY <1>0, <1>4, CompleteStep
<1>5. ASSUME NEW i \in Intents, OpenCommit(i) PROVE [Sale!Next]_(Sale!vars)
  BY <1>0, <1>5, CommitStep
<1>6. ASSUME NEW w \in Workers, DeliverActivate(w) PROVE [Sale!Next]_(Sale!vars)
  <2>1. PICK i \in Intents : i = delivery[w].intent
    BY <1>0, <1>6 DEF Named, DeliverActivate
  <2> QED BY <1>0, <1>6, <2>1, KeepStep
<1>7. ASSUME NEW p \in Resolvers, ResolveFinish(p) PROVE [Sale!Next]_(Sale!vars)
  <2>1. PICK i \in Intents : i = resolver[p].intent
    BY <1>0, <1>7 DEF Named, ResolveFinish
  <2> QED BY <1>0, <1>7, <2>1, FinishStep
<1>8. CASE /\ ~Tick
           /\ \A i \in Intents : ~Mint(i) /\ ~BuyerBack(i) /\ ~OpenCommit(i)
           /\ \A i \in Intents, c \in BOOLEAN, o \in BOOLEAN : ~Complete(i, c, o)
           /\ \A w \in Workers : ~DeliverActivate(w)
           /\ \A p \in Resolvers : ~ResolveFinish(p)
  <2>1. now' = now /\ \A j \in Intents : stripe'[j].session = stripe[j].session
    BY <1>0, <1>8, SameSessions
  <2>2. \A r \in Rows : sponsor'[r] = sponsor[r] \/ Revived(r)
    BY <1>0, <1>8, OthersKeepSponsors
  <2>3. \A j \in Intents, o \in BOOLEAN : ~Complete(j, TRUE, o)
    BY <1>8
  <2> QED BY <1>0, <1>8, <2>1, <2>2, <2>3, StutterStep
<1> QED BY <1>1, <1>2, <1>3, <1>4, <1>5, <1>6, <1>7, <1>8

LEMMA InitPhases == ASSUME Init PROVE Sale!Init
<1>0. RefInv => PhaseForm
  BY PhasesAre
<1> SUFFICES ASSUME NEW i \in Intents PROVE Phase(i) = "new"
  BY DEF Sale!Init
<1>1. stripe[i].session = "none" /\ ~intent[i].resolved /\ ~Cleared(i)
  BY CheckoutAssumption DEF Init, NoStripe, NoIntent, Cleared, Invoices
<1>2. RowInv
  BY InitRows
<1>3. ~Sold(i)
  BY <1>1, InitSale, CheckoutAssumption DEF Init, Sold, SaleInv, Board, NoIntent
<1> QED BY <1>1, <1>3 DEF Phase, Payable

(* With no third party at the same rows the checkout implements SlotSale:  *)
(* a slot is offered to one buyer at a time, kept by at most one of those  *)
(* who paid, and everyone else who paid is returned, never both.           *)
THEOREM ImplementsSlotSale ==
  ASSUME Quiet, Unbound, Admins = {} PROVE Spec => SaleSpec
<1>1. Init => RefInv /\ Sale!Init
  <2> SUFFICES ASSUME Init PROVE RefInv /\ Sale!Init
    OBVIOUS
  <2>1. OneRow
    <3> SUFFICES ASSUME NEW r \in Rows PROVE sponsor[r].sub \notin Intents
      BY DEF OneRow
    <3>1. RowInv /\ \A i \in Intents : stripe[i].session # "complete"
      BY InitRows DEF Init, NoStripe
    <3> QED BY <3>1 DEF RowInv, SaleRows
  <2> QED BY <2>1, SeveralWorkersKept, InitPhases DEF RefInv
<1>2. RefInv /\ [Next]_vars => RefInv'
  <2> SUFFICES ASSUME RefInv, [Next]_vars PROVE RefInv'
    OBVIOUS
  <2>1. OneRow'
    BY OneRowKept DEF RefInv, ReasonInv
  <2> QED BY <2>1, SeveralWorkersKept DEF RefInv
<1>3. RefInv /\ RefInv' /\ [Next]_vars => [Sale!Next]_(Sale!vars)
  BY SaleStep
<1> QED BY <1>1, <1>2, <1>3, PTL DEF Spec, SaleSpec, Sale!Spec

(***************************************************************************)
(* The limit of a sales code.                                              *)
(***************************************************************************)
(* A buyer's release works on a session that is closed, and a payment that *)
(* is not settled yet stands behind its open hold, or came from one that   *)
(* has lapsed.                                                             *)
BackClosed == \A i \in backing : stripe[i].session = "expired"
Late == \A i \in Intents :
  stripe[i].session = "complete" /\ ~Settled(i) => Open(i) \/ intent[i].until < now

(* A code's count is the number of its sales, and what a delivery has read *)
(* is still the count.                                                     *)
Counted ==
  /\ \A c \in Codes : uses[c] = Cardinality(SalesWith(c))
  /\ \A w \in Workers, c \in Codes :
       delivery[w].verdict = "activate" /\ intent[delivery[w].intent].code = c
         => delivery[w].uses = uses[c]

(* What counts against a code: its holds and sales in time, and the        *)
(* requests about to commit a hold with it.                                *)
InTime(i, c) == /\ intent[i].code = c /\ intent[i].until >= now
                /\ intent[i].status \in {"open", "completed"}
Taken(c) == {i \in Intents : InTime(i, c) \/ (request[i] = "opening" /\ draft[i].code = c)}
SoldInTime(c) == \A i \in SalesWith(c) : intent[i].until >= now
Limit == \A c \in Codes : SoldInTime(c) => Cardinality(Taken(c)) <= MaxUses

CodeInv == SaleInv /\ Undecided /\ BackClosed /\ Late /\ Counted /\ Limit

Booked(c) == {i \in Intents : HoldLive(i) /\ intent[i].code = c}

(* With every sale made in time, the count and the live holds are disjoint *)
(* parts of what is taken.                                                 *)
LEMMA BookedAndSold ==
  ASSUME IsFiniteSet(Intents), TypeOK, NEW c \in Codes, SoldInTime(c)
  PROVE  /\ Booked(c) \cup SalesWith(c) \subseteq Taken(c)
         /\ IsFiniteSet(Taken(c))
         /\ Cardinality(SalesWith(c)) + Cardinality(Booked(c))
              = Cardinality(Booked(c) \cup SalesWith(c))
         /\ Cardinality(Booked(c) \cup SalesWith(c)) <= Cardinality(Taken(c))
         /\ Cardinality(SalesWith(c)) \in Nat /\ Cardinality(Booked(c)) \in Nat
<1>1. Booked(c) \cup SalesWith(c) \subseteq Taken(c)
  BY DEF Booked, SalesWith, Taken, InTime, HoldLive, Open, SoldInTime
<1>2. IsFiniteSet(Taken(c)) /\ IsFiniteSet(Booked(c)) /\ IsFiniteSet(SalesWith(c))
  BY FS_Subset DEF Taken, Booked, SalesWith
<1>3. Booked(c) \cap SalesWith(c) = {}
  BY DEF Booked, SalesWith, HoldLive, Open
<1>4. /\ Cardinality(Booked(c) \cup SalesWith(c))
           = Cardinality(Booked(c)) + Cardinality(SalesWith(c)) - Cardinality({})
      /\ Cardinality(SalesWith(c)) \in Nat /\ Cardinality(Booked(c)) \in Nat
  BY <1>2, <1>3, FS_Union, FS_CardinalityType
<1>5. Cardinality({}) = 0
  BY FS_EmptySet
<1>6. Cardinality(Booked(c) \cup SalesWith(c)) <= Cardinality(Taken(c))
  BY <1>1, <1>2, FS_Subset
<1> QED BY <1>1, <1>2, <1>4, <1>5, <1>6

(* Sales are not unmade, and one is made by its delivery.                  *)
LEMMA SalesStay ==
  ASSUME Quiet, SaleInv, Fresh, [Next]_vars, NEW i \in Intents
  PROVE  /\ intent[i].status = "completed"
               => intent'[i].status = "completed" /\ SameSale(i)
         /\ intent'[i].status = "completed" => \/ intent[i].status = "completed"
                                               \/ \E w \in Workers : /\ DeliverActivate(w)
                                                                     /\ delivery[w].intent = i
<1>1. intent[i].status = "completed" => stripe[i].session = "complete"
  BY ClearedIsComplete DEF SaleInv, Settlement, Settled
<1> QED BY <1>1, SettledStays, CompleteStays DEF Settled, SaleInv, LockInv, HeldInv

LEMMA NowGrows == ASSUME TypeOK, [Next]_vars PROVE now \in Nat /\ now' \in Nat /\ now <= now'
<1>0. now \in Nat
  BY CheckoutAssumption DEF TypeOK
<1>1. CASE Tick
  BY <1>0, <1>1 DEF Tick
<1>2. ASSUME NEW i \in Intents, RequestStep(i) PROVE now' = now
  BY <1>2 DEF RequestStep, OpenRead, OpenRefused, OpenBegin, OpenCommit, OpenLoses, Mint,
    MintFail, MintCrash
<1>3. ASSUME NEW i \in Intents, BuyerStep(i) PROVE now' = now
  BY <1>3 DEF BuyerStep, Complete, Renew, Charge, BuyerBack, BuyerReleased
<1>4. ASSUME NEW i \in Intents, DeliverAck(i) PROVE now' = now
  BY <1>4 DEF DeliverAck
<1>5. ASSUME NEW w \in Workers, DeliverStep(w) PROVE now' = now
  BY <1>5 DEF DeliverStep, DeliverBegin, DeliverConflict, DeliverActivate, DeliverError,
    Revive
<1>6. ASSUME NEW p \in Resolvers, ResolveStep(p) PROVE now' = now
  BY <1>6 DEF ResolveStep, ResolveBegin, ResolveCancel, ResolveVoid, ResolveRefund,
    ResolveFinish, ResolveAbort
<1>7. ASSUME NEW p \in Staff, StaffStep(p) PROVE now' = now
  BY <1>7 DEF StaffStep, StaffLook, StaffExpire, StaffWrite
<1>8. ASSUME NEW p \in Sweepers, SweepStep(p) PROVE now' = now
  BY <1>8 DEF SweepStep, SweepRead, SweepWrite
<1>9. ASSUME \/ \E a \in Admins : AdminStep(a)
             \/ \E c \in Codes : CodePatched(c)
             \/ UNCHANGED vars
      PROVE  now' = now
  BY <1>9 DEF AdminStep, AdminBegin, AdminCommit, CodePatched, vars
<1> QED BY <1>0, <1>1, <1>2, <1>3, <1>4, <1>5, <1>6, <1>7, <1>8, <1>9 DEF Next

(* Sessions: who completes one, and that an expired one is over.           *)
LEMMA SessionsMove ==
  ASSUME Quiet, MoneyInv, [Next]_vars, NEW i \in Intents
  PROVE  /\ stripe[i].session = "expired" => stripe'[i].session = "expired"
         /\ stripe'[i].session = "complete" => \/ stripe[i].session = "complete"
                                               \/ Payable(i) /\ intent' = intent
<1>0. TypeOK /\ Named /\ stripe \in [Intents -> Purchase] /\ MintedOnce
  BY DEF MoneyInv, TypeOK
<1>1. CASE Tick
  <2>1. stripe'[i] = IF stripe[i].session = "open" /\ now' >= SessionEnd(i)
                     THEN [stripe[i] EXCEPT !.session = "expired"] ELSE stripe[i]
    BY <1>1 DEF Tick
  <2> QED BY <1>0, <2>1 DEF Purchase
<1>2. ASSUME NEW k \in Intents, Mint(k)
      PROVE  /\ stripe[i].session = "expired" => stripe'[i].session = "expired"
             /\ stripe'[i].session = "complete" => stripe[i].session = "complete"
  <2>1. stripe'[i] = IF i = k THEN [stripe[i] EXCEPT !.session = "open"] ELSE stripe[i]
    BY <1>0, <1>2 DEF Mint
  <2>2. i = k => stripe[i].session = "none"
    BY <1>0, <1>2 DEF Mint, MintedOnce
  <2> QED BY <1>0, <2>1, <2>2 DEF Purchase
<1>3. ASSUME NEW k \in Intents, BuyerBack(k)
      PROVE  /\ stripe[i].session = "expired" => stripe'[i].session = "expired"
             /\ stripe'[i].session = "complete" => stripe[i].session = "complete"
  <2>1. stripe'[i] = IF i = k THEN [stripe[i] EXCEPT !.session = "expired"] ELSE stripe[i]
    BY <1>0, <1>3 DEF BuyerBack
  <2> QED BY <1>0, <2>1 DEF Purchase
<1>4. ASSUME NEW k \in Intents, NEW c \in BOOLEAN, NEW o \in BOOLEAN, Complete(k, c, o)
      PROVE  /\ stripe[i].session = "expired" => stripe'[i].session = "expired"
             /\ stripe'[i].session = "complete" => \/ stripe[i].session = "complete"
                                                   \/ Payable(i) /\ intent' = intent
  <2>1. k # i => stripe'[i] = stripe[i]
    BY <1>0, <1>4 DEF Complete
  <2>2. Payable(k) /\ intent' = intent /\ stripe[k].session = "open"
    BY <1>4 DEF Complete, Payable
  <2> QED BY <2>1, <2>2
<1>5. CASE /\ ~Tick /\ \A k \in Intents : ~Mint(k) /\ ~BuyerBack(k)
           /\ \A k \in Intents, c \in BOOLEAN, o \in BOOLEAN : ~Complete(k, c, o)
  BY <1>0, <1>5, SameSessions
<1> QED BY <1>1, <1>2, <1>3, <1>4, <1>5

LEMMA OthersKeepBacking ==
  ASSUME [Next]_vars, \A i \in Intents : ~BuyerBack(i) /\ ~BuyerReleased(i)
  PROVE  backing' = backing
<1>1. ASSUME NEW i \in Intents, RequestStep(i) \/ BuyerStep(i) \/ DeliverAck(i)
      PROVE  backing' = backing
  BY <1>1 DEF RequestStep, OpenRead, OpenRefused, OpenBegin, OpenCommit, OpenLoses, Mint,
    MintFail, MintCrash, BuyerStep, Complete, Renew, Charge, DeliverAck
<1>2. ASSUME NEW w \in Workers, DeliverStep(w) PROVE backing' = backing
  BY <1>2 DEF DeliverStep, DeliverBegin, DeliverConflict, DeliverActivate, DeliverError,
    Revive
<1>3. ASSUME NEW p \in Resolvers, ResolveStep(p) PROVE backing' = backing
  BY <1>3 DEF ResolveStep, ResolveBegin, ResolveCancel, ResolveVoid, ResolveRefund,
    ResolveFinish, ResolveAbort
<1>4. ASSUME \/ Tick \/ (\E p \in Staff : StaffStep(p)) \/ (\E p \in Sweepers : SweepStep(p))
             \/ (\E a \in Admins : AdminStep(a)) \/ (\E c \in Codes : CodePatched(c))
             \/ UNCHANGED vars
      PROVE  backing' = backing
  BY <1>4 DEF Tick, StaffStep, StaffLook, StaffExpire, StaffWrite, SweepStep, SweepRead,
    SweepWrite, AdminStep, AdminBegin, AdminCommit, CodePatched, vars
<1> QED BY <1>1, <1>2, <1>3, <1>4 DEF Next

LEMMA OthersKeepUses ==
  ASSUME [Next]_vars, \A w \in Workers : ~DeliverActivate(w) PROVE uses' = uses
<1>1. ASSUME NEW i \in Intents, RequestStep(i) \/ BuyerStep(i) \/ DeliverAck(i)
      PROVE  uses' = uses
  BY <1>1 DEF RequestStep, OpenRead, OpenRefused, OpenBegin, OpenCommit, OpenLoses, Mint,
    MintFail, MintCrash, BuyerStep, Complete, Renew, Charge, BuyerBack, BuyerReleased,
    DeliverAck
<1>2. ASSUME NEW w \in Workers, DeliverStep(w) PROVE uses' = uses
  BY <1>2 DEF DeliverStep, DeliverBegin, DeliverConflict, DeliverError, Revive
<1>3. ASSUME NEW p \in Resolvers, ResolveStep(p) PROVE uses' = uses
  BY <1>3 DEF ResolveStep, ResolveBegin, ResolveCancel, ResolveVoid, ResolveRefund,
    ResolveFinish, ResolveAbort
<1>4. ASSUME \/ Tick \/ (\E p \in Staff : StaffStep(p)) \/ (\E p \in Sweepers : SweepStep(p))
             \/ (\E a \in Admins : AdminStep(a)) \/ (\E c \in Codes : CodePatched(c))
             \/ UNCHANGED vars
      PROVE  uses' = uses
  BY <1>4 DEF Tick, StaffStep, StaffLook, StaffExpire, StaffWrite, SweepStep, SweepRead,
    SweepWrite, AdminStep, AdminBegin, AdminCommit, CodePatched, vars
<1> QED BY <1>1, <1>2, <1>3, <1>4 DEF Next

LEMMA BackKept ==
  ASSUME Quiet, MoneyInv, BackClosed, [Next]_vars PROVE BackClosed'
<1>0. backing \subseteq Intents /\ stripe \in [Intents -> Purchase]
  BY DEF MoneyInv, TypeOK
<1>1. ASSUME NEW i \in Intents, BuyerBack(i) PROVE BackClosed'
  <2>1. backing' = backing \cup {i} /\ stripe'[i].session = "expired"
    BY <1>0, <1>1 DEF BuyerBack, Purchase
  <2> QED BY <1>0, <2>1, SessionsMove DEF BackClosed
<1>2. CASE backing' \subseteq backing
  BY <1>0, <1>2, SessionsMove DEF BackClosed
<1> QED BY <1>1, <1>2, OthersKeepBacking DEF BuyerReleased

LEMMA LateKept ==
  ASSUME Quiet, SaleInv, Undecided, BackClosed, Late, Fresh, [Next]_vars PROVE Late'
<1>0. /\ TypeOK /\ TypeOK' /\ Named /\ MoneyInv /\ HoldStands /\ MintedOnce /\ OnlyLapsed
      /\ now <= now' /\ now \in Nat /\ now' \in Nat
  BY TypeKept, NowGrows DEF SaleInv, LockInv, HeldInv, MoneyInv
<1> SUFFICES ASSUME NEW i \in Intents, stripe'[i].session = "complete", ~Settled(i)'
             PROVE  Open(i)' \/ intent'[i].until < now'
  BY DEF Late
<1>1. CASE Payable(i) /\ intent' = intent
  BY <1>0, <1>1 DEF HoldStands, Open
<1>2. CASE stripe[i].session = "complete"
  <2>1. ~Settled(i)
    BY SettledStays DEF Settled
  <2>2. SameSale(i) /\ request[i] = "answered" /\ i \notin backing /\ intent[i].until \in Nat
    BY <1>0, <1>2, CompleteStays DEF MintedOnce, BackClosed, TypeOK, IntentRow
  <2>3. CASE intent[i].until < now
    BY <1>0, <2>2, <2>3 DEF SameSale
  <2>4. CASE Open(i) /\ intent'[i].status = intent[i].status
    BY <2>4 DEF Open
  <2>5. CASE Open(i) /\ intent'[i].status # intent[i].status
    <3>1. CASE ~WritesIntents
      BY <2>5, <3>1, OthersKeepIntents
    <3>2. ASSUME NEW k \in Intents, OpenCommit(k) PROVE intent[i].until < now
      <4>1. i # k /\ i \in draft[k].lapsed
        BY <1>0, <2>2, <2>5, <3>2, OpenCommitWrites DEF OpenCommit
      <4> QED BY <1>0, <4>1 DEF OnlyLapsed
    <3>3. ASSUME NEW k \in Intents, Mint(k) \/ MintFail(k) PROVE FALSE
      <4>1. k # i
        BY <2>2, <3>3 DEF Mint, MintFail
      <4> QED BY <1>0, <2>5, <3>3, <4>1, MintWrites, MintFailWrites
    <3>4. ASSUME NEW k \in Intents, BuyerReleased(k) PROVE FALSE
      <4>1. k # i
        BY <2>2, <3>4 DEF BuyerReleased
      <4> QED BY <1>0, <2>5, <3>4, <4>1, ReleasedWrites
    <3>5. ASSUME NEW w \in Workers, DeliverConflict(w) \/ DeliverActivate(w) PROVE FALSE
      <4>1. delivery[w].intent = i => Settled(i)'
        BY <1>0, <3>5, ConflictWrites, ActivateWrites DEF Settled
      <4> QED BY <1>0, <2>5, <3>5, <4>1, ConflictWrites, ActivateWrites
    <3>6. ASSUME NEW p \in Resolvers, ResolveFinish(p) PROVE FALSE
      BY <1>0, <2>5, <3>6, FinishWrites
    <3> QED BY <2>3, <3>1, <3>2, <3>3, <3>4, <3>5, <3>6 DEF WritesIntents, Quiet
  <2> QED BY <1>2, <2>1, <2>3, <2>4, <2>5 DEF Late
<1> QED BY <1>0, <1>1, <1>2, SessionsMove

LEMMA CountedKept ==
  ASSUME Quiet, OneWorker, IsFiniteSet(Intents), SaleInv, Undecided, Counted, [Next]_vars
  PROVE  Counted'
<1>0. /\ TypeOK /\ Named /\ MoneyInv /\ Fresh /\ AfterPayment
  BY UndecidedIsFresh DEF SaleInv, LockInv, HeldInv, MoneyInv
<1>1. ASSUME NEW w \in Workers, DeliverActivate(w) PROVE Counted'
  <2>1. PICK i \in Intents : i = delivery[w].intent
    BY <1>0, <1>1 DEF Named, DeliverActivate
  <2>2. intent[i].status # "completed"
    BY <1>1, <2>1 DEF Undecided, DeliverActivate, Settled
  <2>3. /\ \A j \in Intents : SameSale(j)
        /\ \A j \in Intents : intent'[j].status = IF j = i THEN "completed" ELSE intent[j].status
    BY <1>0, <1>1, <2>1, ActivateWrites
  <2>4. ASSUME NEW c \in Codes PROVE uses'[c] = Cardinality(SalesWith(c)')
    <3>1. uses[c] = Cardinality(SalesWith(c)) /\ IsFiniteSet(SalesWith(c))
      BY FS_Subset DEF Counted, SalesWith
    <3>2. CASE intent[i].code = c
      <4>1. SalesWith(c)' = SalesWith(c) \cup {i} /\ i \notin SalesWith(c)
        BY <2>2, <2>3, <3>2 DEF SalesWith, SameSale
      <4>2. Cardinality(SalesWith(c)') = Cardinality(SalesWith(c)) + 1
        BY <3>1, <4>1, FS_AddElement
      <4>3. uses'[c] = delivery[w].uses + 1
        BY <1>0, <1>1, <2>1, <3>2, CheckoutAssumption DEF DeliverActivate, UsesAfter, TypeOK
      <4>4. delivery[w].uses = uses[c]
        BY <1>1, <2>1, <3>2 DEF Counted, DeliverActivate
      <4> QED BY <3>1, <4>2, <4>3, <4>4
    <3>3. CASE intent[i].code # c
      <4>1. SalesWith(c)' = SalesWith(c)
        BY <2>3, <3>3 DEF SalesWith, SameSale
      <4>2. uses'[c] = uses[c]
        BY <1>0, <1>1, <2>1, <3>3 DEF DeliverActivate, TypeOK
      <4> QED BY <3>1, <4>1, <4>2
    <3> QED BY <3>2, <3>3
  <2>5. \A v \in Workers : delivery'[v].verdict = "none"
    BY <1>0, <1>1, DeliveryEnds DEF OneWorker
  <2> QED BY <2>4, <2>5 DEF Counted
<1>2. CASE \A w \in Workers : ~DeliverActivate(w)
  <2>1. uses' = uses
    BY <1>2, OthersKeepUses
  <2>2. \A j \in Intents : /\ intent'[j].status = "completed" <=> intent[j].status = "completed"
                           /\ intent[j].status = "completed" => intent'[j].code = intent[j].code
    BY <1>0, <1>2, SalesStay DEF SameSale
  <2>3. \A c \in Codes : SalesWith(c)' = SalesWith(c)
    BY <2>2 DEF SalesWith
  <2>4. ASSUME NEW v \in Workers, NEW c \in Codes, delivery'[v].verdict = "activate",
               intent'[delivery'[v].intent].code = c
        PROVE  delivery'[v].uses = uses'[c]
    <3>1. CASE delivery'[v] = delivery[v]
      <4>1. PICK i \in Intents : i = delivery[v].intent /\ stripe[i].session = "complete"
        BY <1>0, <2>4, <3>1 DEF Named, AfterPayment
      <4>2. intent[i].code = c
        BY <1>0, <2>4, <3>1, <4>1, CompleteStays DEF SameSale
      <4> QED BY <2>1, <2>4, <3>1, <4>1, <4>2 DEF Counted
    <3>2. ASSUME NEW i \in Intents, DeliverBegin(v, i) PROVE delivery'[v].uses = uses'[c]
      BY <1>0, <2>1, <2>4, <3>2, DeliveryBegins, CheckoutAssumption
    <3> QED BY <1>0, <2>4, <3>1, <3>2, DeliveriesKept
  <2> QED BY <2>1, <2>3, <2>4 DEF Counted
<1> QED BY <1>1, <1>2

(* Nothing new is taken, and no sale is unmade.                            *)
LEMMA LimitFrame ==
  ASSUME Quiet, IsFiniteSet(Intents), SaleInv, Fresh, Limit, [Next]_vars, NEW c \in Codes,
         SoldInTime(c)', SoldInTime(c) => Taken(c)' \subseteq Taken(c)
  PROVE  Cardinality(Taken(c))' <= MaxUses
<1>0. /\ TypeOK /\ now \in Nat /\ now' \in Nat /\ now <= now' /\ MaxUses \in Nat
  BY NowGrows, CheckoutAssumption DEF SaleInv, LockInv, HeldInv, MoneyInv
<1>1. SoldInTime(c)
  <2> SUFFICES ASSUME NEW i \in SalesWith(c) PROVE intent[i].until >= now
    BY DEF SoldInTime
  <2>1. i \in Intents /\ SameSale(i) /\ i \in SalesWith(c)'
    BY SalesStay DEF SalesWith, SameSale
  <2>2. intent'[i].until >= now' /\ intent[i].until \in Nat
    BY <1>0, <2>1 DEF SoldInTime, TypeOK, IntentRow
  <2> QED BY <1>0, <2>1, <2>2 DEF SameSale
<1>2. IsFiniteSet(Taken(c))
  BY FS_Subset DEF Taken
<1>3. Cardinality(Taken(c)) <= MaxUses /\ Cardinality(Taken(c)) \in Nat
  BY <1>1, <1>2, FS_CardinalityType DEF Limit
<1>4. /\ Cardinality(Taken(c)') <= Cardinality(Taken(c))
      /\ Cardinality(Taken(c)') \in Nat
  BY <1>1, <1>2, FS_Subset, FS_CardinalityType
<1> QED BY <1>0, <1>3, <1>4

LEMMA LimitBegin ==
  ASSUME Quiet, IsFiniteSet(Intents), SaleInv, Fresh, Counted, Limit, [Next]_vars,
         NEW i \in Intents, NEW s \in Slots, NEW b \in Buyers, NEW d \in Codes \cup {None},
         OpenBegin(i, s, b, d), NEW c \in Codes, SoldInTime(c)'
  PROVE  Cardinality(Taken(c))' <= MaxUses
<1>0. /\ TypeOK /\ UNCHANGED <<intent, now, uses>> /\ MaxUses \in Nat /\ uses[c] \in Nat
      /\ request[i] = "idle" /\ request'[i] = "opening" /\ draft'[i].code = d
      /\ \A k \in Intents \ {i} : request'[k] = request[k] /\ draft'[k] = draft[k]
  <2>1. TypeOK /\ MaxUses \in Nat /\ uses[c] \in Nat
    BY CheckoutAssumption DEF SaleInv, LockInv, HeldInv, MoneyInv, TypeOK
  <2> QED BY <2>1, BeginIs DEF Quiet
<1>1. \A j \in Intents : InTime(j, c)' <=> InTime(j, c)
  BY <1>0 DEF InTime
<1>2. CASE d # c
  <2>1. Taken(c)' \subseteq Taken(c)
    BY <1>0, <1>1, <1>2 DEF Taken
  <2> QED BY <2>1, LimitFrame
<1>3. CASE d = c
  <2>1. SoldInTime(c)
    BY <1>0 DEF SoldInTime, SalesWith
  <2>2. UsableCode(c, s, b, {j \in Intents : Open(j)} \ Lapsed) /\ ~CodeLocked(c)
    BY <1>0, <1>3, SelectedIs, CheckoutAssumption DEF OpenBegin, Quiet
  <2>3. {j \in {j \in Intents : Open(j)} \ Lapsed : intent[j].code = c} = Booked(c)
    <3>1. \A j \in Intents : intent[j].until \in Nat /\ now \in Nat
      BY <1>0, CheckoutAssumption DEF TypeOK, IntentRow
    <3> QED BY <3>1 DEF Booked, HoldLive, Lapsed
  <2>4. uses[c] + Cardinality(Booked(c)) < MaxUses
    BY <2>2, <2>3 DEF UsableCode
  <2>5. Taken(c)' \subseteq (Booked(c) \cup SalesWith(c)) \cup {i}
    BY <1>0, <1>1, <2>2 DEF Taken, InTime, Booked, SalesWith, HoldLive, Open, CodeLocked
  <2> DEFINE U == Booked(c) \cup SalesWith(c)
  <2>6. IsFiniteSet(U) /\ Cardinality(U) + 1 <= MaxUses /\ Cardinality(U) \in Nat
    <3>1. IsFiniteSet(U) /\ Cardinality(U) \in Nat
      BY FS_Subset, FS_CardinalityType DEF Booked, SalesWith
    <3>2. uses[c] = Cardinality(SalesWith(c))
      BY DEF Counted
    <3> QED BY <1>0, <2>1, <2>4, <3>1, <3>2, BookedAndSold
  <2>7. IsFiniteSet(U \cup {i}) /\ Cardinality(U \cup {i}) <= Cardinality(U) + 1
        /\ Cardinality(U \cup {i}) \in Nat
    <3> HIDE DEF U
    <3>1. /\ IsFiniteSet(U \cup {i})
          /\ Cardinality(U \cup {i}) = IF i \in U THEN Cardinality(U) ELSE Cardinality(U) + 1
      BY <2>6, FS_AddElement
    <3> QED BY <2>6, <3>1
  <2>8. Cardinality(Taken(c)') <= Cardinality(U \cup {i}) /\ Cardinality(Taken(c)') \in Nat
    BY <2>5, <2>7, FS_Subset, FS_CardinalityType
  <2> QED BY <1>0, <2>6, <2>7, <2>8
<1> QED BY <1>2, <1>3

LEMMA LimitKept ==
  ASSUME Quiet, OneWorker, IsFiniteSet(Intents), CodeInv, [Next]_vars PROVE Limit'
<1>0. /\ TypeOK /\ Named /\ Fresh /\ SaleInv /\ MoneyInv /\ Limit /\ AfterPayment /\ OnlyLapsed
      /\ now \in Nat /\ now' \in Nat /\ now <= now'
  BY UndecidedIsFresh, NowGrows DEF CodeInv, SaleInv, LockInv, HeldInv, MoneyInv
<1> SUFFICES ASSUME NEW c \in Codes, SoldInTime(c)' PROVE Cardinality(Taken(c))' <= MaxUses
  BY DEF Limit
<1>1. ASSUME NEW i \in Intents, NEW s \in Slots, NEW b \in Buyers, NEW d \in Codes \cup {None},
             OpenBegin(i, s, b, d)
      PROVE  Cardinality(Taken(c))' <= MaxUses
  BY <1>0, <1>1, LimitBegin DEF CodeInv
<1>2. ASSUME NEW i \in Intents, OpenCommit(i) PROVE Cardinality(Taken(c))' <= MaxUses
  <2>1. /\ request[i] = "opening" /\ request'[i] = "minting" /\ now' = now
        /\ \A k \in Intents \ {i} : request'[k] = request[k] /\ draft'[k] = draft[k]
        /\ intent'[i].code = draft[i].code
        /\ \A j \in Intents \ {i} :
             SameSale(j) /\ (intent'[j].status \in {"open", "completed"}
                               => intent'[j].status = intent[j].status)
    <3>1. /\ request[i] = "opening" /\ request'[i] = "minting" /\ now' = now
          /\ \A k \in Intents \ {i} : request'[k] = request[k] /\ draft'[k] = draft[k]
      BY <1>0, <1>2 DEF OpenCommit, TypeOK
    <3> QED BY <1>0, <1>2, <3>1, OpenCommitWrites
  <2>2. \A j \in Intents \ {i} : InTime(j, c)' => InTime(j, c)
    BY <2>1 DEF InTime, SameSale
  <2>3. Taken(c)' \subseteq Taken(c)
    BY <2>1, <2>2 DEF Taken, InTime
  <2> QED BY <1>0, <2>3, LimitFrame
<1>3. CASE /\ \A i \in Intents : ~OpenCommit(i)
           /\ \A i \in Intents, s \in Slots, b \in Buyers, d \in Codes \cup {None} :
                ~OpenBegin(i, s, b, d)
  <2>1. \A j \in Intents : SameSale(j) /\ StatusStep(j)
    BY <1>0, <1>3, RowsKept
  <2>2. ASSUME NEW j \in Intents, InTime(j, c)' PROVE InTime(j, c)
    <3>1. intent[j].code = c /\ intent[j].until >= now
      BY <1>0, <2>1, <2>2 DEF InTime, SameSale, TypeOK, IntentRow
    <3>2. CASE intent'[j].status = intent[j].status
      BY <2>2, <3>1, <3>2 DEF InTime
    <3>3. CASE intent'[j].status # intent[j].status
      <4>1. intent'[j].status = "completed"
        BY <2>1, <2>2, <3>3 DEF InTime, StatusStep
      <4>2. PICK w \in Workers : DeliverActivate(w) /\ delivery[w].intent = j
        BY <1>0, <3>3, <4>1, SalesStay
      <4>3. stripe[j].session = "complete" /\ ~Settled(j)
        BY <1>0, <4>2 DEF AfterPayment, CodeInv, Undecided, DeliverActivate
      <4>4. Open(j) \/ intent[j].until < now
        BY <4>3 DEF CodeInv, Late
      <4>5. Open(j)
        BY <1>0, <3>1, <4>4 DEF TypeOK, IntentRow
      <4> QED BY <3>1, <4>5 DEF InTime, Open
    <3> QED BY <3>2, <3>3
  <2>3. Taken(c)' \subseteq Taken(c)
    BY <1>0, <1>3, <2>2, RequestsKept DEF Taken
  <2> QED BY <1>0, <2>3, LimitFrame
<1> QED BY <1>1, <1>2, <1>3

LEMMA InitCodes == ASSUME Quiet, OneWorker, Init PROVE CodeInv
<1>1. SaleInv /\ Undecided
  BY OneWorkerKept
<1>2. \A c \in Codes : SalesWith(c) = {} /\ Taken(c) = {}
  BY CheckoutAssumption DEF Init, SalesWith, Taken, InTime, NoIntent
<1>3. Cardinality({}) = 0 /\ MaxUses \in Nat
  BY FS_EmptySet, CheckoutAssumption
<1>4. Counted
  BY <1>2, <1>3 DEF Init, Counted, NoDelivery
<1>5. Limit
  <2>1. \A c \in Codes : Cardinality(Taken(c)) = 0
    BY <1>2, <1>3
  <2> QED BY <1>3, <2>1 DEF Limit
<1>6. BackClosed /\ Late
  BY DEF Init, BackClosed, Late, NoStripe
<1> QED BY <1>1, <1>4, <1>5, <1>6 DEF CodeInv

(* Uses and live holds exceed a code's limit only after a sale with it was *)
(* activated from a hold that had lapsed, or lapsed since: deliveries one  *)
(* at a time, any staff at the sponsors, any failures and code changes.    *)
THEOREM CodesKeepLimit ==
  ASSUME Quiet, OneWorker, IsFiniteSet(Intents) PROVE Spec => []LimitHeldUntilLapse
<1>1. Init => CodeInv
  BY InitCodes
<1>2. CodeInv /\ [Next]_vars => CodeInv'
  <2> SUFFICES ASSUME CodeInv, [Next]_vars PROVE CodeInv'
    OBVIOUS
  <2>1. (SaleInv /\ Undecided)' /\ Fresh /\ MoneyInv
    BY OneWorkerKept, UndecidedIsFresh DEF CodeInv, SaleInv, LockInv, HeldInv
  <2> QED BY <2>1, BackKept, LateKept, CountedKept, LimitKept DEF CodeInv
<1>3. CodeInv => LimitHeldUntilLapse
  <2> SUFFICES ASSUME CodeInv, NEW c \in Codes,
                      \A i \in SalesWith(c) : ~(intent[i].until < now)
               PROVE  ~(uses[c] + Cardinality(Booked(c)) > MaxUses)
    BY DEF LimitHeldUntilLapse, Booked
  <2>1. TypeOK /\ now \in Nat /\ \A i \in Intents : intent[i].until \in Nat
    BY CheckoutAssumption DEF CodeInv, SaleInv, LockInv, HeldInv, MoneyInv, TypeOK, IntentRow
  <2>2. SoldInTime(c)
    BY <2>1 DEF SoldInTime, SalesWith
  <2>3. Cardinality(Taken(c)) <= MaxUses /\ uses[c] = Cardinality(SalesWith(c))
    BY <2>2 DEF CodeInv, Limit, Counted
  <2>4. Cardinality(Taken(c)) \in Nat /\ MaxUses \in Nat
    BY <2>1, <2>2, BookedAndSold, FS_CardinalityType, CheckoutAssumption
  <2>5. Cardinality(Booked(c) \cup SalesWith(c)) \in Nat
    BY FS_Subset, FS_CardinalityType DEF Booked, SalesWith
  <2> QED BY <2>1, <2>2, <2>3, <2>4, <2>5, BookedAndSold
<1> QED BY <1>1, <1>2, <1>3, PTL DEF Spec
=============================================================================
