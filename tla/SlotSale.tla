------------------------------ MODULE SlotSale ------------------------------
(***************************************************************************)
(* What the sale of exclusive placements promises, without holds, webhooks *)
(* or follow-ups: a slot is offered to one buyer at a time, it is kept by  *)
(* at most one of those who paid, and everyone else who paid is paid back. *)
(***************************************************************************)
EXTENDS Naturals, FiniteSets

CONSTANTS Sales, Slots, None

VARIABLES phase, place

vars == <<phase, place>>

Phases == {"new", "offered", "withdrawn", "paid", "kept", "returned"}

TypeOK == /\ phase \in [Sales -> Phases]
          /\ place \in [Sales -> Slots \cup {None}]

Init == /\ phase = [i \in Sales |-> "new"]
        /\ place = [i \in Sales |-> None]

At(p, s) == {i \in Sales : phase[i] = p /\ place[i] = s}

(* The buyer is sent to pay for s.                                         *)
Offer(i, s) ==
  /\ phase[i] = "new"
  /\ At("offered", s) = {}
  /\ phase' = [phase EXCEPT ![i] = "offered"]
  /\ place' = [place EXCEPT ![i] = s]

(* Offers end unpaid: time runs out for several of them at once.           *)
Withdraw(S) ==
  /\ \A i \in S : phase[i] = "offered"
  /\ phase' = [i \in Sales |-> IF i \in S THEN "withdrawn" ELSE phase[i]]
  /\ UNCHANGED place

Pay(i) ==
  /\ phase[i] = "offered"
  /\ phase' = [phase EXCEPT ![i] = "paid"]
  /\ UNCHANGED place

(* The placement is theirs.                                                *)
Keep(i) ==
  /\ phase[i] = "paid"
  /\ At("kept", place[i]) = {}
  /\ phase' = [phase EXCEPT ![i] = "kept"]
  /\ UNCHANGED place

(* The placement is not theirs, and nothing of their money is left here.   *)
Return(i) ==
  /\ phase[i] = "paid"
  /\ phase' = [phase EXCEPT ![i] = "returned"]
  /\ UNCHANGED place

Next ==
  \/ \E S \in SUBSET Sales : S # {} /\ Withdraw(S)
  \/ \E i \in Sales : \/ \E s \in Slots : Offer(i, s)
                      \/ Pay(i) \/ Keep(i) \/ Return(i)

Spec == Init /\ [][Next]_vars
=============================================================================
