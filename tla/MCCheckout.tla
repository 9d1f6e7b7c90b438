----------------------------- MODULE MCCheckout -----------------------------
(* Small instances of Checkout.  Symmetry is used by the runs without      *)
(* temporal properties only.                                               *)
EXTENDS Checkout, TLC

(* Codes carry no lock; the runs that need one bind it to a company.       *)
MCAllowed == Codes \X Slots \X Buyers
MCUnbound == [c \in Codes |-> None]
MCBound == [c \in Codes |-> CHOOSE k \in Companies : TRUE]

(* Two corners of the instance of checkout_admin: rows of companies on one *)
(* slot and no codes, or both slots and a code and no such rows.           *)
Unlisted(S) == \A k \in Companies, s \in S : sponsor[<<k, s>>].status = "absent"
Corner ==
  \/ Unlisted(Slots)
  \/ /\ \A i \in Intents : intent[i].code = None /\ draft[i].code = None
     /\ \E s \in Slots : /\ Unlisted(Slots \ {s})
                         /\ \A i \in Intents : {intent[i].slot, draft[i].slot} \subseteq {s, None}

Symmetry == Permutations(Intents) \cup Permutations(Buyers) \cup Permutations(Slots)
            \cup Permutations(Workers) \cup Permutations(Resolvers)
=============================================================================
