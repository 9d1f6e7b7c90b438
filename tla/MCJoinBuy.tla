----------------------------- MODULE MCJoinBuy -----------------------------
(* Two Gold slots and a Platinum one, two codes; the page is opened by a    *)
(* rep's link or without params.                                            *)
EXTENDS JoinBuy

MCTierOf == [s \in Slots |-> IF s = "p1" THEN "platinum" ELSE "gold"]
MCPoints == [c \in Codes |-> IF c = "ten" THEN 10 ELSE 5]
MCLinks  == {[slot |-> None, code |-> None], [slot |-> "g1", code |-> "ten"]}
=============================================================================
