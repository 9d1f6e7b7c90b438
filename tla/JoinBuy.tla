------------------------------ MODULE JoinBuy ------------------------------
(***************************************************************************)
(* One browser tab that buys an exclusive slot on /join: the page          *)
(* (join/index.tsx), the slot picker with its rep-code field               *)
(* (ExclusiveBuy.tsx), the confirm and receipt panels                      *)
(* (ExclusiveCheckoutModal.tsx), and what sessionStorage keeps of the      *)
(* checkout across the trip to Stripe (exclusive.ts).                      *)
(*                                                                         *)
(* The server is abstracted to what the tab can tell of it: who holds or   *)
(* owns a slot, and the one open hold it allows a buyer.  Checkout.tla     *)
(* models the server itself.  A price is the points of the code behind it. *)
(***************************************************************************)
EXTENDS Naturals, FiniteSets

CONSTANTS Tiers, Slots, TierOf,   \* TierOf[s]: the tier that slot s is sold in
          Links,                  \* the links that lead to the page
          Codes, Points,          \* Points[c]: what code c is worth
          MaxMints,               \* bound: sessions minted for the tab
          MaxPosts,               \* bound: creates in flight at once
          MaxReads,               \* bound: list or quote requests in flight at once
          MaxMoves,               \* bound: what other buyers and time do
          None

Arrivals == [slot : Slots \cup {None}, code : Codes \cup {None}]

ASSUME JoinAssumption ==
  /\ TierOf \in [Slots -> Tiers]
  /\ Points \in [Codes -> Nat \ {0}]
  /\ Links \subseteq Arrivals
  /\ MaxMints \in Nat /\ MaxMoves \in Nat

VARIABLES
  hold,     \* server: this buyer's open hold
  others,   \* server: slots other buyers hold
  sold,     \* server: occupied slots
  mints,    \* server: sessions minted so far, which number them
  freed,    \* server: holds of this buyer released so far
  moves,    \* what other buyers and time did so far
  at,       \* the document the tab shows
  session,  \* the Stripe session it is on
  ahead,    \* the session browser Forward leads to
  stash,    \* sessionStorage cc.exclusiveCheckout
  arrival,  \* the page's params: the slot and the code of the link
  tier,     \* JoinPage tier
  buy,      \* ExclusiveBuy's state, None while no exclusive tier is chosen
  modal,    \* the confirm panel's state, None while it is not mounted
  lists, quotes, posts, free,   \* requests in flight: slots, quotes, creates, release
  mustSee,  \* history: releases answered before the page's last refresh
  receipt,  \* the receipt panel: what it greets the buyer with
  paid      \* history: the session the receipt is for

server   == <<hold, others, sold, mints, freed, moves>>
tab      == <<at, session, ahead, stash, receipt, paid>>
requests == <<lists, quotes, posts, free>>
page     == <<arrival, tier, buy, modal, mustSee>>
vars     == <<server, tab, requests, page>>

Sessions == 1 .. MaxMints
Prices   == {0} \cup {Points[c] : c \in Codes}
States   == {"open", "held", "taken"}
Stash    == [token : Sessions, slot : Slots]
Hold     == [id : Sessions, slot : Slots, price : Prices, shown : Prices]
List     == [live : BOOLEAN, rows : [Slots -> States] \cup {None}, asOf : 0 .. MaxMints]
Quoted   == [live : BOOLEAN, code : Codes, slot : Slots \cup {None}]
Quote    == [kind : {"idle", "checking", "ok", "bad"}, price : Prices, gone : BOOLEAN]
Buying   == [load : {"loading", "ok", "error"}, rows : [Slots -> States] \cup {None},
             asOf : 0 .. MaxMints, wanted : Slots \cup {None}, slot : Slots \cup {None},
             code : Codes \cup {None}, quote : Quote, timer : BOOLEAN, confirming : BOOLEAN]
Modal    == [busy : BOOLEAN, lost : BOOLEAN]
Post     == [nth : 1 .. MaxPosts, slot : Slots, code : Codes \cup {None}, shown : Prices,
             mounted : BOOLEAN, token : Sessions \cup {None},  \* to release, then minted
             stage : {"freeing", "freed", "sent", "minted", "lost", "limit", "failed"}]

ASSUME NoneAssumption == None \notin Buying \cup Modal

NoParams == [slot |-> None, code |-> None]
Idle     == [kind |-> "idle", price |-> 0, gone |-> FALSE]
Checking == [Idle EXCEPT !.kind = "checking"]
Worth(c) == IF c = None THEN 0 ELSE Points[c]

-----------------------------------------------------------------------------
(* Rendering.  The page's effects run on every commit: they select the slot *)
(* a link asked for once it is open, drop a selection that is open no more, *)
(* and ask for a quote of the code again when the code or slot changed.     *)

SlotIs(b, s, st) == s # None /\ b.rows # None /\ b.rows[s] = st

WantedSelected(b) ==
  IF b.wanted = None \/ b.rows = None \/ SlotIs(b, b.wanted, "held") THEN b
  ELSE [b EXCEPT !.wanted = None, !.slot = IF SlotIs(b, b.wanted, "open") THEN b.wanted ELSE @]

SelectionDropped(b) ==
  IF b.load = "ok" /\ ~SlotIs(b, b.slot, "open") THEN [b EXCEPT !.slot = None] ELSE b

Requoted(b, from) ==
  IF <<b.slot, b.code>> = from THEN b
  ELSE [b EXCEPT !.quote = IF b.code = None THEN Idle ELSE Checking, !.timer = b.code # None]

Settled(b, from) == Requoted(SelectionDropped(WantedSelected(b)), from)

Asked(b) == <<b.slot, b.code>>

(* The confirm panel is mounted while the list is shown and a slot is       *)
(* selected; it starts over whenever it is mounted again.                   *)
Panel(b, m) ==
  IF ~(b.confirming /\ b.load = "ok" /\ b.slot # None) THEN None
  ELSE IF m = None THEN [busy |-> FALSE, lost |-> FALSE] ELSE m

Unmounted(ps) == {[p EXCEPT !.mounted = FALSE] : p \in ps}

(* The page re-renders with picker state b and panel state m. *)
Show(b, m) ==
  /\ buy' = Settled(b, Asked(buy))
  /\ modal' = Panel(buy', m)
  /\ quotes' = IF Asked(buy') = Asked(buy) THEN quotes
               ELSE {[q EXCEPT !.live = FALSE] : q \in quotes}

Superseded(ls) == {[l EXCEPT !.live = FALSE] : l \in ls}
NewList == [live |-> TRUE, rows |-> None, asOf |-> 0]

(* ExclusiveBuy is keyed by the tier: it mounts from the link's params.     *)
Mounted(a) ==
  [load |-> "loading", rows |-> None, asOf |-> 0, wanted |-> a.slot, slot |-> None,
   code |-> a.code, quote |-> IF a.code = None THEN Idle ELSE Checking,
   timer |-> a.code # None, confirming |-> FALSE]

OpenTier(t, a) ==
  /\ tier' = t
  /\ modal' = None
  /\ buy' = IF t = None THEN None ELSE Mounted(a)
  /\ lists' = IF t = None THEN {} ELSE {NewList}

-----------------------------------------------------------------------------
(* Documents.                                                              *)

Init ==
  /\ hold = None /\ others = {} /\ sold = {} /\ mints = 0 /\ freed = 0 /\ moves = 0
  /\ at = "join" /\ session = None /\ ahead = None /\ stash = None
  /\ arrival \in Links
  /\ tier = IF arrival.slot = None THEN None ELSE TierOf[arrival.slot]
  /\ buy = IF tier = None THEN None ELSE Mounted(arrival)
  /\ modal = None
  /\ lists = IF tier = None THEN {} ELSE {NewList}
  /\ quotes = {} /\ posts = {} /\ free = None /\ mustSee = 0 /\ receipt = None /\ paid = None

(* What the tab had in flight is gone with its document. *)
Dropped == quotes' = {} /\ posts' = {}

(* A document /join without params: a typed address, or browser Back.      *)
FreshPage ==
  /\ Dropped
  /\ arrival' = NoParams
  /\ OpenTier(None, NoParams)
  /\ free' = None
  /\ mustSee' = 0

(* Stripe's cancel link, /join?released=1: the stash is read once, and the  *)
(* hold it names is released; the list is read again when that is answered. *)
Cancel ==
  /\ at = "stripe"
  /\ at' = "join" /\ session' = None /\ ahead' = None
  /\ stash' = None
  /\ Dropped
  /\ arrival' = IF stash = None THEN NoParams ELSE [slot |-> stash.slot, code |-> None]
  /\ OpenTier(IF stash = None THEN None ELSE TierOf[stash.slot], arrival')
  /\ free' = IF stash = None THEN None ELSE [token |-> stash.token, done |-> FALSE]
  /\ mustSee' = 0
  /\ UNCHANGED <<server, receipt, paid>>

Back ==
  /\ at = "stripe"
  /\ at' = "join" /\ session' = None /\ ahead' = session
  /\ FreshPage
  /\ UNCHANGED <<server, stash, receipt, paid>>

Forward ==
  /\ at = "join" /\ ahead # None
  /\ at' = "stripe" /\ session' = ahead /\ ahead' = None
  /\ FreshPage
  /\ UNCHANGED <<server, stash, receipt, paid>>

Reload ==
  /\ at = "join"
  /\ FreshPage
  /\ UNCHANGED <<server, tab>>

(* The payment, and the receipt it returns to.  A session is payable while  *)
(* its hold is open.                                                        *)
Pay ==
  /\ at = "stripe" /\ hold # None /\ hold.id = session
  /\ sold' = sold \cup {hold.slot}
  /\ hold' = None
  /\ at' = "receipt" /\ session' = None /\ ahead' = None
  /\ paid' = session
  /\ receipt' = stash
  /\ stash' = None
  /\ FreshPage
  /\ UNCHANGED <<others, mints, freed, moves>>

DismissReceipt ==
  /\ at = "receipt"
  /\ at' = "join" /\ receipt' = None /\ paid' = None
  /\ UNCHANGED <<server, session, ahead, stash, requests, page>>

-----------------------------------------------------------------------------
(* The picker.                                                             *)

Picking == at = "join" /\ modal = None

PickTier(t) ==
  /\ Picking /\ t # tier
  /\ OpenTier(t, arrival)
  /\ quotes' = {}
  /\ posts' = Unmounted(posts)
  /\ UNCHANGED <<server, tab, arrival, free, mustSee>>

StateOf(s) ==
  IF s \in sold THEN "taken"
  ELSE IF s \in others \/ (hold # None /\ hold.slot = s) THEN "held" ELSE "open"

ServeList(l) ==
  /\ at = "join" /\ l.rows = None
  /\ lists' = (lists \ {l}) \cup {[l EXCEPT !.rows = [s \in Slots |-> StateOf(s)],
                                            !.asOf = freed]}
  /\ UNCHANGED <<server, tab, quotes, posts, free, page>>

ListReturns_Uncancelled(l) ==
  /\ at = "join" /\ l.rows # None
  /\ lists' = lists \ {l}
  /\ Show([buy EXCEPT !.load = "ok", !.rows = l.rows, !.asOf = l.asOf], modal)
  /\ posts' = IF modal' = None THEN Unmounted(posts) ELSE posts
  /\ UNCHANGED <<server, tab, arrival, tier, mustSee, free>>

ListReturns(l) ==
  /\ at = "join" /\ l.rows # None
  /\ lists' = lists \ {l}
  /\ IF l.live
     THEN Show([buy EXCEPT !.load = "ok", !.rows = l.rows, !.asOf = l.asOf], modal)
     ELSE UNCHANGED <<buy, modal, quotes>>
  /\ posts' = IF modal' = None THEN Unmounted(posts) ELSE posts
  /\ UNCHANGED <<server, tab, arrival, tier, mustSee, free>>

ListFails(l) ==
  /\ at = "join"
  /\ lists' = lists \ {l}
  /\ IF l.live THEN Show([buy EXCEPT !.load = "error"], modal)
     ELSE UNCHANGED <<buy, modal, quotes>>
  /\ posts' = IF modal' = None THEN Unmounted(posts) ELSE posts
  /\ UNCHANGED <<server, tab, arrival, tier, mustSee, free>>

(* The list is asked for again, which also unmounts an open panel. *)
ReadAgain(b) ==
  /\ Cardinality(lists) < MaxReads
  /\ lists' = Superseded(lists) \cup {NewList}
  /\ Show([b EXCEPT !.load = "loading"], modal)
  /\ posts' = Unmounted(posts)

Retry ==
  /\ Picking /\ buy # None /\ buy.load = "error"
  /\ ReadAgain(buy)
  /\ UNCHANGED <<server, tab, arrival, tier, mustSee, free>>

ClickSlot(s) ==
  /\ Picking /\ buy # None /\ buy.load = "ok" /\ TierOf[s] = tier
  /\ SlotIs(buy, s, "open")
  /\ Show([buy EXCEPT !.wanted = None, !.slot = IF @ = s THEN None ELSE s], modal)
  /\ UNCHANGED <<server, tab, arrival, tier, mustSee, lists, posts, free>>

TypeCode(c) ==
  /\ Picking /\ buy # None /\ buy.load = "ok" /\ c # buy.code
  /\ Show([buy EXCEPT !.code = c], modal)
  /\ UNCHANGED <<server, tab, arrival, tier, mustSee, lists, posts, free>>

-----------------------------------------------------------------------------
(* The code field: one quote, a while after the last change.               *)

AskQuote ==
  /\ at = "join" /\ buy # None /\ buy.timer
  /\ Cardinality(quotes) < MaxReads
  /\ buy' = [buy EXCEPT !.timer = FALSE]
  /\ quotes' = quotes \cup {[live |-> TRUE, code |-> buy.code, slot |-> buy.slot]}
  /\ UNCHANGED <<server, tab, arrival, tier, modal, mustSee, lists, posts, free>>

QuoteFor(q) ==
  [kind |-> "ok", price |-> Worth(q.code),
   gone |-> q.slot # None /\ StateOf(q.slot) # "open"]

QuoteReturns_Uncancelled(q) ==
  /\ at = "join"
  /\ quotes' = quotes \ {q}
  /\ \E r \in {QuoteFor(q), [Idle EXCEPT !.kind = "bad"]} : buy' = [buy EXCEPT !.quote = r]
  /\ UNCHANGED <<server, tab, arrival, tier, modal, mustSee, lists, posts, free>>

QuoteReturns(q) ==
  /\ at = "join"
  /\ quotes' = quotes \ {q}
  /\ \E r \in {QuoteFor(q), [Idle EXCEPT !.kind = "bad"]} :
       buy' = IF q.live THEN [buy EXCEPT !.quote = r] ELSE buy
  /\ UNCHANGED <<server, tab, arrival, tier, modal, mustSee, lists, posts, free>>

Buy ==
  /\ Picking /\ buy # None /\ buy.load = "ok" /\ buy.slot # None
  /\ ~buy.quote.gone /\ buy.quote.kind # "checking"
  /\ Show([buy EXCEPT !.confirming = TRUE], modal)
  /\ UNCHANGED <<server, tab, arrival, tier, mustSee, lists, posts, free>>

-----------------------------------------------------------------------------
(* The confirm panel.                                                      *)

Accepted == buy.quote.kind = "ok"

NewPost(n, stage) ==
  [nth |-> n, slot |-> buy.slot, code |-> IF Accepted THEN buy.code ELSE None,
   shown |-> buy.quote.price, mounted |-> TRUE,
   token |-> IF stash = None THEN None ELSE stash.token, stage |-> stage]

(* An earlier checkout of the tab is released first, when the stash still   *)
(* names it.                                                                *)
Submit ==
  /\ at = "join" /\ modal # None /\ ~modal.busy
  /\ modal' = [modal EXCEPT !.busy = TRUE]
  /\ \E n \in 1 .. MaxPosts :
       /\ \A p \in posts : p.nth # n
       /\ posts' = posts \cup {NewPost(n, IF stash = None THEN "sent" ELSE "freeing")}
  /\ UNCHANGED <<server, tab, arrival, tier, buy, mustSee, lists, quotes, free>>

(* POST /checkout/exclusive/release: an unknown token is a quiet no, and so *)
(* is a call that fails.                                                    *)
Release(token) ==
  \/ /\ hold # None /\ hold.id = token
     /\ hold' = None /\ freed' = freed + 1
  \/ UNCHANGED <<hold, freed>>

ServeRelease(p) ==
  /\ at = "join" /\ p.stage = "freeing"
  /\ Release(p.token)
  /\ posts' = (posts \ {p}) \cup {[p EXCEPT !.stage = "freed"]}
  /\ UNCHANGED <<others, sold, mints, moves, tab, lists, quotes, free, page>>

GoOn_KeepsStash(p) ==
  /\ at = "join" /\ p.stage = "freed"
  /\ posts' = (posts \ {p}) \cup {[p EXCEPT !.stage = "sent"]}
  /\ UNCHANGED <<server, tab, lists, quotes, free, page>>

GoOn(p) ==
  /\ at = "join" /\ p.stage = "freed"
  /\ stash' = None
  /\ posts' = (posts \ {p}) \cup {[p EXCEPT !.stage = "sent"]}
  /\ UNCHANGED <<server, at, session, ahead, receipt, paid, lists, quotes, free, page>>

(* POST /checkout/exclusive: the hold is committed, then the session minted. *)
Refusal(p) ==
  IF p.slot \in sold THEN "lost"
  ELSE IF hold # None THEN "limit"
  ELSE IF p.slot \in others THEN "lost" ELSE None

ServePost(p) ==
  /\ at = "join" /\ p.stage = "sent"
  /\ \/ /\ Refusal(p) # None
        /\ posts' = (posts \ {p}) \cup {[p EXCEPT !.stage = Refusal(p)]}
        /\ UNCHANGED <<hold, mints>>
     \/ /\ Refusal(p) = None /\ mints < MaxMints
        /\ mints' = mints + 1
        /\ hold' = [id |-> mints + 1, slot |-> p.slot, price |-> Worth(p.code),
                    shown |-> p.shown]
        /\ \E answer \in {"minted", "failed"} :
             posts' = (posts \ {p}) \cup {[p EXCEPT !.stage = answer, !.token = mints + 1]}
     \/ /\ Refusal(p) = None
        /\ posts' = (posts \ {p}) \cup {[p EXCEPT !.stage = "failed"]}
        /\ UNCHANGED <<hold, mints>>
  /\ UNCHANGED <<others, sold, freed, moves, tab, lists, quotes, free, page>>

(* The stash is written once Stripe handed back a URL, and storage allowing. *)
ToStripe(p) ==
  /\ at = "join" /\ p.stage = "minted"
  /\ \/ stash' = [token |-> p.token, slot |-> p.slot]
     \/ UNCHANGED stash
  /\ at' = "stripe" /\ session' = p.token /\ ahead' = None
  /\ FreshPage
  /\ UNCHANGED <<server, receipt, paid>>

PostFails_StaysBusy(p) ==
  /\ at = "join" /\ p.stage \in {"lost", "limit", "failed"}
  /\ posts' = posts \ {p}
  /\ modal' = IF ~p.mounted THEN modal ELSE [modal EXCEPT !.lost = @ \/ p.stage = "lost"]
  /\ UNCHANGED <<server, tab, arrival, tier, buy, mustSee, lists, quotes, free>>

PostFails(p) ==
  /\ at = "join" /\ p.stage \in {"lost", "limit", "failed"}
  /\ posts' = posts \ {p}
  /\ modal' = IF ~p.mounted THEN modal
              ELSE [busy |-> FALSE, lost |-> modal.lost \/ p.stage = "lost"]
  /\ UNCHANGED <<server, tab, arrival, tier, buy, mustSee, lists, quotes, free>>

(* Closing after the slot was lost reads the list again.                   *)
Close ==
  /\ at = "join" /\ modal # None /\ ~modal.busy
  /\ IF modal.lost
     THEN ReadAgain([buy EXCEPT !.confirming = FALSE])
     ELSE /\ Show([buy EXCEPT !.confirming = FALSE], modal)
          /\ posts' = Unmounted(posts)
          /\ UNCHANGED lists
  /\ UNCHANGED <<server, tab, arrival, tier, mustSee, free>>

(* "Ask the desk" closes the panel even while its request is in flight.    *)
AskDesk ==
  /\ at = "join" /\ modal # None
  /\ Show([buy EXCEPT !.confirming = FALSE], modal)
  /\ posts' = Unmounted(posts)
  /\ UNCHANGED <<server, tab, arrival, tier, mustSee, lists, free>>

-----------------------------------------------------------------------------
(* The release on the way back, and the refresh after it.                  *)

ServeFree ==
  /\ at = "join" /\ free # None /\ ~free.done
  /\ Release(free.token)
  /\ free' = [free EXCEPT !.done = TRUE]
  /\ UNCHANGED <<others, sold, mints, moves, tab, lists, quotes, posts, page>>

FreeReturns ==
  /\ at = "join" /\ free # None /\ free.done
  /\ free' = None
  /\ mustSee' = freed
  /\ IF buy = None THEN UNCHANGED <<buy, modal, lists, quotes, posts>> ELSE ReadAgain(buy)
  /\ UNCHANGED <<server, tab, arrival, tier>>

-----------------------------------------------------------------------------
(* Other buyers, and time.                                                 *)

Lapse ==
  /\ hold # None /\ moves < MaxMoves
  /\ hold' = None
  /\ moves' = moves + 1
  /\ UNCHANGED <<others, sold, mints, freed, tab, requests, page>>

OtherBuyer(s) ==
  /\ moves < MaxMoves
  /\ moves' = moves + 1
  /\ \/ /\ StateOf(s) = "open" /\ others' = others \cup {s} /\ UNCHANGED sold
     \/ /\ s \in others /\ others' = others \ {s}
        /\ \/ UNCHANGED sold
           \/ sold' = sold \cup {s}
  /\ UNCHANGED <<hold, mints, freed, tab, requests, page>>

Next ==
  \/ Cancel \/ Back \/ Forward \/ Reload \/ Pay \/ DismissReceipt
  \/ \E t \in Tiers : PickTier(t)
  \/ \E l \in lists : ServeList(l) \/ ListReturns(l) \/ ListFails(l)
  \/ Retry \/ AskQuote \/ Buy \/ Submit \/ Close \/ AskDesk
  \/ \E s \in Slots : ClickSlot(s) \/ OtherBuyer(s)
  \/ \E c \in Codes \cup {None} : TypeCode(c)
  \/ \E q \in quotes : QuoteReturns(q)
  \/ \E p \in posts : ServeRelease(p) \/ GoOn(p) \/ ServePost(p) \/ ToStripe(p) \/ PostFails(p)
  \/ ServeFree \/ FreeReturns \/ Lapse

(* Requests are answered, and an answer's continuation runs. *)
Served   == \E p \in posts : ServeRelease(p) \/ ServePost(p)
Answered == \E p \in posts : GoOn(p) \/ ToStripe(p) \/ PostFails(p)

Spec == Init /\ [][Next]_vars
FairSpec == Spec /\ WF_vars(Served) /\ WF_vars(Answered)

-----------------------------------------------------------------------------
(* Properties.                                                             *)

(* Types of the variables. *)
TypeOK ==
  /\ hold \in Hold \cup {None} /\ others \subseteq Slots /\ sold \subseteq Slots
  /\ mints \in 0 .. MaxMints /\ freed \in 0 .. MaxMints /\ moves \in 0 .. MaxMoves
  /\ at \in {"join", "stripe", "receipt"}
  /\ session \in Sessions \cup {None} /\ ahead \in Sessions \cup {None}
  /\ stash \in Stash \cup {None} /\ receipt \in Stash \cup {None}
  /\ paid \in Sessions \cup {None}
  /\ arrival \in Arrivals /\ tier \in Tiers \cup {None}
  /\ buy \in Buying \cup {None} /\ modal \in Modal \cup {None}
  /\ lists \subseteq List /\ quotes \subseteq Quoted /\ posts \subseteq Post
  /\ free \in [token : Sessions, done : BOOLEAN] \cup {None}
  /\ mustSee \in 0 .. MaxMints

(* The price of the confirm panel is the price of the session: a quote of   *)
(* another code, however late it returns, is never shown beside the code    *)
(* that is bought with (ExclusiveBuy.tsx, the code effect).                 *)
PriceShownIsCharged == hold # None => hold.shown = hold.price

(* The stash tells of the checkout the tab is on, and a receipt greets the  *)
(* buyer with the purchase that was paid or with nothing: releases, mints   *)
(* that fail, Back, Forward and refused storage leave no other behind       *)
(* (exclusive.ts, ExclusiveCheckoutModal.tsx submit).                       *)
StashIsOfThisCheckout ==
  /\ at = "stripe" /\ stash # None => stash.token = session
  /\ receipt # None => receipt.token = paid

(* Once the release on the way back is answered, the list on screen was     *)
(* read after it: the buyer's own slot does not stay "being purchased"      *)
(* (join/index.tsx, the released effect).                                   *)
ReleasedSlotReread ==
  at = "join" /\ buy # None /\ buy.load = "ok" => buy.asOf >= mustSee

(* A checkout that was started ends: on Stripe, or with a message.         *)
CheckoutEnds == (modal # None /\ modal.busy) ~> (modal = None \/ ~modal.busy)
=============================================================================
