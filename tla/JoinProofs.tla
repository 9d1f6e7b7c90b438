----------------------------- MODULE JoinProofs -----------------------------
(***************************************************************************)
(* What the tab that buys an exclusive slot shows, charges and remembers,  *)
(* for every value of the constants.                                       *)
(***************************************************************************)
EXTENDS JoinBuy, TLAPS

(***************************************************************************)
(* The invariant, one part per group of variables.                         *)
(***************************************************************************)

(* A release takes a hold, and a hold a mint.                              *)
ServerOK ==
  /\ hold \in Hold \cup {None} /\ others \subseteq Slots /\ sold \subseteq Slots
  /\ mints \in 0 .. MaxMints /\ freed \in 0 .. MaxMints /\ moves \in 0 .. MaxMoves
  /\ freed <= mints /\ (hold # None => freed < mints)
  /\ PriceShownIsCharged

(* The stash is of the session that Forward would lead back to.            *)
TabOK ==
  /\ at \in {"join", "stripe", "receipt"}
  /\ session \in Sessions \cup {None} /\ ahead \in Sessions \cup {None}
  /\ stash \in Stash \cup {None} /\ receipt \in Stash \cup {None}
  /\ paid \in Sessions \cup {None}
  /\ StashIsOfThisCheckout
  /\ at = "join" /\ ahead # None /\ stash # None => stash.token = ahead
  /\ at = "receipt" => ahead = None

(* The price beside the code field is the code's, or nothing's.            *)
PriceOf(b) == b.quote.price = IF b.quote.kind = "ok" THEN Worth(b.code) ELSE 0
Picked(b)  == PriceOf(b) /\ (b.timer => b.code # None)

PickerOK ==
  /\ arrival \in Arrivals /\ tier \in Tiers \cup {None}
  /\ buy \in Buying \cup {None} /\ modal \in Modal \cup {None}
  /\ modal # None => buy # None /\ buy.slot # None
  /\ buy # None => Picked(buy)

(* A list that will be shown was read after the last release answered.     *)
ListsOK ==
  /\ lists \subseteq List /\ mustSee \in 0 .. MaxMints /\ mustSee <= freed
  /\ buy = None => lists = {}
  /\ \A l \in lists : l.live /\ l.rows # None => l.asOf >= mustSee
  /\ buy # None /\ buy.load = "ok" => buy.asOf >= mustSee

(* A quote that will be shown is of the code in the field.                 *)
QuotesOK ==
  /\ quotes \subseteq Quoted
  /\ buy = None => quotes = {}
  /\ \A q \in quotes : q.live => q.code = buy.code

(* A create carries the price of its code, one that goes out leaves no     *)
(* stash of an earlier checkout behind, and its panel is still there or no *)
(* longer waits for it.                                                    *)
PostsOK ==
  /\ posts \subseteq Post
  /\ \A p \in posts :
       /\ p.shown = Worth(p.code)
       /\ p.stage = "minted" => p.token \in Sessions
       /\ p.stage \notin {"freeing", "freed"} => stash = None
       /\ p.mounted => modal # None

FreeOK == free \in [token : Sessions, done : BOOLEAN] \cup {None}

JoinInv == ServerOK /\ TabOK /\ PickerOK /\ ListsOK /\ QuotesOK /\ PostsOK /\ FreeOK

(***************************************************************************)
(* Operators.                                                              *)
(***************************************************************************)
LEMMA WorthIs ==
  ASSUME NEW c \in Codes \cup {None} PROVE Worth(c) \in Prices
BY DEF Worth, Prices

LEMMA QuoteTypes ==
  /\ Idle \in Quote /\ Checking \in Quote /\ [Idle EXCEPT !.kind = "bad"] \in Quote
  /\ Idle.price = 0 /\ Checking.price = 0 /\ [Idle EXCEPT !.kind = "bad"].price = 0
  /\ Idle.kind = "idle" /\ Checking.kind = "checking" /\ [Idle EXCEPT !.kind = "bad"].kind = "bad"
BY DEF Idle, Checking, Quote, Prices

(* Updates of the picker's state.                                          *)
LEMMA SlotUpdates ==
  ASSUME NEW b \in Buying, NEW s \in Slots \cup {None}
  PROVE  /\ [b EXCEPT !.wanted = None, !.slot = s] \in Buying
         /\ [b EXCEPT !.slot = None] \in Buying
<1> DEFINE S == Slots \cup {None}
           R == [Slots -> States] \cup {None}
           C == Codes \cup {None}
           N == 0 .. MaxMints
           L == {"loading", "ok", "error"}
<1>1. Buying = [load : L, rows : R, asOf : N, wanted : S, slot : S, code : C, quote : Quote,
                timer : BOOLEAN, confirming : BOOLEAN]
  BY DEF Buying
<1>2. None \in S /\ s \in S
  OBVIOUS
<1> HIDE DEF S, R, C, N, L
<1> QED BY <1>1, <1>2

LEMMA QuoteUpdates ==
  ASSUME NEW b \in Buying, NEW q \in Quote, NEW t \in BOOLEAN
  PROVE  /\ [b EXCEPT !.quote = q, !.timer = t] \in Buying
         /\ [b EXCEPT !.quote = q] \in Buying
<1> DEFINE S == Slots \cup {None}
           R == [Slots -> States] \cup {None}
           C == Codes \cup {None}
           N == 0 .. MaxMints
           L == {"loading", "ok", "error"}
<1>1. Buying = [load : L, rows : R, asOf : N, wanted : S, slot : S, code : C, quote : Quote,
                timer : BOOLEAN, confirming : BOOLEAN]
  BY DEF Buying
<1> HIDE DEF S, R, C, N, L
<1> QED BY <1>1

LEMMA FlagUpdates ==
  ASSUME NEW b \in Buying, NEW t \in BOOLEAN
  PROVE  /\ [b EXCEPT !.timer = t] \in Buying
         /\ [b EXCEPT !.confirming = t] \in Buying
<1> DEFINE S == Slots \cup {None}
           R == [Slots -> States] \cup {None}
           C == Codes \cup {None}
           N == 0 .. MaxMints
           L == {"loading", "ok", "error"}
<1>1. Buying = [load : L, rows : R, asOf : N, wanted : S, slot : S, code : C, quote : Quote,
                timer : BOOLEAN, confirming : BOOLEAN]
  BY DEF Buying
<1> HIDE DEF S, R, C, N, L
<1> QED BY <1>1

LEMMA CodeUpdate ==
  ASSUME NEW b \in Buying, NEW c \in Codes \cup {None}
  PROVE  [b EXCEPT !.code = c] \in Buying
<1> DEFINE S == Slots \cup {None}
           R == [Slots -> States] \cup {None}
           C == Codes \cup {None}
           N == 0 .. MaxMints
           L == {"loading", "ok", "error"}
<1>1. Buying = [load : L, rows : R, asOf : N, wanted : S, slot : S, code : C, quote : Quote,
                timer : BOOLEAN, confirming : BOOLEAN]
  BY DEF Buying
<1>2. c \in C
  OBVIOUS
<1> HIDE DEF S, R, C, N, L
<1> QED BY <1>1, <1>2

LEMMA LoadUpdates ==
  ASSUME NEW b \in Buying, NEW ld \in {"loading", "ok", "error"},
         NEW rs \in [Slots -> States] \cup {None}, NEW n \in 0 .. MaxMints
  PROVE  /\ [b EXCEPT !.load = ld] \in Buying
         /\ [b EXCEPT !.load = ld, !.rows = rs, !.asOf = n] \in Buying
<1> DEFINE S == Slots \cup {None}
           R == [Slots -> States] \cup {None}
           C == Codes \cup {None}
           N == 0 .. MaxMints
           L == {"loading", "ok", "error"}
<1>1. Buying = [load : L, rows : R, asOf : N, wanted : S, slot : S, code : C, quote : Quote,
                timer : BOOLEAN, confirming : BOOLEAN]
  BY DEF Buying
<1>2. ld \in L /\ rs \in R /\ n \in N
  OBVIOUS
<1> HIDE DEF S, R, C, N, L
<1> QED BY <1>1, <1>2

LEMMA BuyingFields ==
  ASSUME NEW b \in Buying
  PROVE  /\ b.slot \in Slots \cup {None} /\ b.wanted \in Slots \cup {None}
         /\ b.code \in Codes \cup {None} /\ b.quote \in Quote /\ b.timer \in BOOLEAN
         /\ b.load \in {"loading", "ok", "error"} /\ b.asOf \in 0 .. MaxMints
         /\ b.quote.price \in Prices
BY DEF Buying, Quote

(* What rendering does to the picker's state.                              *)
LEMMA SettledIs ==
  ASSUME NEW b \in Buying, NEW from
  PROVE  LET c == Settled(b, from) IN
         /\ c \in Buying /\ c.load = b.load /\ c.asOf = b.asOf /\ c.code = b.code
         /\ IF Asked(c) = from THEN c.quote = b.quote /\ c.timer = b.timer
            ELSE c.quote \in {Idle, Checking} /\ (c.timer => c.code # None)
<1> DEFINE w == WantedSelected(b)
           d == SelectionDropped(w)
           c == Requoted(d, from)
<1>1. /\ w \in Buying /\ w.load = b.load /\ w.asOf = b.asOf /\ w.code = b.code
      /\ w.quote = b.quote /\ w.timer = b.timer
  <2>1. CASE w = b
    BY <2>1
  <2>2. CASE w # b
    <3>1. PICK s \in {b.wanted, b.slot} : w = [b EXCEPT !.wanted = None, !.slot = s]
      BY <2>2 DEF WantedSelected
    <3>2. s \in Slots \cup {None}
      BY BuyingFields
    <3>3. w \in Buying
      BY <3>1, <3>2, SlotUpdates
    <3> QED BY <3>1, <3>3 DEF Buying
  <2> QED BY <2>1, <2>2
<1>2. /\ d \in Buying /\ d.load = b.load /\ d.asOf = b.asOf /\ d.code = b.code
      /\ d.quote = b.quote /\ d.timer = b.timer
  <2> HIDE DEF w
  <2>1. d = w \/ d = [w EXCEPT !.slot = None]
    BY DEF SelectionDropped
  <2>2. [w EXCEPT !.slot = None] \in Buying
    BY <1>1 DEF Buying
  <2> QED BY <1>1, <2>1, <2>2 DEF Buying
<1>3. CASE Asked(d) = from
  <2>1. c = d
    BY <1>3 DEF Requoted, Asked
  <2>2. c = Settled(b, from)
    BY DEF Settled
  <2> HIDE DEF d, c
  <2> QED BY <1>2, <1>3, <2>1, <2>2
<1>4. CASE Asked(d) # from
  <2> DEFINE q == IF d.code = None THEN Idle ELSE Checking
  <2>1. c = [d EXCEPT !.quote = q, !.timer = d.code # None]
    BY <1>4 DEF Requoted, Asked
  <2>2. q \in Quote /\ (d.code # None) \in BOOLEAN
    BY QuoteTypes
  <2> HIDE DEF d
  <2>3. /\ c \in Buying /\ c.load = d.load /\ c.asOf = d.asOf /\ c.code = d.code
        /\ c.slot = d.slot /\ c.quote = q /\ c.timer = (d.code # None)
    BY <1>2, <2>1, <2>2 DEF Buying
  <2>5. c = Settled(b, from)
    BY DEF Settled, d, w
  <2> HIDE DEF c
  <2>4. Asked(c) # from
    BY <1>4, <2>3 DEF Asked
  <2> QED BY <1>2, <2>3, <2>4, <2>5
<1> QED BY <1>3, <1>4

LEMMA QuotesSuperseded ==
  ASSUME NEW qs \in SUBSET Quoted
  PROVE  /\ {[q EXCEPT !.live = FALSE] : q \in qs} \subseteq Quoted
         /\ \A q \in {[r EXCEPT !.live = FALSE] : r \in qs} : ~q.live
BY DEF Quoted

LEMMA ListsSuperseded ==
  ASSUME NEW ls \in SUBSET List
  PROVE  Superseded(ls) \subseteq List /\ \A l \in Superseded(ls) : ~l.live
BY DEF Superseded, List

LEMMA NewListIs == NewList \in List /\ NewList.rows = None
BY JoinAssumption DEF NewList, List

(* What a render leaves behind.                                            *)
LEMMA ShowIs ==
  ASSUME buy \in Buying, Picked(buy), QuotesOK, NEW b \in Buying, b.quote = buy.quote,
         b.timer = buy.timer, NEW m \in Modal \cup {None}, Show(b, m)
  PROVE  /\ buy' \in Buying /\ buy' # None /\ Picked(buy')
         /\ modal' \in Modal \cup {None} /\ (modal' # None => buy'.slot # None) /\ QuotesOK'
         /\ buy'.load = b.load /\ buy'.asOf = b.asOf
<1>1. /\ buy' \in Buying /\ buy'.load = b.load /\ buy'.asOf = b.asOf
      /\ IF Asked(buy') = Asked(buy) THEN buy'.quote = buy.quote /\ buy'.timer = buy.timer
         ELSE buy'.quote \in {Idle, Checking} /\ (buy'.timer => buy'.code # None)
  BY SettledIs DEF Show
<1>2. buy' # None
  BY <1>1, NoneAssumption
<1>3. Asked(buy') = Asked(buy) => buy'.code = buy.code
  BY DEF Asked
<1>4. Picked(buy')
  BY <1>1, <1>3, QuoteTypes DEF Picked, PriceOf
<1>5. modal' \in Modal \cup {None} /\ (modal' # None => buy'.slot # None)
  BY DEF Show, Panel, Modal
<1>6. QuotesOK'
  <2>1. CASE Asked(buy') = Asked(buy)
    BY <1>2, <1>3, <2>1 DEF Show, QuotesOK
  <2>2. CASE Asked(buy') # Asked(buy)
    <3>1. quotes' = {[q EXCEPT !.live = FALSE] : q \in quotes}
      BY <2>2 DEF Show
    <3>2. quotes \in SUBSET Quoted
      BY DEF QuotesOK
    <3> QED BY <1>2, <3>1, <3>2, QuotesSuperseded DEF QuotesOK
  <2> QED BY <2>1, <2>2
<1> QED BY <1>1, <1>2, <1>4, <1>5, <1>6

(* The create's record.                                                    *)
Stages == {"freeing", "freed", "sent", "minted", "lost", "limit", "failed"}

LEMMA PostUpdates ==
  ASSUME NEW p \in Post, NEW st \in Stages, NEW tk \in Sessions \cup {None}
  PROVE  /\ [p EXCEPT !.stage = st] \in Post
         /\ [p EXCEPT !.mounted = FALSE] \in Post
         /\ [p EXCEPT !.stage = st, !.token = tk] \in Post
<1> DEFINE N == 1 .. MaxPosts
           C == Codes \cup {None}
           T == Sessions \cup {None}
<1>1. Post = [nth : N, slot : Slots, code : C, shown : Prices, mounted : BOOLEAN, token : T,
              stage : Stages]
  BY DEF Post, Stages
<1>2. tk \in T
  OBVIOUS
<1> HIDE DEF N, C, T, Stages
<1> QED BY <1>1, <1>2

LEMMA UnmountedIs ==
  ASSUME PostsOK
  PROVE  /\ Unmounted(posts) \subseteq Post
         /\ \A p \in Unmounted(posts) : \E r \in posts :
              /\ p.shown = r.shown /\ p.code = r.code /\ p.stage = r.stage /\ p.token = r.token
              /\ ~p.mounted
<1> SUFFICES ASSUME NEW r \in posts
             PROVE  LET p == [r EXCEPT !.mounted = FALSE] IN
                    p \in Post /\ p.shown = r.shown /\ p.code = r.code /\ p.stage = r.stage
                    /\ p.token = r.token /\ ~p.mounted
  BY DEF Unmounted
<1>1. r \in Post
  BY DEF PostsOK
<1>2. [r EXCEPT !.mounted = FALSE] \in Post
  <2>1. "sent" \in Stages /\ None \in Sessions \cup {None}
    BY DEF Stages
  <2> QED BY <1>1, <2>1, PostUpdates
<1> QED BY <1>1, <1>2 DEF Post

LEMMA PostsUnmount ==
  ASSUME PostsOK, stash' = stash,
         posts' = Unmounted(posts) \/ (posts' = posts /\ (modal = None \/ modal' # None))
  PROVE  PostsOK'
BY UnmountedIs DEF PostsOK

(* The parts of the invariant that a step leaves alone.                    *)
LEMMA ServerStays == ASSUME ServerOK, UNCHANGED server PROVE ServerOK'
BY DEF ServerOK, PriceShownIsCharged, server

LEMMA TabStays == ASSUME TabOK, UNCHANGED tab PROVE TabOK' /\ stash' = stash
BY DEF TabOK, StashIsOfThisCheckout, tab

LEMMA PickerStays == ASSUME PickerOK, UNCHANGED <<arrival, tier, buy, modal>> PROVE PickerOK'
BY DEF PickerOK

LEMMA ListsStay == ASSUME ListsOK, UNCHANGED <<lists, buy, mustSee, freed>> PROVE ListsOK'
BY DEF ListsOK

LEMMA QuotesStay == ASSUME QuotesOK, UNCHANGED <<quotes, buy>> PROVE QuotesOK'
BY DEF QuotesOK

LEMMA PostsStay == ASSUME PostsOK, UNCHANGED <<posts, modal, stash>> PROVE PostsOK'
BY DEF PostsOK

LEMMA FreeStays == ASSUME FreeOK, UNCHANGED free PROVE FreeOK'
BY DEF FreeOK

(***************************************************************************)
(* Documents.                                                              *)
(***************************************************************************)
LEMMA FreshPageKeeps ==
  ASSUME FreshPage, ServerOK', TabOK' PROVE JoinInv'
<1>1. /\ quotes' = {} /\ posts' = {} /\ lists' = {} /\ buy' = None /\ modal' = None /\ tier' = None
      /\ free' = None /\ mustSee' = 0 /\ arrival' = NoParams
  BY DEF FreshPage, Dropped, OpenTier
<1>2. NoParams \in Arrivals
  BY DEF NoParams, Arrivals
<1>3. mustSee' <= freed' /\ mustSee' \in 0 .. MaxMints
  BY <1>1, JoinAssumption DEF ServerOK
<1> QED BY <1>1, <1>2, <1>3 DEF JoinInv, PickerOK, ListsOK, QuotesOK, PostsOK, FreeOK

LEMMA MountedIs ==
  ASSUME NEW a \in Arrivals
  PROVE  Mounted(a) \in Buying /\ Mounted(a) # None /\ Picked(Mounted(a))
         /\ Mounted(a).load = "loading"
<1>1. a.slot \in Slots \cup {None} /\ a.code \in Codes \cup {None}
  BY DEF Arrivals
<1>2. Mounted(a) \in Buying
  BY <1>1, QuoteTypes, JoinAssumption DEF Mounted, Buying
<1> QED BY <1>2, NoneAssumption, QuoteTypes DEF Mounted, Picked, PriceOf

LEMMA OpenTierKeeps ==
  ASSUME NEW t \in Tiers \cup {None}, NEW a \in Arrivals, OpenTier(t, a), arrival' \in Arrivals,
         mustSee' \in 0 .. MaxMints, mustSee' <= freed'
  PROVE  PickerOK' /\ ListsOK'
<1>1. CASE t = None
  BY <1>1 DEF OpenTier, PickerOK, ListsOK
<1>2. CASE t # None
  <2>1. buy' = Mounted(a) /\ lists' = {NewList} /\ modal' = None /\ tier' = t
    BY <1>2 DEF OpenTier
  <2> QED BY <2>1, MountedIs, NewListIs DEF PickerOK, ListsOK
<1> QED BY <1>1, <1>2

LEMMA InitKeeps ==
  ASSUME Init PROVE JoinInv
<1>1. arrival \in Arrivals
  BY JoinAssumption DEF Init
<1>2. tier \in Tiers \cup {None}
  BY <1>1, JoinAssumption DEF Init, Arrivals
<1>3. PickerOK
  BY <1>1, <1>2, MountedIs DEF Init, PickerOK
<1>4. ListsOK
  BY <1>1, NewListIs, MountedIs, JoinAssumption DEF Init, ListsOK
<1>5. ServerOK
  BY JoinAssumption DEF Init, ServerOK, PriceShownIsCharged
<1> QED BY <1>3, <1>4, <1>5 DEF Init, JoinInv, TabOK, StashIsOfThisCheckout, QuotesOK, PostsOK,
  FreeOK

LEMMA CancelKeeps ==
  ASSUME JoinInv, Cancel PROVE JoinInv'
<1>1. stash \in Stash \cup {None}
  BY DEF JoinInv, TabOK
<1> DEFINE t == IF stash = None THEN None ELSE TierOf[stash.slot]
<1>2. arrival' \in Arrivals /\ t \in Tiers \cup {None}
  BY <1>1, JoinAssumption DEF Cancel, NoParams, Arrivals, Stash
<1>3. free' \in [token : Sessions, done : BOOLEAN] \cup {None}
  BY <1>1 DEF Cancel, Stash
<1>4. /\ OpenTier(t, arrival') /\ mustSee' = 0 /\ quotes' = {} /\ posts' = {}
      /\ UNCHANGED server
  BY DEF Cancel, Dropped
<1>5. ServerOK' /\ mustSee' \in 0 .. MaxMints /\ mustSee' <= freed'
  BY <1>4, JoinAssumption DEF JoinInv, ServerOK, PriceShownIsCharged, server
<1>6. TabOK'
  BY DEF JoinInv, TabOK, StashIsOfThisCheckout, Cancel
<1>7. PickerOK' /\ ListsOK'
  <2>1. PICK a \in Arrivals : a = arrival'
    BY <1>2
  <2> HIDE DEF t
  <2> QED BY <1>2, <1>4, <1>5, <2>1, OpenTierKeeps
<1> QED BY <1>3, <1>4, <1>5, <1>6, <1>7 DEF JoinInv, QuotesOK, PostsOK, FreeOK

LEMMA LeavingKeeps ==
  ASSUME JoinInv, Back \/ Forward \/ Reload PROVE JoinInv'
<1>1. FreshPage /\ UNCHANGED server
  BY DEF Back, Forward, Reload
<1>2. ServerOK'
  BY <1>1 DEF JoinInv, ServerOK, PriceShownIsCharged, server
<1>3. TabOK'
  BY DEF JoinInv, TabOK, StashIsOfThisCheckout, Back, Forward, Reload, tab
<1> QED BY <1>1, <1>2, <1>3, FreshPageKeeps

LEMMA PayKeeps ==
  ASSUME JoinInv, Pay PROVE JoinInv'
<1>1. hold \in Hold /\ FreshPage
  BY DEF JoinInv, ServerOK, Pay
<1>2. ServerOK'
  BY <1>1 DEF JoinInv, ServerOK, PriceShownIsCharged, Hold, Pay
<1>3. TabOK'
  BY DEF JoinInv, TabOK, StashIsOfThisCheckout, Pay
<1> QED BY <1>1, <1>2, <1>3, FreshPageKeeps

(***************************************************************************)
(* The picker.                                                             *)
(***************************************************************************)
LEMMA ShowKeeps ==
  ASSUME JoinInv, buy # None, NEW b \in Buying, b.quote = buy.quote, b.timer = buy.timer,
         b.load = "ok" => b.asOf >= mustSee, NEW m \in Modal \cup {None}, Show(b, m),
         UNCHANGED <<server, tab, arrival, tier, mustSee, free>>,
         posts' = Unmounted(posts) \/ (posts' = posts /\ (modal = None \/ modal' # None)),
         lists' \subseteq List, \A l \in lists' : l.live /\ l.rows # None => l.asOf >= mustSee
  PROVE  JoinInv'
<1>1. buy \in Buying /\ Picked(buy) /\ QuotesOK
  BY DEF JoinInv, PickerOK
<1>2. /\ buy' \in Buying /\ buy' # None /\ Picked(buy') /\ modal' \in Modal \cup {None} /\ QuotesOK'
      /\ buy'.load = b.load /\ buy'.asOf = b.asOf /\ (modal' # None => buy'.slot # None)
  BY <1>1, ShowIs
<1>3. ServerOK' /\ TabOK' /\ FreeOK'
  BY DEF JoinInv, ServerOK, PriceShownIsCharged, TabOK, StashIsOfThisCheckout, FreeOK, server, tab
<1>4. PickerOK'
  BY <1>2 DEF JoinInv, PickerOK
<1>5. ListsOK'
  BY <1>2 DEF JoinInv, ListsOK, server
<1>6. PostsOK'
  BY PostsUnmount DEF JoinInv, tab
<1> QED BY <1>2, <1>3, <1>4, <1>5, <1>6 DEF JoinInv

LEMMA PickTierKeeps ==
  ASSUME JoinInv, NEW t \in Tiers, PickTier(t) PROVE JoinInv'
<1>1. ServerOK' /\ TabOK' /\ FreeOK'
  BY DEF JoinInv, ServerOK, PriceShownIsCharged, TabOK, StashIsOfThisCheckout, FreeOK, server, tab,
    PickTier
<1>2. /\ arrival \in Arrivals /\ arrival' = arrival /\ mustSee' \in 0 .. MaxMints
      /\ mustSee' <= freed' /\ OpenTier(t, arrival)
  BY DEF JoinInv, PickerOK, ListsOK, PickTier, server
<1>3. PickerOK' /\ ListsOK'
  BY <1>2, OpenTierKeeps
<1>4. PostsOK'
  BY PostsUnmount DEF JoinInv, PickTier, tab
<1>5. QuotesOK'
  BY DEF PickTier, QuotesOK
<1> QED BY <1>1, <1>3, <1>4, <1>5 DEF JoinInv

LEMMA RowsTyped ==
  [s \in Slots |-> StateOf(s)] \in [Slots -> States]
BY DEF StateOf, States

LEMMA ServeListKeeps ==
  ASSUME JoinInv, NEW l \in lists, ServeList(l) PROVE JoinInv'
<1> DEFINE rows == [s \in Slots |-> StateOf(s)]
           m == [l EXCEPT !.rows = rows, !.asOf = freed]
<1>1. l \in List /\ freed \in 0 .. MaxMints /\ mustSee <= freed
  BY DEF JoinInv, ListsOK, ServerOK
<1>2. m \in List /\ m.asOf >= mustSee
  <2>1. m \in List /\ m.asOf = freed
    <3>1. rows \in [Slots -> States]
      BY RowsTyped
    <3> HIDE DEF rows
    <3> QED BY <1>1, <3>1 DEF List
  <2>2. mustSee \in Nat /\ freed \in Nat
    BY <1>1 DEF JoinInv, ListsOK
  <2> QED BY <1>1, <2>1, <2>2
<1>3. lists' = (lists \ {l}) \cup {m}
  BY DEF ServeList
<1>4. ListsOK'
  <2> HIDE DEF m
  <2> QED BY <1>2, <1>3 DEF ServeList, JoinInv, ListsOK, server, page
<1> QED BY <1>4, ServerStays, TabStays, PickerStays, QuotesStay, PostsStay, FreeStays
        DEF ServeList, JoinInv, page

(* An answer that is not looked at any more.                               *)
LEMMA IgnoredKeeps ==
  ASSUME JoinInv, lists' \subseteq lists, UNCHANGED <<buy, modal, quotes>>,
         posts' = Unmounted(posts) \/ (posts' = posts /\ (modal = None \/ modal' # None)),
         UNCHANGED <<server, tab, arrival, tier, mustSee, free>>
  PROVE  JoinInv'
<1>1. PostsOK'
  BY PostsUnmount DEF JoinInv, tab
<1>2. ListsOK'
  BY DEF JoinInv, ListsOK, server
<1> QED BY <1>1, <1>2 DEF JoinInv, ServerOK, PriceShownIsCharged, TabOK, PickerOK, QuotesOK,
  StashIsOfThisCheckout, FreeOK, server, tab

LEMMA ListReturnsKeeps ==
  ASSUME JoinInv, NEW l \in lists, ListReturns(l) PROVE JoinInv'
<1>1. l \in List /\ buy # None /\ buy \in Buying /\ l.rows # None
  BY DEF JoinInv, ListsOK, PickerOK, ListReturns
<1>2. /\ lists' \subseteq lists
      /\ posts' = Unmounted(posts) \/ (posts' = posts /\ (modal = None \/ modal' # None))
      /\ UNCHANGED <<server, tab, arrival, tier, mustSee, free>>
  BY DEF ListReturns
<1>3. CASE ~l.live
  BY <1>2, <1>3, IgnoredKeeps DEF ListReturns
<1>4. CASE l.live
  <2> DEFINE b == [buy EXCEPT !.load = "ok", !.rows = l.rows, !.asOf = l.asOf]
  <2>1. b \in Buying
    BY <1>1, LoadUpdates DEF List
  <2>2. b.quote = buy.quote /\ b.timer = buy.timer /\ b.asOf = l.asOf
    BY <1>1 DEF Buying
  <2>3. l.asOf >= mustSee
    BY <1>1, <1>4 DEF JoinInv, ListsOK
  <2>4. modal \in Modal \cup {None} /\ lists' \subseteq List
        /\ \A k \in lists' : k.live /\ k.rows # None => k.asOf >= mustSee
    BY <1>2 DEF JoinInv, PickerOK, ListsOK
  <2>5. Show(b, modal)
    BY <1>4 DEF ListReturns
  <2> HIDE DEF b
  <2> QED BY <1>1, <1>2, <2>1, <2>2, <2>3, <2>4, <2>5, ShowKeeps
<1> QED BY <1>3, <1>4

LEMMA ListFailsKeeps ==
  ASSUME JoinInv, NEW l \in lists, ListFails(l) PROVE JoinInv'
<1>1. l \in List /\ buy # None /\ buy \in Buying
  BY DEF JoinInv, ListsOK, PickerOK
<1>2. /\ lists' \subseteq lists
      /\ posts' = Unmounted(posts) \/ (posts' = posts /\ (modal = None \/ modal' # None))
      /\ UNCHANGED <<server, tab, arrival, tier, mustSee, free>>
  BY DEF ListFails
<1>3. CASE ~l.live
  BY <1>2, <1>3, IgnoredKeeps DEF ListFails
<1>4. CASE l.live
  <2> DEFINE b == [buy EXCEPT !.load = "error"]
  <2>2. b \in Buying /\ b.quote = buy.quote /\ b.timer = buy.timer /\ b.load = "error"
    BY <1>1 DEF Buying
  <2>4. modal \in Modal \cup {None} /\ lists' \subseteq List
        /\ \A k \in lists' : k.live /\ k.rows # None => k.asOf >= mustSee
    BY <1>2 DEF JoinInv, PickerOK, ListsOK
  <2>5. Show(b, modal)
    BY <1>4 DEF ListFails
  <2> HIDE DEF b
  <2> QED BY <1>1, <1>2, <2>2, <2>4, <2>5, ShowKeeps
<1> QED BY <1>3, <1>4

LEMMA ReadAgainKeeps ==
  ASSUME JoinInv, buy # None, NEW b \in Buying, b.quote = buy.quote, b.timer = buy.timer,
         ReadAgain(b), mustSee' \in 0 .. MaxMints, mustSee' <= freed, free' \in {free, None},
         UNCHANGED <<server, tab, arrival, tier>>
  PROVE  JoinInv'
<1>1. buy \in Buying /\ Picked(buy) /\ QuotesOK /\ modal \in Modal \cup {None} /\ lists \subseteq List
  BY DEF JoinInv, PickerOK, ListsOK
<1> DEFINE c == [b EXCEPT !.load = "loading"]
<1>2. c \in Buying /\ c.quote = buy.quote /\ c.timer = buy.timer /\ c.load = "loading"
  BY DEF Buying
<1>3. Show(c, modal) /\ posts' = Unmounted(posts) /\ lists' = Superseded(lists) \cup {NewList}
  BY DEF ReadAgain
<1> HIDE DEF c
<1>4. /\ buy' \in Buying /\ buy' # None /\ Picked(buy') /\ modal' \in Modal \cup {None} /\ QuotesOK'
      /\ buy'.load = "loading" /\ (modal' # None => buy'.slot # None)
  BY <1>1, <1>2, <1>3, ShowIs
<1>5. lists' \subseteq List /\ \A l \in lists' : ~l.live \/ l.rows = None
  BY <1>1, <1>3, ListsSuperseded, NewListIs
<1>6. ListsOK'
  BY <1>4, <1>5 DEF ListsOK, server
<1>7. PostsOK'
  BY <1>3, PostsUnmount DEF JoinInv, tab
<1>8. PickerOK'
  BY <1>4 DEF JoinInv, PickerOK
<1> QED BY <1>4, <1>6, <1>7, <1>8 DEF JoinInv, ServerOK, PriceShownIsCharged, TabOK,
  StashIsOfThisCheckout, FreeOK, server, tab

LEMMA RetryKeeps ==
  ASSUME JoinInv, Retry PROVE JoinInv'
<1>1. buy \in Buying /\ mustSee \in 0 .. MaxMints /\ mustSee <= freed
  BY DEF JoinInv, PickerOK, ListsOK, Retry
<1> QED BY <1>1, ReadAgainKeeps DEF Retry

LEMMA ClickingKeeps ==
  ASSUME JoinInv, \/ \E s \in Slots : ClickSlot(s)
                  \/ \E c \in Codes \cup {None} : TypeCode(c)
                  \/ Buy
  PROVE  JoinInv'
<1>1. /\ buy \in Buying /\ buy # None /\ modal \in Modal \cup {None} /\ lists \subseteq List
      /\ (buy.load = "ok" => buy.asOf >= mustSee)
      /\ \A l \in lists : l.live /\ l.rows # None => l.asOf >= mustSee
  BY DEF JoinInv, PickerOK, ListsOK, ClickSlot, TypeCode, Buy
<1>2. /\ posts' = posts /\ lists' = lists /\ modal = None
      /\ UNCHANGED <<server, tab, arrival, tier, mustSee, free>>
  BY DEF ClickSlot, TypeCode, Buy, Picking
<1>3. PICK b \in Buying : /\ Show(b, modal) /\ b.quote = buy.quote /\ b.timer = buy.timer
                          /\ b.load = buy.load /\ b.asOf = buy.asOf
  <2>1. ASSUME NEW s \in Slots, ClickSlot(s)
        PROVE  \E b \in Buying : /\ Show(b, modal) /\ b.quote = buy.quote /\ b.timer = buy.timer
                                 /\ b.load = buy.load /\ b.asOf = buy.asOf
    <3> DEFINE r == IF buy.slot = s THEN None ELSE s
               b == [buy EXCEPT !.wanted = None, !.slot = r]
    <3>1. b \in Buying
      BY <1>1, SlotUpdates
    <3>2. /\ b.quote = buy.quote /\ b.timer = buy.timer /\ b.load = buy.load
          /\ b.asOf = buy.asOf
      BY <1>1 DEF Buying
    <3>3. Show(b, modal)
      BY <2>1 DEF ClickSlot
    <3> HIDE DEF b
    <3> QED BY <3>1, <3>2, <3>3
  <2>2. ASSUME NEW c \in Codes \cup {None}, TypeCode(c)
        PROVE  \E b \in Buying : /\ Show(b, modal) /\ b.quote = buy.quote /\ b.timer = buy.timer
                                 /\ b.load = buy.load /\ b.asOf = buy.asOf
    <3> DEFINE b == [buy EXCEPT !.code = c]
    <3>1. b \in Buying
      BY <1>1, CodeUpdate
    <3>2. /\ b.quote = buy.quote /\ b.timer = buy.timer /\ b.load = buy.load
          /\ b.asOf = buy.asOf
      BY <1>1 DEF Buying
    <3>3. Show(b, modal)
      BY <2>2 DEF TypeCode
    <3> HIDE DEF b
    <3> QED BY <3>1, <3>2, <3>3
  <2>3. ASSUME Buy
        PROVE  \E b \in Buying : /\ Show(b, modal) /\ b.quote = buy.quote /\ b.timer = buy.timer
                                 /\ b.load = buy.load /\ b.asOf = buy.asOf
    <3> DEFINE b == [buy EXCEPT !.confirming = TRUE]
    <3>1. b \in Buying
      BY <1>1, FlagUpdates
    <3>2. /\ b.quote = buy.quote /\ b.timer = buy.timer /\ b.load = buy.load
          /\ b.asOf = buy.asOf
      BY <1>1 DEF Buying
    <3>3. Show(b, modal)
      BY <2>3 DEF Buy
    <3> HIDE DEF b
    <3> QED BY <3>1, <3>2, <3>3
  <2> QED BY <2>1, <2>2, <2>3
<1> QED BY <1>1, <1>2, <1>3, ShowKeeps

(* The panel closes.                                                       *)
LEMMA ClosedIs ==
  ASSUME JoinInv, modal # None
  PROVE  LET b == [buy EXCEPT !.confirming = FALSE] IN
         /\ buy # None /\ b \in Buying /\ b.quote = buy.quote /\ b.timer = buy.timer
         /\ b.load = buy.load /\ b.asOf = buy.asOf /\ modal \in Modal
         /\ (buy.load = "ok" => buy.asOf >= mustSee) /\ lists \subseteq List
         /\ \A l \in lists : l.live /\ l.rows # None => l.asOf >= mustSee
<1>1. /\ buy # None /\ buy \in Buying /\ modal \in Modal /\ lists \subseteq List
      /\ (buy.load = "ok" => buy.asOf >= mustSee)
      /\ \A l \in lists : l.live /\ l.rows # None => l.asOf >= mustSee
  BY DEF JoinInv, PickerOK, ListsOK
<1>2. [buy EXCEPT !.confirming = FALSE] \in Buying
  BY <1>1, FlagUpdates
<1> QED BY <1>1, <1>2 DEF Buying

LEMMA CloseKeeps ==
  ASSUME JoinInv, Close \/ AskDesk PROVE JoinInv'
<1> DEFINE b == [buy EXCEPT !.confirming = FALSE]
<1>1. modal # None /\ UNCHANGED <<server, tab, arrival, tier, mustSee, free>>
  BY DEF Close, AskDesk
<1>2. /\ buy # None /\ b \in Buying /\ b.quote = buy.quote /\ b.timer = buy.timer
      /\ b.load = buy.load /\ b.asOf = buy.asOf /\ modal \in Modal
      /\ (buy.load = "ok" => buy.asOf >= mustSee) /\ lists \subseteq List
      /\ \A l \in lists : l.live /\ l.rows # None => l.asOf >= mustSee
  BY <1>1, ClosedIs
<1>3. ReadAgain(b) \/ (Show(b, modal) /\ posts' = Unmounted(posts) /\ lists' = lists)
  BY DEF Close, AskDesk
<1> HIDE DEF b
<1>4. CASE ReadAgain(b)
  <2>1. mustSee' \in 0 .. MaxMints /\ mustSee' <= freed
    BY <1>1 DEF JoinInv, ListsOK
  <2> QED BY <1>1, <1>2, <1>4, <2>1, ReadAgainKeeps
<1>5. CASE Show(b, modal) /\ posts' = Unmounted(posts) /\ lists' = lists
  BY <1>1, <1>2, <1>5, ShowKeeps
<1> QED BY <1>3, <1>4, <1>5

(***************************************************************************)
(* The code field.                                                         *)
(***************************************************************************)
LEMMA AskQuoteKeeps ==
  ASSUME JoinInv, AskQuote PROVE JoinInv'
<1> DEFINE b == [buy EXCEPT !.timer = FALSE]
           q == [live |-> TRUE, code |-> buy.code, slot |-> buy.slot]
<1>1. buy \in Buying /\ buy # None /\ buy.timer /\ Picked(buy)
  BY DEF AskQuote, JoinInv, PickerOK
<1>2. buy.code \in Codes /\ buy.slot \in Slots \cup {None}
  BY <1>1, BuyingFields DEF Picked
<1>3. q \in Quoted /\ q.code = buy.code
  BY <1>2 DEF Quoted
<1>4. /\ b \in Buying /\ b.code = buy.code /\ b.quote = buy.quote /\ b.load = buy.load
      /\ b.asOf = buy.asOf /\ b.slot = buy.slot /\ ~b.timer
  BY <1>1 DEF Buying
<1>5. buy' = b /\ quotes' = quotes \cup {q} /\ b # None
  BY <1>4, NoneAssumption DEF AskQuote
<1> HIDE DEF b, q
<1>6. PickerOK' /\ ListsOK' /\ QuotesOK'
  BY <1>1, <1>3, <1>4, <1>5 DEF AskQuote, JoinInv, PickerOK, ListsOK, QuotesOK, Picked, PriceOf,
    server
<1> QED BY <1>6, ServerStays, TabStays, PostsStay, FreeStays DEF AskQuote, JoinInv

LEMMA QuoteForIs ==
  ASSUME NEW q \in Quoted
  PROVE  QuoteFor(q) \in Quote /\ QuoteFor(q).kind = "ok" /\ QuoteFor(q).price = Worth(q.code)
<1>1. Worth(q.code) \in Prices
  BY WorthIs DEF Quoted
<1>2. (q.slot # None /\ StateOf(q.slot) # "open") \in BOOLEAN
  OBVIOUS
<1> QED BY <1>1, <1>2 DEF QuoteFor, Quote

LEMMA QuoteReturnsKeeps ==
  ASSUME JoinInv, NEW q \in quotes, QuoteReturns(q) PROVE JoinInv'
<1>1. buy \in Buying /\ buy # None /\ Picked(buy) /\ q \in Quoted /\ (q.live => q.code = buy.code)
  BY DEF QuoteReturns, JoinInv, PickerOK, QuotesOK
<1>2. PICK r \in {QuoteFor(q), [Idle EXCEPT !.kind = "bad"]} :
        buy' = IF q.live THEN [buy EXCEPT !.quote = r] ELSE buy
  BY DEF QuoteReturns
<1>3. r \in Quote /\ r.price = IF r.kind = "ok" THEN Worth(q.code) ELSE 0
  BY <1>1, QuoteForIs, QuoteTypes
<1>4. [buy EXCEPT !.quote = r] \in Buying
  BY <1>1, <1>3, QuoteUpdates
<1>5. /\ buy' \in Buying /\ buy'.code = buy.code /\ buy'.load = buy.load /\ buy'.asOf = buy.asOf
      /\ buy'.timer = buy.timer /\ buy'.slot = buy.slot /\ (buy'.quote = buy.quote \/ (q.live /\ buy'.quote = r))
  BY <1>1, <1>2, <1>4 DEF Buying
<1>6. Picked(buy') /\ buy' # None
  BY <1>1, <1>3, <1>5, NoneAssumption DEF Picked, PriceOf
<1>7. PickerOK' /\ ListsOK' /\ QuotesOK'
  BY <1>1, <1>5, <1>6 DEF QuoteReturns, JoinInv, PickerOK, ListsOK, QuotesOK, server
<1> QED BY <1>7, ServerStays, TabStays, PostsStay, FreeStays DEF QuoteReturns, JoinInv

(***************************************************************************)
(* The confirm panel.                                                      *)
(***************************************************************************)
LEMMA NewPostIs ==
  ASSUME JoinInv, modal # None, NEW n \in 1 .. MaxPosts, NEW st \in {"sent", "freeing"}
  PROVE  LET p == NewPost(n, st) IN p \in Post /\ p.shown = Worth(p.code) /\ p.stage = st
<1>1. buy # None /\ buy \in Buying /\ Picked(buy) /\ stash \in Stash \cup {None}
  BY DEF JoinInv, PickerOK, TabOK
<1>2. buy.slot \in Slots \cup {None} /\ buy.code \in Codes \cup {None} /\ buy.quote.price \in Prices
  BY <1>1, BuyingFields
<1>3. buy.slot \in Slots
  BY <1>2 DEF JoinInv, PickerOK
<1>4. (IF stash = None THEN None ELSE stash.token) \in Sessions \cup {None}
  BY <1>1 DEF Stash
<1>5. (IF Accepted THEN buy.code ELSE None) \in Codes \cup {None}
  BY <1>2
<1> DEFINE c == IF Accepted THEN buy.code ELSE None
           tk == IF stash = None THEN None ELSE stash.token
<1>6. buy.quote.price = Worth(c)
  BY <1>1 DEF Picked, PriceOf, Accepted, Worth
<1>7. NewPost(n, st) = [nth |-> n, slot |-> buy.slot, code |-> c, shown |-> buy.quote.price,
                        mounted |-> TRUE, token |-> tk, stage |-> st]
  BY DEF NewPost
<1>8. c \in Codes \cup {None} /\ tk \in Sessions \cup {None}
  BY <1>4, <1>5
<1> HIDE DEF c, tk
<1> QED BY <1>2, <1>3, <1>6, <1>7, <1>8 DEF Post

LEMMA SubmitKeeps ==
  ASSUME JoinInv, Submit PROVE JoinInv'
<1>1. modal \in Modal /\ modal # None
  BY DEF JoinInv, PickerOK, Submit
<1>2. PICK n \in 1 .. MaxPosts, st \in {"sent", "freeing"} :
        posts' = posts \cup {NewPost(n, st)} /\ (st = "sent" => stash = None)
  BY DEF Submit
<1> DEFINE p == NewPost(n, st)
<1>3. p \in Post /\ p.shown = Worth(p.code) /\ p.stage = st
  BY <1>1, NewPostIs
<1>4. modal' = [modal EXCEPT !.busy = TRUE] /\ modal' \in Modal /\ UNCHANGED tab
  BY <1>1 DEF Submit, Modal
<1>5. modal' # None
  BY <1>4, NoneAssumption
<1> HIDE DEF p
<1>6. PostsOK'
  BY <1>2, <1>3, <1>4, <1>5 DEF JoinInv, PostsOK, tab, p
<1>7. PickerOK'
  BY <1>1, <1>4 DEF JoinInv, PickerOK, Submit
<1> QED BY <1>4, <1>6, <1>7, ServerStays, TabStays, ListsStay, QuotesStay, FreeStays
        DEF Submit, JoinInv, server

(* One create goes on.                                                     *)
LEMMA OnePost ==
  ASSUME PostsOK, NEW p \in posts, NEW q \in Post, q.shown = p.shown, q.code = p.code,
         q.mounted = p.mounted, q.stage = "minted" => q.token \in Sessions,
         q.stage \notin {"freeing", "freed"} => stash' = None,
         posts' = (posts \ {p}) \cup {q}, stash' \in {stash, None}, modal' = modal
  PROVE  PostsOK'
BY DEF PostsOK

LEMMA StagedIs ==
  ASSUME PostsOK, NEW p \in posts, NEW st \in Stages
  PROVE  LET q == [p EXCEPT !.stage = st] IN
         /\ q \in Post /\ q.shown = p.shown /\ q.code = p.code /\ q.mounted = p.mounted
         /\ q.stage = st
<1>1. p \in Post /\ None \in Sessions \cup {None}
  BY DEF PostsOK
<1>2. [p EXCEPT !.stage = st] \in Post
  BY <1>1, PostUpdates
<1> QED BY <1>1, <1>2 DEF Post

LEMMA MintedIs ==
  ASSUME PostsOK, NEW p \in posts, NEW st \in Stages, NEW tk \in Sessions
  PROVE  LET q == [p EXCEPT !.stage = st, !.token = tk] IN
         /\ q \in Post /\ q.shown = p.shown /\ q.code = p.code /\ q.mounted = p.mounted
         /\ q.stage = st /\ q.token = tk
<1>1. p \in Post
  BY DEF PostsOK
<1>2. [p EXCEPT !.stage = st, !.token = tk] \in Post
  BY <1>1, PostUpdates
<1> QED BY <1>1, <1>2 DEF Post

(* A release ends the hold it names, or nothing.                           *)
LEMMA ReleaseKeeps ==
  ASSUME ServerOK, NEW token, Release(token), UNCHANGED <<others, sold, mints, moves>>
  PROVE  ServerOK' /\ freed' \in Nat /\ freed \in Nat /\ freed <= freed'
<1>1. freed \in Nat /\ mints \in Nat /\ mints <= MaxMints /\ MaxMints \in Nat
  BY JoinAssumption DEF ServerOK
<1> QED BY <1>1 DEF ServerOK, PriceShownIsCharged, Release

LEMMA ListsAfterRelease ==
  ASSUME ListsOK, freed' \in Nat, freed \in Nat, freed <= freed', UNCHANGED <<lists, buy, mustSee>>
  PROVE  ListsOK'
<1>1. mustSee \in Nat /\ mustSee <= freed'
  BY DEF ListsOK
<1> QED BY <1>1 DEF ListsOK

LEMMA ServeReleaseKeeps ==
  ASSUME JoinInv, NEW p \in posts, ServeRelease(p) PROVE JoinInv'
<1>1. ServerOK' /\ freed' \in Nat /\ freed \in Nat /\ freed <= freed'
  BY ReleaseKeeps DEF ServeRelease, JoinInv
<1>2. ListsOK'
  BY <1>1, ListsAfterRelease DEF ServeRelease, JoinInv, page
<1> DEFINE q == [p EXCEPT !.stage = "freed"]
<1>3. q \in Post /\ q.shown = p.shown /\ q.code = p.code /\ q.mounted = p.mounted /\ q.stage = "freed"
  BY StagedIs DEF JoinInv, Stages
<1>4. posts' = (posts \ {p}) \cup {q} /\ stash' = stash /\ modal' = modal
  BY DEF ServeRelease, tab, page
<1> HIDE DEF q
<1>5. PostsOK'
  BY <1>3, <1>4, OnePost DEF JoinInv
<1> QED BY <1>1, <1>2, <1>5, TabStays, PickerStays, QuotesStay, FreeStays
        DEF ServeRelease, JoinInv, page

LEMMA GoOnKeeps ==
  ASSUME JoinInv, NEW p \in posts, GoOn(p) PROVE JoinInv'
<1> DEFINE q == [p EXCEPT !.stage = "sent"]
<1>1. q \in Post /\ q.shown = p.shown /\ q.code = p.code /\ q.mounted = p.mounted /\ q.stage = "sent"
  BY StagedIs DEF JoinInv, Stages
<1>2. posts' = (posts \ {p}) \cup {q} /\ stash' = None /\ modal' = modal
  BY DEF GoOn, page
<1> HIDE DEF q
<1>3. PostsOK'
  BY <1>1, <1>2, OnePost DEF JoinInv
<1>4. TabOK'
  BY DEF GoOn, JoinInv, TabOK, StashIsOfThisCheckout
<1> QED BY <1>3, <1>4, ServerStays, PickerStays, ListsStay, QuotesStay, FreeStays
        DEF GoOn, JoinInv, page, server

LEMMA ServePostKeeps ==
  ASSUME JoinInv, NEW p \in posts, ServePost(p) PROVE JoinInv'
<1>0. /\ p \in Post /\ p.shown = Worth(p.code) /\ p.stage = "sent" /\ stash = None
      /\ p.slot \in Slots /\ p.shown \in Prices
  BY DEF JoinInv, PostsOK, ServePost, Post
<1>1. stash' = stash /\ modal' = modal
  BY DEF ServePost, tab, page
<1>2. CASE /\ Refusal(p) # None
           /\ posts' = (posts \ {p}) \cup {[p EXCEPT !.stage = Refusal(p)]}
           /\ UNCHANGED <<hold, mints>>
  <2>1. Refusal(p) \in {"lost", "limit"}
    BY <1>2 DEF Refusal
  <2> DEFINE q == [p EXCEPT !.stage = Refusal(p)]
  <2>2. Refusal(p) \in Stages
    BY <2>1 DEF Stages
  <2>3. q \in Post /\ q.shown = p.shown /\ q.code = p.code /\ q.mounted = p.mounted
        /\ q.stage = Refusal(p)
    BY <2>2, StagedIs DEF JoinInv
  <2>4. PostsOK'
    <3> HIDE DEF q
    <3>1. posts' = (posts \ {p}) \cup {q}
      BY <1>2 DEF q
    <3> QED BY <1>0, <1>1, <2>1, <2>3, <3>1, OnePost DEF JoinInv
  <2> QED BY <1>2, <2>4, ServerStays, TabStays, PickerStays, ListsStay, QuotesStay, FreeStays
          DEF ServePost, JoinInv, page, server
<1>3. CASE /\ Refusal(p) = None
           /\ posts' = (posts \ {p}) \cup {[p EXCEPT !.stage = "failed"]}
           /\ UNCHANGED <<hold, mints>>
  <2> DEFINE q == [p EXCEPT !.stage = "failed"]
  <2>3. q \in Post /\ q.shown = p.shown /\ q.code = p.code /\ q.mounted = p.mounted
        /\ q.stage = "failed"
    BY StagedIs DEF JoinInv, Stages
  <2>4. PostsOK'
    <3> HIDE DEF q
    <3>1. posts' = (posts \ {p}) \cup {q}
      BY <1>3 DEF q
    <3> QED BY <1>0, <1>1, <2>3, <3>1, OnePost DEF JoinInv
  <2> QED BY <1>3, <2>4, ServerStays, TabStays, PickerStays, ListsStay, QuotesStay, FreeStays
          DEF ServePost, JoinInv, page, server
<1>4. CASE /\ Refusal(p) = None /\ mints < MaxMints
           /\ mints' = mints + 1
           /\ hold' = [id |-> mints + 1, slot |-> p.slot, price |-> Worth(p.code),
                       shown |-> p.shown]
           /\ \E answer \in {"minted", "failed"} :
                posts' = (posts \ {p}) \cup {[p EXCEPT !.stage = answer, !.token = mints + 1]}
  <2>0. mints \in Nat /\ freed \in Nat /\ MaxMints \in Nat /\ freed <= mints /\ mints + 1 \in Sessions
    BY <1>4, JoinAssumption DEF JoinInv, ServerOK, Sessions
  <2>1. PICK st \in {"minted", "failed"} :
          posts' = (posts \ {p}) \cup {[p EXCEPT !.stage = st, !.token = mints + 1]}
    BY <1>4
  <2> DEFINE q == [p EXCEPT !.stage = st, !.token = mints + 1]
  <2>2. /\ q \in Post /\ q.shown = p.shown /\ q.code = p.code /\ q.mounted = p.mounted
        /\ q.stage = st /\ q.token = mints + 1
    <3>1. PICK tk \in Sessions : tk = mints + 1
      BY <2>0
    <3>2. st \in Stages /\ PostsOK
      BY DEF JoinInv, Stages
    <3> QED BY ZenonT(40), <3>1, <3>2, MintedIs
  <2>3. PostsOK'
    <3> HIDE DEF q
    <3>1. posts' = (posts \ {p}) \cup {q}
      BY <2>1 DEF q
    <3> QED BY <1>0, <1>1, <2>0, <2>2, <3>1, OnePost DEF JoinInv
  <2>4. hold' \in Hold /\ hold'.shown = hold'.price
    BY <1>0, <1>4, <2>0 DEF Hold
  <2>5. ServerOK'
    BY <1>4, <2>0, <2>4 DEF ServePost, JoinInv, ServerOK, PriceShownIsCharged
  <2> QED BY <2>3, <2>5, TabStays, PickerStays, ListsStay, QuotesStay, FreeStays
          DEF ServePost, JoinInv, page
<1> QED BY <1>2, <1>3, <1>4 DEF ServePost

LEMMA ToStripeKeeps ==
  ASSUME JoinInv, NEW p \in posts, ToStripe(p) PROVE JoinInv'
<1>1. p \in Post /\ p.token \in Sessions /\ stash = None /\ p.slot \in Slots
  BY DEF JoinInv, PostsOK, ToStripe, Post
<1>2. /\ at' = "stripe" /\ session' = p.token /\ ahead' = None /\ FreshPage
      /\ stash' = [token |-> p.token, slot |-> p.slot] \/ stash' = None
      /\ UNCHANGED <<server, receipt, paid>>
  BY <1>1 DEF ToStripe
<1>3. stash' \in Stash \cup {None} /\ (stash' # None => stash'.token = p.token)
  BY <1>1, <1>2 DEF Stash
<1>4. TabOK'
  BY <1>1, <1>2, <1>3 DEF JoinInv, TabOK, StashIsOfThisCheckout
<1> QED BY <1>2, <1>4, ServerStays, FreshPageKeeps DEF JoinInv

LEMMA PostFailsKeeps ==
  ASSUME JoinInv, NEW p \in posts, PostFails(p) PROVE JoinInv'
<1>1. p.mounted => modal # None
  BY DEF JoinInv, PostsOK
<1>2. modal' = modal \/ (modal # None /\ modal' \in Modal)
  BY <1>1 DEF PostFails, Modal
<1>3. modal # None => modal' # None
  BY <1>2, NoneAssumption
<1>4. PickerOK'
  BY <1>2 DEF PostFails, JoinInv, PickerOK
<1>5. PostsOK'
  BY <1>3 DEF PostFails, JoinInv, PostsOK, tab
<1> QED BY <1>4, <1>5, ServerStays, TabStays, ListsStay, QuotesStay, FreeStays
        DEF PostFails, JoinInv, server

(***************************************************************************)
(* The release on the way back, other buyers and time.                     *)
(***************************************************************************)
LEMMA ServeFreeKeeps ==
  ASSUME JoinInv, ServeFree PROVE JoinInv'
<1>1. ServerOK' /\ freed' \in Nat /\ freed \in Nat /\ freed <= freed'
  BY ReleaseKeeps DEF ServeFree, JoinInv
<1>2. ListsOK'
  BY <1>1, ListsAfterRelease DEF ServeFree, JoinInv, page
<1>3. FreeOK'
  BY DEF ServeFree, JoinInv, FreeOK
<1> QED BY <1>1, <1>2, <1>3, TabStays, PickerStays, QuotesStay, PostsStay
        DEF ServeFree, JoinInv, page

LEMMA FreeReturnsKeeps ==
  ASSUME JoinInv, FreeReturns PROVE JoinInv'
<1>1. freed \in 0 .. MaxMints /\ mustSee' = freed /\ free' = None
      /\ UNCHANGED <<server, tab, arrival, tier>>
  BY DEF JoinInv, ServerOK, FreeReturns
<1>2. CASE buy = None /\ UNCHANGED <<buy, modal, lists, quotes, posts>>
  <2>1. ListsOK'
    BY <1>1, <1>2 DEF JoinInv, ListsOK, server
  <2>2. FreeOK'
    BY <1>1 DEF FreeOK
  <2> QED BY <1>1, <1>2, <2>1, <2>2, ServerStays, TabStays, PickerStays, QuotesStay, PostsStay
          DEF JoinInv
<1>3. CASE buy # None /\ ReadAgain(buy)
  <2>1. buy \in Buying /\ mustSee' \in 0 .. MaxMints /\ mustSee' <= freed
    BY <1>1, <1>3 DEF JoinInv, PickerOK
  <2> QED BY <1>1, <1>3, <2>1, ReadAgainKeeps
<1> QED BY <1>2, <1>3 DEF FreeReturns

LEMMA WorldKeeps ==
  ASSUME JoinInv, Lapse \/ (\E s \in Slots : OtherBuyer(s)) PROVE JoinInv'
<1>1. moves + 1 \in 0 .. MaxMoves
  BY JoinAssumption DEF JoinInv, ServerOK, Lapse, OtherBuyer
<1>2. ServerOK' /\ freed' = freed
  BY <1>1 DEF JoinInv, ServerOK, PriceShownIsCharged, Lapse, OtherBuyer
<1> QED BY <1>2, TabStays, PickerStays, ListsStay, QuotesStay, PostsStay, FreeStays
        DEF Lapse, OtherBuyer, JoinInv, requests, page

LEMMA DismissKeeps ==
  ASSUME JoinInv, DismissReceipt PROVE JoinInv'
<1>1. TabOK' /\ stash' = stash
  BY DEF JoinInv, TabOK, StashIsOfThisCheckout, DismissReceipt
<1> QED BY <1>1, ServerStays, PickerStays, ListsStay, QuotesStay, PostsStay, FreeStays
        DEF DismissReceipt, JoinInv, requests, page, server

(***************************************************************************)
(* Every step keeps the invariant.                                         *)
(***************************************************************************)
LEMMA StutterKeeps ==
  ASSUME JoinInv, UNCHANGED vars PROVE JoinInv'
BY ServerStays, TabStays, PickerStays, ListsStay, QuotesStay, PostsStay, FreeStays
   DEF JoinInv, vars, server, tab, requests, page

LEMMA JoinStep ==
  ASSUME JoinInv, [Next]_vars PROVE JoinInv'
<1>1. ASSUME Cancel \/ Back \/ Forward \/ Reload \/ Pay \/ DismissReceipt PROVE JoinInv'
  BY <1>1, CancelKeeps, LeavingKeeps, PayKeeps, DismissKeeps
<1>2. ASSUME \E t \in Tiers : PickTier(t) PROVE JoinInv'
  BY <1>2, PickTierKeeps
<1>3. ASSUME NEW l \in lists, ServeList(l) \/ ListReturns(l) \/ ListFails(l) PROVE JoinInv'
  BY <1>3, ServeListKeeps, ListReturnsKeeps, ListFailsKeeps
<1>4. ASSUME Retry \/ AskQuote \/ Submit PROVE JoinInv'
  BY <1>4, RetryKeeps, AskQuoteKeeps, SubmitKeeps
<1>5. ASSUME Buy \/ (\E s \in Slots : ClickSlot(s)) \/ (\E c \in Codes \cup {None} : TypeCode(c))
      PROVE  JoinInv'
  BY <1>5, ClickingKeeps
<1>6. ASSUME Close \/ AskDesk PROVE JoinInv'
  BY <1>6, CloseKeeps
<1>7. ASSUME NEW q \in quotes, QuoteReturns(q) PROVE JoinInv'
  BY <1>7, QuoteReturnsKeeps
<1>8. ASSUME NEW p \in posts,
             ServeRelease(p) \/ GoOn(p) \/ ServePost(p) \/ ToStripe(p) \/ PostFails(p)
      PROVE  JoinInv'
  BY <1>8, ServeReleaseKeeps, GoOnKeeps, ServePostKeeps, ToStripeKeeps, PostFailsKeeps
<1>9. ASSUME ServeFree \/ FreeReturns PROVE JoinInv'
  BY <1>9, ServeFreeKeeps, FreeReturnsKeeps
<1>10. ASSUME Lapse \/ (\E s \in Slots : OtherBuyer(s)) PROVE JoinInv'
  BY <1>10, WorldKeeps
<1>11. ASSUME UNCHANGED vars PROVE JoinInv'
  BY <1>11, StutterKeeps
<1> QED BY <1>1, <1>2, <1>3, <1>4, <1>5, <1>6, <1>7, <1>8, <1>9, <1>10, <1>11 DEF Next

(***************************************************************************)
(* The theorems.                                                           *)
(***************************************************************************)

(* The invariant holds in every reachable state.                           *)
LEMMA JoinInvariant == Spec => []JoinInv
<1>1. Init => JoinInv
  BY InitKeeps
<1>2. JoinInv /\ [Next]_vars => JoinInv'
  BY JoinStep
<1> QED BY <1>1, <1>2, PTL DEF Spec

(* Every variable of the tab and of the server it sees keeps its type.     *)
THEOREM JoinTypes == Spec => []TypeOK
<1>1. JoinInv => TypeOK
  <2>1. ServerOK => /\ hold \in Hold \cup {None} /\ others \subseteq Slots /\ sold \subseteq Slots
                    /\ mints \in 0 .. MaxMints /\ freed \in 0 .. MaxMints
                    /\ moves \in 0 .. MaxMoves
    BY DEF ServerOK
  <2> QED BY <2>1 DEF JoinInv, TabOK, PickerOK, ListsOK, QuotesOK, PostsOK, FreeOK, TypeOK
<1> QED BY <1>1, JoinInvariant, PTL

(* The session's price is the price the confirm panel showed: a quote that *)
(* returns after the code or the slot changed was given up, and one that   *)
(* is still awaited is of the code in the field (ExclusiveBuy.tsx, the     *)
(* code effect; ExclusiveCheckoutModal.tsx, submit).                       *)
THEOREM PriceIsCharged == Spec => []PriceShownIsCharged
<1>1. JoinInv => PriceShownIsCharged
  BY DEF JoinInv, ServerOK
<1> QED BY <1>1, JoinInvariant, PTL

(* On Stripe the stash names the session the tab is on, and the receipt    *)
(* greets the buyer with what was paid or with nothing: a create goes out  *)
(* only when the stash of an earlier checkout is gone, and the stash that  *)
(* Back leaves is of the session Forward returns to (exclusive.ts;         *)
(* ExclusiveCheckoutModal.tsx, submit).                                    *)
THEOREM StashIsCurrent == Spec => []StashIsOfThisCheckout
<1>1. JoinInv => StashIsOfThisCheckout
  BY DEF JoinInv, TabOK
<1> QED BY <1>1, JoinInvariant, PTL

(* The list on screen was read after the release on the way back was       *)
(* answered: the refresh supersedes every list still in flight             *)
(* (join/index.tsx, the released effect).                                  *)
THEOREM ReleaseIsReread == Spec => []ReleasedSlotReread
<1>1. JoinInv => ReleasedSlotReread
  BY DEF JoinInv, ListsOK, ReleasedSlotReread
<1> QED BY <1>1, JoinInvariant, PTL
=============================================================================
