------------------------------- MODULE Viewer -------------------------------
(***************************************************************************)
(* The KiCad viewer (public/pages/viewer/index.tsx), the canvas that mounts *)
(* a renderer for it (components/kicad/DesignCanvas.tsx), the controller    *)
(* that drives the renderer (kicanvasController.ts), and the board controls *)
(* of the panel (boardView.ts).                                             *)
(*                                                                          *)
(* The renderer holds one viewer per view.  A page switch starts a load in  *)
(* the viewer of that page unless it holds the document already; the load   *)
(* ends in a later turn, with an event and with the selection cleared.  An  *)
(* activation that waits for that end, or for its budget, is a job; so is   *)
(* what a focus or an outline still has to do when its activation is        *)
(* through.  Instances of one sheet file share a document, and a page is    *)
(* its document here; loads of one view that overlap end together.          *)
(***************************************************************************)
EXTENDS Naturals, Sequences, SequencesExt

CONSTANTS Sheets, Root,     \* the schematic's sheets and its root sheet
          Board,            \* the board's document
          Dropped,          \* sheets the renderer cannot be given
          Refs, SheetOf,    \* SheetOf[r]: the sheet the parts list names for r, or None
          DrawnOn,          \* DrawnOn[r]: the documents that have the part
          Looks, Plain, Lit,\* board panel states: the default, one with a net lit
          MaxMoves,         \* bound: gestures of the reader
          MaxOpens,         \* bound: projects opened
          MaxFails,         \* bound: mounts that fail
          None

Views == {"schematic", "board"}
Docs  == Sheets \cup {Board}
Tabs  == Views \cup {"other"}   \* "other": the BOM, stackup and 3D tabs
ViewOf(d) == IF d = Board THEN "board" ELSE "schematic"
Toast == [ref : Refs \cup {None}, says : {"focused", "not-found", "unsupported", "dropped"}]

ASSUME ViewerAssumption ==
  /\ Root \in Sheets \ Dropped /\ Board \notin Sheets /\ Dropped \subseteq Sheets
  /\ SheetOf \in [Refs -> Sheets \cup {None}]
  /\ DrawnOn \in [Refs -> SUBSET Docs]
  /\ {Plain, Lit} \subseteq Looks
  /\ None \notin Docs \cup Refs \cup Toast
  /\ MaxMoves \in Nat /\ MaxOpens \in Nat \ {0} /\ MaxFails \in Nat

VARIABLES
  page,     \* the page's React state and refs
  state,    \* DesignCanvas: the state its controller last reported
  canvas,   \* the controller and the renderer it mounted
  toast,    \* the answer on screen
  moves, opens, fails   \* gestures, projects and failed mounts so far

vars == <<page, state, canvas, toast, moves, opens, fails>>

Page == [session : BOOLEAN, tab : Tabs, sheet : Sheets \cup {None},
         selected : Refs \cup {None},
         shown : [Views -> Refs \cup {None}],   \* what each drawing last reported
         pending : Refs \cup {None},            \* pendingFocus
         look : Looks, applied : Looks]         \* boardView, canvasApplied

Job == [kind : {"mount", "host", "focus", "outline"},
        doc : Docs \cup {None},      \* the page it activates
        ref : Refs \cup {None},      \* the part it selects then
        on : Views, before : Refs \cup {None},   \* outline: the record it keeps honest
        stage : {"waits", "polls", "decided"},
        outcome : {"ok", "superseded", "failed", "focused", "not-found", "unsupported"},
        newest : BOOLEAN,            \* its number is still the controller's
        registered : BOOLEAN,        \* its watch is the one recorded as in flight
        current : BOOLEAN,           \* no gesture has claimed the view since
        project : 1 .. MaxOpens]

(* The load of a view that has not ended: an activation waits for it, or    *)
(* none does, because the embed started it or a wait for it was given up.   *)
Loads == {"none", "watched", "unwatched"}

Canvas == [page : Docs \cup {None},
           doc : [Views -> Docs \cup {None}],
           tail : [Views -> Loads],
           sel : [Views -> Refs \cup {None}],
           flying : [Views -> BOOLEAN],  \* inFlight: a watch not seen to fire
           given : Looks,                \* how the board is drawn
           jobs : Seq(Job)]

NoCanvas == [page |-> None, doc |-> [v \in Views |-> None],
             tail |-> [v \in Views |-> "none"], sel |-> [v \in Views |-> None],
             flying |-> [v \in Views |-> FALSE], given |-> Plain, jobs |-> <<>>]

FreshPage == [session |-> TRUE, tab |-> "schematic", sheet |-> None, selected |-> None,
              shown |-> [v \in Views |-> None], pending |-> None,
              look |-> Plain, applied |-> Plain]

NewJob(kind, doc, ref) ==
  [kind |-> kind, doc |-> doc, ref |-> ref, on |-> "schematic", before |-> None,
   stage |-> "decided", outcome |-> "ok", newest |-> TRUE, registered |-> FALSE,
   current |-> TRUE, project |-> opens]

-----------------------------------------------------------------------------
(* The controller, as functions of the canvas.                              *)

EachJob(c, f(_)) == [c EXCEPT !.jobs = [i \in DOMAIN c.jobs |-> f(c.jobs[i])]]

(* activateFor, up to its first await: it numbers itself, decides whether a *)
(* load is to be waited for, and switches the page, which has the viewer of *)
(* its view load the document unless it is there.  A dropped sheet has no   *)
(* page.                                                                    *)
Held(c, d) == c.doc[ViewOf(d)] = d

Waits(c, d) == ~Held(c, d) \/ c.flying[ViewOf(d)]
Outdated(c) == EachJob(c, LAMBDA j : [j EXCEPT !.newest = @ /\ j.project # opens])

Load(c, d) ==
  IF Held(c, d) THEN c
  ELSE [c EXCEPT !.doc[ViewOf(d)] = d, !.tail[ViewOf(d)] = "watched"]

Switched(c, d) == [Load(c, d) EXCEPT !.page = d]

Rearmed(c, v) ==
  [EachJob(c, LAMBDA j : [j EXCEPT !.registered = @ /\ ViewOf(j.doc) # v])
   EXCEPT !.flying[v] = TRUE]

Activate(c, job) ==
  LET d     == job.doc
      armed == IF Held(c, d) THEN Outdated(c) ELSE Rearmed(Outdated(c), ViewOf(d))
      asked == [job EXCEPT !.stage = IF Waits(c, d) THEN "waits" ELSE "decided",
                           !.registered = Waits(c, d)]
  IN  IF c.page = None \/ d \in Dropped
      THEN [Outdated(c) EXCEPT !.jobs = Append(@, [job EXCEPT !.outcome = "failed"])]
      ELSE [Switched(armed, d) EXCEPT !.jobs = Append(@, asked)]

(* viewer.select on the app of the active page: the part, or nothing when   *)
(* the document does not have it.                                           *)
Has(c, r) == c.page # None /\ r # None /\ c.page \in DrawnOn[r]
Select(c, r) ==
  IF c.page = None THEN c
  ELSE [c EXCEPT !.sel[ViewOf(c.page)] = IF Has(c, r) THEN r ELSE None]

(* The host learns of a selection the controller made or let through.       *)
Reported(p, c, r) == [p EXCEPT !.shown[ViewOf(c.page)] = r, !.selected = r]

-----------------------------------------------------------------------------
(* The page, as functions of its state and of the canvas.  Each result is   *)
(* a pair, so that one gesture can run the handler and then the effects of  *)
(* the commit it causes.                                                    *)

World(p, c) == [p |-> p, c |-> c]

View(p) == IF p.tab = "board" THEN "board" ELSE "schematic"
Wanted(p) == IF p.tab = "board" THEN Board ELSE IF p.sheet = None THEN Root ELSE p.sheet
HostDeps(p) == <<View(p), IF p.tab = "board" THEN None ELSE p.sheet>>

(* DesignCanvas: a changed view or sheet is activated.                      *)
HostEffect(from, w) ==
  IF HostDeps(from) = HostDeps(w.p) THEN w
  ELSE World(w.p, Activate(w.c, NewJob("host", Wanted(w.p), None)))

(* applyToCanvas: nothing is sent unless the board is on screen, and only   *)
(* what differs from the record of what was sent.                           *)
Apply_RecordsAlways(w) ==
  LET sent == IF w.c.page # Board \/ w.p.look = w.p.applied THEN w.c
              ELSE [w.c EXCEPT !.given = w.p.look]
  IN  World([w.p EXCEPT !.applied = w.p.look], sent)

Apply(w) ==
  IF w.c.page # Board \/ w.c.doc["board"] # Board THEN w
  ELSE World([w.p EXCEPT !.applied = w.p.look],
             IF w.p.look = w.p.applied THEN w.c ELSE [w.c EXCEPT !.given = w.p.look])

LookEffect(from, w) ==
  IF <<from.tab, from.look>> # <<w.p.tab, w.p.look>> /\ w.p.tab = "board" THEN Apply(w) ELSE w

(* focusRef and selectRef of a part whose sheet or view is named: the       *)
(* activation first.  Without one, the part is selected at once.            *)
Outline(w, v, d, r) ==
  LET job == [NewJob("outline", d, r) EXCEPT !.on = v, !.before = w.p.shown[v]]
  IN  World(w.p, Activate(w.c, job))

SelectNow(w, kind, r) ==
  LET found == Has(w.c, r)
      job   == [NewJob(kind, None, r) EXCEPT
                  !.outcome = IF w.c.page = None THEN "unsupported"
                              ELSE IF found THEN "focused" ELSE "not-found",
                  !.before = w.p.shown["schematic"]]
      chosen == [Select(w.c, r) EXCEPT !.jobs = Append(@, job)]
  IN  World(IF found THEN Reported(w.p, w.c, r) ELSE w.p, chosen)

(* The selection is carried to the drawing the reader arrives at.           *)
Carry(w) ==
  LET r == w.p.selected
      t == w.p.tab
  IN  IF r = None
      THEN IF w.p.shown[t] = None THEN w
           ELSE World([w.p EXCEPT !.shown[t] = None], Select(w.c, None))
      ELSE IF w.p.shown[t] = r THEN w
      ELSE IF t = "board" THEN Outline(w, t, Board, r)
      ELSE IF SheetOf[r] = None THEN SelectNow(w, "outline", r)
      ELSE IF SheetOf[r] \in Dropped THEN w
      ELSE LET named == [w.p EXCEPT !.sheet = SheetOf[r]]
           IN  HostEffect(w.p, World(named, Outline(w, t, SheetOf[r], r).c))

SyncEffect(from, w) ==
  IF <<from.tab, from.selected>> = <<w.p.tab, w.p.selected>> \/ w.p.tab = "other"
  THEN w ELSE Carry(w)

(* The commit that makes the canvas ready runs every effect; a focus that   *)
(* is owed runs next, in FocusOwed.                                         *)
Ready(w) ==
  LET hosted == World(w.p, Activate(w.c, NewJob("host", Wanted(w.p), None)))
      drawn  == IF w.p.tab = "board" THEN Apply(hosted) ELSE hosted
  IN  IF w.p.tab = "other" THEN drawn ELSE Carry(drawn)

(* React commits what a handler left, and runs the effects in order.        *)
Commit(w) ==
  LET done == IF state # "ready" THEN w
              ELSE SyncEffect(page, LookEffect(page, HostEffect(page, w)))
  IN  page' = done.p /\ canvas' = done.c

-----------------------------------------------------------------------------
(* The reader.                                                              *)

Busy    == \E i \in DOMAIN canvas.jobs : canvas.jobs[i].stage = "decided"
Owed    == page.pending # None /\ state = "ready"   \* a focus due in this turn
Gesture == ~Busy /\ ~Owed /\ page.session /\ moves < MaxMoves /\ moves' = moves + 1
           /\ UNCHANGED <<state, opens, fails>>

Claimed(c) == EachJob(c, LAMBDA j : [j EXCEPT !.current = FALSE])

(* focus(ref): the page names the part and its sheet, then asks the canvas, *)
(* which hears of the new sheet from the commit only afterwards.            *)
FocusOn_KeepsTab(w, r) ==
  LET sheet == SheetOf[r]
      named == [w.p EXCEPT !.selected = r, !.sheet = IF sheet = None THEN @ ELSE sheet]
  IN  IF sheet # None /\ sheet \in Dropped
      THEN World([w.p EXCEPT !.selected = r], Claimed(w.c))
      ELSE IF sheet = None THEN SelectNow(World(named, Claimed(w.c)), "focus", r)
      ELSE World(named, Activate(Claimed(w.c), NewJob("focus", sheet, r)))

FocusOn(w, r) ==
  LET sheet == SheetOf[r]
      named == [w.p EXCEPT !.selected = r, !.tab = "schematic",
                           !.sheet = IF sheet = None THEN @ ELSE sheet]
  IN  IF sheet # None /\ sheet \in Dropped
      THEN World([w.p EXCEPT !.selected = r], Claimed(w.c))
      ELSE IF sheet = None THEN SelectNow(World(named, Claimed(w.c)), "focus", r)
      ELSE World(named, Activate(Claimed(w.c), NewJob("focus", sheet, r)))

Says(r, what) == toast' = [ref |-> r, says |-> what]

Focus(p, r) ==
  /\ Commit(FocusOn(World(p, canvas), r))
  /\ IF SheetOf[r] \in Dropped THEN Says(r, "dropped") ELSE UNCHANGED toast

ChooseTab(t) ==
  /\ Gesture /\ t # page.tab
  /\ Commit(World([page EXCEPT !.tab = t], canvas))
  /\ UNCHANGED toast

ChooseSheet(d) ==
  /\ Gesture
  /\ Commit(World(IF d \in Dropped THEN page ELSE [page EXCEPT !.sheet = d, !.tab = "schematic"],
                  Claimed(canvas)))
  /\ IF d \in Dropped THEN Says(None, "dropped") ELSE UNCHANGED toast

(* A click in the drawing on screen, which reports what it selected.        *)
ClickPart(r) ==
  /\ Gesture /\ state = "ready" /\ page.tab \in Views
  /\ r # canvas.sel[page.tab] /\ (r = None \/ Has(canvas, r))
  /\ Commit(World(Reported(page, canvas, r), Select(canvas, r)))
  /\ UNCHANGED toast

(* A designator chip of the BOM tab.                                        *)
ClickChip(r) == Gesture /\ page.tab = "other" /\ SheetOf[r] # None /\ Focus(page, r)

(* A #ref that arrives while the page is mounted.                           *)
FollowLink(r) ==
  /\ Gesture
  /\ IF state = "ready" THEN Focus(page, r)
     ELSE page' = [page EXCEPT !.pending = r] /\ UNCHANGED <<canvas, toast>>

(* A pick in the 3D view.                                                   *)
Pick(r) ==
  /\ Gesture /\ page.tab = "other" /\ r # page.selected
  /\ Commit(World([page EXCEPT !.selected = r], canvas))
  /\ UNCHANGED toast

FocusBoard(p, r) ==
  LET claimed == [p EXCEPT !.shown["board"] = r]
  IN  Commit(Outline(World(claimed, canvas), "board", Board, r)) /\ UNCHANGED toast

(* The panel's search, once the text names a part of the project.           *)
Search(r) ==
  /\ Gesture
  /\ CASE page.tab = "schematic" -> Focus(page, r)
       [] page.tab = "board"     -> FocusBoard([page EXCEPT !.selected = r], r)
       [] page.tab = "other"     -> Commit(World([page EXCEPT !.selected = r], canvas))
                                    /\ UNCHANGED toast

ShowOn(t) ==
  /\ Gesture /\ page.selected # None
  /\ CASE t = "schematic" -> Focus(page, page.selected)
       [] t = "board" ->
            LET w == Outline(World([page EXCEPT !.tab = t, !.shown[t] = page.selected],
                                   Claimed(canvas)), t, Board, page.selected)
            IN  Commit(w) /\ UNCHANGED toast
       [] t = "other" -> Commit(World([page EXCEPT !.tab = t], Claimed(canvas))) /\ UNCHANGED toast

(* Esc puts out a lit net first, and clears the selection next.             *)
Escape ==
  /\ Gesture
  /\ Commit(IF page.tab # "schematic" /\ page.look = Lit
            THEN World([page EXCEPT !.look = Plain], canvas)
            ELSE World([page EXCEPT !.selected = None], Claimed(canvas)))
  /\ UNCHANGED toast

(* The Layers and Objects tabs of the panel, for the board and the 3D view. *)
SetLook(l) ==
  /\ Gesture /\ page.tab # "schematic" /\ l # page.look
  /\ Commit(World([page EXCEPT !.look = l], canvas))
  /\ UNCHANGED toast

ToastFades == toast # None /\ toast' = None /\ UNCHANGED <<page, state, canvas, moves, opens, fails>>

(* The project is put away: its canvas goes, what it still owed does not.   *)
OpenAnother ==
  /\ ~Busy /\ ~Owed /\ page.session /\ moves < MaxMoves
  /\ page' = [FreshPage EXCEPT !.session = FALSE, !.tab = page.tab]
  /\ canvas' = [NoCanvas EXCEPT !.jobs = canvas.jobs]
  /\ state' = "loading" /\ toast' = None /\ moves' = moves + 1
  /\ UNCHANGED <<opens, fails>>

(* The guide opens the example on a part of it, a reader's own project opens *)
(* on none.                                                                  *)
OpenProject(r) ==
  /\ ~Busy /\ ~page.session /\ opens < MaxOpens /\ moves < MaxMoves
  /\ page' = [FreshPage EXCEPT !.pending = r]
  /\ state' = "loading" /\ opens' = opens + 1 /\ moves' = moves + 1
  /\ UNCHANGED <<canvas, toast, fails>>

-----------------------------------------------------------------------------
(* The canvas and its renderer.                                             *)

Alive(j) == j.project = opens /\ page.session

(* The embed opens the first page, which is the board; the mount then       *)
(* activates the schematic and reports ready once that is through.          *)
Opened(c) == [Switched(c, Board) EXCEPT !.tail["board"] = "unwatched"]

EmbedReady ==
  /\ ~Busy /\ page.session /\ state = "loading"
  /\ state' = "opening"
  /\ canvas' = Activate(Opened([NoCanvas EXCEPT !.jobs = canvas.jobs]), NewJob("mount", Root, None))
  /\ UNCHANGED <<page, toast, moves, opens, fails>>

MountFails ==
  /\ ~Busy /\ page.session /\ state = "loading" /\ fails < MaxFails
  /\ state' = "failed" /\ fails' = fails + 1
  /\ UNCHANGED <<page, canvas, toast, moves, opens>>

TryAgain ==
  /\ ~Busy /\ state = "failed" /\ state' = "loading"
  /\ UNCHANGED <<page, canvas, toast, moves, opens, fails>>

(* A load ends: its event, then the deselect, which is not the reader's.    *)
(* It waits for a canvas with a size, so it may come late.                  *)
LoadTail(v) ==
  LET ended == [EachJob(canvas, LAMBDA j :
                          IF j.stage = "waits" /\ ViewOf(j.doc) = v /\ Alive(j)
                          THEN [j EXCEPT !.stage = "polls"] ELSE j)
                EXCEPT !.tail[v] = "none", !.flying[v] = FALSE, !.sel[v] = None]
      w == IF v = "board" THEN Apply(World(page, ended)) ELSE World(page, ended)
  IN  /\ ~Busy /\ ~Owed /\ canvas.tail[v] # "none"
      /\ page' = w.p /\ canvas' = w.c
      /\ UNCHANGED <<state, toast, moves, opens, fails>>

(* settle returns: its load was seen to end, or its budget is spent, which  *)
(* may happen at any time before.  A watch given up is forgotten, if it is  *)
(* still the one recorded for its view.                                     *)
Outcome(j) == IF ~j.newest THEN "superseded" ELSE IF Alive(j) THEN "ok" ELSE "failed"

GivenUp_ForgetsAny(c, j) ==
  LET v     == ViewOf(j.doc)
      spent == j.stage = "waits" /\ Alive(j)
  IN  [c EXCEPT !.flying[v] = @ /\ ~spent,
                !.tail[v] = IF spent /\ j.registered THEN "unwatched" ELSE @]

GivenUp(c, j) ==
  LET v     == ViewOf(j.doc)
      spent == j.stage = "waits" /\ Alive(j) /\ j.registered
  IN  [c EXCEPT !.flying[v] = @ /\ ~spent, !.tail[v] = IF spent THEN "unwatched" ELSE @]

Settled(c, i) ==
  [GivenUp(c, c.jobs[i]) EXCEPT !.jobs[i].stage = "decided", !.jobs[i].outcome = Outcome(c.jobs[i])]

Poll(i) ==
  /\ ~Busy /\ ~Owed /\ canvas.jobs[i].stage \in {"waits", "polls"}
  /\ canvas' = Settled(canvas, i)
  /\ UNCHANGED <<page, state, toast, moves, opens, fails>>

(* What follows an activation runs before anything else can.                *)
Showing(j) == Alive(j) /\ canvas.page = j.doc
Goes(j) == j.outcome = "ok" \/ (j.outcome = "superseded" /\ Showing(j))

Result(j) ==
  IF j.outcome \in {"focused", "not-found", "unsupported"} THEN j.outcome
  ELSE IF Goes(j) THEN IF Has(canvas, j.ref) THEN "focused" ELSE "not-found"
  ELSE IF j.outcome = "failed" THEN "not-found" ELSE "superseded"

Chosen_TakesBack(j, w) ==
  IF Goes(j) THEN World(IF Has(w.c, j.ref) THEN Reported(w.p, w.c, j.ref) ELSE w.p, Select(w.c, j.ref))
  ELSE IF j.outcome = "superseded" /\ Alive(j) THEN World(w.p, Activate(w.c, NewJob("host", j.doc, None)))
  ELSE w

Chosen(j, w) ==
  IF ~Goes(j) THEN w
  ELSE World(IF Has(w.c, j.ref) THEN Reported(w.p, w.c, j.ref) ELSE w.p, Select(w.c, j.ref))

Honest(j, p) ==
  IF Result(j) = "not-found" /\ p.shown[j.on] = j.before
  THEN [p EXCEPT !.shown[j.on] = None] ELSE p

Redrawn(j, w) == IF j.outcome = "ok" /\ j.doc = Board THEN Apply(w) ELSE w

Finish(i) ==
  LET j    == canvas.jobs[i]
      rest == [canvas EXCEPT !.jobs = RemoveAt(@, i)]
      w    == Redrawn(j, World(page, rest))
  IN  /\ j.stage = "decided"
      /\ \A k \in 1 .. i - 1 : canvas.jobs[k].stage # "decided"
      /\ CASE j.kind = "mount" /\ Alive(j) ->
                LET all == Ready(w)
                IN  page' = all.p /\ canvas' = all.c /\ state' = "ready" /\ UNCHANGED toast
           [] j.kind = "host" \/ (j.kind = "mount" /\ ~Alive(j)) ->
                page' = w.p /\ canvas' = w.c /\ UNCHANGED <<state, toast>>
           [] j.kind = "focus" ->
                /\ Commit(Chosen(j, w)) /\ UNCHANGED state
                /\ IF j.current /\ Result(j) # "superseded" THEN Says(j.ref, Result(j))
                   ELSE UNCHANGED toast
           [] j.kind = "outline" ->
                LET chosen == Chosen(j, w)
                IN  Commit(World(Honest(j, chosen.p), chosen.c)) /\ UNCHANGED <<state, toast>>
      /\ UNCHANGED <<moves, opens, fails>>

(* A focus the page owed the canvas, in the commit that made it ready.      *)
FocusOwed ==
  /\ ~Busy /\ Owed
  /\ Focus([page EXCEPT !.pending = None], page.pending)
  /\ UNCHANGED <<state, moves, opens, fails>>

-----------------------------------------------------------------------------
Init ==
  /\ page = FreshPage /\ state = "loading" /\ canvas = NoCanvas /\ toast = None
  /\ moves = 0 /\ opens = 1 /\ fails = 0

Reader ==
  \/ \E t \in Tabs : ChooseTab(t)
  \/ \E d \in Sheets : ChooseSheet(d)
  \/ \E r \in Refs \cup {None} : ClickPart(r)
  \/ \E r \in Refs : ClickChip(r)
  \/ \E r \in Refs : FollowLink(r)
  \/ \E r \in Refs \cup {None} : Pick(r)
  \/ \E r \in Refs : Search(r)
  \/ \E t \in Tabs : ShowOn(t)
  \/ Escape
  \/ \E l \in Looks : SetLook(l)
  \/ OpenAnother
  \/ \E r \in Refs \cup {None} : OpenProject(r)
  \/ TryAgain

System ==
  \/ EmbedReady
  \/ MountFails
  \/ \E v \in Views : LoadTail(v)
  \/ \E i \in DOMAIN canvas.jobs : Poll(i)
  \/ \E i \in DOMAIN canvas.jobs : Finish(i)
  \/ FocusOwed
  \/ ToastFades

Next == Reader \/ System
Spec == Init /\ [][Next]_vars

-----------------------------------------------------------------------------
Quiet == state = "ready" /\ page.session /\ canvas.jobs = <<>> /\ page.pending = None

(* Types of the variables. *)
TypeOK ==
  /\ page \in Page /\ canvas \in Canvas
  /\ \A v \in Views : canvas.flying[v] => canvas.tail[v] = "watched"
  /\ state \in {"loading", "opening", "ready", "failed"}
  /\ toast \in Toast \cup {None}
  /\ moves \in 0 .. MaxMoves /\ opens \in 1 .. MaxOpens /\ fails \in 0 .. MaxFails

(* Once no activation is under way, the page on screen is the one the tab   *)
(* and the sheet list name: however the reader's gestures, the loads they   *)
(* started and the budgets of their waits overtook each other.              *)
OneDrawing == Quiet => canvas.page = Wanted(page)

(* A part is not selected under a load that an activation still waits for,  *)
(* whose tail would clear it again.  Let off are the loads nobody waits for: *)
(* the embed's own, and one that outlived the budget of a wait for it, as   *)
(* the first switch into a hidden app does.                                 *)
SelectsSettled ==
  \A i \in DOMAIN canvas.jobs :
    LET j == canvas.jobs[i]
    IN  j.stage = "decided" /\ j.outcome = "ok" /\ j.ref # None =>
          canvas.tail[ViewOf(j.doc)] # "watched"

(* The board shows what the panel says, also when the panel changed while   *)
(* another view was on screen.                                              *)
BoardFollowsPanel == Quiet /\ page.tab = "board" => canvas.given = page.look

(* Once the canvas is ready, "Focused r" is said of a part the parts list   *)
(* knows only when the drawing the reader looks at has it selected.         *)
FocusedIsShown ==
  [][toast' # toast /\ toast' # None =>
       (toast'.says = "focused" /\ state = "ready" /\ SheetOf[toast'.ref] # None
          => canvas'.sel[View(page')] = toast'.ref)]_vars
=============================================================================
