----------------------------- MODULE Workbench -----------------------------
(***************************************************************************)
(* The BOM workbench of the public site: the hook useBomWorkbench, which   *)
(* prices one parsed BOM, the two pages that mount it (/bom and the BOM    *)
(* tab of /viewer), and the module memory they share: the design session   *)
(* and the priced answers filed against a parse.                           *)
(*                                                                         *)
(* A parse is an identity: the same file read twice is two parses.  The    *)
(* hook's generation counter only ever answers "was this request issued by *)
(* the workbench that exists now?", and every landing asks it first: what  *)
(* bumps the generation therefore takes the hook's requests out of the     *)
(* model, since coming back later they change nothing.                     *)
(***************************************************************************)
EXTENDS Naturals, FiniteSets

CONSTANTS
    Sheets,       \* parses read from a CSV, a workbook or pasted lines
    Designs,      \* parses read from the schematic of a KiCad project
    Unmapped,     \* the sheets whose columns do not say which one is the part
    Unpriceable,  \* parses with an error or with no lines
    Lines,        \* the lines of a BOM
    Unknown,      \* the lines the catalog does not carry
    WithMpn,      \* the lines that name a part number
    Dnp,          \* the lines marked do-not-populate
    Skus,         \* the parts that fit a line the catalog carries
    Best,         \* the one of them the catalog answers with
    ResolveCap,   \* RESOLVE_CAP
    MaxReads,     \* bound: file reads at one time
    MaxPicks      \* bound: picks on one line of one table

ASSUME WorkbenchAssumption ==
    /\ Sheets \cap Designs = {} /\ Unmapped \subseteq Sheets
    /\ Unpriceable \subseteq Sheets \cup Designs
    /\ Lines # {} /\ Unknown \subseteq Lines /\ WithMpn \subseteq Lines /\ Dnp \subseteq Lines
    /\ "none" \notin Sheets \cup Designs /\ Skus \cap {"none", "resolve", "live"} = {}
    /\ Best \in Skus /\ ResolveCap \in Nat \ {0}
    /\ MaxReads \in Nat /\ MaxPicks \in Nat

VARIABLES
    page,     \* the page of this tab
    bench,    \* the hook instance of that page
    memory,   \* module memory: the design session and the priced answers
    calls,    \* requests and file reads that have not come back
    fresh,    \* parses no read has produced yet
    told      \* what the reader was given: answers that landed, picks applied

vars == <<page, bench, memory, calls, fresh, told>>

Parses == Sheets \cup Designs
None == "none"

(***************************************************************************)
(* Data.                                                                   *)
(***************************************************************************)

RowState == {"matched", "resolving", "resolved_live", "not_found", "unavailable"}
TableRow == [of: Parses, state: RowState, answer: Skus \cup {"resolve", "live"}]

Table == [Lines -> TableRow]
NoRows == [l \in {} |-> None]

Page == [at: {"bom", "viewer", "other"}, phase: {"intake", "mapping", "table"},
         parsed: Parses \cup {None}, busy: BOOLEAN, bomSeen: BOOLEAN, linked: BOOLEAN]

Bench == [of: Parses \cup {None}, rows: Table \cup {NoRows}, matching: BOOLEAN,
          failed: BOOLEAN, landed: BOOLEAN, capped: BOOLEAN, stopped: BOOLEAN,
          includeDnp: BOOLEAN, pickSeq: [Lines -> 0..MaxPicks]]

NoBench == [of |-> None, rows |-> NoRows, matching |-> FALSE, failed |-> FALSE,
            landed |-> FALSE, capped |-> FALSE, stopped |-> FALSE,
            includeDnp |-> FALSE, pickSeq |-> [l \in Lines |-> 0]]

Snapshot == [rows: Table, capped: BOOLEAN, stopped: BOOLEAN]
Unpriced == [rows |-> NoRows, capped |-> FALSE, stopped |-> FALSE]

Call == [kind: {"match"}, of: Parses]
   \cup [kind: {"stream"}, of: Parses, left: SUBSET Lines]
   \cup [kind: {"pick"}, of: Parses, line: Lines, sku: Skus, seq: 1..MaxPicks]
   \cup [kind: {"read"}, n: 1..MaxReads, what: {"sheet", "project"}, of: {"bom", "viewer"},
         to: {"intake", "page", "nobody"}]

Waiting(rows) == \E l \in DOMAIN rows : rows[l].state = "resolving"

(***************************************************************************)
(* The hook.                                                               *)
(***************************************************************************)

Abandoned_StreamOnly(cs) == {c \in cs : c.kind # "stream"}

\* Bumping the generation: no answer issued so far lands on the workbench any more.
Abandoned(cs) == {c \in cs : c.kind = "read"}

\* A stream that is over leaves no line waiting: it goes back to its phase-1 answer.
SettleStragglers(rows) ==
    [l \in DOMAIN rows |->
        IF rows[l].state = "resolving" THEN [rows[l] EXCEPT !.state = "matched"] ELSE rows[l]]

\* File an answer against its parse, never an empty one.
Remember(priced, b) ==
    IF b.of = None \/ b.rows = NoRows THEN priced
    ELSE [priced EXCEPT ![b.of] =
            [rows |-> SettleStragglers(b.rows), capped |-> b.capped,
             stopped |-> b.stopped \/ Waiting(b.rows)]]

\* The snapshot effect: every commit that is an answer worth returning to.
Recorded(priced, b) ==
    IF ~b.landed \/ b.matching \/ Waiting(b.rows) THEN priced ELSE Remember(priced, b)

HasLinesToPrice(p) == p # None /\ p \notin Unpriceable

\* The phase-1 effect, for a parse the hook has not spoken for.
Priced(b, p, priced) ==
    LET clear == [b EXCEPT !.of = p, !.rows = NoRows, !.landed = FALSE, !.failed = FALSE]
    IN  CASE ~HasLinesToPrice(p) ->
               [clear EXCEPT !.matching = FALSE, !.capped = FALSE, !.stopped = FALSE]
          [] HasLinesToPrice(p) /\ priced[p] # Unpriced ->
               [clear EXCEPT !.landed = TRUE, !.rows = priced[p].rows, !.matching = FALSE,
                             !.capped = priced[p].capped, !.stopped = priced[p].stopped]
          [] OTHER -> [clear EXCEPT !.matching = TRUE]

\* What a page hands its hook: null until there is something to price.
Handed(pg) ==
    CASE pg.at = "bom" /\ pg.phase = "table" -> pg.parsed
      [] pg.at = "viewer" /\ pg.bomSeen -> pg.parsed
      [] OTHER -> None

\* /bom reads the session as it renders: a chip of a row links to /viewer while the rows are the session's own.
Rendered(pg, mem) ==
    [pg EXCEPT !.linked = pg.at = "bom" /\ pg.parsed # None /\ pg.parsed = mem.session]

\* A filed answer lives as long as its parse: once neither the page nor the session holds it, it is gone (a WeakMap).
Held(p, pg, mem) == p \in {pg.parsed, mem.session}

Kept(mem, pg) == [mem EXCEPT !.priced = [p \in Parses |-> IF Held(p, pg, mem) THEN @[p] ELSE Unpriced]]

KeptTold(t, mem, pg) ==
    [answered |-> {p \in t.answered : Held(p, pg, mem)},
     picks |-> [p \in Parses |-> IF Held(p, pg, mem) THEN t.picks[p] ELSE [l \in Lines |-> None]]]

\* The reader is finished with an answer, or it was given up: what they were given for it no longer binds.
Without(t, p) ==
    IF p = None THEN t
    ELSE [answered |-> t.answered \ {p}, picks |-> [t.picks EXCEPT ![p] = [l \in Lines |-> None]]]

\* Another parse on the same page bins a table whose stream still runs: unlike a page that is left, it files nothing.
Binned(t, b) == IF Waiting(b.rows) THEN Without(t, b.of) ELSE t

\* Everything a commit does: the page drawn, the phase-1 effect if the hook was handed another parse, the snapshot.
Commit(pg, b, mem, cs, t) ==
    LET anew == Handed(pg) # b.of
        b2   == IF anew THEN Priced(b, Handed(pg), mem.priced) ELSE b
        asks == IF anew /\ b2.matching THEN {[kind |-> "match", of |-> b2.of]} ELSE {}
    IN  /\ page' = Rendered(pg, mem)
        /\ bench' = b2
        /\ memory' = Kept([mem EXCEPT !.priced = Recorded(@, b2)], pg)
        /\ calls' = (IF anew THEN Abandoned(cs) ELSE cs) \cup asks
        /\ told' = KeptTold(IF anew THEN Binned(t, b) ELSE t, mem, pg)

\* reset(): back to nothing, the filed answer included.
Reset(b) == [NoBench EXCEPT !.of = b.of]

Forgotten(mem, b) ==
    IF b.of = None THEN mem ELSE [mem EXCEPT !.priced[b.of] = Unpriced]

\* startResolve: which misses phase 2 asks about, the lines with a part number first.
Misses(b) == {l \in Unknown : l \notin Dnp \/ b.includeDnp}

Asked(b) == {S \in SUBSET Misses(b) :
                /\ Cardinality(S) <= ResolveCap
                /\ Cardinality(S) < ResolveCap => S = Misses(b)
                /\ S \subseteq WithMpn \/ Misses(b) \cap WithMpn \subseteq S}

BuildRows(p, asking) ==
    [l \in Lines |-> [of |-> p,
                      state |-> IF l \in asking THEN "resolving" ELSE "matched",
                      answer |-> IF l \in Unknown THEN "resolve" ELSE Best]]

ApplyResolveEvent_FromClosure(rows, p, l, what) ==
    [BuildRows(p, {}) EXCEPT ![l].state = what]

\* An event is folded into the rows on screen, whatever they have become since the stream began.
ApplyResolveEvent(rows, p, l, what) ==
    IF l \notin DOMAIN rows THEN rows
    ELSE [rows EXCEPT ![l] =
            IF what = "resolved_live"
            THEN [of |-> p, state |-> what, answer |-> "live"]
            ELSE [@ EXCEPT !.state = what]]

FoldSimilarPick(rows, c) ==
    IF c.line \notin DOMAIN rows THEN rows
    ELSE [rows EXCEPT ![c.line].answer = c.sku, ![c.line].of = c.of]

(***************************************************************************)
(* The pages.                                                              *)
(***************************************************************************)

Mounted(at, mem) ==
    [at |-> at, phase |-> "intake", busy |-> FALSE, bomSeen |-> FALSE, linked |-> FALSE,
     parsed |-> IF at = "viewer" THEN mem.session ELSE None]

Init ==
    /\ page = Mounted("bom", [session |-> None])
    /\ bench = NoBench
    /\ memory = [session |-> None, priced |-> [p \in Parses |-> Unpriced]]
    /\ calls = {}
    /\ fresh = Parses
    /\ told = [answered |-> {}, picks |-> [p \in Parses |-> [l \in Lines |-> None]]]

IntakeShown ==
    \/ page.at = "bom" /\ page.phase = "intake"
    \/ page.at = "viewer" /\ page.parsed = None

\* The intake is unmounted with its phase: a read it started reports to the page alone.
IntakeGone(cs) ==
    {IF c.kind = "read" /\ c.to = "intake" THEN [c EXCEPT !.to = "page"] ELSE c : c \in cs}

ReadsOrphaned(cs) == {IF c.kind = "read" THEN [c EXCEPT !.to = "nobody"] ELSE c : c \in cs}

TornDown_Drops(mem, b) == mem

\* The hook's teardown, mid-stream rows included.
TornDown(mem, b) == [mem EXCEPT !.priced = IF b.landed THEN Remember(@, b) ELSE @]

\* SPA navigation: the page and its hook are unmounted, module memory stays.
Navigate(to) ==
    LET mem == TornDown(memory, bench) IN
    /\ to # page.at
    /\ page' = Mounted(to, mem)
    /\ bench' = NoBench
    /\ memory' = Kept(mem, page')
    /\ calls' = ReadsOrphaned(Abandoned(calls))
    /\ told' = KeptTold(told, mem, page')
    /\ UNCHANGED fresh

\* BomIntake and ViewerIntake: a drop starts a read; the drop zone takes another while one is running.
Drop(what) ==
    /\ IntakeShown
    /\ page.at = "viewer" => what = "project"
    /\ \E n \in 1..MaxReads :
          /\ \A c \in calls : c.kind = "read" => c.n # n
          /\ calls' = calls \cup {[kind |-> "read", n |-> n, what |-> what, of |-> page.at,
                                   to |-> "intake"]}
    /\ page' = [page EXCEPT !.busy = TRUE]
    /\ UNCHANGED <<bench, memory, fresh, told>>

\* Another parse for /bom: an error stays on the intake, a layout that does not say asks, the rest is priced.
Take(p, phase, pg, mem, cs) ==
    Commit([pg EXCEPT !.parsed = p, !.phase = phase, !.busy = @ /\ phase = "intake"],
           bench, mem, IF phase = "intake" THEN cs ELSE IntakeGone(cs), told)

HandleParsed(p, pg, mem, cs) ==
    Take(p, CASE p \in Unpriceable -> "intake" [] p \in Unmapped -> "mapping" [] OTHER -> "table",
         pg, mem, cs)

\* The text of an unmapped sheet read again with the roles the reader chose: a parse of its own.
Mapped(pg, cs, left) ==
    \E q \in (Sheets \cap left) \ Unmapped :
        HandleParsed(q, pg, memory, cs) /\ fresh' = left \ {q}

\* A sheet is parsed; a layout this browser was asked about before is answered from memory.
HandleSheet(p, pg, cs) ==
    \/ HandleParsed(p, pg, memory, cs) /\ fresh' = fresh \ {p}
    \/ p \in Unmapped /\ Mapped(pg, cs, fresh \ {p})

Ended(c, pg) == [pg EXCEPT !.busy = IF c.to = "intake" THEN FALSE ELSE @]

ReadFails(c) ==
    /\ c.kind = "read"
    /\ calls' = calls \ {c}
    /\ page' = Ended(c, page)
    /\ UNCHANGED <<bench, memory, fresh, told>>

ReadSheet(c, p) ==
    /\ c.kind = "read" /\ c.what = "sheet" /\ c.to # "nobody"
    /\ p \in Sheets \cap fresh
    /\ HandleSheet(p, Ended(c, page), calls \ {c})

\* Publishing a design replaces the session of the tab, whether or not the page that read it is still there.
Publish(p) == [memory EXCEPT !.session = p]

PublishOnly(c, p) ==
    /\ memory' = Kept(Publish(p), page)
    /\ told' = KeptTold(told, memory', page)
    /\ calls' = calls \ {c}
    /\ UNCHANGED <<page, bench>>

\* readKicad: read, decide, then publish and hand over.
ReadForBom(c, p) ==
    /\ c.kind = "read" /\ c.what = "project" /\ c.of = "bom"
    /\ p \in Designs \cap fresh
    /\ fresh' = fresh \ {p}
    /\ CASE p \in Unpriceable ->
              calls' = calls \ {c} /\ page' = Ended(c, page) /\ UNCHANGED <<bench, memory, told>>
         [] p \notin Unpriceable /\ c.to = "nobody" -> PublishOnly(c, p)
         [] OTHER -> HandleParsed(p, Ended(c, page), Publish(p), calls \ {c})

\* handleProject of /viewer opens any readable project.
ReadForViewer(c, p) ==
    /\ c.kind = "read" /\ c.of = "viewer"
    /\ p \in Designs \cap fresh
    /\ fresh' = fresh \ {p}
    /\ IF c.to = "nobody" THEN PublishOnly(c, p)
       ELSE Commit([page EXCEPT !.parsed = p, !.bomSeen = FALSE, !.busy = FALSE],
                   bench, Publish(p), IntakeGone(calls \ {c}), told)

Paste(p) ==
    /\ page.at = "bom" /\ page.phase = "intake" /\ ~page.busy
    /\ p \in Sheets \cap fresh
    /\ HandleSheet(p, page, calls)

MapContinue ==
    /\ page.at = "bom" /\ page.phase = "mapping"
    /\ Mapped(page, calls, fresh)

ContinueFromViewer ==
    /\ page.at = "bom" /\ page.phase = "intake" /\ ~page.busy
    /\ memory.session # None /\ memory.session \notin Unpriceable
    /\ HandleParsed(memory.session, page, memory, calls)
    /\ UNCHANGED fresh

OpenBomTab ==
    /\ page.at = "viewer" /\ page.parsed # None /\ ~page.bomSeen
    /\ Commit([page EXCEPT !.bomSeen = TRUE], bench, memory, calls, told)
    /\ UNCHANGED fresh

StartOver ==
    LET mem == Forgotten(memory, bench) IN
    /\ page.at = "bom" /\ page.phase = "table" /\ ~bench.matching
    /\ Commit(Mounted("bom", mem), Reset(bench),
              [mem EXCEPT !.session = IF page.linked THEN None ELSE @],
              Abandoned(calls), Without(told, bench.of))
    /\ UNCHANGED fresh

OpenAnother ==
    /\ page.at = "viewer" /\ page.parsed # None
    /\ Commit([page EXCEPT !.parsed = None, !.bomSeen = FALSE], Reset(bench),
              [Forgotten(memory, bench) EXCEPT !.session = None],
              Abandoned(calls), Without(told, bench.of))
    /\ UNCHANGED fresh

(***************************************************************************)
(* The requests of the hook coming back.                                   *)
(***************************************************************************)

Back(b, cs, t) == Commit(page, b, memory, cs, t) /\ UNCHANGED fresh

MatchLands(c) ==
    /\ c.kind = "match"
    /\ \E asking \in Asked(bench) :
         Back([bench EXCEPT !.landed = TRUE, !.matching = FALSE,
                            !.capped = Cardinality(asking) < Cardinality(Misses(bench)),
                            !.stopped = FALSE, !.rows = BuildRows(c.of, asking)],
              (calls \ {c}) \cup
                IF asking = {} THEN {}
                ELSE {[kind |-> "stream", of |-> c.of, left |-> asking]},
              [told EXCEPT !.answered = @ \cup {c.of}])

MatchFails(c) ==
    /\ c.kind = "match"
    /\ Back([bench EXCEPT !.matching = FALSE, !.failed = TRUE], calls \ {c}, told)

\* A malformed `resolved' with no row puts the line back on its phase-1 answer ("matched").
StreamEvent(c, l, what) ==
    /\ c.kind = "stream" /\ l \in c.left
    /\ Back([bench EXCEPT !.rows = ApplyResolveEvent(@, c.of, l, what)],
            (calls \ {c}) \cup {[c EXCEPT !.left = @ \ {l}]}, told)

StreamOver_LeavesThem(b, died) == [b EXCEPT !.stopped = @ \/ died]

\* The stream ends, or dies and says so; either way no line is left waiting.
StreamOver(b, died) ==
    [b EXCEPT !.rows = SettleStragglers(@), !.stopped = @ \/ died]

StreamEnds(c, died) ==
    /\ c.kind = "stream"
    /\ Back(StreamOver(bench, died), calls \ {c}, told)

(***************************************************************************)
(* The table.                                                              *)
(***************************************************************************)

ToggleDnp ==
    /\ bench.rows # NoRows
    /\ bench' = [bench EXCEPT !.includeDnp = ~@]
    /\ page' = Rendered(page, memory)
    /\ UNCHANGED <<memory, calls, fresh, told>>

\* The menu of a line the catalog carries offers the parts it does not show.
PickSimilar(l, s) ==
    /\ bench.rows # NoRows
    /\ bench.rows[l].answer \in Skus \ {s}
    /\ bench.pickSeq[l] < MaxPicks
    /\ bench' = [bench EXCEPT !.pickSeq[l] = @ + 1]
    /\ calls' = calls \cup {[kind |-> "pick", of |-> bench.of, line |-> l, sku |-> s,
                             seq |-> bench.pickSeq[l] + 1]}
    /\ UNCHANGED <<page, memory, fresh, told>>

Latest_Any(c) == c.seq <= bench.pickSeq[c.line]

\* Overlapping picks come back in network order; only the newest of its line is applied.
Latest(c) == c.seq = bench.pickSeq[c.line]

PickLands(c) ==
    /\ c.kind = "pick"
    /\ IF Latest(c)
       THEN Back([bench EXCEPT !.rows = FoldSimilarPick(@, c)], calls \ {c},
                 [told EXCEPT !.picks[c.of][c.line] = c.sku])
       ELSE calls' = calls \ {c} /\ UNCHANGED <<page, bench, memory, told, fresh>>

\* The catalog no longer has the part, or the request failed and the page says so.
PickFails(c, said) ==
    /\ c.kind = "pick"
    /\ Back([bench EXCEPT !.stopped = @ \/ (said /\ Latest(c))], calls \ {c}, told)

Next ==
    \/ \E to \in {"bom", "viewer", "other"} : Navigate(to)
    \/ \E what \in {"sheet", "project"} : Drop(what)
    \/ \E p \in fresh : Paste(p)
    \/ MapContinue \/ ContinueFromViewer \/ OpenBomTab \/ StartOver \/ OpenAnother \/ ToggleDnp
    \/ \E l \in Lines, s \in Skus : PickSimilar(l, s)
    \/ \E c \in calls :
        \/ ReadFails(c)
        \/ \E p \in fresh : ReadSheet(c, p) \/ ReadForBom(c, p) \/ ReadForViewer(c, p)
        \/ MatchLands(c) \/ MatchFails(c) \/ PickLands(c)
        \/ \E said \in BOOLEAN : PickFails(c, said) \/ StreamEnds(c, said)
        \/ \E l \in Lines, what \in RowState \ {"resolving"} : StreamEvent(c, l, what)

Spec == Init /\ [][Next]_vars

(***************************************************************************)
(* Properties.                                                             *)
(***************************************************************************)

\* Types of the variables; a filed answer never holds a line that is still being looked up.
TypeOK ==
    /\ page \in Page
    /\ bench \in Bench
    /\ memory.session \in Designs \cup {None}
    /\ \A p \in Parses : /\ memory.priced[p] \in Snapshot \cup {Unpriced}
                         /\ ~Waiting(memory.priced[p].rows)
    /\ \A c \in calls : c \in Call
    /\ fresh \subseteq Parses

\* A table on screen answers for the BOM its page handed in, line by line: an answer issued for another BOM, or
\* for one the reader has closed, never lands on it (useBomWorkbench.ts, the generation of every landing).
RowsAreOfParse ==
    bench.rows # NoRows =>
        /\ bench.of = Handed(page)
        /\ \A l \in Lines : bench.rows[l].of = bench.of

\* A line that spins has a live stream that still owes it an event: neither a stream that died, nor a page left
\* mid-stream and come back to, leaves one spinning (settleStragglers, remember).
NeverSpins ==
    \A l \in DOMAIN bench.rows : bench.rows[l].state = "resolving" =>
        \E c \in calls : c.kind = "stream" /\ l \in c.left

\* Once an answer has landed for a BOM, no page asks for it again until the reader closes it: coming back costs no
\* second match and no second stream, even when the page was left mid-stream (the snapshot across mounts). A table
\* that another parse on its page bins mid-stream is the exception: the hook files nothing for it (Binned).
AnsweredIsNotAskedAgain ==
    \A c \in calls : c.kind = "match" => c.of \notin told.answered

\* A part the reader switched to stays on its line: late stream events, page changes and restored snapshots keep
\* it until another pick or the end of that BOM (the snapshot effect re-recording every settled commit).
PickStands ==
    bench.of \in told.answered =>
        \A l \in Lines : told.picks[bench.of][l] # None =>
            bench.rows # NoRows /\ bench.rows[l].answer = told.picks[bench.of][l]

\* Of two picks for one line, the part shown is never changed to the one that was clicked first, in whatever order
\* the two come back (the per-row sequence of pickSimilar).
PickIsLatest ==
    [][\A l \in DOMAIN bench.rows \cap DOMAIN bench'.rows :
          LET new == bench'.rows[l].answer IN
          bench'.of = bench.of /\ new # bench.rows[l].answer /\ new \in Skus
          => \E c \in calls : /\ c.kind = "pick" /\ c.line = l
                              /\ c.sku = new /\ c.seq = bench.pickSeq[l]]_vars
=============================================================================
