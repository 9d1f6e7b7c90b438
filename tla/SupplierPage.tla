----------------------------- MODULE SupplierPage -----------------------------
(***************************************************************************)
(* The supplier page of the admin console over FeedRun: it starts, watches,*)
(* pauses and re-attaches to the run through one stream reader, keeps a    *)
(* bounded window of its events and a tally folded as they arrive, and     *)
(* reloads the supplier when a reader ends.                                *)
(***************************************************************************)
EXTENDS FeedRun

CONSTANTS RowCap,   \* EVENT_ROW_CAP
          MaxVisits \* bound: times the page is left and opened again, or its table turned

ASSUME PageAssumption == RowCap \in Nat \ {0} /\ MaxVisits \in Nat

VARIABLES page,   \* what the page shows: its React state
          reader, \* the current reader: the last streamSupplierRun
          pause,  \* the pause call under way
          load,   \* the load effect under way
          orphan, \* a Reconnect whose reader was aborted by another
          visits

pageVars == <<page, reader, pause, load, orphan, visits>>
vars == <<feedVars, pageVars>>

NoTally == [local |-> 0, finished |-> -1]
NewPage ==
  [shown |-> TRUE, running |-> FALSE, going |-> FALSE,
   rows |-> <<>>, tally |-> NoTally, pausing |-> FALSE,
   reconnecting |-> FALSE, loading |-> TRUE, fatal |-> FALSE]
Away == [NewPage EXCEPT !.shown = FALSE, !.loading = FALSE]
NoReader == [at |-> "none", by |-> "", answer |-> "", active |-> TRUE,
             received |-> FALSE, sawFinish |-> FALSE, swapped |-> FALSE]
NoPause == [at |-> "none", watching |-> FALSE, answer |-> ""]

(***************************************************************************)
(* The fold: the window is for reading, the tally for counting.            *)
(***************************************************************************)
IsSystem(e) == e.kind # "part"
AppendCapped(rows, e) ==
  LET next == Append(rows, e)
      system == SelectSeq(next, IsSystem)
      parts == SelectSeq(next, LAMBDA x : ~IsSystem(x))
      room == IF Len(system) < RowCap THEN RowCap - Len(system) ELSE 0
  IN IF Len(next) <= RowCap THEN next
     ELSE system \o SubSeq(parts, Len(parts) - room + 1, Len(parts))

TallyEvent_OverTheWindow(t, rows, e) ==
  IF e.kind = "finished" THEN [t EXCEPT !.finished = e.n]
  ELSE [t EXCEPT !.local = PartsIn(AppendCapped(rows, e))]
TallyEvent(t, rows, e) ==
  CASE e.kind = "finished" -> [t EXCEPT !.finished = e.n]
    [] e.kind = "part" -> [t EXCEPT !.local = @ + 1]
    [] OTHER -> t

\* The replay of a run takes the place of what was on screen at its first
\* event; everything after it is appended.
Replaces_Never == FALSE
Replaces == ~reader.swapped
OnEvent(e) ==
  LET rows == IF Replaces THEN <<>> ELSE page.rows
      tally == IF Replaces THEN NoTally ELSE page.tally
  IN [page EXCEPT !.rows = IF Replaces THEN <<e>> ELSE AppendCapped(rows, e),
                  !.tally = TallyEvent(tally, rows, e)]

(***************************************************************************)
(* readRun.  Opening a reader aborts the one before it, which detaches it  *)
(* from the run; an aborted reader resolves to "nothing attached".  Only a *)
(* click on a card posts ("start"); the page's probe, a 409, a pause from a*)
(* page that watches nothing ("observe") and Reconnect attach.  The error  *)
(* sentence of the console is left out.                                    *)
(***************************************************************************)
Aborts_Never == FALSE
Aborts == orphan \/ (reader.at # "none" /\ reader.by = "reconnect")

ReadRun(p, by) ==
  /\ page' = IF by = "start"
             THEN [p EXCEPT !.running = TRUE, !.going = TRUE,
                            !.rows = <<>>, !.tally = NoTally]
             ELSE [p EXCEPT !.running = TRUE]
  /\ reader' = [NoReader EXCEPT !.at = "asked", !.by = by, !.swapped = by = "start"]
  /\ obs' = NoObs
  /\ orphan' = Aborts

\* A reader that saw anything owes the page a quiet reload, and a new load
\* cancels the one under way.
Owed == IF reader.received THEN "quiet" ELSE load

RunOutlivesReader_Received == reader.active /\ reader.received
RunOutlivesReader == reader.active /\ reader.received /\ ~reader.sawFinish

Closed == reader' = NoReader /\ obs' = NoObs

\* Reconnect was told that nothing is left to watch.
ThatRunHasFinished(p) ==
  [p EXCEPT !.reconnecting = FALSE, !.pausing = FALSE, !.going = FALSE]

\* The stream ended, or there was no run to attach to.
Ended(p) == [p EXCEPT !.running = FALSE, !.going = FALSE, !.pausing = FALSE]

ReaderEnds ==
  /\ reader.at = "ended"
  /\ page' = LET p == Ended(page)
             IN IF reader.by = "reconnect" THEN [p EXCEPT !.reconnecting = FALSE] ELSE p
  /\ load' = Owed
  /\ Closed
  /\ UNCHANGED <<runs, registry, holder, nightly, faults, pause, orphan, visits>>

NothingToWatch ==
  /\ reader.at = "answered" /\ reader.answer = "nothing"
  /\ page' = IF reader.by = "reconnect" THEN ThatRunHasFinished(Ended(page)) ELSE Ended(page)
  /\ Closed
  /\ UNCHANGED <<runs, registry, holder, nightly, faults, pause, load, orphan, visits>>

\* The socket died.  Once events were delivered the error is an interrupted
\* stream; before that it is fetch's own, which readRun answers with false.
ReaderBreaks ==
  /\ reader.at = "broken"
  /\ LET p == [page EXCEPT !.running = FALSE, !.going = RunOutlivesReader,
                           !.pausing = @ /\ RunOutlivesReader]
     IN page' = IF reader.by # "reconnect" THEN p
                ELSE IF reader.received THEN [p EXCEPT !.reconnecting = FALSE]
                ELSE ThatRunHasFinished(p)
  /\ load' = Owed
  /\ Closed
  /\ UNCHANGED <<runs, registry, holder, nightly, faults, pause, orphan, visits>>

\* Any status but 200 and the two below: no run was opened.
Refused ==
  /\ reader.at = "answered" /\ reader.answer = "refused"
  /\ page' = [page EXCEPT !.running = FALSE, !.going = FALSE, !.pausing = FALSE,
                          !.reconnecting = @ /\ reader.by # "reconnect"]
  /\ Closed
  /\ UNCHANGED <<runs, registry, holder, nightly, faults, pause, load, orphan, visits>>

\* A run was already going when the click landed: watch it.
Conflict ==
  /\ reader.at = "answered" /\ reader.answer = "conflict"
  /\ ReadRun([page EXCEPT !.going = FALSE, !.pausing = FALSE], "observe")
  /\ UNCHANGED <<runs, registry, holder, nightly, faults, pause, load, visits>>

OrphanSettles ==
  /\ orphan
  /\ orphan' = FALSE
  /\ page' = ThatRunHasFinished(page)
  /\ UNCHANGED <<feedVars, reader, pause, load, visits>>

(***************************************************************************)
(* The wire.                                                               *)
(***************************************************************************)
Answered(answer) == reader' = [reader EXCEPT !.at = "answered", !.answer = answer]

ServeStart ==
  /\ reader.at = "asked" /\ reader.by = "start"
  /\ \/ /\ StartRun
        /\ Answered("open")
        /\ obs' = [NoObs EXCEPT !.run = Len(runs) + 1]
     \/ /\ Going
        /\ Answered("conflict")
        /\ UNCHANGED <<runs, registry, obs>>
  /\ UNCHANGED <<holder, nightly, faults, page, pause, load, orphan, visits>>

ServeObserve ==
  /\ reader.at = "asked" /\ reader.by # "start"
  /\ IF registry = None THEN Answered("nothing") /\ UNCHANGED obs
     ELSE /\ reader' = [reader EXCEPT !.at = "answered", !.answer = "open",
                                      !.active = Live(registry)]
          /\ obs' = [NoObs EXCEPT !.run = registry]
  /\ UNCHANGED <<runs, registry, holder, nightly, faults,
                 page, pause, load, orphan, visits>>

ServeRefuses ==
  /\ reader.at = "asked"
  /\ Fault
  /\ Answered("refused")
  /\ UNCHANGED <<runs, registry, holder, nightly, obs, page, pause, load, orphan, visits>>

\* onOpen: the headers say whether the run was going when they were made;
\* the body, made after them, attaches.
Opens ==
  /\ reader.at = "answered" /\ reader.answer = "open"
  /\ reader' = [reader EXCEPT !.at = "open"]
  /\ page' = [page EXCEPT !.going = reader.active]
  /\ obs' = Attach(obs.run)
  /\ UNCHANGED <<runs, registry, holder, nightly, faults, pause, load, orphan, visits>>

EventLands ==
  /\ reader.at = "open" /\ obs.queue # <<>>
  /\ LET e == Head(obs.queue)
     IN IF e.kind = "end"
        THEN reader' = [reader EXCEPT !.at = "ended"] /\ UNCHANGED page
        ELSE /\ page' = OnEvent(e)
             /\ reader' = [reader EXCEPT !.received = TRUE, !.swapped = TRUE,
                                         !.sawFinish = @ \/ e.kind = "finished"]
  /\ obs' = [obs EXCEPT !.queue = Tail(@)]
  /\ UNCHANGED <<runs, registry, holder, nightly, faults, pause, load, orphan, visits>>

\* A call is lost on its way out or back, a socket dies; with the api
\* container all of them do.
Cut == obs.run # None /\ runs[obs.run].stage = "dead"
Drop ==
  /\ reader.at \in {"asked", "answered", "open"}
  /\ reader' = [reader EXCEPT !.at = "broken"]
  /\ obs' = NoObs
  /\ IF Cut THEN UNCHANGED faults ELSE Fault
  /\ UNCHANGED <<runs, registry, holder, nightly, page, pause, load, orphan, visits>>

(***************************************************************************)
(* The operator.  The loading curtain and a failed first load replace the  *)
(* whole page.                                                             *)
(***************************************************************************)
AtHand == page.shown /\ ~page.loading /\ ~page.fatal

StartClick ==
  /\ AtHand /\ ~page.running /\ ~page.going
  /\ ReadRun([page EXCEPT !.pausing = FALSE], "start")
  /\ UNCHANGED <<runs, registry, holder, nightly, faults, pause, load, visits>>

ReconnectClick ==
  /\ AtHand /\ page.going /\ ~page.running /\ ~page.reconnecting
  /\ ReadRun([page EXCEPT !.reconnecting = TRUE], "reconnect")
  /\ UNCHANGED <<runs, registry, holder, nightly, faults, pause, load, visits>>

PauseClick ==
  /\ AtHand /\ page.going /\ ~page.pausing /\ pause.at = "none"
  /\ page' = [page EXCEPT !.pausing = TRUE]
  /\ pause' = [NoPause EXCEPT !.at = "asked", !.watching = page.running]
  /\ UNCHANGED <<feedVars, reader, load, orphan, visits>>

ServePause ==
  /\ pause.at = "asked"
  /\ \/ RequestStop /\ pause' = [pause EXCEPT !.at = "answered", !.answer = "pausing"]
        /\ UNCHANGED faults
     \/ ~Going /\ pause' = [pause EXCEPT !.at = "answered", !.answer = "no run"]
        /\ UNCHANGED <<runs, faults>>
     \/ Fault /\ pause' = [pause EXCEPT !.at = "answered", !.answer = "no run"]
        /\ UNCHANGED runs
  /\ UNCHANGED <<registry, holder, nightly, obs, page, reader, load, orphan, visits>>

\* Paused from a page that was not watching: attach, so that the ending has
\* somewhere to arrive.
PauseReturns ==
  /\ pause.at = "answered"
  /\ pause' = NoPause
  /\ \/ /\ pause.answer = "pausing" /\ ~pause.watching
        /\ ReadRun(page, "observe")
     \/ /\ pause.answer = "pausing" /\ pause.watching
        /\ UNCHANGED <<page, reader, obs, orphan>>
     \/ /\ pause.answer = "no run"
        /\ page' = [page EXCEPT !.pausing = FALSE]
        /\ UNCHANGED <<reader, obs, orphan>>
  /\ UNCHANGED <<runs, registry, holder, nightly, faults, load, visits>>

\* The parts table is turned: a load behind the curtain.
TurnPage ==
  /\ AtHand /\ visits < MaxVisits
  /\ visits' = visits + 1
  /\ page' = [page EXCEPT !.loading = TRUE]
  /\ load' = "noisy"
  /\ UNCHANGED <<feedVars, reader, pause, orphan>>

\* A failed quiet load leaves the page as it was, like one that lands.
LoadLands ==
  /\ load # "none"
  /\ \/ page' = [page EXCEPT !.loading = @ /\ load = "quiet"] /\ UNCHANGED faults
     \/ /\ load = "noisy" /\ Fault
        /\ page' = [page EXCEPT !.loading = FALSE, !.fatal = TRUE]
  /\ load' = "none"
  /\ UNCHANGED <<runs, registry, holder, nightly, obs, reader, pause, orphan, visits>>

\* Leaving detaches the reader and cancels no work; coming back is a fresh
\* page that probes for a run.
Leave ==
  /\ page.shown /\ visits < MaxVisits
  /\ page' = Away /\ reader' = NoReader /\ obs' = NoObs
  /\ pause' = NoPause /\ load' = "none" /\ orphan' = FALSE
  /\ UNCHANGED <<runs, registry, holder, nightly, faults, visits>>

Open ==
  /\ ~page.shown /\ visits < MaxVisits
  /\ visits' = visits + 1
  /\ ReadRun(NewPage, "observe")
  /\ load' = "noisy"
  /\ UNCHANGED <<runs, registry, holder, nightly, faults, pause>>

Init ==
  /\ FeedInit
  /\ page = [NewPage EXCEPT !.running = TRUE]
  /\ reader = [NoReader EXCEPT !.at = "asked", !.by = "observe"]
  /\ pause = NoPause /\ load = "noisy" /\ orphan = FALSE /\ visits = 0

Settles == ReaderEnds \/ NothingToWatch \/ ReaderBreaks \/ Refused \/ Conflict
Delivers == ServeStart \/ ServeObserve \/ Opens \/ EventLands
Operates ==
  \/ StartClick \/ ReconnectClick \/ PauseClick \/ TurnPage \/ Leave \/ Open

Next ==
  \/ ServerStep /\ UNCHANGED pageVars
  \/ Settles \/ Delivers \/ OrphanSettles \/ ServeRefuses \/ Drop
  \/ ServePause \/ PauseReturns \/ LoadLands
  \/ Operates

Spec == Init /\ [][Next]_vars

(***************************************************************************)
(* Properties.                                                             *)
(***************************************************************************)
\* Types of the variables.
TypeOK ==
  /\ FeedTypeOK
  /\ reader.at \in {"none", "asked", "answered", "open", "ended", "broken"}
  /\ reader.at # "none" <=> page.running
  /\ Len(page.rows) <= RowCap + 5
  /\ load \in {"none", "noisy", "quiet"} /\ visits \in 0..MaxVisits

\* The window after all events of log.
Window(log) ==
  LET rows[n \in 0..Len(log)] ==
        IF n = 0 THEN <<>> ELSE AppendCapped(rows[n - 1], log[n])
  IN rows[Len(log)]

\* The page shows exactly the events of log: their window and their tally.
Shows(log) ==
  /\ page.rows = Window(log)
  /\ page.tally.local = PartsIn(log)
  /\ \/ page.tally.finished = -1 /\ ~\E k \in 1..Len(log) : log[k].kind = "finished"
     \/ Ev("finished", page.tally.finished) \in Range(log)

\* What is on screen is the beginning of one run, each event once and none
\* left out, however often the socket was lost and the run replayed; the
\* counters are those of all its events, not of the rows still in the window.
ShownIsOneRun ==
  page.rows # <<>> =>
    \E i \in Started : \E n \in 1..Len(runs[i].log) : Shows(SubSeq(runs[i].log, 1, n))

\* A stream that ends cleanly has shown the whole run, which is over: that
\* is why the page may take its end for the end of the run.
CleanEndIsWhole ==
  reader.at = "ended" => runs[obs.run].stage = "done" /\ Shows(runs[obs.run].log)

\* A page that watches nothing claims a going run only while no ending of it
\* was seen: a lost replay of a finished run does not bring it back to life.
NoResurrection ==
  page.going /\ ~page.running => page.tally.finished = -1

\* No reader hangs: one that waits for more is on the list of a run whose
\* worker will say it, or will say that it was the last.
NoReaderHangs ==
  reader.at = "open" /\ obs.queue = <<>> => Cut \/ (obs.tail /\ Live(obs.run))

\* The buttons come back: "Pausing..." has something that ends it (the run's
\* ending on the page's stream, or else a Reconnect the page offers), even
\* when the pause call says nothing more, and "Reconnecting..." the answer of
\* its own reader.
ButtonsComeBack ==
  /\ page.pausing => page.running \/ page.going
  /\ page.reconnecting => orphan \/ (reader.at # "none" /\ reader.by = "reconnect")

\* The loading curtain is up only while a load that lifts it is under way.
CurtainLifts == page.loading => load = "noisy"
===============================================================================
