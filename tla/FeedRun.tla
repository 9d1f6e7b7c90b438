------------------------------- MODULE FeedRun -------------------------------
(***************************************************************************)
(* One supplier's feed runs on the server.  A click starts a run; a worker *)
(* thread drives it under the supplier's advisory lock, which the nightly  *)
(* job takes too; an HTTP observer replays what the run has said and then  *)
(* follows it.  The registry of runs lives in the api process and dies     *)
(* with it.                                                                *)
(***************************************************************************)
EXTENDS Integers, Sequences, FiniteSets, SequencesExt

CONSTANTS MaxRuns,    \* bound: runs started for the supplier
          MaxParts,   \* bound: part events of one run
          MaxFaults   \* bound: exceptions, restarts, lost calls, dead sockets

ASSUME FeedAssumption ==
  /\ MaxRuns \in Nat \ {0} /\ MaxParts \in Nat
  /\ MaxFaults \in Nat

VARIABLES runs,     \* every run so far, in the order of the clicks
          registry, \* _RUNS: the run kept for this supplier, or None
          holder,   \* who holds the advisory lock
          nightly,  \* the nightly import of the feed-import container
          obs,      \* the observer of the page's current socket
          faults

feedVars == <<runs, registry, holder, nightly, obs, faults>>

None == 0
Nightly == MaxRuns + 1
Kinds == {"started", "part", "error", "finished", "end"}

Event == [kind : Kinds, n : Nat]
FeedRunState ==
  [log : Seq(Event), todo : Seq(Kinds), stop : BOOLEAN,
   stage : {"claim", "sweep", "walled", "tail", "done", "dead"}]

Ev(kind, n) == [kind |-> kind, n |-> n]
PartsIn(log) == Cardinality({k \in DOMAIN log : log[k].kind = "part"})
NewRun ==
  [log |-> <<>>, stage |-> "claim", todo |-> <<>>, stop |-> FALSE]
NoObs == [run |-> None, queue |-> <<>>, tail |-> FALSE]

\* The thread is gone with its locals; nothing reads the stop flag again.
Gone(r, stage) ==
  [r EXCEPT !.stage = stage, !.todo = <<>>, !.stop = FALSE]

\* Winding down, the worker does not look at the flag again either.
Winds(r, todo) == [r EXCEPT !.stage = "tail", !.todo = todo, !.stop = FALSE]
Working(i) == runs[i].stage \in {"claim", "sweep", "walled"}

Live(i) == runs[i].stage \notin {"done", "dead"}
Going == registry # None /\ Live(registry)
Started == 1..Len(runs)

FeedInit ==
  /\ runs = <<>> /\ registry = None /\ holder = None
  /\ nightly = "idle" /\ obs = NoObs /\ faults = 0

Fault == faults < MaxFaults /\ faults' = faults + 1

(***************************************************************************)
(* The worker.                                                             *)
(***************************************************************************)
\* Counts ride on the finish: every part was committed before it was said.
Said(log, kind) ==
  Append(log, Ev(kind, CASE kind = "part" -> PartsIn(log) + 1
                         [] kind = "finished" -> PartsIn(log)
                         [] OTHER -> 0))

\* One lock covers the append and the list of readers to tell.
Publish(i, r, kind) ==
  LET log == Said(r.log, kind)
  IN /\ runs' = [runs EXCEPT ![i] = [r EXCEPT !.log = log]]
     /\ obs' = IF obs.run = i /\ obs.tail
               THEN [obs EXCEPT !.queue = Append(@, Last(log))] ELSE obs

Claimable_Always == TRUE
Claimable == holder = None

\* After every event but the finish the worker looks at the stop flag; a
\* paused generator is closed, and the lock let go.
Yields(i, r, kind) ==
  /\ Publish(i, IF r.stop THEN Winds(r, <<"finished">>) ELSE r, kind)
  /\ holder' = IF r.stop THEN None ELSE i
  /\ UNCHANGED <<registry, nightly, faults>>

\* The claim is made in the thread: a refusal is a finish on the stream.
Claim(i) ==
  /\ runs[i].stage = "claim"
  /\ \/ Claimable /\ Yields(i, [runs[i] EXCEPT !.stage = "sweep"], "started")
     \/ /\ ~Claimable
        /\ runs' = [runs EXCEPT ![i] = Winds(@, <<"finished">>)]
        /\ UNCHANGED <<registry, holder, nightly, obs, faults>>

InSweep(i) == runs[i].stage = "sweep"

Part(i) ==
  /\ InSweep(i) /\ PartsIn(runs[i].log) < MaxParts
  /\ Yields(i, runs[i], "part")

\* The quota wall: the generator reports it, then its totals.
Wall(i) ==
  /\ InSweep(i)
  /\ Yields(i, [runs[i] EXCEPT !.stage = "walled"], "error")

Exhausted(i) ==
  /\ \/ InSweep(i)
     \/ runs[i].stage = "walled"
  /\ Publish(i, Winds(runs[i], <<>>), "finished")
  /\ holder' = None
  /\ UNCHANGED <<registry, nightly, faults>>

\* Behind the wall the cursor is flushed after the finish: when that fails,
\* the worker reports the failure and finishes once more.
FlushFails(i) ==
  /\ runs[i].stage = "walled"
  /\ Fault
  /\ Publish(i, Winds(runs[i], <<"error", "finished">>), "finished")
  /\ holder' = None
  /\ UNCHANGED <<registry, nightly>>

Raise(i) ==
  /\ Working(i)
  /\ Fault
  /\ runs' = [runs EXCEPT ![i] = Winds(@, <<"error", "finished">>)]
  /\ holder' = IF holder = i THEN None ELSE holder
  /\ UNCHANGED <<registry, nightly, obs>>

LastWords(i) ==
  /\ runs[i].stage = "tail" /\ runs[i].todo # <<>>
  /\ Publish(i, [runs[i] EXCEPT !.todo = Tail(@)], Head(runs[i].todo))
  /\ UNCHANGED <<registry, holder, nightly, faults>>

Released_None(i) == FALSE
Released(i) == obs.run = i /\ obs.tail

\* _finish, last: every reader still there is told that nothing follows.
Finish(i) ==
  /\ runs[i].stage = "tail" /\ runs[i].todo = <<>>
  /\ runs' = [runs EXCEPT ![i] = Gone(@, "done")]
  /\ obs' = IF Released(i)
            THEN [obs EXCEPT !.queue = Append(@, Ev("end", 0)), !.tail = FALSE] ELSE obs
  /\ UNCHANGED <<registry, holder, nightly, faults>>

Worker(i) ==
  \/ Claim(i) \/ Part(i) \/ Wall(i) \/ Exhausted(i)
  \/ LastWords(i) \/ Finish(i)

(***************************************************************************)
(* The registry and its callers.                                           *)
(***************************************************************************)
\* Retention: a finished run is forgotten after a while.
Purge ==
  /\ registry # None /\ ~Going
  /\ registry' = None
  /\ UNCHANGED <<runs, holder, nightly, obs, faults>>

StartRun ==
  /\ ~Going /\ Len(runs) < MaxRuns
  /\ runs' = Append(runs, NewRun)
  /\ registry' = Len(runs) + 1

RequestStop == Going /\ runs' = [runs EXCEPT ![registry].stop = Working(registry)]

\* Another tab, or another operator.
OtherStarts ==
  /\ StartRun
  /\ UNCHANGED <<holder, nightly, obs, faults>>
OtherPauses ==
  /\ RequestStop
  /\ UNCHANGED <<registry, holder, nightly, obs, faults>>

\* One lock covers the backlog and the place among the readers.
Backlog(i) == IF runs[i].stage = "done" THEN Append(runs[i].log, Ev("end", 0))
                                       ELSE runs[i].log
Attach_Registers(i) ==
  [run |-> i, tail |-> Live(i), queue |-> IF Live(i) THEN <<>> ELSE Backlog(i)]
Attach(i) == [run |-> i, tail |-> Live(i), queue |-> Backlog(i)]

\* The api container restarts: threads, registry and locks go with it.
Restart ==
  /\ Fault
  /\ runs' = [i \in Started |-> IF Live(i) THEN Gone(runs[i], "dead") ELSE runs[i]]
  /\ registry' = None
  /\ holder' = IF holder = Nightly THEN holder ELSE None
  /\ obs' = [obs EXCEPT !.tail = FALSE]
  /\ UNCHANGED nightly

(***************************************************************************)
(* The nightly job: the same sweep from another process, with no stream.   *)
(***************************************************************************)
\* It skips a supplier whose lock is taken.
Night ==
  /\ nightly = "idle" /\ Claimable
  /\ holder' = Nightly /\ nightly' = "sweep"
  /\ UNCHANGED <<runs, registry, obs, faults>>
NightEnds ==
  /\ nightly = "sweep"
  /\ nightly' = "idle"
  /\ holder' = IF holder = Nightly THEN None ELSE holder
  /\ UNCHANGED <<runs, registry, obs, faults>>

ServerStep ==
  \/ \E i \in Started : Worker(i) \/ FlushFails(i) \/ Raise(i)
  \/ Purge \/ OtherStarts \/ OtherPauses \/ Restart
  \/ Night \/ NightEnds

(***************************************************************************)
(* Properties.                                                             *)
(***************************************************************************)
\* Types of the variables.
FeedTypeOK ==
  /\ runs \in Seq(FeedRunState) /\ registry \in 0..Len(runs)
  /\ Len(runs) <= MaxRuns /\ holder \in 0..Nightly /\ nightly \in {"idle", "sweep"}
  /\ obs \in [run : 0..Len(runs), queue : Seq(Event), tail : BOOLEAN]
  /\ faults \in 0..MaxFaults

\* Two sweeps never work on one supplier at a time, whichever processes run
\* them: they would spend one quota twice, and each would write the cursor
\* map whole from what it read before the other began.
OneSweep ==
  /\ \A a, b \in Started :
       {runs[a].stage, runs[b].stage} \subseteq {"sweep", "walled"} => a = b
  /\ \A i \in Started : runs[i].stage \in {"sweep", "walled"} => nightly # "sweep"
===============================================================================
