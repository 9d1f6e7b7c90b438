------------------------------ MODULE FeedProofs ------------------------------
(***************************************************************************)
(* The feed run and its readers, for any number of runs, parts and faults, *)
(* and a window of any length.  The first inductive invariant (FeedInv) is *)
(* the server's: types, that sweeping means holding the advisory lock, and *)
(* what a reader may rely on while the server goes on.  Three more are     *)
(* about the page: its buttons (ButtonInv), the endings it has seen        *)
(* (EndInv) and what its console shows of a run (ShowInv).                 *)
(***************************************************************************)
EXTENDS SupplierPage, FiniteSetTheorems, TLAPS

(***************************************************************************)
(* Runs and their logs.                                                    *)
(***************************************************************************)

(* The number of part events of a log.                                      *)
LEMMA PartsType ==
  ASSUME NEW log \in Seq(Event)
  PROVE  PartsIn(log) \in Nat
<1> DEFINE D == {k \in DOMAIN log : log[k].kind = "part"}
<1>1. DOMAIN log = 1..Len(log) /\ Len(log) \in Nat
  OBVIOUS
<1>2. IsFiniteSet(1..Len(log))
  BY <1>1, FS_Interval
<1>3. D \subseteq 1..Len(log)
  BY <1>1
<1>4. IsFiniteSet(D)
  BY <1>2, <1>3, FS_Subset
<1> QED
  BY <1>4, FS_CardinalityType DEF PartsIn

(* What saying one more event does to a log.                                *)
LEMMA SaidType ==
  ASSUME NEW log \in Seq(Event), NEW kind \in Kinds
  PROVE  /\ Said(log, kind) \in Seq(Event)
         /\ Said(log, kind) # <<>>
         /\ Last(Said(log, kind)) \in Event
         /\ Last(Said(log, kind)).kind = kind
<1> DEFINE n == CASE kind = "part" -> PartsIn(log) + 1
                  [] kind = "finished" -> PartsIn(log)
                  [] OTHER -> 0
<1>1. n \in Nat
  BY PartsType
<1>2. Ev(kind, n) \in Event /\ Ev(kind, n).kind = kind
  BY <1>1 DEF Ev, Event
<1> HIDE DEF n
<1>3. /\ Append(log, Ev(kind, n)) \in Seq(Event)
      /\ Len(Append(log, Ev(kind, n))) = Len(log) + 1
      /\ Append(log, Ev(kind, n))[Len(log) + 1] = Ev(kind, n)
      /\ Len(log) \in Nat
  BY <1>2
<1>4. Append(log, Ev(kind, n)) # <<>>
  BY <1>3
<1> QED
  BY <1>2, <1>3, <1>4 DEF Said, Last, n

(* The states a worker leaves its run in.                                   *)
LEMMA RunTypes ==
  ASSUME NEW r \in FeedRunState
  PROVE  /\ \A todo \in Seq(Kinds) : Winds(r, todo) \in FeedRunState
         /\ \A todo \in Seq(Kinds) : Winds(r, todo).stage = "tail"
         /\ \A stage \in {"done", "dead"} : Gone(r, stage) \in FeedRunState
         /\ \A stage \in {"done", "dead"} : Gone(r, stage).stage = stage
         /\ r.log \in Seq(Event) /\ r.todo \in Seq(Kinds)
<1>1. ASSUME NEW todo \in Seq(Kinds)
      PROVE  Winds(r, todo) \in FeedRunState /\ Winds(r, todo).stage = "tail"
  BY DEF Winds, FeedRunState
<1>2. ASSUME NEW stage \in {"done", "dead"}
      PROVE  Gone(r, stage) \in FeedRunState /\ Gone(r, stage).stage = stage
  <2>1. <<>> \in Seq(Kinds)
    OBVIOUS
  <2> QED
    BY <2>1 DEF Gone, FeedRunState
<1>3. r.log \in Seq(Event) /\ r.todo \in Seq(Kinds)
  BY DEF FeedRunState
<1> QED
  BY <1>1, <1>2, <1>3

(* One run is replaced. *)
LEMMA SetRun ==
  ASSUME FeedTypeOK, NEW i \in Started, NEW q \in FeedRunState,
         runs' = [runs EXCEPT ![i] = q]
  PROVE  /\ runs' \in Seq(FeedRunState) /\ Len(runs') = Len(runs)
         /\ \A j \in Started : runs'[j] = IF j = i THEN q ELSE runs[j]
BY DEF FeedTypeOK, Started

(* A click starts one more run.                                             *)
LEMMA AddRun ==
  ASSUME FeedTypeOK, StartRun
  PROVE  /\ runs' \in Seq(FeedRunState) /\ Len(runs') = Len(runs) + 1
         /\ Len(runs') <= MaxRuns /\ registry' = Len(runs')
         /\ \A j \in Started : runs'[j] = runs[j]
         /\ runs'[Len(runs) + 1].stage = "claim"
<1>1. NewRun \in FeedRunState
  BY DEF NewRun, FeedRunState, Event
<1> QED
  BY <1>1, FeedAssumption DEF FeedTypeOK, Started, StartRun, NewRun

(* Publishing: the log grows, and so does the queue of a reader on the list. *)
LEMMA Told ==
  ASSUME FeedTypeOK, NEW i \in Started, NEW r \in FeedRunState, NEW kind \in Kinds,
         Publish(i, r, kind)
  PROVE  /\ runs' \in Seq(FeedRunState) /\ Len(runs') = Len(runs)
         /\ \A j \in Started : runs'[j].stage = IF j = i THEN r.stage ELSE runs[j].stage
         /\ obs' \in [run : 0..Len(runs), queue : Seq(Event), tail : BOOLEAN]
         /\ obs'.run = obs.run /\ obs'.tail = obs.tail
         /\ ~obs.tail => obs' = obs
<1> DEFINE log == Said(r.log, kind)
           q == [r EXCEPT !.log = log]
<1>1. log \in Seq(Event) /\ Last(log) \in Event
  BY SaidType, RunTypes
<1> HIDE DEF log
<1>2. q \in FeedRunState /\ q.stage = r.stage
  BY <1>1 DEF FeedRunState
<1>3. runs' = [runs EXCEPT ![i] = q]
  BY DEF Publish, log
<1> HIDE DEF q
<1>4. /\ runs' \in Seq(FeedRunState) /\ Len(runs') = Len(runs)
      /\ \A j \in Started : runs'[j].stage = IF j = i THEN r.stage ELSE runs[j].stage
  <2>1. /\ runs' \in Seq(FeedRunState) /\ Len(runs') = Len(runs)
        /\ \A j \in Started : runs'[j] = IF j = i THEN q ELSE runs[j]
    BY <1>2, <1>3, SetRun
  <2> QED
    BY <1>2, <2>1
<1> DEFINE queue == Append(obs.queue, Last(log))
           o == [obs EXCEPT !.queue = queue]
<1>5. obs' = IF obs.run = i /\ obs.tail THEN o ELSE obs
  BY DEF Publish, log
<1>6. obs \in [run : 0..Len(runs), queue : Seq(Event), tail : BOOLEAN]
  BY DEF FeedTypeOK
<1>8. queue \in Seq(Event)
  BY <1>1, <1>6
<1> HIDE DEF queue
<1>7. /\ o \in [run : 0..Len(runs), queue : Seq(Event), tail : BOOLEAN]
      /\ o.run = obs.run /\ o.tail = obs.tail
  BY <1>6, <1>8
<1> QED
  BY <1>4, <1>5, <1>6, <1>7

(***************************************************************************)
(* What a step of a worker does, as far as the theorems need it.           *)
(***************************************************************************)
Sweeping(i) == runs[i].stage \in {"sweep", "walled"}

\* The lock is held by whoever sweeps.
LockHeld ==
  /\ \A i \in Started : Sweeping(i) => holder = i
  /\ nightly = "sweep" => holder = Nightly

\* The run keeps its readers posted, and lets them go as it ends.
Posts(i) ==
  /\ obs'.run = obs.run
  /\ ~obs.tail => obs' = obs
  /\ obs.tail =>
       \/ obs'.tail /\ (obs.run = i => runs'[i].stage # "done")
       \/ obs'.queue # <<>> /\ Last(obs'.queue).kind = "end" /\ ~obs'.tail

OneMoves(i) ==
  /\ runs[i].stage \in {"claim", "sweep", "walled", "tail"} /\ runs'[i].stage # "dead"
  /\ Len(runs') = Len(runs)
  /\ \A j \in Started : j # i => runs'[j].stage = runs[j].stage

WorkerMoves(i) == OneMoves(i) /\ Posts(i) /\ FeedTypeOK' /\ LockHeld'

(* Taking the free lock, keeping it or giving it back keeps the discipline. *)
LEMMA LockMoves ==
  ASSUME FeedTypeOK, LockHeld, NEW i \in Started, OneMoves(i), nightly' = nightly,
         \/ holder' = holder /\ (Sweeping(i)' => holder = i)
         \/ holder' = i /\ holder = None
         \/ holder' = None /\ holder \in {i, None} /\ ~Sweeping(i)'
  PROVE  LockHeld'
<1>1. Len(runs) \in Nat /\ Len(runs) < Nightly /\ i \in 1..Len(runs)
  BY FeedAssumption DEF FeedTypeOK, Nightly, Started
<1>2. Started' = Started
  BY DEF OneMoves, Started
<1>3. ASSUME NEW j \in Started, Sweeping(j)'
      PROVE  holder' = j
  <2>1. CASE j = i
    BY <1>3, <2>1
  <2>2. CASE j # i
    <3>1. Sweeping(j)
      BY <1>3, <2>2 DEF Sweeping, OneMoves
    <3>2. holder = j /\ holder # None
      BY <3>1, <1>1 DEF LockHeld, Started, None
    <3> QED
      BY <2>2, <3>2
  <2> QED
    BY <2>1, <2>2
<1>4. nightly' = "sweep" => holder' = Nightly
  BY <1>1 DEF LockHeld, None, Nightly
<1> QED
  BY <1>2, <1>3, <1>4 DEF LockHeld

(* The worker says something and looks at the stop flag.                    *)
LEMMA YieldMoves ==
  ASSUME FeedTypeOK, LockHeld, NEW i \in Started, NEW r \in FeedRunState,
         NEW kind \in Kinds, Yields(i, r, kind),
         runs[i].stage \in {"claim", "sweep", "walled"}, r.stage \in {"sweep", "walled"},
         holder \in {i, None}
  PROVE  WorkerMoves(i)
<1> DEFINE q == IF r.stop THEN Winds(r, <<"finished">>) ELSE r
<1>1. q \in FeedRunState /\ q.stage \in {"sweep", "walled", "tail"}
      /\ (r.stop => q.stage = "tail")
  <2>1. <<"finished">> \in Seq(Kinds)
    BY DEF Kinds
  <2> QED
    BY <2>1, RunTypes
<1>2. Publish(i, q, kind) /\ holder' = IF r.stop THEN None ELSE i
  BY DEF Yields
<1> HIDE DEF q
<1>3. /\ runs' \in Seq(FeedRunState) /\ Len(runs') = Len(runs)
      /\ \A j \in Started : runs'[j].stage = IF j = i THEN q.stage ELSE runs[j].stage
      /\ obs' \in [run : 0..Len(runs), queue : Seq(Event), tail : BOOLEAN]
      /\ obs'.run = obs.run /\ obs'.tail = obs.tail
      /\ ~obs.tail => obs' = obs
  BY <1>1, <1>2, Told
<1>4. OneMoves(i) /\ Posts(i)
  BY <1>1, <1>3 DEF OneMoves, Posts
<1>5. FeedTypeOK'
  BY <1>2, <1>3, FeedAssumption DEF FeedTypeOK, Yields, Started, None, Nightly
<1>6. LockHeld'
  BY <1>1, <1>2, <1>3, <1>4, LockMoves DEF Yields, Sweeping
<1> QED
  BY <1>4, <1>5, <1>6 DEF WorkerMoves

(* The claim of the lock, granted or refused.                               *)
LEMMA ClaimMoves ==
  ASSUME FeedTypeOK, LockHeld, NEW i \in Started, Claim(i)
  PROVE  WorkerMoves(i)
<1>1. runs[i] \in FeedRunState /\ runs[i].stage = "claim"
  BY DEF FeedTypeOK, Started, Claim
<1>2. CASE Claimable /\ Yields(i, [runs[i] EXCEPT !.stage = "sweep"], "started")
  <2> DEFINE r == [runs[i] EXCEPT !.stage = "sweep"]
  <2>1. r \in FeedRunState /\ r.stage = "sweep"
    BY <1>1 DEF FeedRunState
  <2>2. "started" \in Kinds /\ holder = None
    BY <1>2 DEF Kinds, Claimable
  <2> HIDE DEF r
  <2>3. Yields(i, r, "started")
    BY <1>2 DEF r
  <2> QED
    BY <1>1, <2>1, <2>2, <2>3, YieldMoves
<1>3. CASE /\ runs' = [runs EXCEPT ![i] = Winds(@, <<"finished">>)]
           /\ UNCHANGED <<registry, holder, nightly, obs, faults>>
  <2> DEFINE q == Winds(runs[i], <<"finished">>)
  <2>1. q \in FeedRunState /\ q.stage = "tail"
    <3>1. <<"finished">> \in Seq(Kinds)
      BY DEF Kinds
    <3> QED
      BY <1>1, <3>1, RunTypes
  <2>2. runs' = [runs EXCEPT ![i] = q]
    BY <1>3
  <2> HIDE DEF q
  <2>3. /\ runs' \in Seq(FeedRunState) /\ Len(runs') = Len(runs)
        /\ \A j \in Started : runs'[j] = IF j = i THEN q ELSE runs[j]
    BY <2>1, <2>2, SetRun
  <2>4. OneMoves(i) /\ Posts(i)
    BY <1>1, <1>3, <2>1, <2>3 DEF OneMoves, Posts
  <2>5. FeedTypeOK'
    BY <1>3, <2>3 DEF FeedTypeOK
  <2>6. LockHeld'
    BY <1>3, <2>1, <2>3, <2>4, LockMoves DEF Sweeping
  <2> QED
    BY <2>4, <2>5, <2>6 DEF WorkerMoves
<1> QED
  BY <1>2, <1>3 DEF Claim

(* A part, or the quota wall.                                               *)
LEMMA PartOrWallMoves ==
  ASSUME FeedTypeOK, LockHeld, NEW i \in Started, Part(i) \/ Wall(i)
  PROVE  WorkerMoves(i)
<1>1. runs[i] \in FeedRunState /\ runs[i].stage = "sweep" /\ holder = i
  BY DEF FeedTypeOK, Started, Part, Wall, InSweep, LockHeld, Sweeping
<1>2. CASE Part(i)
  <2>1. Yields(i, runs[i], "part") /\ "part" \in Kinds
    BY <1>2 DEF Part, Kinds
  <2> QED
    BY <1>1, <2>1, YieldMoves
<1>3. CASE Wall(i)
  <2> DEFINE r == [runs[i] EXCEPT !.stage = "walled"]
  <2>1. r \in FeedRunState /\ r.stage = "walled"
    BY <1>1 DEF FeedRunState
  <2>2. Yields(i, r, "error") /\ "error" \in Kinds
    BY <1>3 DEF Wall, Kinds
  <2> HIDE DEF r
  <2> QED
    BY <1>1, <2>1, <2>2, YieldMoves
<1> QED
  BY <1>2, <1>3

(* The worker speaks while it winds down.                                  *)
LEMMA TellMoves ==
  ASSUME FeedTypeOK, LockHeld, NEW i \in Started, NEW q \in FeedRunState,
         NEW kind \in Kinds, Publish(i, q, kind),
         runs[i].stage \in {"claim", "sweep", "walled", "tail"}, q.stage = "tail",
         nightly' = nightly, registry' = registry, faults' \in 0..MaxFaults,
         \/ holder' = holder
         \/ holder' = None /\ holder \in {i, None}
  PROVE  WorkerMoves(i)
<1>1. /\ runs' \in Seq(FeedRunState) /\ Len(runs') = Len(runs)
      /\ \A j \in Started : runs'[j].stage = IF j = i THEN q.stage ELSE runs[j].stage
      /\ obs' \in [run : 0..Len(runs), queue : Seq(Event), tail : BOOLEAN]
      /\ obs'.run = obs.run /\ obs'.tail = obs.tail
      /\ ~obs.tail => obs' = obs
  BY Told
<1>2. OneMoves(i) /\ Posts(i)
  BY <1>1 DEF OneMoves, Posts
<1>3. FeedTypeOK'
  BY <1>1, FeedAssumption DEF FeedTypeOK, None, Nightly
<1>4. LockHeld'
  BY <1>1, <1>2, LockMoves DEF Sweeping
<1> QED
  BY <1>2, <1>3, <1>4 DEF WorkerMoves

(* The end of the generator, a cursor that is not flushed, the last words.  *)
LEMMA LateMoves ==
  ASSUME FeedTypeOK, LockHeld, NEW i \in Started,
         Exhausted(i) \/ FlushFails(i) \/ LastWords(i)
  PROVE  WorkerMoves(i)
<1>1. /\ runs[i] \in FeedRunState
      /\ \A todo \in Seq(Kinds) : Winds(runs[i], todo) \in FeedRunState
                                  /\ Winds(runs[i], todo).stage = "tail"
  <2>1. runs[i] \in FeedRunState
    BY DEF FeedTypeOK, Started
  <2> QED
    BY <2>1, RunTypes
<1>2. {"finished", "error"} \subseteq Kinds /\ faults \in 0..MaxFaults
      /\ <<>> \in Seq(Kinds) /\ <<"error", "finished">> \in Seq(Kinds)
  BY DEF Kinds, FeedTypeOK
<1>3. CASE Exhausted(i)
  <2> DEFINE q == Winds(runs[i], <<>>)
  <2>1. q \in FeedRunState /\ q.stage = "tail"
    BY <1>1, <1>2
  <2> HIDE DEF q
  <2>2. Publish(i, q, "finished") /\ holder' = None /\ holder = i
        /\ runs[i].stage \in {"sweep", "walled"}
    BY <1>3 DEF Exhausted, q, InSweep, LockHeld, Sweeping
  <2>3. nightly' = nightly /\ registry' = registry /\ faults' = faults
    BY <1>3 DEF Exhausted
  <2> QED
    BY <1>2, <2>1, <2>2, <2>3, TellMoves
<1>4. CASE FlushFails(i)
  <2> DEFINE q == Winds(runs[i], <<"error", "finished">>)
  <2>1. q \in FeedRunState /\ q.stage = "tail"
    BY <1>1, <1>2
  <2> HIDE DEF q
  <2>2. Publish(i, q, "finished") /\ holder' = None /\ holder = i
        /\ runs[i].stage = "walled"
    BY <1>4 DEF FlushFails, q, LockHeld, Sweeping
  <2>3. nightly' = nightly /\ registry' = registry /\ faults' \in 0..MaxFaults
    BY <1>2, <1>4, FeedAssumption DEF FlushFails, Fault
  <2> QED
    BY <1>2, <2>1, <2>2, <2>3, TellMoves
<1>5. CASE LastWords(i)
  <2> DEFINE todo == Tail(runs[i].todo)
             kind == Head(runs[i].todo)
             q == [runs[i] EXCEPT !.todo = todo]
  <2>1. runs[i].todo \in Seq(Kinds) /\ runs[i].todo # <<>> /\ runs[i].stage = "tail"
    BY <1>1, <1>5 DEF LastWords, FeedRunState
  <2>2. todo \in Seq(Kinds) /\ kind \in Kinds
    BY <2>1
  <2>3. Publish(i, q, kind)
    BY <1>5 DEF LastWords
  <2> HIDE DEF todo, kind
  <2>4. q \in FeedRunState /\ q.stage = "tail"
    BY <1>1, <2>1, <2>2 DEF FeedRunState
  <2> HIDE DEF q
  <2>5. nightly' = nightly /\ registry' = registry /\ faults' = faults /\ holder' = holder
    BY <1>5 DEF LastWords
  <2> QED
    BY <1>2, <2>1, <2>2, <2>3, <2>4, <2>5, TellMoves
<1> QED
  BY <1>3, <1>4, <1>5

(* An exception, and _finish.                                               *)
LEMMA QuietMoves ==
  ASSUME FeedTypeOK, LockHeld, NEW i \in Started, Raise(i) \/ Finish(i)
  PROVE  WorkerMoves(i)
<1>1. runs[i] \in FeedRunState /\ Len(runs) \in Nat /\ Len(runs) < Nightly
      /\ i \in 1..Len(runs)
  BY FeedAssumption DEF FeedTypeOK, Started, Nightly
<1>2. CASE Raise(i)
  <2> DEFINE q == Winds(runs[i], <<"error", "finished">>)
  <2>1. q \in FeedRunState /\ q.stage = "tail"
    <3>1. <<"error", "finished">> \in Seq(Kinds)
      BY DEF Kinds
    <3> QED
      BY <1>1, <3>1, RunTypes
  <2>2. runs' = [runs EXCEPT ![i] = q]
    BY <1>2 DEF Raise
  <2> HIDE DEF q
  <2>3. /\ runs' \in Seq(FeedRunState) /\ Len(runs') = Len(runs)
        /\ \A j \in Started : runs'[j] = IF j = i THEN q ELSE runs[j]
    BY <2>1, <2>2, SetRun
  <2>4. OneMoves(i) /\ Posts(i)
    BY <1>2, <2>1, <2>3 DEF OneMoves, Posts, Raise, Working
  <2>5. FeedTypeOK'
    BY <1>2, <2>3, FeedAssumption DEF FeedTypeOK, Raise, Fault, None, Nightly
  <2>6. LockHeld'
    BY <1>2, <2>1, <2>3, <2>4, LockMoves DEF Sweeping, Raise
  <2> QED
    BY <2>4, <2>5, <2>6 DEF WorkerMoves
<1>3. CASE Finish(i)
  <2> DEFINE q == Gone(runs[i], "done")
             e == Ev("end", 0)
             queue == Append(obs.queue, e)
             o == [obs EXCEPT !.queue = queue, !.tail = FALSE]
  <2>1. q \in FeedRunState /\ q.stage = "done"
    BY <1>1, RunTypes
  <2>2. runs' = [runs EXCEPT ![i] = q] /\ obs' = IF Released(i) THEN o ELSE obs
    BY <1>3 DEF Finish
  <2>3. e \in Event /\ e.kind = "end"
    BY DEF Ev, Event, Kinds
  <2> HIDE DEF q, e
  <2>4. /\ runs' \in Seq(FeedRunState) /\ Len(runs') = Len(runs)
        /\ \A j \in Started : runs'[j] = IF j = i THEN q ELSE runs[j]
    BY <2>1, <2>2, SetRun
  <2>5. obs \in [run : 0..Len(runs), queue : Seq(Event), tail : BOOLEAN]
    BY DEF FeedTypeOK
  <2>6. queue \in Seq(Event) /\ queue # <<>> /\ Last(queue) = e
    <3>1. queue \in Seq(Event) /\ Len(queue) = Len(obs.queue) + 1
          /\ queue[Len(obs.queue) + 1] = e /\ Len(obs.queue) \in Nat
      BY <2>3, <2>5
    <3> HIDE DEF queue
    <3> QED
      BY <3>1 DEF Last
  <2> HIDE DEF queue
  <2>7. /\ o \in [run : 0..Len(runs), queue : Seq(Event), tail : BOOLEAN]
        /\ o.run = obs.run /\ ~o.tail /\ o.queue = queue
    BY <2>5, <2>6
  <2> HIDE DEF o
  <2>8. OneMoves(i)
    BY <1>3, <2>1, <2>4 DEF OneMoves, Finish
  <2>9. Posts(i)
    <3>1. obs'.run = obs.run
      BY <2>2, <2>7
    <3>2. ~obs.tail => obs' = obs
      BY <2>2 DEF Released
    <3>3. CASE obs.tail /\ obs.run = i
      BY <2>2, <2>3, <2>6, <2>7, <3>1, <3>3 DEF Posts, Released
    <3>4. CASE obs.tail /\ obs.run # i
      BY <2>2, <3>1, <3>4 DEF Posts, Released
    <3> QED
      BY <3>1, <3>2, <3>3, <3>4 DEF Posts
  <2>10. FeedTypeOK'
    <3>1. obs' \in [run : 0..Len(runs'), queue : Seq(Event), tail : BOOLEAN]
      BY <2>2, <2>4, <2>5, <2>7
    <3>2. UNCHANGED <<registry, holder, nightly, faults>>
      BY <1>3 DEF Finish
    <3> QED
      BY <2>4, <3>1, <3>2 DEF FeedTypeOK
  <2>11. LockHeld'
    <3>1. nightly' = nightly /\ holder' = holder
      BY <1>3 DEF Finish
    <3> QED
      BY <2>1, <2>4, <2>8, <3>1, LockMoves DEF Sweeping
  <2> QED
    BY <2>8, <2>9, <2>10, <2>11 DEF WorkerMoves
<1> QED
  BY <1>2, <1>3

(* Every step of a worker.                                                  *)
LEMMA WorkerStep ==
  ASSUME FeedTypeOK, LockHeld, NEW i \in Started, Worker(i) \/ FlushFails(i) \/ Raise(i)
  PROVE  WorkerMoves(i)
BY ClaimMoves, PartOrWallMoves, LateMoves, QuietMoves DEF Worker

(***************************************************************************)
(* The inductive invariant: types, the lock, and what a reader may rely on *)
(* while the server works.                                                 *)
(***************************************************************************)
ReaderOK ==
  reader \in [at : {"none", "asked", "answered", "open", "ended", "broken"},
              by : {"", "start", "observe", "reconnect"},
              answer : {"", "open", "nothing", "conflict", "refused"},
              active : BOOLEAN, received : BOOLEAN, sawFinish : BOOLEAN,
              swapped : BOOLEAN]

\* An open answer names a run; a place among its readers lasts while the run
\* does; a reader that waits for more has such a place, or the last word.
Follows ==
  /\ obs.tail => obs.run # None /\ Live(obs.run)
  /\ reader.at \in {"answered", "open"} /\ reader.answer = "open" => obs.run # None
  /\ reader.at = "open" =>
       /\ reader.answer = "open"
       /\ obs.tail \/ Cut \/ (obs.queue # <<>> /\ Last(obs.queue).kind = "end")

FeedInv == FeedTypeOK /\ LockHeld /\ ReaderOK /\ Follows

(* The page opens on an api that has no run.                                *)
LEMMA InitInv == Init => FeedInv
<1> SUFFICES ASSUME Init PROVE FeedInv
  OBVIOUS
<1>1. runs = <<>> /\ registry = None /\ holder = None /\ nightly = "idle"
      /\ obs = NoObs /\ faults = 0
  BY DEF Init, FeedInit
<1>2. reader = [NoReader EXCEPT !.at = "asked", !.by = "observe"]
  BY DEF Init
<1>3. <<>> \in Seq(FeedRunState) /\ Len(<<>>) = 0 /\ <<>> \in Seq(Event)
  OBVIOUS
<1>4. FeedTypeOK
  <2>1. obs \in [run : 0..Len(runs), queue : Seq(Event), tail : BOOLEAN]
    BY <1>1, <1>3 DEF NoObs, None
  <2> QED
    BY <1>1, <1>3, <2>1, FeedAssumption DEF FeedTypeOK, None, Nightly
<1>5. LockHeld
  BY <1>1, <1>3 DEF LockHeld, Started
<1>6. ReaderOK /\ reader.at = "asked"
  BY <1>2 DEF ReaderOK, NoReader
<1>7. Follows
  BY <1>1, <1>6 DEF Follows, NoObs
<1> QED
  BY <1>4, <1>5, <1>6, <1>7 DEF FeedInv

\* The server's runs are as they were; the observer may be another.
LEMMA ServerAtRest ==
  ASSUME FeedInv, runs' = runs, registry' = registry, holder' = holder,
         nightly' = nightly, faults' \in 0..MaxFaults,
         obs' \in [run : 0..Len(runs), queue : Seq(Event), tail : BOOLEAN]
  PROVE  FeedTypeOK' /\ LockHeld'
<1>1. FeedTypeOK'
  BY DEF FeedInv, FeedTypeOK
<1>2. LockHeld'
  BY DEF FeedInv, LockHeld, Started, Sweeping
<1> QED
  BY <1>1, <1>2

(* Faults stay within their bound.                                          *)
LEMMA FaultType ==
  ASSUME FeedTypeOK, Fault \/ faults' = faults
  PROVE  faults' \in 0..MaxFaults
BY FeedAssumption DEF FeedTypeOK, Fault

\* The page lets its reader go, or takes a fresh one.
LEMMA HangsUp ==
  ASSUME FeedInv, runs' = runs, registry' = registry, holder' = holder,
         nightly' = nightly, faults' \in 0..MaxFaults, obs' = NoObs,
         ReaderOK', reader'.at \in {"none", "asked", "broken"}
  PROVE  FeedInv'
<1>1. NoObs \in [run : 0..Len(runs), queue : Seq(Event), tail : BOOLEAN]
  <2>1. Len(runs) \in Nat /\ <<>> \in Seq(Event)
    BY DEF FeedInv, FeedTypeOK
  <2> QED
    BY <2>1 DEF NoObs, None
<1>2. FeedTypeOK' /\ LockHeld'
  BY <1>1, ServerAtRest
<1>3. Follows'
  BY DEF Follows, NoObs
<1> QED
  BY <1>2, <1>3 DEF FeedInv

(* readRun asks with a fresh reader.                                        *)
LEMMA FreshReader ==
  ASSUME NEW p, NEW by \in {"start", "observe", "reconnect"}, ReadRun(p, by)
  PROVE  obs' = NoObs /\ ReaderOK' /\ reader'.at = "asked"
BY DEF ReadRun, ReaderOK, NoReader

(* Without a reader.                                                        *)
LEMMA NoReaderLeft ==
  ASSUME reader' = NoReader
  PROVE  ReaderOK' /\ reader'.at = "none"
BY DEF ReaderOK, NoReader

(* The reader is answered or ends.                                          *)
LEMMA SettleStep ==
  ASSUME FeedInv, Settles
  PROVE  FeedInv'
<1>1. UNCHANGED <<runs, registry, holder, nightly, faults>>
  BY DEF Settles, ReaderEnds, NothingToWatch, ReaderBreaks, Refused, Conflict
<1>2. obs' = NoObs /\ ReaderOK' /\ reader'.at \in {"none", "asked"}
  <2>1. CASE Conflict
    BY <2>1, FreshReader DEF Conflict
  <2>2. CASE ReaderEnds \/ NothingToWatch \/ ReaderBreaks \/ Refused
    <3>1. Closed
      BY <2>2 DEF ReaderEnds, NothingToWatch, ReaderBreaks, Refused
    <3> QED
      BY <3>1, NoReaderLeft DEF Closed
  <2> QED
    BY <2>1, <2>2 DEF Settles
<1>3. faults' \in 0..MaxFaults
  BY <1>1, FaultType DEF FeedInv
<1> QED
  BY <1>1, <1>2, <1>3, HangsUp

(* What does not touch the reader or the runs.                              *)
LEMMA SameObserver ==
  ASSUME FeedInv, reader' = reader, obs' = obs, runs' = runs
  PROVE  ReaderOK' /\ Follows'
BY ZenonT(40) DEF FeedInv, ReaderOK, Follows, Live, Cut

\* Steps of the page that leave its reader alone.
LEMMA PageStep ==
  ASSUME FeedInv, reader' = reader, obs' = obs,
         UNCHANGED <<runs, registry, holder, nightly>>, faults' \in 0..MaxFaults
  PROVE  FeedInv'
<1>1. FeedTypeOK' /\ LockHeld'
  <2>1. obs \in [run : 0..Len(runs), queue : Seq(Event), tail : BOOLEAN]
    BY DEF FeedInv, FeedTypeOK
  <2> QED
    BY <2>1, ServerAtRest
<1> QED
  BY <1>1, SameObserver DEF FeedInv

(* The operator, the pause call and the loads.                              *)
LEMMA OperatorStep ==
  ASSUME FeedInv, Operates \/ PauseReturns \/ OrphanSettles \/ LoadLands
  PROVE  FeedInv'
<1>1. UNCHANGED <<runs, registry, holder, nightly>>
  BY DEF Operates, StartClick, ReconnectClick, PauseClick, TurnPage, Leave, Open,
         PauseReturns, OrphanSettles, LoadLands, feedVars
<1>2. faults' \in 0..MaxFaults
  <2>1. Fault \/ faults' = faults
    BY DEF Operates, StartClick, ReconnectClick, PauseClick, TurnPage, Leave, Open,
           PauseReturns, OrphanSettles, LoadLands, feedVars
  <2> QED
    BY <2>1, FaultType DEF FeedInv
<1>3. CASE StartClick \/ ReconnectClick \/ Open
  <2>1. obs' = NoObs /\ ReaderOK' /\ reader'.at = "asked"
    BY <1>3, FreshReader DEF StartClick, ReconnectClick, Open
  <2> QED
    BY <1>1, <1>2, <2>1, HangsUp
<1>4. CASE Leave
  <2>1. obs' = NoObs /\ ReaderOK' /\ reader'.at = "none"
    BY <1>4, NoReaderLeft DEF Leave
  <2> QED
    BY <1>1, <1>2, <2>1, HangsUp
<1>5. CASE PauseClick \/ TurnPage \/ OrphanSettles \/ LoadLands
  <2>1. reader' = reader /\ obs' = obs
    BY <1>5 DEF PauseClick, TurnPage, OrphanSettles, LoadLands, feedVars
  <2> QED
    BY <1>1, <1>2, <2>1, PageStep
<1>6. CASE PauseReturns
  <2>1. CASE ReadRun(page, "observe")
    <3>1. obs' = NoObs /\ ReaderOK' /\ reader'.at = "asked"
      BY <2>1, FreshReader
    <3> QED
      BY <1>1, <1>2, <3>1, HangsUp
  <2>2. CASE reader' = reader /\ obs' = obs
    BY <1>1, <1>2, <2>2, PageStep
  <2> QED
    BY <1>6, <2>1, <2>2 DEF PauseReturns
<1> QED
  BY <1>3, <1>4, <1>5, <1>6 DEF Operates

\* A run is asked to stop: nothing but its flag.
LEMMA StopStep ==
  ASSUME FeedInv, RequestStop, UNCHANGED <<registry, holder, nightly, obs, reader>>,
         faults' \in 0..MaxFaults
  PROVE  FeedInv'
<1> DEFINE i == registry
           stop == Working(i)
           q == [runs[i] EXCEPT !.stop = stop]
<1>1. i \in Started /\ runs[i] \in FeedRunState
  <2>1. i \in Started
    BY DEF FeedInv, FeedTypeOK, RequestStop, Going, None, Started
  <2> QED
    BY <2>1 DEF FeedInv, FeedTypeOK, Started
<1>2. runs' = [runs EXCEPT ![i] = q]
  BY DEF RequestStop
<1>3. stop \in BOOLEAN
  BY DEF Working
<1> HIDE DEF stop
<1>4. q \in FeedRunState /\ q.stage = runs[i].stage
  BY <1>1, <1>3 DEF FeedRunState
<1> HIDE DEF q, i
<1>5. /\ runs' \in Seq(FeedRunState) /\ Len(runs') = Len(runs)
      /\ \A j \in Started : runs'[j] = IF j = i THEN q ELSE runs[j]
  BY <1>1, <1>2, <1>4, SetRun DEF FeedInv
<1>6. Started' = Started /\ \A j \in Started : runs'[j].stage = runs[j].stage
  BY <1>4, <1>5 DEF Started
<1>7. FeedTypeOK'
  BY <1>5 DEF FeedInv, FeedTypeOK
<1>8. LockHeld'
  BY <1>6 DEF FeedInv, LockHeld, Sweeping
<1>9. ReaderOK' /\ Follows'
  <2>1. obs.run # None => obs.run \in Started
    BY DEF FeedInv, FeedTypeOK, None, Started
  <2>2. obs.run # None => (Live(obs.run)' <=> Live(obs.run))
    BY <1>6, <2>1 DEF Live
  <2>3. Cut' <=> Cut
    BY <1>6, <2>1 DEF Cut
  <2> QED
    BY ZenonT(40), <2>2, <2>3 DEF FeedInv, ReaderOK, Follows
<1> QED
  BY <1>7, <1>8, <1>9 DEF FeedInv

(* The api answers a request for a stream.                                  *)
LEMMA ServeStep ==
  ASSUME FeedInv, ServeStart \/ ServeObserve \/ ServeRefuses
  PROVE  FeedInv'
<1>1. /\ ReaderOK /\ reader.at = "asked"
      /\ Len(runs) \in Nat /\ registry \in 0..Len(runs) /\ <<>> \in Seq(Event)
      /\ obs \in [run : 0..Len(runs), queue : Seq(Event), tail : BOOLEAN]
  BY DEF FeedInv, FeedTypeOK, ServeStart, ServeObserve, ServeRefuses
<1>2. faults' \in 0..MaxFaults
  BY FaultType DEF FeedInv, ServeStart, ServeObserve, ServeRefuses
<1>3. ASSUME NEW answer \in {"open", "nothing", "conflict", "refused"}, Answered(answer)
      PROVE  ReaderOK' /\ reader'.at = "answered" /\ reader'.answer = answer
  BY <1>1, <1>3 DEF ReaderOK, Answered
<1>4. CASE ServeStart /\ StartRun /\ Answered("open") /\ obs' = [NoObs EXCEPT !.run = Len(runs) + 1]
  <2>1. /\ runs' \in Seq(FeedRunState) /\ Len(runs') = Len(runs) + 1
        /\ Len(runs') <= MaxRuns /\ registry' = Len(runs')
        /\ \A j \in Started : runs'[j] = runs[j]
        /\ runs'[Len(runs) + 1].stage = "claim"
    BY <1>4, AddRun DEF FeedInv
  <2>2. holder' = holder /\ nightly' = nightly
    BY <1>4 DEF ServeStart
  <2>3. obs' \in [run : 0..Len(runs'), queue : Seq(Event), tail : BOOLEAN]
        /\ obs'.run = Len(runs) + 1 /\ ~obs'.tail
    <3>1. obs' = [run |-> Len(runs) + 1, queue |-> <<>>, tail |-> FALSE]
      BY <1>4 DEF NoObs
    <3>2. Len(runs) + 1 \in 0..Len(runs')
      BY <1>1, <2>1
    <3> QED
      BY <1>1, <3>1, <3>2
  <2>4. FeedTypeOK'
    BY <1>1, <1>2, <2>1, <2>2, <2>3 DEF FeedInv, FeedTypeOK
  <2>5. LockHeld'
    <3>1. ASSUME NEW j \in Started', Sweeping(j)'
          PROVE  j \in Started /\ Sweeping(j)
      BY <1>1, <2>1, <3>1 DEF Started, Sweeping
    <3> QED
      BY <2>2, <3>1 DEF FeedInv, LockHeld
  <2>6. Follows'
    BY <1>1, <1>3, <1>4, <2>3 DEF Follows, None
  <2> QED
    BY <1>3, <1>4, <2>4, <2>5, <2>6 DEF FeedInv
<1>5. CASE ServeStart /\ Answered("conflict") /\ UNCHANGED <<runs, registry, obs>>
  <2>1. FeedTypeOK' /\ LockHeld'
    BY <1>1, <1>2, <1>5, ServerAtRest DEF ServeStart
  <2>2. ReaderOK' /\ Follows'
    BY <1>3, <1>5 DEF Follows, FeedInv, Live
  <2> QED
    BY <2>1, <2>2 DEF FeedInv
<1>6. CASE ServeObserve
  <2>1. UNCHANGED <<runs, registry, holder, nightly>>
    BY <1>6 DEF ServeObserve
  <2>2. CASE registry = None
    <3>1. Answered("nothing") /\ obs' = obs
      BY <1>6, <2>2 DEF ServeObserve
    <3>2. FeedTypeOK' /\ LockHeld'
      BY <1>1, <1>2, <2>1, <3>1, ServerAtRest
    <3>3. ReaderOK' /\ Follows'
      BY <1>3, <2>1, <3>1 DEF Follows, FeedInv, Live
    <3> QED
      BY <3>2, <3>3 DEF FeedInv
  <2>3. CASE registry # None
    <3>1. /\ reader' = [reader EXCEPT !.at = "answered", !.answer = "open",
                                      !.active = Live(registry)]
          /\ obs' = [NoObs EXCEPT !.run = registry]
      BY <1>6, <2>3 DEF ServeObserve
    <3>2. obs' \in [run : 0..Len(runs), queue : Seq(Event), tail : BOOLEAN]
          /\ obs'.run = registry /\ ~obs'.tail
      BY <1>1, <3>1 DEF NoObs
    <3>3. Live(registry) \in BOOLEAN
      BY DEF Live
    <3>4. ReaderOK' /\ reader'.at = "answered"
      BY <1>1, <3>1, <3>3 DEF ReaderOK
    <3>5. FeedTypeOK' /\ LockHeld'
      BY <1>2, <2>1, <3>2, ServerAtRest
    <3>6. Follows'
      BY <2>3, <3>2, <3>4 DEF Follows
    <3> QED
      BY <3>4, <3>5, <3>6 DEF FeedInv
  <2> QED
    BY <2>2, <2>3
<1>7. CASE ServeRefuses
  <2>1. UNCHANGED <<runs, registry, holder, nightly, obs>> /\ Answered("refused")
    BY <1>7 DEF ServeRefuses
  <2>2. FeedTypeOK' /\ LockHeld'
    BY <1>1, <1>2, <2>1, ServerAtRest
  <2>3. ReaderOK' /\ Follows'
    BY <1>3, <2>1 DEF Follows, FeedInv, Live
  <2> QED
    BY <2>2, <2>3 DEF FeedInv
<1> QED
  BY <1>4, <1>5, <1>6, <1>7 DEF ServeStart

(* The body of a stream attaches.                                           *)
LEMMA OpensStep ==
  ASSUME FeedInv, Opens
  PROVE  FeedInv'
<1> DEFINE i == obs.run
           queue == Backlog(i)
<1>1. /\ UNCHANGED <<runs, registry, holder, nightly, faults>>
      /\ reader' = [reader EXCEPT !.at = "open"] /\ reader.answer = "open"
      /\ obs' = [run |-> i, tail |-> Live(i), queue |-> queue]
  BY DEF Opens, Attach
<1>2. i \in Started /\ i # None /\ Len(runs) \in Nat
  BY DEF FeedInv, Follows, Opens, FeedTypeOK, Started, None
<1>3. runs[i] \in FeedRunState /\ runs[i].log \in Seq(Event)
  <2>1. runs[i] \in FeedRunState
    BY <1>2 DEF FeedInv, FeedTypeOK, Started
  <2> QED
    BY <2>1, RunTypes
<1>4. queue \in Seq(Event)
      /\ (runs[i].stage = "done" => queue # <<>> /\ Last(queue).kind = "end")
  <2>1. Ev("end", 0) \in Event /\ Ev("end", 0).kind = "end"
    BY DEF Ev, Event, Kinds
  <2>2. CASE runs[i].stage = "done"
    <3> DEFINE log == runs[i].log
    <3>1. queue = Append(log, Ev("end", 0)) /\ log \in Seq(Event)
      BY <1>3, <2>2 DEF Backlog
    <3> HIDE DEF queue, log
    <3>2. /\ queue \in Seq(Event) /\ Len(queue) = Len(log) + 1 /\ Len(log) \in Nat
          /\ queue[Len(log) + 1] = Ev("end", 0)
      BY <2>1, <3>1
    <3> QED
      BY <2>1, <3>2 DEF Last
  <2>3. CASE runs[i].stage # "done"
    BY <1>3, <2>3 DEF Backlog
  <2> QED
    BY <2>2, <2>3
<1> HIDE DEF queue
<1>5. Live(i) \in BOOLEAN
  BY DEF Live
<1>6. obs' \in [run : 0..Len(runs), queue : Seq(Event), tail : BOOLEAN]
  BY <1>1, <1>2, <1>4, <1>5 DEF Started
<1>7. FeedTypeOK' /\ LockHeld'
  BY <1>1, <1>6, ServerAtRest, FaultType DEF FeedInv
<1>8. ReaderOK' /\ reader'.answer = "open"
  BY <1>1 DEF FeedInv, ReaderOK
<1>9. Follows'
  <2>1. obs'.run = i /\ obs'.tail = Live(i) /\ obs'.queue = queue
    BY <1>1
  <2>2. Live(obs.run)' = Live(i)
    BY <1>1, <2>1 DEF Live
  <2>3. Cut' <=> runs[i].stage = "dead"
    BY <1>1, <1>2, <2>1 DEF Cut
  <2>4. Live(i) \/ runs[i].stage \in {"done", "dead"}
    BY DEF Live
  <2> QED
    BY <1>1, <1>2, <1>4, <1>8, <2>1, <2>2, <2>3, <2>4 DEF Follows
<1> QED
  BY <1>7, <1>8, <1>9 DEF FeedInv

(* An event reaches the page.                                               *)
LEMMA EventLandsStep ==
  ASSUME FeedInv, EventLands
  PROVE  FeedInv'
<1> DEFINE e == Head(obs.queue)
           rest == Tail(obs.queue)
<1>1. /\ obs \in [run : 0..Len(runs), queue : Seq(Event), tail : BOOLEAN]
      /\ obs.queue # <<>> /\ reader.at = "open" /\ ReaderOK /\ Follows
      /\ UNCHANGED <<runs, registry, holder, nightly, faults>>
  BY DEF FeedInv, FeedTypeOK, EventLands
<1>2. obs' = [obs EXCEPT !.queue = rest]
  BY DEF EventLands
<1>3. rest \in Seq(Event)
  BY <1>1
<1>4. CASE e.kind = "end"
  <2>1. reader' = [reader EXCEPT !.at = "ended"]
    BY <1>4 DEF EventLands
  <2> HIDE DEF rest
  <2>2. obs' \in [run : 0..Len(runs), queue : Seq(Event), tail : BOOLEAN]
        /\ obs'.run = obs.run /\ obs'.tail = obs.tail
    BY <1>1, <1>2, <1>3
  <2>3. FeedTypeOK' /\ LockHeld'
    BY <1>1, <2>2, ServerAtRest, FaultType DEF FeedInv
  <2>4. ReaderOK' /\ reader'.at = "ended"
    BY <1>1, <2>1 DEF ReaderOK
  <2>5. Follows'
    BY <1>1, <2>2, <2>4 DEF Follows, Live
  <2> QED
    BY <2>3, <2>4, <2>5 DEF FeedInv
<1>5. CASE e.kind # "end"
  <2>1. reader' = [reader EXCEPT !.received = TRUE, !.swapped = TRUE,
                                 !.sawFinish = @ \/ e.kind = "finished"]
    BY <1>5 DEF EventLands
  <2>2. Last(obs.queue).kind = "end" => rest # <<>> /\ Last(rest) = Last(obs.queue)
    <3>1. Len(obs.queue) \in Nat /\ Len(obs.queue) >= 1 /\ e = obs.queue[1]
          /\ Len(rest) = Len(obs.queue) - 1
          /\ \A k \in 1..Len(rest) : rest[k] = obs.queue[k + 1]
      BY <1>1
    <3>2. Last(obs.queue) = obs.queue[Len(obs.queue)] /\ Last(rest) = rest[Len(rest)]
      BY DEF Last
    <3> HIDE DEF rest, e
    <3> QED
      BY <1>5, <3>1, <3>2
  <2> HIDE DEF rest
  <2>3. obs' \in [run : 0..Len(runs), queue : Seq(Event), tail : BOOLEAN]
        /\ obs'.run = obs.run /\ obs'.tail = obs.tail /\ obs'.queue = rest
    BY <1>1, <1>2, <1>3
  <2>4. FeedTypeOK' /\ LockHeld'
    BY <1>1, <2>3, ServerAtRest, FaultType DEF FeedInv
  <2>5. ReaderOK' /\ reader'.at = "open" /\ reader'.answer = reader.answer
    BY <1>1, <2>1 DEF ReaderOK
  <2>6. Follows'
    BY <1>1, <2>2, <2>3, <2>5 DEF Follows, Live, Cut
  <2> QED
    BY <2>4, <2>5, <2>6 DEF FeedInv
<1> QED
  BY <1>4, <1>5

(* A socket dies.                                                           *)
LEMMA DropStep ==
  ASSUME FeedInv, Drop
  PROVE  FeedInv'
<1>1. UNCHANGED <<runs, registry, holder, nightly>> /\ obs' = NoObs
      /\ (Fault \/ faults' = faults)
  BY DEF Drop
<1>2. ReaderOK' /\ reader'.at = "broken"
  BY DEF Drop, FeedInv, ReaderOK
<1> QED
  BY <1>1, <1>2, FaultType, HangsUp DEF FeedInv

(* The api answers a pause.                                                 *)
LEMMA PauseServedStep ==
  ASSUME FeedInv, ServePause
  PROVE  FeedInv'
<1>1. UNCHANGED <<registry, holder, nightly, obs, reader>> /\ (Fault \/ faults' = faults)
  BY DEF ServePause
<1>2. faults' \in 0..MaxFaults
  BY <1>1, FaultType DEF FeedInv
<1>3. CASE runs' = runs
  BY <1>1, <1>2, <1>3, PageStep
<1>4. CASE RequestStop
  BY <1>1, <1>2, <1>4, StopStep
<1> QED
  BY <1>3, <1>4 DEF ServePause

(* The worker, seen by a reader.                                           *)
LEMMA WorkerKeepsInv ==
  ASSUME FeedInv, NEW i \in Started, WorkerMoves(i), reader' = reader
  PROVE  FeedInv'
<1>1. OneMoves(i) /\ Posts(i) /\ FeedTypeOK' /\ LockHeld'
  BY DEF WorkerMoves
<1>2. obs.run # None => obs.run \in Started
  BY DEF FeedInv, FeedTypeOK, None, Started
<1>3. obs'.run = obs.run /\ (obs'.tail => obs.tail)
  BY <1>1 DEF Posts
<1>4. Cut => Cut'
  BY <1>1, <1>2, <1>3 DEF Cut, OneMoves
<1>5. obs'.tail => obs'.run # None /\ Live(obs.run)'
  <2>1. SUFFICES ASSUME obs'.tail PROVE obs.run # None /\ Live(obs.run)'
    BY <1>3
  <2>2. obs.tail /\ obs.run # None /\ Live(obs.run)
    BY <1>3, <2>1 DEF FeedInv, Follows
  <2>3. CASE obs.run = i
    BY <1>1, <1>3, <2>1, <2>2, <2>3 DEF Posts, OneMoves, Live
  <2>4. CASE obs.run # i
    BY <1>1, <1>2, <1>3, <2>2, <2>4 DEF OneMoves, Live
  <2> QED
    BY <2>2, <2>3, <2>4
<1>6. reader.at = "open" =>
        obs'.tail \/ Cut' \/ (obs'.queue # <<>> /\ Last(obs'.queue).kind = "end")
  BY <1>1, <1>4 DEF FeedInv, Follows, Posts
<1>7. ReaderOK' /\ Follows'
  BY <1>3, <1>5, <1>6 DEF FeedInv, ReaderOK, Follows
<1> QED
  BY <1>1, <1>7 DEF FeedInv

(* The api container restarts.                                              *)
LEMMA RestartStep ==
  ASSUME FeedInv, Restart, reader' = reader
  PROVE  FeedInv'
<1>1. /\ runs \in Seq(FeedRunState) /\ Len(runs) \in Nat /\ Len(runs) <= MaxRuns
      /\ obs \in [run : 0..Len(runs), queue : Seq(Event), tail : BOOLEAN]
      /\ \A j \in Started : runs[j] \in FeedRunState
  BY DEF FeedInv, FeedTypeOK, Started
<1>2. ASSUME NEW j \in Started
      PROVE  Gone(runs[j], "dead") \in FeedRunState /\ Gone(runs[j], "dead").stage = "dead"
  BY <1>1, RunTypes
<1> DEFINE q(j) == IF Live(j) THEN Gone(runs[j], "dead") ELSE runs[j]
<1>3. \A j \in Started : q(j) \in FeedRunState /\ q(j).stage \in {"done", "dead"}
  BY <1>1, <1>2 DEF Live
<1>4. runs' = [j \in 1..Len(runs) |-> q(j)]
  BY DEF Restart, Started
<1>5. \A j \in Started : runs[j].stage = "dead" => q(j).stage = "dead"
  BY DEF Live
<1> HIDE DEF q
<1>6. /\ runs' \in Seq(FeedRunState) /\ Len(runs') = Len(runs)
      /\ \A j \in Started : runs'[j] = q(j)
  BY <1>1, <1>3, <1>4 DEF Started
<1>7. obs' = [obs EXCEPT !.tail = FALSE] /\ registry' = None /\ nightly' = nightly
      /\ holder' \in {holder, None}
      /\ (holder = Nightly => holder' = Nightly) /\ faults' \in 0..MaxFaults
  BY FaultType DEF Restart, FeedInv
<1>8. obs' \in [run : 0..Len(runs), queue : Seq(Event), tail : BOOLEAN]
      /\ obs'.run = obs.run /\ ~obs'.tail
  BY <1>1, <1>7
<1>9. FeedTypeOK'
  <2>1. 0 \in 0..Nightly /\ 0 \in 0..Len(runs)
    BY <1>1, FeedAssumption DEF Nightly
  <2> QED
    BY <1>1, <1>6, <1>7, <1>8, <2>1 DEF FeedInv, FeedTypeOK, None
<1>10. LockHeld'
  <2>1. ~\E j \in Started' : Sweeping(j)'
    BY <1>3, <1>6 DEF Started, Sweeping
  <2> QED
    BY <1>7, <2>1 DEF FeedInv, LockHeld
<1>11. Follows'
  <2>1. reader.at = "open" => obs.run \in Started /\ runs'[obs.run].stage \in {"done", "dead"}
    BY <1>1, <1>3, <1>6 DEF FeedInv, Follows, None, Started
  <2>2. reader.at = "open" => Cut' \/ (obs.queue # <<>> /\ Last(obs.queue).kind = "end")
    <3>1. SUFFICES ASSUME reader.at = "open"
                   PROVE  Cut' \/ (obs.queue # <<>> /\ Last(obs.queue).kind = "end")
      OBVIOUS
    <3>2. CASE obs.tail
      <4>1. Live(obs.run) /\ obs.run # None
        BY <3>2 DEF FeedInv, Follows
      <4>2. runs'[obs.run].stage = "dead"
        BY <1>2, <1>6, <2>1, <3>1, <4>1 DEF q
      <4> QED
        BY <1>8, <4>1, <4>2 DEF Cut
    <3>3. CASE Cut
      BY <1>5, <1>6, <1>8, <2>1, <3>1, <3>3 DEF Cut
    <3> QED
      BY <3>1, <3>2, <3>3 DEF FeedInv, Follows
  <2> QED
    BY <1>7, <1>8, <2>2 DEF FeedInv, Follows
<1>12. ReaderOK'
  BY DEF FeedInv, ReaderOK
<1> QED
  BY <1>9, <1>10, <1>11, <1>12 DEF FeedInv

(* Other operators, retention and the nightly job.                          *)
LEMMA OthersStep ==
  ASSUME FeedInv, Purge \/ OtherStarts \/ OtherPauses \/ Night \/ NightEnds,
         reader' = reader
  PROVE  FeedInv'
<1>1. /\ Len(runs) \in Nat /\ registry \in 0..Len(runs) /\ Len(runs) < Nightly
      /\ obs \in [run : 0..Len(runs), queue : Seq(Event), tail : BOOLEAN]
      /\ \A j \in Started : j # Nightly /\ j # None
  BY FeedAssumption DEF FeedInv, FeedTypeOK, Started, Nightly, None
<1>2. obs' = obs /\ faults' = faults
  BY DEF Purge, OtherStarts, OtherPauses, Night, NightEnds
<1>3. CASE OtherPauses
  <2>1. faults' \in 0..MaxFaults
    BY <1>2 DEF FeedInv, FeedTypeOK
  <2> QED
    BY <1>3, <2>1, StopStep DEF OtherPauses
<1>4. CASE OtherStarts
  <2>1. /\ runs' \in Seq(FeedRunState) /\ Len(runs') = Len(runs) + 1
        /\ Len(runs') <= MaxRuns /\ registry' = Len(runs')
        /\ \A j \in Started : runs'[j] = runs[j]
        /\ runs'[Len(runs) + 1].stage = "claim"
    BY <1>4, AddRun DEF FeedInv, OtherStarts
  <2>2. holder' = holder /\ nightly' = nightly
    BY <1>4 DEF OtherStarts
  <2>3. FeedTypeOK'
    BY <1>1, <1>2, <2>1, <2>2 DEF FeedInv, FeedTypeOK
  <2>4. LockHeld'
    <3>1. ASSUME NEW j \in Started', Sweeping(j)'
          PROVE  j \in Started /\ Sweeping(j)
      BY <1>1, <2>1, <3>1 DEF Started, Sweeping
    <3> QED
      BY <2>2, <3>1 DEF FeedInv, LockHeld
  <2>5. ReaderOK' /\ Follows'
    <3>1. obs.run # None => obs.run \in Started /\ runs'[obs.run] = runs[obs.run]
      BY <1>1, <2>1 DEF None, Started
    <3> QED
      BY ZenonT(40), <1>2, <3>1 DEF FeedInv, ReaderOK, Follows, Live, Cut
  <2> QED
    BY <2>3, <2>4, <2>5 DEF FeedInv
<1>5. CASE Purge \/ Night \/ NightEnds
  <2>1. runs' = runs
    BY <1>5 DEF Purge, Night, NightEnds
  <2>2. FeedTypeOK'
    BY <1>1, <1>2, <1>5, FeedAssumption
    DEF FeedInv, FeedTypeOK, Purge, Night, NightEnds, None, Nightly
  <2>3. LockHeld'
    BY <1>1, <1>5, <2>1
    DEF FeedInv, LockHeld, Started, Sweeping, Purge, Night, NightEnds, Claimable
  <2>4. ReaderOK' /\ Follows'
    BY <1>2, <2>1, SameObserver
  <2> QED
    BY <2>2, <2>3, <2>4 DEF FeedInv
<1> QED
  BY <1>3, <1>4, <1>5

(* Every step of the composition.                                           *)
LEMMA StepInv == FeedInv /\ [Next]_vars => FeedInv'
<1> SUFFICES ASSUME FeedInv, [Next]_vars PROVE FeedInv'
  OBVIOUS
<1>1. CASE ServerStep /\ UNCHANGED pageVars
  <2>1. reader' = reader
    BY <1>1 DEF pageVars
  <2>2. CASE \E i \in Started : Worker(i) \/ FlushFails(i) \/ Raise(i)
    <3>1. PICK i \in Started : Worker(i) \/ FlushFails(i) \/ Raise(i)
      BY <2>2
    <3>2. WorkerMoves(i)
      BY <3>1, WorkerStep DEF FeedInv
    <3> QED
      BY <2>1, <3>2, WorkerKeepsInv
  <2>3. CASE Restart
    BY <2>1, <2>3, RestartStep
  <2>4. CASE Purge \/ OtherStarts \/ OtherPauses \/ Night \/ NightEnds
    BY <2>1, <2>4, OthersStep
  <2> QED
    BY <1>1, <2>2, <2>3, <2>4 DEF ServerStep
<1>2. CASE Settles
  BY <1>2, SettleStep
<1>3. CASE Operates \/ PauseReturns \/ OrphanSettles \/ LoadLands
  BY <1>3, OperatorStep
<1>4. CASE ServeStart \/ ServeObserve \/ ServeRefuses
  BY <1>4, ServeStep
<1>5. CASE Opens
  BY <1>5, OpensStep
<1>6. CASE EventLands
  BY <1>6, EventLandsStep
<1>7. CASE Drop
  BY <1>7, DropStep
<1>8. CASE ServePause
  BY <1>8, PauseServedStep
<1>9. CASE UNCHANGED vars
  <2>1. reader' = reader /\ UNCHANGED <<runs, registry, holder, nightly, obs, faults>>
    BY <1>9 DEF vars, pageVars, feedVars
  <2>2. faults' \in 0..MaxFaults
    BY <2>1 DEF FeedInv, FeedTypeOK
  <2> QED
    BY <2>1, <2>2, PageStep
<1> QED
  BY <1>1, <1>2, <1>3, <1>4, <1>5, <1>6, <1>7, <1>8, <1>9 DEF Next, Delivers

(* The invariant holds.                                                     *)
LEMMA Inductive == Spec => []FeedInv
BY InitInv, StepInv, PTL DEF Spec

(***************************************************************************)
(* What follows.                                                           *)
(***************************************************************************)
\* The variables of the server keep their types, whatever page, operators,
\* nightly job and restarts do to them.
THEOREM FeedTypes == Spec => []FeedTypeOK
<1>1. FeedInv => FeedTypeOK
  BY DEF FeedInv
<1> QED
  BY <1>1, Inductive, PTL

\* However many runs are clicked, and whatever dies in the middle of one,
\* two sweeps never work on one supplier: sweeping means holding the lock,
\* and every way out of a sweep, a crash included, gives it back.
THEOREM OneSweepAtATime == Spec => []OneSweep
<1>1. FeedInv => OneSweep
  <2>1. SUFFICES ASSUME FeedInv PROVE OneSweep
    OBVIOUS
  <2>2. ASSUME NEW i \in Started, Sweeping(i)
        PROVE  holder = i /\ i # Nightly
    BY <2>1, <2>2, FeedAssumption DEF FeedInv, LockHeld, FeedTypeOK, Started, Nightly
  <2>3. \A i \in Started : Sweeping(i) => nightly # "sweep"
    BY <2>1, <2>2 DEF FeedInv, LockHeld
  <2>4. ASSUME NEW a \in Started, NEW b \in Started,
               {runs[a].stage, runs[b].stage} \subseteq {"sweep", "walled"}
        PROVE  a = b
    <3>1. Sweeping(a) /\ Sweeping(b)
      BY <2>4 DEF Sweeping
    <3> QED
      BY <2>2, <3>1
  <2> QED
    BY <2>3, <2>4 DEF OneSweep, Sweeping
<1> QED
  BY <1>1, Inductive, PTL

\* A reader that waits for more is never forgotten: it is on the list of a
\* run that still has a worker, or its socket is cut.
THEOREM ReaderIsTold == Spec => []NoReaderHangs
<1>1. FeedInv => NoReaderHangs
  BY DEF FeedInv, Follows, NoReaderHangs
<1> QED
  BY <1>1, Inductive, PTL

(***************************************************************************)
(* The buttons.  The page is known by the fields its handlers assign.      *)
(***************************************************************************)
PageOK ==
  {"shown", "running", "going", "rows", "tally", "pausing", "reconnecting",
   "loading", "fatal"} \subseteq DOMAIN page

\* The page watches exactly while it has a reader.
Buttons ==
  /\ page.running <=> reader.at # "none"
  /\ ButtonsComeBack

ButtonInv == ReaderOK /\ PageOK /\ Buttons

(* The page opens and asks whether a run is going.                         *)
LEMMA InitButtons == Init => ButtonInv
<1> SUFFICES ASSUME Init PROVE ButtonInv
  OBVIOUS
<1>1. page = [NewPage EXCEPT !.running = TRUE]
      /\ reader = [NoReader EXCEPT !.at = "asked", !.by = "observe"]
  BY DEF Init
<1>2. /\ page.running /\ ~page.pausing /\ ~page.reconnecting
      /\ PageOK
  BY <1>1 DEF NewPage, PageOK
<1>3. ReaderOK /\ reader.at = "asked"
  BY <1>1 DEF ReaderOK, NoReader
<1> QED
  BY <1>2, <1>3 DEF ButtonInv, Buttons, ButtonsComeBack

(* readRun: an aborted Reconnect leaves an orphan behind.                  *)
LEMMA ReadRunButtons ==
  ASSUME NEW p, NEW by \in {"start", "observe", "reconnect"}, ReadRun(p, by),
         {"shown", "running", "going", "rows", "tally", "pausing", "reconnecting",
          "loading", "fatal"} \subseteq DOMAIN p,
         p.reconnecting => \/ orphan \/ (reader.at # "none" /\ reader.by = "reconnect")
                           \/ by = "reconnect"
  PROVE  ButtonInv'
<1>1. ReaderOK' /\ reader'.at = "asked" /\ reader'.by = by
  BY DEF ReadRun, ReaderOK, NoReader
<1>2. PageOK' /\ page'.running /\ page'.reconnecting = p.reconnecting
  BY DEF ReadRun, PageOK
<1>3. orphan' <=> Aborts
  BY DEF ReadRun
<1> QED
  BY <1>1, <1>2, <1>3 DEF ButtonInv, Buttons, ButtonsComeBack, Aborts

(* The reader is answered or ends.                                         *)
LEMMA SettleButtons ==
  ASSUME ButtonInv, Settles
  PROVE  ButtonInv'
<1>1. CASE Conflict
  <2> DEFINE p == [page EXCEPT !.going = FALSE, !.pausing = FALSE]
  <2>1. ReadRun(p, "observe")
    BY <1>1 DEF Conflict
  <2>2. /\ {"shown", "running", "going", "rows", "tally", "pausing", "reconnecting",
            "loading", "fatal"} \subseteq DOMAIN p
        /\ p.reconnecting = page.reconnecting
    BY DEF ButtonInv, PageOK
  <2> HIDE DEF p
  <2> QED
    BY <2>1, <2>2, ReadRunButtons DEF ButtonInv, Buttons, ButtonsComeBack
<1>2. CASE ReaderEnds \/ NothingToWatch \/ ReaderBreaks \/ Refused
  <2>1. reader' = NoReader /\ orphan' = orphan /\ reader.at # "none"
    BY <1>2 DEF ReaderEnds, NothingToWatch, ReaderBreaks, Refused, Closed
  <2>2. PageOK' /\ ~page'.running /\ (page'.pausing => page'.going)
    BY <1>2 DEF ReaderEnds, NothingToWatch, ReaderBreaks, Refused, Ended,
                ThatRunHasFinished, ButtonInv, PageOK
  <2>3. page'.reconnecting => page.reconnecting /\ reader.by # "reconnect"
    BY <1>2 DEF ReaderEnds, NothingToWatch, ReaderBreaks, Refused, Ended,
                ThatRunHasFinished, ButtonInv, PageOK
  <2>4. ReaderOK' /\ reader'.at = "none"
    BY <2>1, NoReaderLeft
  <2> QED
    BY <2>1, <2>2, <2>3, <2>4 DEF ButtonInv, Buttons, ButtonsComeBack
<1> QED
  BY <1>1, <1>2 DEF Settles

(* The wire moves the reader along and leaves the buttons to the page.     *)
LEMMA WireButtons ==
  ASSUME ButtonInv, Delivers \/ ServeRefuses \/ Drop
  PROVE  ButtonInv'
<1>1. ReaderOK' /\ reader'.at # "none" /\ reader'.by = reader.by /\ orphan' = orphan
      /\ reader.at # "none"
  <2>1. CASE ServeStart \/ ServeRefuses
    BY <2>1 DEF ServeStart, ServeRefuses, Answered, ButtonInv, ReaderOK
  <2>2. CASE ServeObserve
    BY <2>2 DEF ServeObserve, Answered, ButtonInv, ReaderOK, Live
  <2>3. CASE Opens \/ Drop
    BY <2>3 DEF Opens, Drop, ButtonInv, ReaderOK
  <2>4. CASE EventLands
    BY <2>4 DEF EventLands, ButtonInv, ReaderOK
  <2> QED
    BY <2>1, <2>2, <2>3, <2>4 DEF Delivers
<1>2. PageOK' /\ page'.running = page.running /\ page'.reconnecting = page.reconnecting
  <2>1. CASE EventLands
    BY <2>1 DEF EventLands, OnEvent, ButtonInv, PageOK
  <2>2. CASE Opens
    BY <2>2 DEF Opens, ButtonInv, PageOK
  <2>3. CASE page' = page
    BY <2>3 DEF ButtonInv, PageOK
  <2> QED
    BY <2>1, <2>2, <2>3 DEF Delivers, ServeStart, ServeObserve, ServeRefuses, Drop
<1> QED
  BY <1>1, <1>2 DEF ButtonInv, Buttons, ButtonsComeBack

(* The operator, the pause call and the loads.                             *)
LEMMA OperatorButtons ==
  ASSUME ButtonInv, Operates \/ PauseReturns \/ OrphanSettles \/ LoadLands
  PROVE  ButtonInv'
<1> DEFINE Fields == {"shown", "running", "going", "rows", "tally", "pausing",
                      "reconnecting", "loading", "fatal"}
<1>1. CASE StartClick
  <2> DEFINE p == [page EXCEPT !.pausing = FALSE]
  <2>1. ReadRun(p, "start") /\ Fields \subseteq DOMAIN p
        /\ p.reconnecting = page.reconnecting
    BY <1>1 DEF StartClick, ButtonInv, PageOK
  <2> HIDE DEF p
  <2> QED
    BY <2>1, ReadRunButtons DEF ButtonInv, Buttons, ButtonsComeBack
<1>2. CASE ReconnectClick
  <2> DEFINE p == [page EXCEPT !.reconnecting = TRUE]
  <2>1. ReadRun(p, "reconnect") /\ Fields \subseteq DOMAIN p
    BY <1>2 DEF ReconnectClick, ButtonInv, PageOK
  <2> HIDE DEF p
  <2> QED
    BY <2>1, ReadRunButtons
<1>3. CASE Open
  <2>1. ReadRun(NewPage, "observe") /\ Fields \subseteq DOMAIN NewPage
        /\ ~NewPage.reconnecting
    BY <1>3 DEF Open, NewPage
  <2> QED
    BY <2>1, ReadRunButtons
<1>4. CASE Leave
  <2>1. PageOK' /\ ~page'.running /\ ~page'.pausing /\ ~page'.reconnecting
    BY <1>4 DEF Leave, Away, NewPage, PageOK
  <2>2. ReaderOK' /\ reader'.at = "none"
    BY <1>4, NoReaderLeft DEF Leave
  <2> QED
    BY <2>1, <2>2 DEF ButtonInv, Buttons, ButtonsComeBack
<1>5. CASE PauseClick
  <2>1. reader' = reader /\ orphan' = orphan
    BY <1>5 DEF PauseClick
  <2>2. PageOK' /\ page'.running = page.running /\ page'.going = page.going
        /\ page'.reconnecting = page.reconnecting /\ page.going
    BY <1>5 DEF PauseClick, ButtonInv, PageOK
  <2> QED
    BY ZenonT(40), <2>1, <2>2 DEF ButtonInv, Buttons, ButtonsComeBack, ReaderOK
<1>6. CASE PauseReturns
  <2>1. CASE ReadRun(page, "observe")
    BY <2>1, ReadRunButtons DEF ButtonInv, Buttons, ButtonsComeBack, PageOK
  <2>2. CASE UNCHANGED <<page, reader, orphan>>
    BY ZenonT(40), <2>2 DEF ButtonInv, Buttons, ButtonsComeBack, PageOK, ReaderOK
  <2>3. CASE page' = [page EXCEPT !.pausing = FALSE] /\ UNCHANGED <<reader, orphan>>
    BY ZenonT(40), <2>3 DEF ButtonInv, Buttons, ButtonsComeBack, PageOK, ReaderOK
  <2> QED
    BY <1>6, <2>1, <2>2, <2>3 DEF PauseReturns
<1>7. CASE OrphanSettles
  <2>1. reader' = reader
    BY <1>7 DEF OrphanSettles
  <2>2. PageOK' /\ page'.running = page.running
        /\ ~page'.pausing /\ ~page'.reconnecting
    BY <1>7 DEF OrphanSettles, ThatRunHasFinished, ButtonInv, PageOK
  <2> QED
    BY <2>1, <2>2 DEF ButtonInv, Buttons, ButtonsComeBack, ReaderOK
<1>8. CASE TurnPage \/ LoadLands
  <2>1. reader' = reader /\ orphan' = orphan
    BY <1>8 DEF TurnPage, LoadLands
  <2>2. PageOK' /\ page'.running = page.running /\ page'.going = page.going
        /\ page'.reconnecting = page.reconnecting /\ page'.pausing = page.pausing
    BY <1>8 DEF TurnPage, LoadLands, ButtonInv, PageOK
  <2> QED
    BY ZenonT(40), <2>1, <2>2 DEF ButtonInv, Buttons, ButtonsComeBack, ReaderOK
<1> QED
  BY <1>1, <1>2, <1>3, <1>4, <1>5, <1>6, <1>7, <1>8 DEF Operates

(* Every step of the composition.                                          *)
LEMMA StepButtons == ButtonInv /\ [Next]_vars => ButtonInv'
<1> SUFFICES ASSUME ButtonInv, [Next]_vars PROVE ButtonInv'
  OBVIOUS
<1>1. CASE UNCHANGED <<page, reader, orphan>>
  BY ZenonT(40), <1>1 DEF ButtonInv, Buttons, ButtonsComeBack, PageOK, ReaderOK
<1>2. CASE ServerStep /\ UNCHANGED pageVars
  BY <1>1, <1>2 DEF pageVars
<1>3. CASE Settles
  BY <1>3, SettleButtons
<1>4. CASE Delivers \/ ServeRefuses \/ Drop
  BY <1>4, WireButtons
<1>5. CASE Operates \/ PauseReturns \/ OrphanSettles \/ LoadLands
  BY <1>5, OperatorButtons
<1>6. CASE ServePause
  BY <1>1, <1>6 DEF ServePause
<1>7. CASE UNCHANGED vars
  BY <1>1, <1>7 DEF vars, pageVars
<1> QED
  BY <1>2, <1>3, <1>4, <1>5, <1>6, <1>7 DEF Next

\* No button of the page is left waiting for something that cannot come:
\* whatever readers are aborted, dropped or answered late, "Pausing..." and
\* "Reconnecting..." have something under way, or on offer, that ends them.
THEOREM ButtonsAreReleased == Spec => []ButtonsComeBack
<1>1. ButtonInv => ButtonsComeBack
  BY DEF ButtonInv, Buttons, ButtonsComeBack
<1>2. Spec => []ButtonInv
  BY InitButtons, StepButtons, PTL DEF Spec
<1> QED
  BY <1>1, <1>2, PTL

(***************************************************************************)
(* A finished run stays finished.  A reader that has taken the screen over *)
(* and has seen no ending shows none.                                      *)
(***************************************************************************)
Fields == {"shown", "running", "going", "rows", "tally", "pausing", "reconnecting",
           "loading", "fatal"}

EndsSeen ==
  /\ "finished" \in DOMAIN page.tally
  /\ reader.at # "none" /\ reader.received => reader.swapped
  /\ reader.at # "none" /\ reader.swapped /\ ~reader.sawFinish =>
       page.tally.finished = -1
  /\ NoResurrection

EndInv == ButtonInv /\ EndsSeen

(* The page opens with an empty console.                                   *)
LEMMA InitEnds == Init => EndInv
<1> SUFFICES ASSUME Init PROVE EndInv
  OBVIOUS
<1>1. /\ page = [NewPage EXCEPT !.running = TRUE]
      /\ reader = [NoReader EXCEPT !.at = "asked", !.by = "observe"]
  BY DEF Init
<1>2. page.tally = NoTally /\ ~page.going /\ ~reader.received /\ ~reader.swapped
  BY <1>1 DEF NewPage, NoReader
<1> QED
  BY <1>2, InitButtons DEF EndInv, EndsSeen, NoTally, NoResurrection

(* The fold marks the end exactly at a finish.                             *)
LEMMA TallyKeepsEnd ==
  ASSUME NEW t, "finished" \in DOMAIN t, NEW rows, NEW e
  PROVE  /\ "finished" \in DOMAIN TallyEvent(t, rows, e)
         /\ e.kind # "finished" => TallyEvent(t, rows, e).finished = t.finished
BY DEF TallyEvent

(* A fresh reader watches; a click on a card empties the console first.    *)
LEMMA ReadRunEnds ==
  ASSUME NEW p, NEW by \in {"start", "observe", "reconnect"}, ReadRun(p, by),
         Fields \subseteq DOMAIN p, "finished" \in DOMAIN p.tally
  PROVE  EndsSeen'
<1>1. /\ reader'.at = "asked" /\ ~reader'.received /\ ~reader'.sawFinish
      /\ reader'.swapped <=> by = "start"
  BY DEF ReadRun, NoReader
<1>2. /\ page'.running /\ page'.tally = IF by = "start" THEN NoTally ELSE p.tally
  BY DEF ReadRun, Fields
<1> QED
  BY <1>1, <1>2 DEF EndsSeen, NoResurrection, NoTally

(* What touches neither the reader nor what the page shows of the run.     *)
LEMMA SameEnds ==
  ASSUME EndsSeen, reader' = reader, page'.tally = page.tally,
         page'.running = page.running, page'.going => page.going
  PROVE  EndsSeen'
BY DEF EndsSeen, NoResurrection

(* Every step of the composition.                                          *)
LEMMA StepEnds == EndInv /\ [Next]_vars => EndInv'
<1> SUFFICES ASSUME EndInv, [Next]_vars PROVE EndsSeen'
  BY StepButtons DEF EndInv
<1>1. ButtonInv'
  BY StepButtons DEF EndInv
<1>2. ReaderOK /\ PageOK /\ EndsSeen /\ "finished" \in DOMAIN page.tally
  BY DEF EndInv, ButtonInv, EndsSeen
<1>3. CASE UNCHANGED <<page, reader>>
  BY <1>2, <1>3, SameEnds
<1>4. CASE Conflict \/ StartClick \/ ReconnectClick \/ Open
           \/ (PauseReturns /\ ReadRun(page, "observe"))
  <2>1. CASE Conflict
    <3> DEFINE p == [page EXCEPT !.going = FALSE, !.pausing = FALSE]
    <3>1. ReadRun(p, "observe") /\ Fields \subseteq DOMAIN p /\ p.tally = page.tally
      BY <1>2, <2>1 DEF Conflict, PageOK, Fields
    <3> HIDE DEF p
    <3> QED
      BY <1>2, <3>1, ReadRunEnds
  <2>2. CASE StartClick
    <3> DEFINE p == [page EXCEPT !.pausing = FALSE]
    <3>1. ReadRun(p, "start") /\ Fields \subseteq DOMAIN p /\ p.tally = page.tally
      BY <1>2, <2>2 DEF StartClick, PageOK, Fields
    <3> HIDE DEF p
    <3> QED
      BY <1>2, <3>1, ReadRunEnds
  <2>3. CASE ReconnectClick
    <3> DEFINE p == [page EXCEPT !.reconnecting = TRUE]
    <3>1. ReadRun(p, "reconnect") /\ Fields \subseteq DOMAIN p /\ p.tally = page.tally
      BY <1>2, <2>3 DEF ReconnectClick, PageOK, Fields
    <3> HIDE DEF p
    <3> QED
      BY <1>2, <3>1, ReadRunEnds
  <2>4. CASE Open
    <3>1. Fields \subseteq DOMAIN NewPage /\ "finished" \in DOMAIN NewPage.tally
      BY DEF NewPage, Fields, NoTally
    <3> QED
      BY <2>4, <3>1, ReadRunEnds DEF Open
  <2>5. CASE ReadRun(page, "observe")
    BY <1>2, <2>5, ReadRunEnds DEF PageOK, Fields
  <2> QED
    BY <1>4, <2>1, <2>2, <2>3, <2>4, <2>5
<1>5. CASE ReaderEnds \/ NothingToWatch \/ ReaderBreaks \/ Refused
  <2>1. reader'.at = "none"
    <3>1. Closed
      BY <1>5 DEF ReaderEnds, NothingToWatch, ReaderBreaks, Refused
    <3> QED
      BY <3>1, NoReaderLeft DEF Closed
  <2>2. page'.tally = page.tally
    <3>1. CASE ReaderEnds
      BY <1>2, <3>1 DEF ReaderEnds, Ended, PageOK
    <3>2. CASE NothingToWatch
      BY <1>2, <3>2 DEF NothingToWatch, Ended, ThatRunHasFinished, PageOK
    <3>3. CASE ReaderBreaks
      BY <1>2, <3>3 DEF ReaderBreaks, ThatRunHasFinished, PageOK
    <3>4. CASE Refused
      BY <1>2, <3>4 DEF Refused, PageOK
    <3> QED
      BY <1>5, <3>1, <3>2, <3>3, <3>4
  <2>3. page'.going => reader.at # "none" /\ reader.received /\ ~reader.sawFinish
    BY <1>2, <1>5 DEF ReaderEnds, NothingToWatch, ReaderBreaks, Refused,
                      Ended, ThatRunHasFinished, PageOK, RunOutlivesReader
  <2> QED
    BY <1>2, <2>1, <2>2, <2>3 DEF EndsSeen, NoResurrection
<1>6. CASE ServeStart \/ ServeObserve \/ ServeRefuses \/ Drop
  <2>1. /\ page' = page /\ reader.at # "none" /\ reader'.at # "none"
        /\ reader'.received = reader.received /\ reader'.swapped = reader.swapped
        /\ reader'.sawFinish = reader.sawFinish
    BY <1>2, <1>6 DEF ServeStart, ServeObserve, ServeRefuses, Drop, Answered, ReaderOK
  <2> QED
    BY <1>2, <2>1 DEF EndsSeen, NoResurrection
<1>7. CASE Opens
  <2>1. /\ reader.at # "none" /\ reader'.at = "open"
        /\ reader'.received = reader.received /\ reader'.swapped = reader.swapped
        /\ reader'.sawFinish = reader.sawFinish
    BY <1>2, <1>7 DEF Opens, ReaderOK
  <2>2. page'.tally = page.tally /\ page'.running = page.running
    BY <1>2, <1>7 DEF Opens, PageOK
  <2>3. page'.running
    BY <2>1, <1>1 DEF ButtonInv, Buttons
  <2> QED
    BY <1>2, <2>1, <2>2, <2>3 DEF EndsSeen, NoResurrection
<1>8. CASE EventLands
  <2> DEFINE e == Head(obs.queue)
             rows == IF Replaces THEN <<>> ELSE page.rows
             before == IF Replaces THEN NoTally ELSE page.tally
  <2>1. CASE e.kind = "end"
    <3>1. /\ page' = page /\ reader.at # "none" /\ reader'.at = "ended"
          /\ reader'.received = reader.received /\ reader'.swapped = reader.swapped
          /\ reader'.sawFinish = reader.sawFinish
      BY <1>2, <1>8, <2>1 DEF EventLands, ReaderOK
    <3> QED
      BY <1>2, <3>1 DEF EndsSeen, NoResurrection
  <2>2. CASE e.kind # "end"
    <3>1. /\ reader.at = "open" /\ reader'.at = "open" /\ reader'.swapped
          /\ reader'.sawFinish <=> (reader.sawFinish \/ e.kind = "finished")
      BY <1>2, <1>8, <2>2 DEF EventLands, ReaderOK
    <3>2. page'.tally = TallyEvent(before, rows, e)
      BY <1>2, <1>8, <2>2 DEF EventLands, OnEvent, PageOK
    <3>3. "finished" \in DOMAIN before
          /\ (~reader.sawFinish => before.finished = -1)
      BY <1>2, <3>1 DEF NoTally, Replaces, EndsSeen
    <3>4. page'.running
      BY <1>1, <3>1 DEF ButtonInv, Buttons
    <3> HIDE DEF before, rows, e
    <3>5. /\ "finished" \in DOMAIN page'.tally
          /\ ~reader'.sawFinish => page'.tally.finished = -1
      BY <3>1, <3>2, <3>3, TallyKeepsEnd
    <3> QED
      BY <3>1, <3>4, <3>5 DEF EndsSeen, NoResurrection
  <2> QED
    BY <2>1, <2>2
<1>9. CASE OrphanSettles \/ PauseClick \/ TurnPage \/ LoadLands
  <2>1. /\ reader' = reader /\ page'.tally = page.tally
        /\ page'.running = page.running /\ (page'.going => page.going)
    BY <1>2, <1>9 DEF OrphanSettles, PauseClick, TurnPage, LoadLands,
                      ThatRunHasFinished, PageOK
  <2> QED
    BY <1>2, <2>1, SameEnds
<1>10. CASE Leave
  <2>1. reader'.at = "none" /\ ~page'.going /\ page'.tally = NoTally
    BY <1>10 DEF Leave, NoReader, Away, NewPage
  <2> QED
    BY <2>1 DEF EndsSeen, NoResurrection, NoTally
<1>11. CASE PauseReturns
  <2>1. CASE page' = [page EXCEPT !.pausing = FALSE] /\ reader' = reader
    <3>1. page'.tally = page.tally /\ page'.running = page.running
          /\ page'.going = page.going
      BY <1>2, <2>1 DEF PageOK
    <3> QED
      BY <1>2, <2>1, <3>1, SameEnds
  <2> QED
    BY <1>3, <1>4, <1>11, <2>1 DEF PauseReturns
<1>12. CASE (ServerStep /\ UNCHANGED pageVars) \/ ServePause \/ UNCHANGED vars
  BY <1>3, <1>12 DEF ServePause, vars, pageVars
<1>13. CASE Settles \/ Operates \/ OrphanSettles \/ PauseReturns \/ LoadLands
  BY <1>4, <1>5, <1>9, <1>10, <1>11, <1>13 DEF Settles, Operates
<1>14. CASE Delivers \/ ServeRefuses \/ Drop
  BY <1>6, <1>7, <1>8, <1>14 DEF Delivers
<1> QED
  BY <1>12, <1>13, <1>14 DEF Next

\* A run whose ending was seen is not shown as going again, whatever replay
\* of it is lost half way.
THEOREM FinishedStaysFinished == Spec => []NoResurrection
<1>1. EndInv => NoResurrection
  BY DEF EndInv, EndsSeen
<1>2. Spec => []EndInv
  BY InitEnds, StepEnds, PTL DEF Spec
<1> QED
  BY <1>1, <1>2, PTL

(***************************************************************************)
(* The window of a log.  Its recursive definition has a solution, and two  *)
(* solutions agree as far as their logs do: what goes wrong would go wrong *)
(* at some first event.                                                    *)
(***************************************************************************)
IsWindow(f, log, m) ==
  f = [n \in 0..m |-> IF n = 0 THEN <<>> ELSE AppendCapped(f[n - 1], log[n])]

(* The smallest of some natural numbers.                                   *)
LEMMA LeastIs ==
  ASSUME NEW S \in SUBSET Nat, S # {}
  PROVE  \E x \in S : \A y \in S : x <= y
<1>1. PICK x \in S : \A y \in S : ~ (<<y, x>> \in OpToRel(<, Nat))
  BY WFMin, NatLessThanWellFounded
<1>2. \A y \in S : ~ (y < x)
  BY <1>1 DEF OpToRel
<1>3. \A y \in S : x <= y
  BY <1>2
<1> QED
  BY <1>3

(* One event more.                                                         *)
LEMMA OneMore ==
  ASSUME NEW log, NEW m \in Nat, NEW g, IsWindow(g, log, m)
  PROVE  \E f : IsWindow(f, log, m + 1)
<1> DEFINE top == AppendCapped(g[m], log[m + 1])
           f == [n \in 0..(m + 1) |-> IF n = m + 1 THEN top ELSE g[n]]
<1>1. f[m + 1] = top /\ \A n \in 0..m : f[n] = g[n]
  OBVIOUS
<1>2. \A n \in 0..m : g[n] = IF n = 0 THEN <<>> ELSE AppendCapped(g[n - 1], log[n])
  <2> HIDE DEF f, top
  <2>1. g = [n \in 0..m |-> IF n = 0 THEN <<>> ELSE AppendCapped(g[n - 1], log[n])]
    BY DEF IsWindow
  <2> DEFINE h == [n \in 0..m |-> IF n = 0 THEN <<>> ELSE AppendCapped(g[n - 1], log[n])]
  <2>2. \A n \in 0..m : h[n] = IF n = 0 THEN <<>> ELSE AppendCapped(g[n - 1], log[n])
    OBVIOUS
  <2>3. g = h
    BY <2>1
  <2> HIDE DEF h
  <2> QED
    BY <2>2, <2>3
<1>3. ASSUME NEW n \in 0..(m + 1)
      PROVE  f[n] = IF n = 0 THEN <<>> ELSE AppendCapped(f[n - 1], log[n])
  <2>1. CASE n = m + 1
    <3>1. n # 0 /\ n - 1 = m /\ m \in 0..m
      BY <2>1
    <3>2. f[n] = AppendCapped(g[m], log[n]) /\ f[n - 1] = g[m]
      BY <1>1, <2>1, <3>1
    <3> HIDE DEF f, top
    <3> QED
      BY <3>1, <3>2
  <2>2. CASE n = 0
    BY <1>1, <1>2, <2>2
  <2>3. CASE n # m + 1 /\ n # 0
    <3>1. n \in 0..m /\ n - 1 \in 0..m
      BY <2>3
    <3>2. f[n] = g[n] /\ f[n - 1] = g[n - 1]
      BY <1>1, <3>1
    <3> HIDE DEF f, top
    <3> QED
      BY <1>2, <2>3, <3>1, <3>2
  <2> QED
    BY <2>1, <2>2, <2>3
<1>4. f = [n \in 0..(m + 1) |-> f[n]]
  OBVIOUS
<1> HIDE DEF f, top
<1>5. IsWindow(f, log, m + 1)
  BY <1>3, <1>4 DEF IsWindow
<1> QED
  BY <1>5

(* There is a window after every event.                                    *)
LEMMA WindowExists ==
  ASSUME NEW log, NEW m \in Nat
  PROVE  \E f : IsWindow(f, log, m)
<1> DEFINE S == {k \in Nat : ~\E f : IsWindow(f, log, k)}
<1>1. SUFFICES ASSUME S # {} PROVE FALSE
  OBVIOUS
<1>2. PICK k \in S : \A j \in S : k <= j
  BY <1>1, LeastIs
<1>3. CASE k = 0
  <2> DEFINE f == [n \in 0..0 |-> <<>>]
  <2>1. f = [n \in 0..0 |-> IF n = 0 THEN <<>> ELSE AppendCapped(f[n - 1], log[n])]
    OBVIOUS
  <2>2. IsWindow(f, log, 0)
    BY <2>1 DEF IsWindow
  <2> QED
    BY <1>2, <1>3, <2>2
<1>4. CASE k # 0
  <2>1. k - 1 \in Nat /\ (k - 1) + 1 = k /\ ~(k <= k - 1)
    BY <1>2, <1>4
  <2>2. \E g : IsWindow(g, log, k - 1)
    BY <1>2, <2>1
  <2>3. \E f : IsWindow(f, log, (k - 1) + 1)
    BY <2>1, <2>2, OneMore
  <2> QED
    BY <1>2, <2>1, <2>3
<1> QED
  BY <1>3, <1>4

(* Windows agree as far as the events do.                                  *)
LEMMA WindowsAgree ==
  ASSUME NEW log, NEW other, NEW m \in Nat, NEW n \in Nat, NEW f, NEW g,
         IsWindow(f, log, m), IsWindow(g, other, n), NEW top \in Nat,
         top <= m, top <= n, \A k \in 1..top : log[k] = other[k]
  PROVE  f[top] = g[top]
<1> DEFINE S == {k \in Nat : k <= top /\ f[k] # g[k]}
<1>1. SUFFICES ASSUME S # {} PROVE FALSE
  OBVIOUS
<1>2. PICK k \in S : \A j \in S : k <= j
  BY <1>1, LeastIs
<1>3. /\ \A i \in 0..m : f[i] = IF i = 0 THEN <<>> ELSE AppendCapped(f[i - 1], log[i])
      /\ \A i \in 0..n : g[i] = IF i = 0 THEN <<>> ELSE AppendCapped(g[i - 1], other[i])
  <2> DEFINE f2 == [i \in 0..m |-> IF i = 0 THEN <<>> ELSE AppendCapped(f[i - 1], log[i])]
             g2 == [i \in 0..n |-> IF i = 0 THEN <<>> ELSE AppendCapped(g[i - 1], other[i])]
  <2>1. /\ \A i \in 0..m : f2[i] = IF i = 0 THEN <<>> ELSE AppendCapped(f[i - 1], log[i])
        /\ \A i \in 0..n : g2[i] = IF i = 0 THEN <<>> ELSE AppendCapped(g[i - 1], other[i])
    OBVIOUS
  <2>2. f = f2 /\ g = g2
    BY DEF IsWindow
  <2> HIDE DEF f2, g2
  <2> QED
    BY <2>1, <2>2
<1>4. CASE k = 0
  BY <1>2, <1>3, <1>4
<1>5. CASE k # 0
  <2>1. k - 1 \in Nat /\ ~(k <= k - 1) /\ k - 1 <= top /\ k \in 1..top /\ k \in 0..m /\ k \in 0..n
    BY <1>2, <1>5
  <2>2. f[k - 1] = g[k - 1] /\ log[k] = other[k]
    BY <1>2, <2>1
  <2>3. f[k] = AppendCapped(f[k - 1], log[k]) /\ g[k] = AppendCapped(g[k - 1], other[k])
    BY <1>3, <1>5, <2>1
  <2> QED
    BY <1>2, <2>2, <2>3
<1> QED
  BY <1>4, <1>5

(* Window is what the solution gives at the end.                           *)
LEMMA WindowIs ==
  ASSUME NEW log \in Seq(Event)
  PROVE  \E f : IsWindow(f, log, Len(log)) /\ Window(log) = f[Len(log)]
<1> DEFINE f == CHOOSE h : IsWindow(h, log, Len(log))
<1>1. Len(log) \in Nat
  OBVIOUS
<1>2. IsWindow(f, log, Len(log))
  BY <1>1, WindowExists
<1>3. Window(log) = f[Len(log)]
  BY DEF Window, IsWindow
<1> HIDE DEF f
<1> QED
  BY <1>2, <1>3

(* The window of no events, and of one event more.                         *)
LEMMA WindowGrows ==
  /\ Window(<<>>) = <<>>
  /\ \A q \in Seq(Event), e \in Event : Window(Append(q, e)) = AppendCapped(Window(q), e)
<1>1. Window(<<>>) = <<>>
  <2>1. <<>> \in Seq(Event) /\ Len(<<>>) = 0
    OBVIOUS
  <2>2. PICK f : IsWindow(f, <<>>, 0) /\ Window(<<>>) = f[0]
    BY <2>1, WindowIs
  <2> DEFINE g == [n \in 0..0 |-> IF n = 0 THEN <<>> ELSE AppendCapped(f[n - 1], <<>>[n])]
  <2>3. g[0] = <<>>
    OBVIOUS
  <2>4. f = g
    BY <2>2 DEF IsWindow
  <2> HIDE DEF g
  <2> QED
    BY <2>2, <2>3, <2>4
<1>2. ASSUME NEW q \in Seq(Event), NEW e \in Event
      PROVE  Window(Append(q, e)) = AppendCapped(Window(q), e)
  <2> DEFINE p == Append(q, e)
             n == Len(q)
  <2>1. /\ p \in Seq(Event) /\ Len(p) = n + 1 /\ n \in Nat /\ p[n + 1] = e
        /\ \A k \in 1..n : p[k] = q[k]
    OBVIOUS
  <2> HIDE DEF p, n
  <2>2. PICK f : IsWindow(f, p, n + 1) /\ Window(p) = f[n + 1]
    BY <2>1, WindowIs
  <2>3. PICK g : IsWindow(g, q, n) /\ Window(q) = g[n]
    BY WindowIs DEF n
  <2>4. f[n] = g[n]
    <3>1. n + 1 \in Nat /\ n <= n + 1 /\ n <= n
      BY <2>1
    <3> QED
      BY <2>1, <2>2, <2>3, <3>1, WindowsAgree
  <2>5. f[n + 1] = AppendCapped(f[n], e)
    <3> DEFINE h == [i \in 0..(n + 1) |-> IF i = 0 THEN <<>> ELSE AppendCapped(f[i - 1], p[i])]
    <3>1. h[n + 1] = AppendCapped(f[n], p[n + 1])
      <4>1. n + 1 \in 0..(n + 1) /\ n + 1 # 0 /\ (n + 1) - 1 = n
        BY <2>1
      <4>2. h[n + 1] = IF n + 1 = 0 THEN <<>> ELSE AppendCapped(f[(n + 1) - 1], p[n + 1])
        BY <4>1
      <4> HIDE DEF h
      <4> QED
        BY <4>1, <4>2
    <3>2. f = h
      BY <2>2 DEF IsWindow
    <3> HIDE DEF h
    <3> QED
      BY <2>1, <3>1, <3>2
  <2> QED
    BY <2>2, <2>3, <2>4, <2>5 DEF p
<1> QED
  BY <1>1, <1>2

(***************************************************************************)
(* A console that shows the events of a log shows those of a longer one    *)
(* after folding the events in between.                                    *)
(***************************************************************************)
Tallies == [local : Int, finished : Int]

Screen(rows, t, q) ==
  /\ rows = Window(q)
  /\ t.local = PartsIn(q)
  /\ \/ t.finished = -1 /\ ~\E k \in 1..Len(q) : q[k].kind = "finished"
     \/ Ev("finished", t.finished) \in Range(q)

(* That is what the page shows.                                            *)
LEMMA ShowsIs == \A q : Shows(q) <=> Screen(page.rows, page.tally, q)
BY DEF Shows, Screen

(* One more event is one more part, or none.                               *)
LEMMA PartsGrow ==
  /\ PartsIn(<<>>) = 0
  /\ \A q \in Seq(Event), e \in Event :
       PartsIn(Append(q, e)) = IF e.kind = "part" THEN PartsIn(q) + 1 ELSE PartsIn(q)
<1>1. PartsIn(<<>>) = 0
  <2>1. {k \in DOMAIN <<>> : <<>>[k].kind = "part"} = {}
    OBVIOUS
  <2> QED
    BY <2>1, FS_EmptySet DEF PartsIn
<1>2. ASSUME NEW q \in Seq(Event), NEW e \in Event
      PROVE  PartsIn(Append(q, e)) = IF e.kind = "part" THEN PartsIn(q) + 1 ELSE PartsIn(q)
  <2> DEFINE p == Append(q, e)
             n == Len(q)
             D == {k \in DOMAIN q : q[k].kind = "part"}
  <2>1. /\ n \in Nat /\ DOMAIN q = 1..n /\ DOMAIN p = 1..(n + 1) /\ p[n + 1] = e
        /\ \A k \in 1..n : p[k] = q[k]
    OBVIOUS
  <2>2. IsFiniteSet(D)
    <3> HIDE DEF n
    <3>1. D \subseteq 1..n
      BY <2>1
    <3>2. IsFiniteSet(1..n)
      BY <2>1, FS_Interval
    <3> QED
      BY <3>1, <3>2, FS_Subset
  <2> HIDE DEF p, n
  <2>3. n + 1 \notin D
    BY <2>1
  <2>4. {k \in DOMAIN p : p[k].kind = "part"} = IF e.kind = "part" THEN D \cup {n + 1} ELSE D
    BY <2>1
  <2> HIDE DEF D
  <2>5. Cardinality(D \cup {n + 1}) = Cardinality(D) + 1
    BY <2>2, <2>3, FS_AddElement
  <2>6. PartsIn(q) = Cardinality(D)
    BY DEF PartsIn, D
  <2>7. PartsIn(p) = Cardinality(IF e.kind = "part" THEN D \cup {n + 1} ELSE D)
    BY <2>4 DEF PartsIn
  <2>8. CASE e.kind = "part"
    BY <2>5, <2>6, <2>7, <2>8 DEF p
  <2>9. CASE e.kind # "part"
    BY <2>6, <2>7, <2>9 DEF p
  <2> QED
    BY <2>8, <2>9
<1> QED
  BY <1>1, <1>2

(* The empty console shows no events.                                      *)
LEMMA EmptyScreen == NoTally \in Tallies /\ Screen(<<>>, NoTally, <<>>)
<1>1. NoTally.local = 0 /\ NoTally.finished = -1 /\ NoTally \in Tallies
  BY DEF NoTally, Tallies
<1>2. Len(<<>>) = 0
  OBVIOUS
<1> QED
  BY <1>1, <1>2, WindowGrows, PartsGrow DEF Screen

(* The counters, after one more event.                                     *)
LEMMA TallyIs ==
  ASSUME NEW t \in Tallies, NEW rows, NEW e \in Event
  PROVE  /\ TallyEvent(t, rows, e) \in Tallies
         /\ TallyEvent(t, rows, e).local = IF e.kind = "part" THEN t.local + 1 ELSE t.local
         /\ TallyEvent(t, rows, e).finished =
              IF e.kind = "finished" THEN e.n ELSE t.finished
<1>1. e.n \in Int
  BY DEF Event
<1>2. CASE e.kind = "finished"
  BY <1>1, <1>2 DEF TallyEvent, Tallies
<1>3. CASE e.kind = "part"
  BY <1>1, <1>3 DEF TallyEvent, Tallies
<1>4. CASE e.kind # "finished" /\ e.kind # "part"
  BY <1>1, <1>4 DEF TallyEvent, Tallies
<1> QED
  BY <1>2, <1>3, <1>4

(* The fold.                                                               *)
LEMMA ScreenGrows ==
  ASSUME NEW rows, NEW t \in Tallies, NEW q \in Seq(Event), NEW e \in Event,
         Screen(rows, t, q)
  PROVE  /\ TallyEvent(t, rows, e) \in Tallies
         /\ Screen(AppendCapped(rows, e), TallyEvent(t, rows, e), Append(q, e))
<1> DEFINE u == TallyEvent(t, rows, e)
           p == Append(q, e)
           n == Len(q)
<1>1. /\ u \in Tallies
      /\ u.local = IF e.kind = "part" THEN t.local + 1 ELSE t.local
      /\ u.finished = IF e.kind = "finished" THEN e.n ELSE t.finished
  BY TallyIs
<1>2. AppendCapped(rows, e) = Window(p)
  BY WindowGrows DEF Screen
<1>3. u.local = PartsIn(p)
  <2>1. t.local = PartsIn(q)
    BY DEF Screen
  <2>2. PartsIn(p) = IF e.kind = "part" THEN PartsIn(q) + 1 ELSE PartsIn(q)
    BY PartsGrow
  <2> HIDE DEF u, p
  <2> QED
    BY <1>1, <2>1, <2>2
<1>4. /\ n \in Nat /\ Len(p) = n + 1 /\ p[n + 1] = e /\ \A k \in 1..n : p[k] = q[k]
      /\ Range(q) \subseteq Range(p) /\ e \in Range(p)
  <2>1. /\ n \in Nat /\ Len(p) = n + 1 /\ p[n + 1] = e /\ \A k \in 1..n : p[k] = q[k]
        /\ DOMAIN p = 1..(n + 1) /\ DOMAIN q = 1..n
    OBVIOUS
  <2> HIDE DEF p, n
  <2> QED
    BY <2>1 DEF Range
<1> HIDE DEF u, p, n
<1>5. \/ u.finished = -1 /\ ~\E k \in 1..Len(p) : p[k].kind = "finished"
      \/ Ev("finished", u.finished) \in Range(p)
  <2>1. CASE e.kind = "finished"
    <3>1. Ev("finished", e.n) = e
      BY <2>1 DEF Ev, Event
    <3> QED
      BY <1>1, <1>4, <2>1, <3>1
  <2>2. CASE e.kind # "finished"
    <3>1. u.finished = t.finished
      BY <1>1, <2>2
    <3>2. CASE Ev("finished", t.finished) \in Range(q)
      BY <1>4, <3>1, <3>2
    <3>3. CASE t.finished = -1 /\ ~\E k \in 1..n : q[k].kind = "finished"
      BY <1>4, <2>2, <3>1, <3>3
    <3> QED
      BY <3>2, <3>3 DEF Screen, n
  <2> QED
    BY <2>1, <2>2
<1> QED
  BY <1>1, <1>2, <1>3, <1>5 DEF Screen, u, p

(* The first event stands alone in the window.                             *)
LEMMA FirstRow ==
  ASSUME NEW e
  PROVE  AppendCapped(<<>>, e) = <<e>>
<1>1. Append(<<>>, e) = <<e>> /\ Len(<<e>>) = 1
  OBVIOUS
<1>2. 1 <= RowCap
  BY PageAssumption
<1> QED
  BY <1>1, <1>2 DEF AppendCapped

(* What one event makes of a console that shows the events before it.      *)
LEMMA OnEventShows ==
  ASSUME page.tally \in Tallies, PageOK, NEW q \in Seq(Event), NEW e \in Event,
         IF reader.swapped THEN Shows(q) ELSE q = <<>>
  PROVE  /\ OnEvent(e).tally \in Tallies
         /\ Screen(OnEvent(e).rows, OnEvent(e).tally, Append(q, e))
<1> DEFINE rows == IF Replaces THEN <<>> ELSE page.rows
           tally == IF Replaces THEN NoTally ELSE page.tally
<1>1. tally \in Tallies /\ Screen(rows, tally, q)
  BY EmptyScreen, ShowsIs DEF Replaces
<1>2. /\ TallyEvent(tally, rows, e) \in Tallies
      /\ Screen(AppendCapped(rows, e), TallyEvent(tally, rows, e), Append(q, e))
  BY <1>1, ScreenGrows
<1>3. OnEvent(e).tally = TallyEvent(tally, rows, e)
  BY DEF OnEvent, PageOK
<1>4. OnEvent(e).rows = IF Replaces THEN <<e>> ELSE AppendCapped(page.rows, e)
  BY DEF OnEvent, PageOK
<1>5. OnEvent(e).rows = AppendCapped(rows, e)
  BY <1>4, FirstRow
<1> QED
  BY <1>2, <1>3, <1>5

(***************************************************************************)
(* What is shown of the runs.                                              *)
(***************************************************************************)
\* No log holds the word that nothing follows, and a run ends with a log.
RunOK(r) ==
  /\ \A k \in 1..Len(r.log) : r.log[k].kind # "end"
  /\ \A k \in 1..Len(r.todo) : r.todo[k] \in {"error", "finished"}
  /\ \/ r.log # <<>>
     \/ r.stage \in {"claim", "sweep", "walled", "dead"}
     \/ r.stage = "tail" /\ r.todo # <<>>

LogsOK == \A i \in Started : RunOK(runs[i])

\* What is still to land follows the first n events of the run.
After(queue, log, n) ==
  Len(queue) = Len(log) - n /\ \A k \in 1..Len(queue) : queue[k] = log[n + k]
ReadUpTo(n) == After(obs.queue, Backlog(obs.run), n)

ShowsFirst(i, n) == Screen(page.rows, page.tally, SubSeq(runs[i].log, 1, n))

\* A reader that has taken the screen over shows what it has read, all of it.
Watches ==
  reader.at = "open" =>
    /\ obs.run \in Started /\ (obs.tail <=> Live(obs.run))
    /\ \E n \in 0..Len(runs[obs.run].log) :
         ReadUpTo(n) /\ IF reader.swapped THEN ShowsFirst(obs.run, n) ELSE n = 0

\* Until then a click on a card has emptied the console.
Emptied ==
  reader.at \in {"asked", "answered"} /\ reader.swapped =>
    page.rows = <<>> /\ page.tally = NoTally

WholeAtEnd ==
  reader.at = "ended" =>
    /\ obs.run \in Started /\ ~obs.tail /\ runs[obs.run].stage = "done"
    /\ Screen(page.rows, page.tally, runs[obs.run].log)

SomeBeginning ==
  page.rows # <<>> =>
    \E i \in Started : \E n \in 1..Len(runs[i].log) : ShowsFirst(i, n)

Console ==
  /\ page.tally \in Tallies
  /\ LogsOK /\ Watches /\ Emptied /\ WholeAtEnd /\ SomeBeginning

ShowInv == FeedInv /\ PageOK /\ Console

(* The page opens with an empty console.                                   *)
LEMMA InitShows == Init => ShowInv
<1> SUFFICES ASSUME Init PROVE ShowInv
  OBVIOUS
<1>1. /\ page = [NewPage EXCEPT !.running = TRUE]
      /\ reader = [NoReader EXCEPT !.at = "asked", !.by = "observe"]
      /\ runs = <<>>
  BY DEF Init, FeedInit
<1>2. /\ page.tally = NoTally /\ page.rows = <<>> /\ reader.at = "asked"
  BY <1>1 DEF NewPage, NoReader
<1>3. Started = {}
  BY <1>1 DEF Started
<1>4. FeedInv /\ PageOK
  BY InitInv, InitButtons DEF ButtonInv
<1> QED
  BY <1>2, <1>3, <1>4, EmptyScreen
  DEF ShowInv, Console, LogsOK, Watches, Emptied, WholeAtEnd, SomeBeginning

(***************************************************************************)
(* Runs only grow, and not after their end.                                *)
(***************************************************************************)
Grows ==
  \A j \in Started :
    /\ j \in Started'
    /\ Len(runs[j].log) <= Len(runs'[j].log)
    /\ \A k \in 1..Len(runs[j].log) : runs'[j].log[k] = runs[j].log[k]
    /\ runs[j].stage = "done" => runs'[j].stage = "done" /\ runs'[j].log = runs[j].log

(* A run, its log and what its worker has still to say.                    *)
LEMMA RunsAre ==
  ASSUME FeedTypeOK
  PROVE  /\ \A i \in Started : runs[i] \in FeedRunState
         /\ \A i \in Started : runs[i].log \in Seq(Event) /\ runs[i].todo \in Seq(Kinds)
         /\ \A i \in Started : Len(runs[i].log) \in Nat
<1>1. \A i \in Started : runs[i] \in FeedRunState
  BY DEF FeedTypeOK, Started
<1>2. \A i \in Started : runs[i].log \in Seq(Event) /\ runs[i].todo \in Seq(Kinds)
  BY <1>1, RunTypes
<1>3. \A q \in Seq(Event) : Len(q) \in Nat
  OBVIOUS
<1> QED
  BY <1>1, <1>2, <1>3

(* The beginning of a log is that of a longer one.                         *)
LEMMA Beginning ==
  ASSUME NEW a \in Seq(Event), NEW b \in Seq(Event), NEW n \in 0..Len(a),
         Len(a) <= Len(b), \A k \in 1..Len(a) : b[k] = a[k]
  PROVE  SubSeq(b, 1, n) = SubSeq(a, 1, n)
<1>1. /\ SubSeq(a, 1, n) = [k \in 1..n |-> a[k]]
      /\ SubSeq(b, 1, n) = [k \in 1..n |-> b[k]]
  OBVIOUS
<1>2. \A k \in 1..n : a[k] = b[k]
  OBVIOUS
<1> QED
  BY <1>1, <1>2

(* The beginning of a log and its next event; the whole log.               *)
LEMMA Beginnings ==
  ASSUME NEW q \in Seq(Event)
  PROVE  /\ \A n \in 0..Len(q) : SubSeq(q, 1, n) \in Seq(Event)
         /\ \A n \in 0..Len(q) : n + 1 <= Len(q) =>
              SubSeq(q, 1, n + 1) = Append(SubSeq(q, 1, n), q[n + 1]) /\ q[n + 1] \in Event
         /\ SubSeq(q, 1, Len(q)) = q
         /\ SubSeq(q, 1, 0) = <<>>
<1>1. \A n \in 0..Len(q) : SubSeq(q, 1, n) \in Seq(Event)
  OBVIOUS
<1>2. ASSUME NEW n \in 0..Len(q), n + 1 <= Len(q)
      PROVE  SubSeq(q, 1, n + 1) = Append(SubSeq(q, 1, n), q[n + 1]) /\ q[n + 1] \in Event
  BY <1>2
<1>3. SubSeq(q, 1, Len(q)) = q
  OBVIOUS
<1>4. SubSeq(q, 1, 0) = <<>>
  OBVIOUS
<1> QED
  BY <1>1, <1>2, <1>3, <1>4

(* What is on screen stays the beginning of its run.                       *)
LEMMA StillFirst ==
  ASSUME FeedTypeOK, FeedTypeOK', Grows, NEW i \in Started, NEW n \in 0..Len(runs[i].log),
         ShowsFirst(i, n), page'.rows = page.rows, page'.tally = page.tally
  PROVE  ShowsFirst(i, n)' /\ n \in 0..Len(runs'[i].log)
<1>1. /\ runs[i].log \in Seq(Event) /\ i \in Started'
      /\ Len(runs[i].log) <= Len(runs'[i].log)
      /\ \A k \in 1..Len(runs[i].log) : runs'[i].log[k] = runs[i].log[k]
  BY RunsAre DEF Grows
<1>2. runs'[i].log \in Seq(Event) /\ runs'[i] \in FeedRunState
  <2>1. runs'[i] \in FeedRunState
    BY <1>1 DEF FeedTypeOK, Started
  <2> QED
    BY <2>1, RunTypes
<1>3. SubSeq(runs'[i].log, 1, n) = SubSeq(runs[i].log, 1, n)
  BY <1>1, <1>2, Beginning
<1>4. n \in 0..Len(runs'[i].log)
  BY <1>1, <1>2
<1> QED
  BY <1>3, <1>4 DEF ShowsFirst

(* Something of the screen is kept through any growth of the runs.         *)
LEMMA KeepsBeginning ==
  ASSUME FeedTypeOK, FeedTypeOK', Grows, SomeBeginning,
         page'.rows = page.rows, page'.tally = page.tally
  PROVE  SomeBeginning'
<1>1. SUFFICES ASSUME page'.rows # <<>>
               PROVE  \E i \in Started' : \E n \in 1..Len(runs'[i].log) : ShowsFirst(i, n)'
  BY DEF SomeBeginning
<1>2. PICK i \in Started : \E n \in 1..Len(runs[i].log) : ShowsFirst(i, n)
  BY <1>1 DEF SomeBeginning
<1>3. PICK n \in 1..Len(runs[i].log) : ShowsFirst(i, n)
  BY <1>2
<1>4. n \in 0..Len(runs[i].log) /\ n >= 1 /\ n \in Nat
  BY <1>3, RunsAre
<1>5. ShowsFirst(i, n)' /\ n \in 0..Len(runs'[i].log)
  BY <1>3, <1>4, StillFirst
<1>6. i \in Started' /\ n \in 1..Len(runs'[i].log)
  <2>1. i \in Started'
    BY DEF Grows
  <2> QED
    BY <1>4, <1>5, <2>1
<1> QED
  BY <1>5, <1>6

(* Steps after which no stream is open.                                    *)
LEMMA NotWatching ==
  ASSUME ShowInv, FeedTypeOK', Grows, LogsOK',
         page'.rows = page.rows, page'.tally = page.tally,
         reader'.at \in {"none", "asked", "answered", "broken"},
         reader'.at \in {"asked", "answered"} /\ reader'.swapped =>
           page.rows = <<>> /\ page.tally = NoTally
  PROVE  Console'
<1>1. SomeBeginning'
  BY KeepsBeginning DEF ShowInv, FeedInv, Console
<1>2. Watches' /\ Emptied' /\ WholeAtEnd'
  BY DEF Watches, Emptied, WholeAtEnd
<1> QED
  BY <1>1, <1>2 DEF ShowInv, Console

LEMMA SameRuns ==
  ASSUME FeedTypeOK, LogsOK, runs' = runs
  PROVE  Grows /\ LogsOK'
<1>1. Started' = Started
  BY DEF Started
<1>2. Grows
  BY <1>1, RunsAre DEF Grows
<1> QED
  BY <1>1, <1>2 DEF LogsOK

(* The console is emptied.                                                 *)
LEMMA Empties ==
  ASSUME ShowInv, runs' = runs, page'.rows = <<>>, page'.tally = NoTally,
         reader'.at \in {"none", "asked"}
  PROVE  Console'
<1>1. LogsOK'
  BY SameRuns DEF ShowInv, FeedInv, Console
<1> QED
  BY <1>1, EmptyScreen DEF Console, Watches, Emptied, WholeAtEnd, SomeBeginning

(***************************************************************************)
(* The page's steps.                                                       *)
(***************************************************************************)
(* The console is left alone and no stream opens.                          *)
LEMMA LeftAlone ==
  ASSUME ShowInv, runs' = runs, FeedTypeOK',
         page'.rows = page.rows, page'.tally = page.tally,
         reader'.at \in {"none", "asked", "answered", "broken"},
         reader'.at \in {"asked", "answered"} /\ reader'.swapped =>
           page.rows = <<>> /\ page.tally = NoTally
  PROVE  Console'
<1>1. Grows /\ LogsOK'
  BY SameRuns DEF ShowInv, FeedInv, Console
<1> QED
  BY <1>1, NotWatching

(* Neither the runs, nor the reader, nor what is shown of them.            *)
LEMMA SameConsole ==
  ASSUME ShowInv, runs' = runs, obs' = obs, reader' = reader,
         page'.rows = page.rows, page'.tally = page.tally
  PROVE  Console'
<1>1. LogsOK'
  BY SameRuns DEF ShowInv, FeedInv, Console
<1>2. /\ SomeBeginning' /\ Emptied' /\ WholeAtEnd'
  BY DEF ShowInv, Console, SomeBeginning, Emptied, WholeAtEnd, ShowsFirst, Started
<1>3. Watches'
  BY ZenonT(40) DEF ShowInv, Console, Watches, ReadUpTo, Backlog, ShowsFirst, Started, Live
<1> QED
  BY <1>1, <1>2, <1>3 DEF ShowInv, Console

(* readRun.                                                                *)
LEMMA ReadRunShows ==
  ASSUME ShowInv, FeedTypeOK', runs' = runs, NEW p, Fields \subseteq DOMAIN p,
         NEW by \in {"start", "observe", "reconnect"}, ReadRun(p, by),
         \/ by = "start"
         \/ p.rows = page.rows /\ p.tally = page.tally
         \/ p.rows = <<>> /\ p.tally = NoTally
  PROVE  Console'
<1>1. reader'.at = "asked" /\ (reader'.swapped <=> by = "start")
  BY DEF ReadRun, NoReader
<1>2. CASE by = "start"
  <2>1. page'.rows = <<>> /\ page'.tally = NoTally
    BY <1>2 DEF ReadRun, Fields
  <2> QED
    BY <1>1, <2>1, Empties
<1>3. CASE by # "start"
  <2>1. page'.rows = p.rows /\ page'.tally = p.tally
    BY <1>3 DEF ReadRun, Fields
  <2>2. CASE p.rows = page.rows /\ p.tally = page.tally
    BY <1>1, <1>3, <2>1, <2>2, LeftAlone
  <2>3. CASE p.rows = <<>> /\ p.tally = NoTally
    BY <1>1, <2>1, <2>3, Empties
  <2> QED
    BY <1>3, <2>2, <2>3
<1> QED
  BY <1>2, <1>3

(* The reader is answered or ends.                                         *)
LEMMA SettleShows ==
  ASSUME ShowInv, FeedTypeOK', Settles
  PROVE  Console'
<1>1. runs' = runs /\ PageOK
  BY DEF Settles, ReaderEnds, NothingToWatch, ReaderBreaks, Refused, Conflict, ShowInv
<1>2. CASE Conflict
  <2> DEFINE p == [page EXCEPT !.going = FALSE, !.pausing = FALSE]
  <2>1. /\ ReadRun(p, "observe") /\ Fields \subseteq DOMAIN p
        /\ p.rows = page.rows /\ p.tally = page.tally
    BY <1>1, <1>2 DEF Conflict, PageOK, Fields
  <2> HIDE DEF p
  <2> QED
    BY <1>1, <2>1, ReadRunShows
<1>3. CASE ReaderEnds \/ NothingToWatch \/ ReaderBreaks \/ Refused
  <2>1. reader'.at = "none"
    <3>1. Closed
      BY <1>3 DEF ReaderEnds, NothingToWatch, ReaderBreaks, Refused
    <3> QED
      BY <3>1, NoReaderLeft DEF Closed
  <2>2. page'.tally = page.tally /\ page'.rows = page.rows
    <3>1. CASE ReaderEnds
      BY <1>1, <3>1 DEF ReaderEnds, Ended, PageOK
    <3>2. CASE NothingToWatch
      BY <1>1, <3>2 DEF NothingToWatch, Ended, ThatRunHasFinished, PageOK
    <3>3. CASE ReaderBreaks
      BY <1>1, <3>3 DEF ReaderBreaks, ThatRunHasFinished, PageOK
    <3>4. CASE Refused
      BY <1>1, <3>4 DEF Refused, PageOK
    <3> QED
      BY <1>3, <3>1, <3>2, <3>3, <3>4
  <2> QED
    BY <1>1, <2>1, <2>2, LeftAlone
<1> QED
  BY <1>2, <1>3 DEF Settles

(* The operator, the pause call and the loads.                             *)
LEMMA OperatorShows ==
  ASSUME ShowInv, FeedTypeOK', Operates \/ PauseReturns \/ OrphanSettles \/ LoadLands
  PROVE  Console'
<1>1. runs' = runs /\ PageOK
  BY DEF Operates, StartClick, ReconnectClick, PauseClick, TurnPage, Leave, Open,
         PauseReturns, OrphanSettles, LoadLands, feedVars, ShowInv
<1>2. CASE StartClick
  <2> DEFINE p == [page EXCEPT !.pausing = FALSE]
  <2>1. ReadRun(p, "start") /\ Fields \subseteq DOMAIN p
    BY <1>1, <1>2 DEF StartClick, PageOK, Fields
  <2> HIDE DEF p
  <2> QED
    BY <1>1, <2>1, ReadRunShows
<1>3. CASE ReconnectClick
  <2> DEFINE p == [page EXCEPT !.reconnecting = TRUE]
  <2>1. /\ ReadRun(p, "reconnect") /\ Fields \subseteq DOMAIN p
        /\ p.rows = page.rows /\ p.tally = page.tally
    BY <1>1, <1>3 DEF ReconnectClick, PageOK, Fields
  <2> HIDE DEF p
  <2> QED
    BY <1>1, <2>1, ReadRunShows
<1>4. CASE Open
  <2>1. /\ Fields \subseteq DOMAIN NewPage
        /\ NewPage.rows = <<>> /\ NewPage.tally = NoTally
    BY DEF NewPage, Fields
  <2> QED
    BY <1>1, <1>4, <2>1, ReadRunShows DEF Open
<1>5. CASE Leave
  <2>1. page'.rows = <<>> /\ page'.tally = NoTally /\ reader'.at = "none"
    BY <1>5 DEF Leave, Away, NewPage, NoReader
  <2> QED
    BY <1>1, <2>1, Empties
<1>6. CASE PauseClick \/ TurnPage \/ OrphanSettles \/ LoadLands
  <2>1. reader' = reader /\ obs' = obs
    BY <1>6 DEF PauseClick, TurnPage, OrphanSettles, LoadLands, feedVars
  <2>2. page'.rows = page.rows /\ page'.tally = page.tally
    BY <1>1, <1>6 DEF PauseClick, TurnPage, OrphanSettles, LoadLands,
                      ThatRunHasFinished, PageOK
  <2> QED
    BY <1>1, <2>1, <2>2, SameConsole
<1>7. CASE PauseReturns
  <2>1. CASE ReadRun(page, "observe")
    BY <1>1, <2>1, ReadRunShows DEF PageOK, Fields
  <2>2. CASE /\ reader' = reader /\ obs' = obs
             /\ page' = page \/ page' = [page EXCEPT !.pausing = FALSE]
    <3>1. page'.rows = page.rows /\ page'.tally = page.tally
      BY <1>1, <2>2 DEF PageOK
    <3> QED
      BY <1>1, <2>2, <3>1, SameConsole
  <2> QED
    BY <1>7, <2>1, <2>2 DEF PauseReturns
<1> QED
  BY <1>2, <1>3, <1>4, <1>5, <1>6, <1>7 DEF Operates

(* A click starts a run: it has said nothing yet.                          *)
LEMMA StartGrows ==
  ASSUME FeedTypeOK, LogsOK, StartRun
  PROVE  Grows /\ LogsOK'
<1>1. /\ Len(runs') = Len(runs) + 1 /\ \A j \in Started : runs'[j] = runs[j]
      /\ Len(runs) \in Nat
  BY AddRun DEF FeedTypeOK
<1>2. runs'[Len(runs) + 1] = NewRun
  BY DEF StartRun, FeedTypeOK
<1>3. NewRun.log = <<>> /\ NewRun.todo = <<>> /\ NewRun.stage = "claim"
  BY DEF NewRun
<1>4. \A j \in Started' : j \in Started \/ j = Len(runs) + 1
  BY <1>1 DEF Started
<1>5. \A j \in Started : j \in Started'
  BY <1>1 DEF Started
<1>6. Grows
  BY <1>1, <1>5, RunsAre DEF Grows
<1>7. ASSUME NEW i \in Started'
      PROVE  RunOK(runs'[i])
  <2>1. CASE i \in Started
    BY <1>1, <2>1 DEF LogsOK
  <2>2. CASE i = Len(runs) + 1
    BY <1>2, <1>3, <2>2 DEF RunOK
  <2> QED
    BY <1>4, <2>1, <2>2
<1>8. LogsOK'
  BY <1>7 DEF LogsOK
<1> QED
  BY <1>6, <1>8

(* The api answers a request for a stream; a call is lost.                 *)
LEMMA ServeShows ==
  ASSUME ShowInv, FeedTypeOK', ServeStart \/ ServeObserve \/ ServeRefuses \/ Drop
  PROVE  Console'
<1>1. /\ ReaderOK /\ page' = page /\ LogsOK /\ FeedTypeOK /\ Emptied
  BY DEF ShowInv, FeedInv, Console, ServeStart, ServeObserve, ServeRefuses, Drop
<1>2. \/ reader'.at = "broken"
      \/ reader.at = "asked" /\ reader'.at = "answered" /\ reader'.swapped = reader.swapped
  BY <1>1 DEF ServeStart, ServeObserve, ServeRefuses, Drop, Answered, ReaderOK
<1>3. reader'.at \in {"asked", "answered"} /\ reader'.swapped =>
        page.rows = <<>> /\ page.tally = NoTally
  BY <1>1, <1>2 DEF Emptied
<1>4. Grows /\ LogsOK'
  <2>1. CASE runs' = runs
    BY <1>1, <2>1, SameRuns
  <2>2. CASE ServeStart /\ StartRun
    BY <1>1, <2>2, StartGrows
  <2> QED
    BY <2>1, <2>2 DEF ServeStart, ServeObserve, ServeRefuses, Drop
<1> QED
  BY <1>1, <1>2, <1>3, <1>4, NotWatching

(***************************************************************************)
(* The stream.                                                             *)
(***************************************************************************)
(* A backlog is the log, and the last word once the run is over.           *)
LEMMA BacklogIs ==
  ASSUME FeedTypeOK, NEW i \in Started
  PROVE  /\ Len(Backlog(i)) = Len(runs[i].log) + (IF runs[i].stage = "done" THEN 1 ELSE 0)
         /\ \A k \in 1..Len(runs[i].log) : Backlog(i)[k] = runs[i].log[k]
         /\ runs[i].stage = "done" => Backlog(i)[Len(runs[i].log) + 1].kind = "end"
         /\ Backlog(i) \in Seq(Event)
<1>1. runs[i].log \in Seq(Event) /\ Len(runs[i].log) \in Nat
  BY RunsAre
<1>2. Ev("end", 0) \in Event /\ Ev("end", 0).kind = "end"
  BY DEF Ev, Event, Kinds
<1>3. CASE runs[i].stage = "done"
  <2> DEFINE log == runs[i].log
  <2>1. Backlog(i) = Append(log, Ev("end", 0)) /\ log \in Seq(Event)
    BY <1>1, <1>3 DEF Backlog
  <2> HIDE DEF log
  <2>2. /\ Len(Backlog(i)) = Len(log) + 1
        /\ \A k \in 1..Len(log) : Backlog(i)[k] = log[k]
        /\ Backlog(i)[Len(log) + 1] = Ev("end", 0)
        /\ Backlog(i) \in Seq(Event)
    BY <1>2, <2>1
  <2> QED
    BY <1>2, <1>3, <2>2 DEF log
<1>4. CASE runs[i].stage # "done"
  BY <1>1, <1>4 DEF Backlog
<1> QED
  BY <1>3, <1>4

(* The body of a stream attaches: nothing of the run has been read.        *)
LEMMA OpensShows ==
  ASSUME ShowInv, FeedTypeOK', Opens
  PROVE  Console'
<1> DEFINE i == obs.run
<1>1. /\ FeedTypeOK /\ LogsOK /\ Emptied /\ SomeBeginning /\ runs' = runs
      /\ page'.rows = page.rows /\ page'.tally = page.tally
      /\ reader'.at = "open" /\ reader'.swapped = reader.swapped
      /\ reader.at = "answered" /\ page.tally \in Tallies
  BY DEF ShowInv, FeedInv, Console, Opens, PageOK, ReaderOK
<1>2. i \in Started /\ Started' = Started
  BY <1>1 DEF ShowInv, FeedInv, Follows, Opens, FeedTypeOK, Started, None
<1>3. obs'.run = i /\ obs'.queue = Backlog(i) /\ obs'.tail = Live(i)
  BY DEF Opens, Attach
<1>4. Grows /\ LogsOK'
  BY <1>1, SameRuns
<1>5. SomeBeginning'
  BY <1>1, <1>4, KeepsBeginning
<1>6. Watches'
  <2>1. Backlog(obs.run)' = Backlog(i) /\ Live(obs.run)' = Live(i)
    BY <1>1, <1>3 DEF Backlog, Live
  <2>2. Live(i) \in BOOLEAN
    BY DEF Live
  <2>3. Backlog(i) \in Seq(Event) /\ runs[i].log \in Seq(Event)
    BY <1>1, <1>2, BacklogIs, RunsAre
  <2>4. ReadUpTo(0)'
    <3> DEFINE b == Backlog(i)
    <3>1. Len(b) = Len(b) - 0 /\ \A k \in 1..Len(b) : b[k] = b[0 + k]
      BY <2>3
    <3> HIDE DEF b
    <3>2. obs'.queue = b /\ Backlog(obs.run)' = b
      BY <1>3, <2>1 DEF b
    <3> QED
      BY <3>1, <3>2 DEF ReadUpTo, After
  <2>5. reader'.swapped => ShowsFirst(i, 0)'
    <3>1. SubSeq(runs[i].log, 1, 0) = <<>>
      BY <2>3, Beginnings
    <3>2. reader.swapped => page.rows = <<>> /\ page.tally = NoTally
      BY <1>1 DEF Emptied
    <3> QED
      BY <1>1, <1>3, <3>1, <3>2, EmptyScreen DEF ShowsFirst
  <2>6. 0 \in 0..Len(runs'[i].log)
    BY <1>1, <2>3
  <2> QED
    BY <1>2, <1>3, <2>1, <2>2, <2>4, <2>5, <2>6 DEF Watches
<1>7. Emptied' /\ WholeAtEnd'
  BY <1>1 DEF Emptied, WholeAtEnd
<1> QED
  BY <1>1, <1>4, <1>5, <1>6, <1>7 DEF Console

(* An event reaches the page.                                              *)
LEMMA EventLandsShows ==
  ASSUME ShowInv, FeedTypeOK', EventLands
  PROVE  Console'
<1> DEFINE i == obs.run
           e == Head(obs.queue)
           rest == Tail(obs.queue)
           log == runs[i].log
           all == Backlog(i)
<1>1. /\ FeedTypeOK /\ LogsOK /\ SomeBeginning /\ runs' = runs /\ PageOK
      /\ reader.at = "open" /\ page.tally \in Tallies /\ ReaderOK
      /\ obs \in [run : 0..Len(runs), queue : Seq(Event), tail : BOOLEAN]
      /\ obs.queue # <<>> /\ obs' = [obs EXCEPT !.queue = rest]
  BY DEF ShowInv, FeedInv, Console, EventLands, FeedTypeOK
<1>2. i \in Started /\ (obs.tail <=> Live(i)) /\ Started' = Started
  BY <1>1 DEF ShowInv, Console, Watches, Started
<1>3. PICK n \in 0..Len(log) : ReadUpTo(n) /\ IF reader.swapped THEN ShowsFirst(i, n) ELSE n = 0
  BY <1>1 DEF ShowInv, Console, Watches
<1>4. log \in Seq(Event) /\ Len(log) \in Nat /\ n \in Nat /\ n <= Len(log)
  BY <1>1, <1>2, <1>3, RunsAre
<1>5. /\ Len(all) = Len(log) + (IF runs[i].stage = "done" THEN 1 ELSE 0)
      /\ \A k \in 1..Len(log) : all[k] = log[k]
      /\ runs[i].stage = "done" => all[Len(log) + 1].kind = "end"
  BY <1>1, <1>2, BacklogIs
<1>6. /\ Len(obs.queue) = Len(all) - n
      /\ \A k \in 1..Len(obs.queue) : obs.queue[k] = all[n + k]
  BY <1>3 DEF ReadUpTo, After
<1>7. /\ Len(obs.queue) >= 1 /\ Len(obs.queue) \in Nat /\ e = obs.queue[1]
      /\ Len(rest) = Len(obs.queue) - 1 /\ \A k \in 1..Len(rest) : rest[k] = obs.queue[k + 1]
  BY <1>1
<1>8. obs'.queue = rest /\ obs'.run = i /\ obs'.tail = obs.tail
  BY <1>1
<1>9. Grows /\ LogsOK'
  BY <1>1, SameRuns
<1> HIDE DEF log, all, e, rest
<1>10. /\ e = all[n + 1]
       /\ n + 1 <= Len(log) => e = log[n + 1] /\ e.kind # "end"
       /\ ~(n + 1 <= Len(log)) => n = Len(log) /\ runs[i].stage = "done" /\ e.kind = "end"
  <2>1. e = all[n + 1]
    BY <1>6, <1>7
  <2>2. ASSUME n + 1 <= Len(log)
        PROVE  e = log[n + 1] /\ e.kind # "end"
    <3>1. n + 1 \in 1..Len(log)
      BY <1>4, <2>2
    <3>2. e = log[n + 1]
      BY <1>5, <2>1, <3>1
    <3>3. log[n + 1].kind # "end"
      BY <1>1, <1>2, <3>1 DEF LogsOK, RunOK, log
    <3> QED
      BY <3>2, <3>3
  <2>3. ASSUME ~(n + 1 <= Len(log))
        PROVE  n = Len(log) /\ runs[i].stage = "done" /\ e.kind = "end"
    <3>1. n = Len(log)
      BY <1>4, <2>3
    <3>2. Len(all) >= n + 1
      BY <1>4, <1>5, <1>6, <1>7
    <3>3. runs[i].stage = "done"
      BY <1>4, <1>5, <3>1, <3>2
    <3> QED
      BY <1>5, <2>1, <3>1, <3>3
  <2> QED
    BY <2>1, <2>2, <2>3
<1>11. CASE e.kind = "end"
  <2>1. n = Len(log) /\ runs[i].stage = "done"
    BY <1>10, <1>11
  <2>2. page' = page /\ reader'.at = "ended"
    BY <1>1, <1>11 DEF EventLands, e, ReaderOK
  <2>3. reader.swapped
    <3>1. log # <<>>
      BY <1>1, <1>2, <2>1 DEF LogsOK, RunOK, log
    <3>2. Len(log) # 0
      BY <1>4, <3>1
    <3> QED
      BY <1>3, <2>1, <3>2
  <2>4. Screen(page.rows, page.tally, log)
    <3>1. ShowsFirst(i, Len(log))
      BY <1>3, <2>1, <2>3
    <3>2. SubSeq(log, 1, Len(log)) = log
      BY <1>4, Beginnings
    <3> QED
      BY <3>1, <3>2 DEF ShowsFirst, log
  <2>5. ~obs'.tail
    BY <1>2, <1>8, <2>1 DEF Live
  <2>6. WholeAtEnd'
    BY <1>1, <1>2, <1>8, <2>1, <2>2, <2>4, <2>5 DEF WholeAtEnd, log
  <2>7. SomeBeginning'
    BY <1>1, <1>9, <2>2, KeepsBeginning
  <2>8. Watches' /\ Emptied'
    BY <2>2 DEF Watches, Emptied
  <2> QED
    BY <1>1, <1>9, <2>2, <2>6, <2>7, <2>8 DEF Console
<1>12. CASE e.kind # "end"
  <2> DEFINE q == SubSeq(log, 1, n)
  <2>1. n + 1 <= Len(log) /\ e = log[n + 1]
    BY <1>10, <1>12
  <2>2. q \in Seq(Event) /\ SubSeq(log, 1, n + 1) = Append(q, e) /\ e \in Event
    BY <1>3, <1>4, <2>1, Beginnings DEF log
  <2>3. page' = OnEvent(e) /\ reader'.at = "open" /\ reader'.swapped
    BY <1>1, <1>12 DEF EventLands, e, ReaderOK
  <2>4. IF reader.swapped THEN Shows(q) ELSE q = <<>>
    <3>1. reader.swapped => Shows(q)
      BY <1>3, ShowsIs DEF ShowsFirst, log
    <3>2. ~reader.swapped => q = <<>>
      BY <1>3, <1>4, Beginnings
    <3> QED
      BY <3>1, <3>2
  <2> HIDE DEF q
  <2>5. /\ page'.tally \in Tallies
        /\ Screen(page'.rows, page'.tally, Append(q, e))
    BY <1>1, <2>2, <2>3, <2>4, OnEventShows
  <2>6. ShowsFirst(i, n + 1)'
    BY <1>1, <2>2, <2>5 DEF ShowsFirst, log
  <2>7. n + 1 \in 1..Len(log) /\ n + 1 \in 0..Len(log)
    BY <1>4, <2>1
  <2>8. SomeBeginning'
    BY <1>1, <1>2, <2>6, <2>7 DEF SomeBeginning, log
  <2>9. ReadUpTo(n + 1)'
    <3>1. Backlog(obs.run)' = all
      BY <1>1, <1>8 DEF Backlog, all
    <3>2. Len(rest) = Len(all) - (n + 1)
      BY <1>4, <1>5, <1>6, <1>7
    <3>3. ASSUME NEW k \in 1..Len(rest)
          PROVE  rest[k] = all[(n + 1) + k]
      <4>1. k + 1 \in 1..Len(obs.queue) /\ n + (k + 1) = (n + 1) + k
        BY <1>4, <1>7
      <4> QED
        BY <1>6, <1>7, <4>1
    <3> QED
      BY <1>8, <3>1, <3>2, <3>3 DEF ReadUpTo, After
  <2>10. Watches'
    <3>1. Live(obs.run)' = Live(i)
      BY <1>1, <1>8 DEF Live
    <3>2. n + 1 \in 0..Len(runs'[i].log)
      BY <1>1, <2>7 DEF log
    <3> QED
      BY <1>2, <1>8, <2>3, <2>6, <2>9, <3>1, <3>2 DEF Watches
  <2>11. Emptied' /\ WholeAtEnd'
    BY <2>3 DEF Emptied, WholeAtEnd
  <2> QED
    BY <1>9, <2>5, <2>8, <2>10, <2>11 DEF Console
<1> QED
  BY <1>11, <1>12

(***************************************************************************)
(* The server's steps.                                                     *)
(***************************************************************************)
(* The page looks on.                                                      *)
LEMMA LooksOn ==
  ASSUME ShowInv, FeedTypeOK', Grows, LogsOK', Watches', page' = page, reader' = reader,
         ~obs.tail => obs'.run = obs.run /\ ~obs'.tail
  PROVE  Console'
<1>1. SomeBeginning'
  BY KeepsBeginning DEF ShowInv, FeedInv, Console
<1>2. Emptied' /\ page'.tally \in Tallies
  BY DEF ShowInv, Console, Emptied
<1>3. WholeAtEnd'
  BY DEF ShowInv, Console, WholeAtEnd, Grows
<1> QED
  BY <1>1, <1>2, <1>3 DEF Console

(* Nothing new for the stream.                                             *)
LEMMA SameStream ==
  ASSUME ShowInv, FeedTypeOK', Grows, page' = page, reader' = reader,
         obs'.run = obs.run, obs'.queue = obs.queue,
         reader.at = "open" =>
           /\ runs'[obs.run].log = runs[obs.run].log
           /\ runs'[obs.run].stage = "done" <=> runs[obs.run].stage = "done"
           /\ obs'.tail <=> Live(obs.run)'
  PROVE  Watches'
<1>1. SUFFICES ASSUME reader.at = "open" PROVE Watches'
  BY DEF Watches
<1>2. obs.run \in Started /\ obs.run \in Started'
  BY <1>1 DEF ShowInv, Console, Watches, Grows
<1>3. PICK n \in 0..Len(runs[obs.run].log) :
        ReadUpTo(n) /\ IF reader.swapped THEN ShowsFirst(obs.run, n) ELSE n = 0
  BY <1>1 DEF ShowInv, Console, Watches
<1>4. Backlog(obs.run)' = Backlog(obs.run)
  BY <1>1 DEF Backlog
<1>5. ReadUpTo(n)'
  BY <1>3, <1>4 DEF ReadUpTo
<1>6. IF reader'.swapped THEN ShowsFirst(obs.run, n)' ELSE n = 0
  BY <1>1, <1>3 DEF ShowsFirst
<1> QED
  BY <1>1, <1>2, <1>3, <1>5, <1>6 DEF Watches

(* One run changes; its log may grow, and it had not ended.                *)
LEMMA OneGrows ==
  ASSUME FeedTypeOK, LogsOK, NEW i \in Started, Live(i), NEW q \in FeedRunState,
         runs' = [runs EXCEPT ![i] = q], RunOK(q),
         Len(runs[i].log) <= Len(q.log),
         \A k \in 1..Len(runs[i].log) : q.log[k] = runs[i].log[k]
  PROVE  /\ Grows /\ LogsOK'
         /\ \A j \in Started : runs'[j] = IF j = i THEN q ELSE runs[j]
<1>1. /\ Len(runs') = Len(runs)
      /\ \A j \in Started : runs'[j] = IF j = i THEN q ELSE runs[j]
  BY SetRun
<1>2. Started' = Started
  BY <1>1 DEF Started
<1>3. Grows
  <2>1. ASSUME NEW j \in Started
        PROVE  /\ Len(runs[j].log) <= Len(runs'[j].log)
               /\ \A k \in 1..Len(runs[j].log) : runs'[j].log[k] = runs[j].log[k]
               /\ runs[j].stage = "done" =>
                    runs'[j].stage = "done" /\ runs'[j].log = runs[j].log
    <3>1. CASE j = i
      BY <1>1, <3>1 DEF Live
    <3>2. CASE j # i
      BY <1>1, <3>2, RunsAre
    <3> QED
      BY <3>1, <3>2
  <2> QED
    BY <1>2, <2>1 DEF Grows
<1>4. LogsOK'
  <2>1. \A j \in Started : RunOK(runs'[j])
    BY <1>1 DEF LogsOK
  <2> QED
    BY <1>2, <2>1 DEF LogsOK
<1> QED
  BY <1>1, <1>3, <1>4

(* A run moves on and says nothing.                                        *)
LEMMA QuietShows ==
  ASSUME ShowInv, FeedTypeOK', NEW i \in Started, Live(i), NEW q \in FeedRunState,
         runs' = [runs EXCEPT ![i] = q], RunOK(q), q.log = runs[i].log,
         q.stage \notin {"done", "dead"},
         obs' = obs, page' = page, reader' = reader
  PROVE  Console'
<1>1. FeedTypeOK /\ LogsOK /\ Len(runs[i].log) \in Nat
  BY RunsAre DEF ShowInv, FeedInv, Console
<1>2. /\ Grows /\ LogsOK'
      /\ \A j \in Started : runs'[j] = IF j = i THEN q ELSE runs[j]
  <2>1. Len(runs[i].log) <= Len(q.log)
        /\ \A k \in 1..Len(runs[i].log) : q.log[k] = runs[i].log[k]
    BY <1>1
  <2> QED
    BY <1>1, <2>1, OneGrows
<1>3. Watches'
  <2>1. ASSUME reader.at = "open"
        PROVE  /\ runs'[obs.run].log = runs[obs.run].log
               /\ runs'[obs.run].stage = "done" <=> runs[obs.run].stage = "done"
               /\ obs'.tail <=> Live(obs.run)'
    <3>1. obs.run \in Started /\ (obs.tail <=> Live(obs.run))
      BY <2>1 DEF ShowInv, Console, Watches
    <3>2. CASE obs.run = i
      BY <1>2, <3>1, <3>2 DEF Live
    <3>3. CASE obs.run # i
      BY <1>2, <3>1, <3>3 DEF Live
    <3> QED
      BY <3>2, <3>3
  <2> QED
    BY <1>2, <2>1, SameStream
<1> QED
  BY <1>2, <1>3, LooksOn

(* What follows the first n of some events, when one more comes.            *)
LEMMA OneMoreAfter ==
  ASSUME NEW queue \in Seq(Event), NEW log \in Seq(Event), NEW e \in Event,
         NEW n \in 0..Len(log), After(queue, log, n)
  PROVE  After(Append(queue, e), Append(log, e), n)
<1> DEFINE q == Append(queue, e)
           p == Append(log, e)
<1>1. /\ Len(queue) \in Nat /\ Len(q) = Len(queue) + 1 /\ q[Len(queue) + 1] = e
      /\ \A k \in 1..Len(queue) : q[k] = queue[k]
  OBVIOUS
<1>2. /\ Len(log) \in Nat /\ Len(p) = Len(log) + 1 /\ p[Len(log) + 1] = e
      /\ \A k \in 1..Len(log) : p[k] = log[k]
  OBVIOUS
<1>3. /\ Len(queue) = Len(log) - n /\ n \in Nat /\ n <= Len(log)
      /\ \A k \in 1..Len(queue) : queue[k] = log[n + k]
  BY DEF After
<1> HIDE DEF q, p
<1>4. ASSUME NEW k \in 1..Len(q)
      PROVE  q[k] = p[n + k]
  <2>1. CASE k = Len(queue) + 1
    <3>1. n + k = Len(log) + 1
      BY <1>2, <1>3, <2>1
    <3> QED
      BY <1>1, <1>2, <2>1, <3>1
  <2>2. CASE k # Len(queue) + 1
    <3>1. k \in 1..Len(queue) /\ n + k \in 1..Len(log)
      BY <1>1, <1>2, <1>3, <2>2
    <3> QED
      BY <1>1, <1>2, <1>3, <3>1
  <2> QED
    BY <2>1, <2>2
<1>5. Len(q) = Len(p) - n
  BY <1>1, <1>2, <1>3
<1> QED
  BY <1>4, <1>5 DEF After, q, p

(* What a run says, its readers are told.                                  *)
LEMMA PublishShows ==
  ASSUME ShowInv, FeedTypeOK', NEW i \in Started, Live(i), NEW r \in FeedRunState,
         NEW kind \in Kinds \ {"end"}, Publish(i, r, kind), r.log = runs[i].log,
         r.stage \notin {"done", "dead"},
         \A k \in 1..Len(r.todo) : r.todo[k] \in {"error", "finished"},
         page' = page, reader' = reader
  PROVE  Console'
<1> DEFINE log == runs[i].log
           said == Said(log, kind)
           e == Last(said)
           q == [r EXCEPT !.log = said]
<1>1. /\ FeedTypeOK /\ LogsOK /\ RunOK(runs[i])
      /\ log \in Seq(Event) /\ Len(log) \in Nat
      /\ obs \in [run : 0..Len(runs), queue : Seq(Event), tail : BOOLEAN]
  BY RunsAre DEF LogsOK, ShowInv, FeedInv, Console, FeedTypeOK
<1>2. /\ said \in Seq(Event) /\ e \in Event /\ e.kind = kind /\ said = Append(log, e)
  <2>1. said \in Seq(Event) /\ e \in Event /\ e.kind = kind
    BY <1>1, SaidType
  <2>2. \E x : said = Append(log, x)
    BY DEF Said
  <2>3. PICK x : said = Append(log, x)
    BY <2>2
  <2> HIDE DEF said
  <2>4. said[Len(said)] = x
    BY <1>1, <2>1, <2>3
  <2> QED
    BY <2>1, <2>3, <2>4 DEF Last
<1>3. /\ runs' = [runs EXCEPT ![i] = q]
      /\ obs' = IF obs.run = i /\ obs.tail
                THEN [obs EXCEPT !.queue = Append(@, e)] ELSE obs
  BY DEF Publish
<1> HIDE DEF said, e
<1>4. /\ q \in FeedRunState /\ q.log = said /\ q.stage = r.stage /\ q.todo = r.todo
  BY <1>2 DEF FeedRunState
<1> HIDE DEF q
<1>5. /\ Len(said) = Len(log) + 1 /\ said[Len(log) + 1] = e
      /\ \A k \in 1..Len(log) : said[k] = log[k]
  BY <1>1, <1>2
<1>6. RunOK(q)
  <2>1. said # <<>>
    BY <1>1, <1>5
  <2>2. ASSUME NEW k \in 1..Len(said)
        PROVE  said[k].kind # "end"
    <3>1. CASE k = Len(log) + 1
      BY <1>2, <1>5, <3>1
    <3>2. CASE k # Len(log) + 1
      <4>1. k \in 1..Len(log)
        BY <1>1, <1>5, <3>2
      <4> QED
        BY <1>1, <1>5, <4>1 DEF RunOK
    <3> QED
      BY <3>1, <3>2
  <2> QED
    BY <1>4, <2>1, <2>2 DEF RunOK
<1>7. /\ Grows /\ LogsOK'
      /\ \A j \in Started : runs'[j] = IF j = i THEN q ELSE runs[j]
  <2>1. /\ Len(runs[i].log) <= Len(q.log)
        /\ \A k \in 1..Len(runs[i].log) : q.log[k] = runs[i].log[k]
    BY <1>1, <1>4, <1>5
  <2> HIDE DEF log
  <2> QED
    BY <1>1, <1>3, <1>4, <1>6, <2>1, OneGrows
<1>8. Watches'
  <2>1. CASE reader.at # "open"
    BY <2>1 DEF Watches
  <2>2. CASE reader.at = "open" /\ obs.run # i
    <3>1. obs.run \in Started /\ (obs.tail <=> Live(obs.run))
      BY <2>2 DEF ShowInv, Console, Watches
    <3>2. obs' = obs /\ runs'[obs.run] = runs[obs.run]
      BY <1>3, <1>7, <2>2, <3>1
    <3>3. Live(obs.run)' <=> Live(obs.run)
      BY <3>2 DEF Live
    <3> QED
      BY <1>7, <3>1, <3>2, <3>3, SameStream
  <2>3. CASE reader.at = "open" /\ obs.run = i
    <3>1. obs.tail
      BY <2>3 DEF ShowInv, Console, Watches
    <3>2. /\ obs'.run = i /\ obs'.tail /\ obs'.queue = Append(obs.queue, e)
          /\ obs.queue \in Seq(Event)
      BY <1>1, <1>3, <2>3, <3>1
    <3>3. PICK n \in 0..Len(log) :
            ReadUpTo(n) /\ IF reader.swapped THEN ShowsFirst(i, n) ELSE n = 0
      BY <2>3 DEF ShowInv, Console, Watches
    <3>4. Backlog(i) = log
      BY DEF Backlog, Live
    <3>5. Backlog(obs.run)' = said /\ Live(obs.run)'
      BY <1>4, <1>7, <3>2 DEF Backlog, Live
    <3>6. After(obs.queue, log, n)
      BY <2>3, <3>3, <3>4 DEF ReadUpTo
    <3>7. After(Append(obs.queue, e), Append(log, e), n)
      BY <1>1, <1>2, <3>2, <3>3, <3>6, OneMoreAfter
    <3>9. ReadUpTo(n)'
      BY <1>2, <3>2, <3>5, <3>7 DEF ReadUpTo
    <3> HIDE DEF log
    <3>10. n \in 0..Len(runs'[i].log)
      BY <1>1, <1>4, <1>5, <1>7, <3>3
    <3>11. IF reader'.swapped THEN ShowsFirst(i, n)' ELSE n = 0
      BY <1>1, <1>7, <3>3, StillFirst DEF log
    <3> QED
      BY <1>7, <2>3, <3>2, <3>5, <3>9, <3>10, <3>11 DEF Watches, Grows
  <2> QED
    BY <2>1, <2>2, <2>3
<1>9. ~obs.tail => obs'.run = obs.run /\ ~obs'.tail
  BY <1>3
<1> QED
  BY <1>7, <1>8, <1>9, LooksOn

(* The last words of a worker that winds down.                             *)
LEMMA LastWordsAre ==
  /\ <<"finished">> \in Seq(Kinds) /\ <<"error", "finished">> \in Seq(Kinds)
  /\ <<>> \in Seq(Kinds)
  /\ \A todo \in {<<"finished">>, <<"error", "finished">>} :
       todo # <<>> /\ \A k \in 1..Len(todo) : todo[k] \in {"error", "finished"}
BY DEF Kinds

LEMMA WindsIs ==
  ASSUME NEW r \in FeedRunState, NEW todo \in Seq(Kinds)
  PROVE  /\ Winds(r, todo).log = r.log /\ Winds(r, todo).stage = "tail"
         /\ Winds(r, todo).todo = todo /\ Winds(r, todo) \in FeedRunState
<1>1. Winds(r, todo).log = r.log /\ Winds(r, todo).todo = todo
  BY DEF Winds, FeedRunState
<1> QED
  BY <1>1, RunTypes

(* A worker that says something more.                                      *)
LEMMA YieldShows ==
  ASSUME ShowInv, FeedTypeOK', NEW i \in Started, Live(i), NEW r \in FeedRunState,
         NEW kind \in Kinds \ {"end"}, Yields(i, r, kind),
         r.log = runs[i].log, r.todo = runs[i].todo, r.stage \notin {"done", "dead"},
         page' = page, reader' = reader
  PROVE  Console'
<1> DEFINE q == IF r.stop THEN Winds(r, <<"finished">>) ELSE r
<1>1. Publish(i, q, kind)
  BY DEF Yields
<1>2. RunOK(runs[i])
  BY DEF LogsOK, ShowInv, Console
<1>3. /\ q \in FeedRunState /\ q.log = runs[i].log /\ q.stage \notin {"done", "dead"}
      /\ \A k \in 1..Len(q.todo) : q.todo[k] \in {"error", "finished"}
  <2>1. CASE r.stop
    BY <2>1, LastWordsAre, WindsIs
  <2>2. CASE ~r.stop
    BY <1>2, <2>2 DEF RunOK
  <2> QED
    BY <2>1, <2>2
<1> HIDE DEF q
<1> QED
  BY <1>1, <1>3, PublishShows

(* Every step of a worker but its last.                                    *)
LEMMA WorkerShows ==
  ASSUME ShowInv, FeedTypeOK', NEW i \in Started, page' = page, reader' = reader,
         Claim(i) \/ Part(i) \/ Wall(i) \/ Exhausted(i) \/ FlushFails(i)
           \/ Raise(i) \/ LastWords(i)
  PROVE  Console'
<1>1. runs[i] \in FeedRunState /\ RunOK(runs[i]) /\ runs[i].todo \in Seq(Kinds)
  BY RunsAre DEF LogsOK, ShowInv, FeedInv, Console
<1>2. Live(i)
  BY DEF Live, Claim, Part, Wall, InSweep, Exhausted, FlushFails, Raise, Working, LastWords
<1>3. {"started", "part", "error", "finished"} \subseteq Kinds \ {"end"}
  BY DEF Kinds
<1>4. ASSUME NEW todo \in {<<"finished">>, <<"error", "finished">>},
             runs' = [runs EXCEPT ![i] = Winds(@, todo)], obs' = obs
      PROVE  Console'
  <2> DEFINE q == Winds(runs[i], todo)
  <2>1. q \in FeedRunState /\ q.log = runs[i].log /\ q.stage = "tail" /\ q.todo = todo
    <3>1. todo \in Seq(Kinds)
      BY LastWordsAre
    <3> QED
      BY <1>1, <3>1, WindsIs
  <2>2. runs' = [runs EXCEPT ![i] = q]
    BY <1>4
  <2> HIDE DEF q
  <2>3. RunOK(q)
    BY <1>1, <2>1, LastWordsAre DEF RunOK
  <2> QED
    BY <1>2, <1>4, <2>1, <2>2, <2>3, QuietShows
<1>5. ASSUME NEW stage \in {"sweep", "walled"}, NEW kind \in {"started", "part", "error"},
             Yields(i, [runs[i] EXCEPT !.stage = stage], kind)
      PROVE  Console'
  <2> DEFINE r == [runs[i] EXCEPT !.stage = stage]
  <2>1. /\ r \in FeedRunState /\ r.log = runs[i].log /\ r.todo = runs[i].todo
        /\ r.stage = stage /\ Yields(i, r, kind)
    BY <1>1, <1>5 DEF FeedRunState
  <2> HIDE DEF r
  <2> QED
    BY <1>2, <1>3, <2>1, YieldShows
<1>6. CASE Claim(i)
  <2>1. CASE Yields(i, [runs[i] EXCEPT !.stage = "sweep"], "started")
    BY <1>5, <2>1
  <2>2. CASE runs' = [runs EXCEPT ![i] = Winds(@, <<"finished">>)] /\ obs' = obs
    BY <1>4, <2>2
  <2> QED
    BY <1>6, <2>1, <2>2 DEF Claim
<1>7. CASE Part(i)
  <2>1. Yields(i, runs[i], "part") /\ runs[i].stage = "sweep"
    BY <1>7 DEF Part, InSweep
  <2> QED
    BY <1>1, <1>2, <1>3, <2>1, YieldShows
<1>8. CASE Wall(i)
  BY <1>5, <1>8 DEF Wall
<1>9. CASE Exhausted(i)
  <2>1. Publish(i, Winds(runs[i], <<>>), "finished")
    BY <1>9 DEF Exhausted
  <2> DEFINE r == Winds(runs[i], <<>>)
  <2>2. r \in FeedRunState /\ r.log = runs[i].log /\ r.stage = "tail" /\ r.todo = <<>>
    BY <1>1, LastWordsAre, WindsIs
  <2> HIDE DEF r
  <2>3. Publish(i, r, "finished") /\ Len(r.todo) = 0
    BY <2>1, <2>2 DEF r
  <2> QED
    BY <1>2, <1>3, <2>2, <2>3, PublishShows
<1>10. CASE FlushFails(i)
  <2> DEFINE todo == <<"error", "finished">>
             r == Winds(runs[i], todo)
  <2>1. Publish(i, r, "finished")
    BY <1>10 DEF FlushFails
  <2>2. r \in FeedRunState /\ r.log = runs[i].log /\ r.stage = "tail" /\ r.todo = todo
    BY <1>1, LastWordsAre, WindsIs
  <2>3. \A k \in 1..Len(todo) : todo[k] \in {"error", "finished"}
    BY LastWordsAre
  <2> HIDE DEF r, todo
  <2> QED
    BY <1>2, <1>3, <2>1, <2>2, <2>3, PublishShows
<1>11. CASE Raise(i)
  BY <1>4, <1>11 DEF Raise
<1>12. CASE LastWords(i)
  <2> DEFINE kind == Head(runs[i].todo)
             rest == Tail(runs[i].todo)
             r == [runs[i] EXCEPT !.todo = rest]
  <2>1. Publish(i, r, kind) /\ runs[i].todo # <<>> /\ runs[i].stage = "tail"
    BY <1>12 DEF LastWords
  <2>2. /\ rest \in Seq(Kinds) /\ Len(runs[i].todo) >= 1 /\ kind = runs[i].todo[1]
        /\ Len(rest) = Len(runs[i].todo) - 1 /\ Len(runs[i].todo) \in Nat
        /\ \A k \in 1..Len(rest) : rest[k] = runs[i].todo[k + 1]
    BY <1>1, <2>1
  <2> HIDE DEF kind, rest
  <2>3. kind \in {"error", "finished"}
        /\ \A k \in 1..Len(rest) : rest[k] \in {"error", "finished"}
    <3>1. \A k \in 1..Len(runs[i].todo) : runs[i].todo[k] \in {"error", "finished"}
      BY <1>1 DEF RunOK
    <3>2. 1 \in 1..Len(runs[i].todo)
      BY <2>2
    <3>3. \A k \in 1..Len(rest) : k + 1 \in 1..Len(runs[i].todo)
      BY <2>2
    <3> QED
      BY <2>2, <3>1, <3>2, <3>3
  <2>4. /\ r \in FeedRunState /\ r.log = runs[i].log /\ r.stage = "tail"
        /\ r.todo = rest
    BY <1>1, <2>1, <2>2 DEF FeedRunState
  <2>5. kind \in Kinds \ {"end"}
    BY <1>3, <2>3
  <2> HIDE DEF r
  <2> QED
    BY <1>2, <2>1, <2>3, <2>4, <2>5, PublishShows
<1> QED
  BY <1>6, <1>7, <1>8, <1>9, <1>10, <1>11, <1>12

(* A run ends: its readers are told that nothing follows.                  *)
LEMMA FinishShows ==
  ASSUME ShowInv, FeedTypeOK', NEW i \in Started, page' = page, reader' = reader,
         Finish(i)
  PROVE  Console'
<1> DEFINE q == Gone(runs[i], "done")
           log == runs[i].log
           end == Ev("end", 0)
<1>1. /\ FeedTypeOK /\ LogsOK /\ runs[i] \in FeedRunState /\ RunOK(runs[i])
      /\ log \in Seq(Event) /\ Len(log) \in Nat
      /\ obs \in [run : 0..Len(runs), queue : Seq(Event), tail : BOOLEAN]
      /\ runs[i].stage = "tail" /\ runs[i].todo = <<>>
  BY RunsAre DEF LogsOK, ShowInv, FeedInv, Console, FeedTypeOK, Finish
<1>2. /\ runs' = [runs EXCEPT ![i] = q] /\ Live(i)
      /\ obs' = IF obs.run = i /\ obs.tail
                THEN [obs EXCEPT !.queue = Append(@, end), !.tail = FALSE] ELSE obs
  BY <1>1 DEF Finish, Released, Live
<1>3. q \in FeedRunState /\ q.log = log /\ q.stage = "done" /\ q.todo = <<>>
  BY <1>1, RunTypes DEF Gone, FeedRunState
<1>4. end \in Event
  BY DEF Ev, Event, Kinds
<1> HIDE DEF q, end
<1>5. RunOK(q)
  <2>1. log # <<>> /\ Len(<<>>) = 0
    BY <1>1 DEF RunOK
  <2> QED
    BY <1>1, <1>3, <2>1 DEF RunOK
<1>6. /\ Grows /\ LogsOK'
      /\ \A j \in Started : runs'[j] = IF j = i THEN q ELSE runs[j]
  <2>1. Len(runs[i].log) <= Len(q.log)
        /\ \A k \in 1..Len(runs[i].log) : q.log[k] = runs[i].log[k]
    BY <1>1, <1>3
  <2> QED
    BY <1>1, <1>2, <1>3, <1>5, <2>1, OneGrows
<1>7. Watches'
  <2>1. CASE reader.at # "open"
    BY <2>1 DEF Watches
  <2>2. CASE reader.at = "open" /\ obs.run # i
    <3>1. obs.run \in Started /\ (obs.tail <=> Live(obs.run))
      BY <2>2 DEF ShowInv, Console, Watches
    <3>2. obs' = obs /\ runs'[obs.run] = runs[obs.run]
      BY <1>2, <1>6, <2>2, <3>1
    <3>3. Live(obs.run)' <=> Live(obs.run)
      BY <3>2 DEF Live
    <3> QED
      BY <1>6, <3>1, <3>2, <3>3, SameStream
  <2>3. CASE reader.at = "open" /\ obs.run = i
    <3>1. obs.tail
      BY <1>2, <2>3 DEF ShowInv, Console, Watches
    <3> DEFINE queue == Append(obs.queue, end)
    <3>2. obs' = [obs EXCEPT !.queue = queue, !.tail = FALSE] /\ obs.queue \in Seq(Event)
      BY <1>1, <1>2, <2>3, <3>1
    <3> HIDE DEF queue
    <3>4. obs'.run = i /\ ~obs'.tail /\ obs'.queue = queue
      BY <1>1, <2>3, <3>2
    <3>5. PICK n \in 0..Len(log) :
            ReadUpTo(n) /\ IF reader.swapped THEN ShowsFirst(i, n) ELSE n = 0
      BY <2>3 DEF ShowInv, Console, Watches
    <3>6. Backlog(i) = log
      BY <1>1 DEF Backlog
    <3>7. Backlog(obs.run)' = Append(log, end) /\ ~Live(obs.run)'
      BY <1>3, <1>6, <3>4 DEF Backlog, Live, end
    <3>8. After(obs.queue, log, n)
      BY <2>3, <3>5, <3>6 DEF ReadUpTo
    <3>9. After(queue, Append(log, end), n)
      BY <1>1, <1>4, <3>2, <3>5, <3>8, OneMoreAfter DEF queue
    <3>11. ReadUpTo(n)'
      BY <3>4, <3>7, <3>9 DEF ReadUpTo
    <3> HIDE DEF log
    <3>12. n \in 0..Len(runs'[i].log)
      BY <1>3, <1>6, <3>5
    <3>13. IF reader'.swapped THEN ShowsFirst(i, n)' ELSE n = 0
      BY <1>1, <1>6, <3>5, StillFirst DEF log
    <3> QED
      BY <1>6, <2>3, <3>4, <3>7, <3>11, <3>12, <3>13 DEF Watches, Grows
  <2> QED
    BY <2>1, <2>2, <2>3
<1>8. ~obs.tail => obs'.run = obs.run /\ ~obs'.tail
  BY <1>2
<1> QED
  BY <1>6, <1>7, <1>8, LooksOn

(* Someone asks a run to pause: nothing but its flag.                      *)
LEMMA StopShows ==
  ASSUME ShowInv, FeedTypeOK', RequestStop, obs' = obs, page' = page, reader' = reader
  PROVE  Console'
<1> DEFINE i == registry
           stop == Working(i)
           q == [runs[i] EXCEPT !.stop = stop]
<1>1. i \in Started /\ Live(i)
  BY DEF ShowInv, FeedInv, FeedTypeOK, RequestStop, Going, None, Started
<1>2. runs[i] \in FeedRunState /\ RunOK(runs[i])
  BY <1>1, RunsAre DEF LogsOK, ShowInv, FeedInv, Console
<1>3. runs' = [runs EXCEPT ![i] = q] /\ stop \in BOOLEAN
  BY DEF RequestStop, Working
<1> HIDE DEF stop
<1>4. /\ q \in FeedRunState /\ q.stage = runs[i].stage
      /\ q.log = runs[i].log /\ q.todo = runs[i].todo
  BY <1>2, <1>3 DEF FeedRunState
<1> HIDE DEF q
<1>5. RunOK(q) /\ q.stage \notin {"done", "dead"}
  BY <1>1, <1>2, <1>4 DEF RunOK, Live
<1> HIDE DEF i
<1> QED
  BY <1>1, <1>3, <1>4, <1>5, QuietShows

(* The api container restarts: what runs have said stays said.             *)
LEMMA RestartShows ==
  ASSUME ShowInv, FeedTypeOK', Restart, page' = page, reader' = reader
  PROVE  Console'
<1> DEFINE q(j) == IF Live(j) THEN Gone(runs[j], "dead") ELSE runs[j]
<1>1. /\ FeedTypeOK /\ LogsOK /\ Len(runs) \in Nat
      /\ obs \in [run : 0..Len(runs), queue : Seq(Event), tail : BOOLEAN]
      /\ \A j \in Started : runs[j] \in FeedRunState /\ RunOK(runs[j])
      /\ \A j \in Started : Len(runs[j].log) \in Nat
  BY RunsAre DEF LogsOK, ShowInv, FeedInv, Console, FeedTypeOK
<1>2. ASSUME NEW j \in Started
      PROVE  /\ q(j).log = runs[j].log
             /\ q(j).stage = IF Live(j) THEN "dead" ELSE runs[j].stage
             /\ RunOK(q(j))
  <2>1. CASE Live(j)
    <3>1. /\ q(j).log = runs[j].log /\ q(j).stage = "dead" /\ q(j).todo = <<>>
      BY <1>1, <2>1 DEF Gone, FeedRunState
    <3>2. Len(<<>>) = 0
      OBVIOUS
    <3> HIDE DEF q
    <3> QED
      BY <1>1, <2>1, <3>1, <3>2 DEF RunOK
  <2>2. CASE ~Live(j)
    BY <1>1, <2>2
  <2> QED
    BY <2>1, <2>2
<1>3. runs' = [j \in 1..Len(runs) |-> q(j)]
  BY DEF Restart, Started
<1> HIDE DEF q
<1>4. Started' = Started /\ \A j \in Started : runs'[j] = q(j)
  BY <1>1, <1>3 DEF Started
<1>5. Grows
  BY <1>1, <1>2, <1>4 DEF Grows, Live
<1>6. LogsOK'
  <2>1. \A j \in Started : RunOK(runs'[j])
    BY <1>2, <1>4
  <2> QED
    BY <1>4, <2>1 DEF LogsOK
<1>7. obs'.run = obs.run /\ obs'.queue = obs.queue /\ ~obs'.tail
  BY <1>1 DEF Restart
<1>8. Watches'
  <2>1. ASSUME reader.at = "open"
        PROVE  /\ runs'[obs.run].log = runs[obs.run].log
               /\ runs'[obs.run].stage = "done" <=> runs[obs.run].stage = "done"
               /\ obs'.tail <=> Live(obs.run)'
    <3>1. obs.run \in Started
      BY <2>1 DEF ShowInv, Console, Watches
    <3>2. /\ runs'[obs.run].log = runs[obs.run].log
          /\ runs'[obs.run].stage = IF Live(obs.run) THEN "dead" ELSE runs[obs.run].stage
      BY <1>2, <1>4, <3>1
    <3> QED
      BY <1>7, <3>2 DEF Live
  <2> QED
    BY <1>5, <1>7, <2>1, SameStream
<1> QED
  BY <1>5, <1>6, <1>7, <1>8, LooksOn

(* Another tab starts a run.                                               *)
LEMMA OtherStartShows ==
  ASSUME ShowInv, FeedTypeOK', OtherStarts, page' = page, reader' = reader
  PROVE  Console'
<1>1. /\ FeedTypeOK /\ LogsOK /\ StartRun /\ obs' = obs /\ Len(runs) \in Nat
  BY DEF ShowInv, FeedInv, Console, OtherStarts, FeedTypeOK
<1>2. Grows /\ LogsOK'
  BY <1>1, StartGrows
<1>3. \A j \in Started : runs'[j] = runs[j]
  BY <1>1, AddRun
<1>4. Watches'
  <2>1. ASSUME reader.at = "open"
        PROVE  /\ runs'[obs.run].log = runs[obs.run].log
               /\ runs'[obs.run].stage = "done" <=> runs[obs.run].stage = "done"
               /\ obs'.tail <=> Live(obs.run)'
    <3>1. obs.run \in Started /\ (obs.tail <=> Live(obs.run))
      BY <2>1 DEF ShowInv, Console, Watches
    <3> QED
      BY <1>1, <1>3, <3>1 DEF Live
  <2> QED
    BY <1>1, <1>2, <2>1, SameStream
<1> QED
  BY <1>1, <1>2, <1>4, LooksOn

(* Every step of the composition.                                          *)
LEMMA StepShows == ShowInv /\ ButtonInv /\ [Next]_vars => ShowInv'
<1> SUFFICES ASSUME ShowInv, ButtonInv, [Next]_vars PROVE ShowInv'
  OBVIOUS
<1>1. FeedInv' /\ PageOK' /\ FeedTypeOK'
  BY StepInv, StepButtons DEF ShowInv, ButtonInv, FeedInv
<1>2. SUFFICES Console'
  BY <1>1 DEF ShowInv
<1>3. CASE ServerStep /\ UNCHANGED pageVars
  <2>1. page' = page /\ reader' = reader
    BY <1>3 DEF pageVars
  <2>2. CASE \E i \in Started : Worker(i) \/ FlushFails(i) \/ Raise(i)
    <3>1. PICK i \in Started : Worker(i) \/ FlushFails(i) \/ Raise(i)
      BY <2>2
    <3>2. CASE Finish(i)
      BY <1>1, <2>1, <3>2, FinishShows
    <3>3. CASE ~Finish(i)
      BY <1>1, <2>1, <3>1, <3>3, WorkerShows DEF Worker
    <3> QED
      BY <3>2, <3>3
  <2>3. CASE Restart
    BY <1>1, <2>1, <2>3, RestartShows
  <2>4. CASE OtherStarts
    BY <1>1, <2>1, <2>4, OtherStartShows
  <2>5. CASE OtherPauses
    BY <1>1, <2>1, <2>5, StopShows DEF OtherPauses
  <2>6. CASE Purge \/ Night \/ NightEnds
    <3>1. runs' = runs /\ obs' = obs
      BY <2>6 DEF Purge, Night, NightEnds
    <3> QED
      BY <2>1, <3>1, SameConsole
  <2> QED
    BY <1>3, <2>2, <2>3, <2>4, <2>5, <2>6 DEF ServerStep
<1>4. CASE Settles
  BY <1>1, <1>4, SettleShows
<1>5. CASE Operates \/ PauseReturns \/ OrphanSettles \/ LoadLands
  BY <1>1, <1>5, OperatorShows
<1>6. CASE ServeStart \/ ServeObserve \/ ServeRefuses \/ Drop
  BY <1>1, <1>6, ServeShows
<1>7. CASE Opens
  BY <1>1, <1>7, OpensShows
<1>8. CASE EventLands
  BY <1>1, <1>8, EventLandsShows
<1>9. CASE ServePause
  <2>1. page' = page /\ reader' = reader /\ obs' = obs
    BY <1>9 DEF ServePause
  <2>2. CASE RequestStop
    BY <1>1, <2>1, <2>2, StopShows
  <2>3. CASE runs' = runs
    BY <2>1, <2>3, SameConsole
  <2> QED
    BY <1>9, <2>2, <2>3 DEF ServePause
<1>10. CASE UNCHANGED vars
  <2>1. page' = page /\ reader' = reader /\ obs' = obs /\ runs' = runs
    BY <1>10 DEF vars, pageVars, feedVars
  <2> QED
    BY <2>1, SameConsole
<1> QED
  BY <1>3, <1>4, <1>5, <1>6, <1>7, <1>8, <1>9, <1>10 DEF Next, Delivers

(* The console, in every reachable state.                                  *)
LEMMA ConsoleHolds == Spec => []ShowInv
<1>1. Init => ShowInv /\ ButtonInv
  BY InitShows, InitButtons
<1>2. ShowInv /\ ButtonInv /\ [Next]_vars => (ShowInv /\ ButtonInv)'
  BY StepShows, StepButtons
<1> QED
  BY <1>1, <1>2, PTL DEF Spec

\* What is on screen is the beginning of one run, with no event left out and
\* none twice, whatever sockets die and however often a run is replayed, and
\* the counters are those of every event read, for any length of the window.
THEOREM ConsoleShowsOneRun == Spec => []ShownIsOneRun
<1>1. ShowInv => ShownIsOneRun
  BY ShowsIs DEF ShowInv, Console, SomeBeginning, ShowsFirst, ShownIsOneRun
<1> QED
  BY <1>1, ConsoleHolds, PTL

\* A stream that ends cleanly belongs to a run that is over, and the page
\* has shown all of it: nothing said while the reader attached, or as the
\* run ended, is lost between the log and the socket.
THEOREM ConsoleEndsWhole == Spec => []CleanEndIsWhole
<1>1. ShowInv => CleanEndIsWhole
  BY ShowsIs DEF ShowInv, Console, WholeAtEnd, CleanEndIsWhole
<1> QED
  BY <1>1, ConsoleHolds, PTL
===============================================================================
