----------------------------- MODULE ViewerProofs -----------------------------
(***************************************************************************)
(* What the design viewer draws, selects and says, for every value of the  *)
(* constants: any sheets, parts, gestures, projects and failures.          *)
(***************************************************************************)
EXTENDS Viewer, SequenceTheorems, TLAPS

(***************************************************************************)
(* The invariant.  Its parts are predicates of a page and a canvas, so     *)
(* that they can speak of what a handler hands to Commit and of what one   *)
(* effect hands to the next, as well as of the state.                      *)
(***************************************************************************)

(* A view flies exactly while an activation waits for the load that has    *)
(* not ended there; the page that is up has its document held.             *)
CanvasOK(c) ==
  /\ c \in Canvas
  /\ \A v \in Views : c.flying[v] <=> c.tail[v] = "watched"
  /\ c.page # None => Held(c, c.page)

(* What a job is, whatever the canvas: a mount and a page switch select    *)
(* nothing, a selection made at once was of a part without a sheet.        *)
JobIs(j) ==
  /\ j \in Job /\ j.project <= opens
  /\ j.kind \in {"mount", "host"} => j.ref = None
  /\ j.stage # "decided" => j.doc # None
  /\ j.outcome = "focused" => j.kind # "focus" \/ SheetOf[j.ref] = None

(* The newest activation of a project on screen is for the page that is    *)
(* up; while it waits its watch is the one recorded, and once it only      *)
(* polls, the load it watched has ended.                                   *)
NewestFits(p, c, j) ==
  j.stage # "decided" /\ j.newest /\ j.project = opens /\ p.session =>
    /\ c.page = j.doc
    /\ j.stage = "waits" => j.registered
    /\ j.stage = "polls" => ~c.flying[ViewOf(j.doc)]

(* A mount of a project on screen has its renderer.                        *)
MountFits(p, c, j) == j.kind = "mount" /\ j.project = opens /\ p.session => c.page # None

(* A job about to select a part has its document held, and not loading.    *)
Selecting(j) == j.stage = "decided" /\ j.outcome = "ok" /\ j.ref # None
SettledFits(c, j) == Selecting(j) => Held(c, j.doc) /\ ~c.flying[ViewOf(j.doc)]

JobsOK(p, c) ==
  \A i \in DOMAIN c.jobs :
    /\ JobIs(c.jobs[i]) /\ NewestFits(p, c, c.jobs[i])
    /\ MountFits(p, c, c.jobs[i]) /\ SettledFits(c, c.jobs[i])

PageOK(p) == p \in Page /\ p.sheet \notin Dropped

(* What every handler and every effect keeps.                              *)
Sound(p, c) == PageOK(p) /\ CanvasOK(c) /\ JobsOK(p, c) /\ c.given = p.applied

(* A mount that is through is the only job that is: what follows it may    *)
(* start loads.                                                            *)
MountDue(j) == j.kind = "mount" /\ j.stage = "decided"
LoneMount ==
  \A i, k \in DOMAIN canvas.jobs :
    MountDue(canvas.jobs[i]) /\ canvas.jobs[k].stage = "decided" => i = k

(* Once the canvas is ready, the page that is up is the one the tab and    *)
(* the sheet list name, and the panel of a board on screen was sent.       *)
Fits(p, c) ==
  /\ p.session /\ c.page = Wanted(p)
  /\ p.tab = "board" => p.look = p.applied

ViewerInv ==
  /\ Sound(page, canvas) /\ LoneMount
  /\ state \in {"loading", "opening", "ready", "failed"}
  /\ state \in {"loading", "failed"} => canvas.page = None /\ page.applied = Plain
  /\ state = "opening" => page.session /\ canvas.page # None
  /\ state = "ready" => Fits(page, canvas)
  /\ toast \in Toast \cup {None}
  /\ moves \in 0 .. MaxMoves /\ opens \in 1 .. MaxOpens /\ fails \in 0 .. MaxFails

(***************************************************************************)
(* Operators.                                                              *)
(***************************************************************************)
LEMMA ViewIs ==
  /\ \A d : ViewOf(d) \in Views
  /\ \A p \in Page : View(p) \in Views
  /\ \A p \in Page : View(p) = ViewOf(Wanted(p)) /\ Wanted(p) \in Docs
BY ViewerAssumption DEF ViewOf, Views, View, Wanted, Docs, Page

LEMMA NoneIs == None \notin Docs /\ None \notin Refs /\ None \notin Toast /\ Board \in Docs /\ Root \in Docs
BY ViewerAssumption DEF Docs

LEMMA WantedKept == \A p \in Page : p.sheet \notin Dropped => Wanted(p) \notin Dropped
BY ViewerAssumption DEF Wanted, Page

(* The fields of a canvas, and what replacing its jobs keeps.              *)
LEMMA CanvasFields ==
  ASSUME NEW c \in Canvas
  PROVE  /\ c.page \in Docs \cup {None}
         /\ c.doc \in [Views -> Docs \cup {None}] /\ c.tail \in [Views -> Loads]
         /\ c.sel \in [Views -> Refs \cup {None}] /\ c.flying \in [Views -> BOOLEAN]
         /\ c.given \in Looks /\ c.jobs \in Seq(Job)
BY DEF Canvas

LEMMA WithJobs ==
  ASSUME NEW c \in Canvas, NEW s \in Seq(Job)
  PROVE  LET e == [c EXCEPT !.jobs = s]
         IN  /\ e \in Canvas /\ e.jobs = s
             /\ e.page = c.page /\ e.doc = c.doc /\ e.tail = c.tail
             /\ e.sel = c.sel /\ e.flying = c.flying /\ e.given = c.given
BY DEF Canvas

(* Activation by activation, the jobs before it are outdated and lose the  *)
(* watch of its view, in place.                                            *)
LEMMA OutdatedIs ==
  ASSUME NEW c \in Canvas, \A i \in DOMAIN c.jobs : JobIs(c.jobs[i])
  PROVE  /\ Outdated(c) \in Canvas
         /\ Outdated(c) = [c EXCEPT !.jobs = Outdated(c).jobs]
         /\ DOMAIN Outdated(c).jobs = DOMAIN c.jobs
         /\ \A i \in DOMAIN c.jobs :
              /\ JobIs(Outdated(c).jobs[i])
              /\ Outdated(c).jobs[i].doc = c.jobs[i].doc
              /\ Outdated(c).jobs[i].stage = c.jobs[i].stage
              /\ Outdated(c).jobs[i].outcome = c.jobs[i].outcome
              /\ Outdated(c).jobs[i].ref = c.jobs[i].ref
              /\ Outdated(c).jobs[i].kind = c.jobs[i].kind
              /\ Outdated(c).jobs[i].project = c.jobs[i].project
              /\ ~(Outdated(c).jobs[i].newest /\ Outdated(c).jobs[i].project = opens)
<1> DEFINE f(j) == [j EXCEPT !.newest = @ /\ j.project # opens]
           s == [i \in DOMAIN c.jobs |-> f(c.jobs[i])]
<1>1. Outdated(c) = [c EXCEPT !.jobs = s]
  BY DEF Outdated, EachJob
<1>2. ASSUME NEW j, JobIs(j)
      PROVE  /\ JobIs(f(j)) /\ f(j).doc = j.doc /\ f(j).stage = j.stage
             /\ f(j).outcome = j.outcome /\ f(j).ref = j.ref /\ f(j).kind = j.kind
             /\ f(j).project = j.project /\ ~(f(j).newest /\ f(j).project = opens)
  <2> DEFINE b == j.newest /\ j.project # opens
             k == [j EXCEPT !.newest = b]
  <2>1. b \in BOOLEAN /\ ~(b /\ j.project = opens) /\ j \in Job /\ f(j) = k
    BY <1>2 DEF JobIs
  <2> HIDE DEF b, f
  <2>2. /\ k \in Job /\ k.doc = j.doc /\ k.stage = j.stage /\ k.outcome = j.outcome
        /\ k.ref = j.ref /\ k.kind = j.kind /\ k.project = j.project /\ k.newest = b
    BY <2>1 DEF Job
  <2> HIDE DEF k
  <2> QED BY <1>2, <2>1, <2>2 DEF JobIs
<1> HIDE DEF f
<1>3. c.jobs \in Seq(Job)
  BY CanvasFields
<1>4. s \in Seq(Job) /\ DOMAIN s = DOMAIN c.jobs
  BY <1>2, <1>3 DEF JobIs
<1>5. \A i \in DOMAIN c.jobs : s[i] = f(c.jobs[i])
  OBVIOUS
<1> HIDE DEF s
<1>6. Outdated(c) \in Canvas /\ Outdated(c).jobs = s
  BY <1>1, <1>4, WithJobs
<1> QED BY <1>1, <1>2, <1>4, <1>5, <1>6

(* A load that is started watches its view; no earlier watch counts there. *)
LEMMA RearmedIs ==
  ASSUME NEW c \in Canvas, NEW v \in Views, \A i \in DOMAIN c.jobs : JobIs(c.jobs[i])
  PROVE  /\ Rearmed(c, v) \in Canvas
         /\ Rearmed(c, v).flying = [c.flying EXCEPT ![v] = TRUE]
         /\ Rearmed(c, v).doc = c.doc /\ Rearmed(c, v).tail = c.tail
         /\ Rearmed(c, v).sel = c.sel /\ Rearmed(c, v).given = c.given
         /\ DOMAIN Rearmed(c, v).jobs = DOMAIN c.jobs
         /\ \A i \in DOMAIN c.jobs :
              /\ JobIs(Rearmed(c, v).jobs[i])
              /\ \E b \in BOOLEAN : Rearmed(c, v).jobs[i] = [c.jobs[i] EXCEPT !.registered = b]
<1> DEFINE f(j) == [j EXCEPT !.registered = @ /\ ViewOf(j.doc) # v]
           s == [i \in DOMAIN c.jobs |-> f(c.jobs[i])]
<1>1. Rearmed(c, v) = [[c EXCEPT !.jobs = s] EXCEPT !.flying[v] = TRUE]
  BY DEF Rearmed, EachJob
<1>2. ASSUME NEW j, JobIs(j)
      PROVE  JobIs(f(j)) /\ \E b \in BOOLEAN : f(j) = [j EXCEPT !.registered = b]
  <2>1. (j.registered /\ ViewOf(j.doc) # v) \in BOOLEAN
    OBVIOUS
  <2> QED BY <1>2, <2>1 DEF JobIs, Job
<1> HIDE DEF f
<1>3. c.jobs \in Seq(Job)
  BY CanvasFields
<1>4. s \in Seq(Job) /\ DOMAIN s = DOMAIN c.jobs
  BY <1>2, <1>3 DEF JobIs
<1>5. \A i \in DOMAIN c.jobs : s[i] = f(c.jobs[i])
  OBVIOUS
<1> HIDE DEF s
<1> DEFINE b == [c EXCEPT !.jobs = s]
           fl == [b.flying EXCEPT ![v] = TRUE]
<1>6. /\ b \in Canvas /\ b.jobs = s /\ b.flying = c.flying
      /\ b.doc = c.doc /\ b.tail = c.tail /\ b.sel = c.sel /\ b.given = c.given
  BY <1>4, WithJobs
<1>7. Rearmed(c, v) = [b EXCEPT !.flying = fl]
  BY <1>1
<1>8. fl \in [Views -> BOOLEAN] /\ fl = [c.flying EXCEPT ![v] = TRUE]
  BY <1>6, CanvasFields
<1> HIDE DEF b, fl
<1>9. /\ Rearmed(c, v) \in Canvas /\ Rearmed(c, v).jobs = s /\ Rearmed(c, v).flying = fl
      /\ Rearmed(c, v).doc = b.doc /\ Rearmed(c, v).tail = b.tail
      /\ Rearmed(c, v).sel = b.sel /\ Rearmed(c, v).given = b.given
  BY <1>6, <1>7, <1>8 DEF Canvas
<1> QED BY <1>2, <1>4, <1>5, <1>6, <1>8, <1>9

(* What an activation leaves of a job that was there before it.            *)
Aged(j, k) ==
  /\ JobIs(j) /\ j.doc = k.doc /\ j.stage = k.stage /\ j.outcome = k.outcome
  /\ j.ref = k.ref /\ j.kind = k.kind /\ j.project = k.project
  /\ ~(j.newest /\ j.project = opens)

(* The page switch: the document is held, and a load is watched only where *)
(* it was before or where this one was started.                            *)
LEMMA SwitchedIs ==
  ASSUME NEW c \in Canvas, NEW d \in Docs
  PROVE  LET e == Switched(c, d)
         IN  /\ e \in Canvas /\ Held(e, d) /\ e.page = d /\ e.jobs = c.jobs
             /\ e.given = c.given /\ e.sel = c.sel /\ e.flying = c.flying
             /\ e.doc[ViewOf(d)] = d
             /\ Held(c, d) => e.doc = c.doc /\ e.tail = c.tail
             /\ ~Held(c, d) => e.tail[ViewOf(d)] = "watched"
             /\ \A v \in Views : v # ViewOf(d) => e.doc[v] = c.doc[v] /\ e.tail[v] = c.tail[v]
<1> DEFINE v == ViewOf(d)
<1>0. v \in Views
  BY ViewIs
<1>1. CASE Held(c, d)
  BY <1>0, <1>1, CanvasFields DEF Switched, Load, Canvas, Held
<1>2. CASE ~Held(c, d)
  <2> DEFINE ds == [c.doc EXCEPT ![v] = d]
             ts == [c.tail EXCEPT ![v] = "watched"]
             e == [c EXCEPT !.page = d, !.doc = ds, !.tail = ts]
  <2>1. Switched(c, d) = e
    BY <1>2, CanvasFields DEF Switched, Load, Canvas
  <2>2. /\ ds \in [Views -> Docs \cup {None}] /\ ts \in [Views -> Loads]
        /\ ds[v] = d /\ ts[v] = "watched"
        /\ \A w \in Views : w # v => ds[w] = c.doc[w] /\ ts[w] = c.tail[w]
    BY <1>0, CanvasFields DEF Loads
  <2> HIDE DEF ds, ts, v
  <2>3. /\ e \in Canvas /\ e.page = d /\ e.doc = ds /\ e.tail = ts
        /\ e.jobs = c.jobs /\ e.given = c.given /\ e.sel = c.sel /\ e.flying = c.flying
    BY <1>0, <2>2 DEF Canvas
  <2> HIDE DEF e
  <2>4. v = ViewOf(d)
    BY DEF v
  <2> QED BY <1>2, <2>1, <2>2, <2>3, <2>4 DEF Held
<1> QED BY <1>1, <1>2

(* An activation: the page is up at once, with its document held, or there *)
(* is no such page; what went before is outdated, and the new job waits    *)
(* exactly for a load that is watched, with the watch that is recorded.    *)
LEMMA ActivateIs ==
  ASSUME NEW c, CanvasOK(c), \A i \in DOMAIN c.jobs : JobIs(c.jobs[i]),
         NEW job, JobIs(job), job.doc \in Docs, job.stage = "decided", job.outcome = "ok"
  PROVE  LET e == Activate(c, job)
             d == job.doc
             n == Len(c.jobs) + 1
             up == c.page # None /\ d \notin Dropped
         IN  /\ CanvasOK(e) /\ e.given = c.given /\ e.sel = c.sel
             /\ e.page = IF up THEN d ELSE c.page
             /\ Len(c.jobs) \in Nat /\ DOMAIN c.jobs = 1 .. Len(c.jobs) /\ DOMAIN e.jobs = 1 .. n
             /\ \A i \in DOMAIN c.jobs : Aged(e.jobs[i], c.jobs[i])
             /\ JobIs(e.jobs[n]) /\ e.jobs[n].kind = job.kind /\ e.jobs[n].ref = job.ref
             /\ e.jobs[n].doc = d /\ e.jobs[n].stage # "polls"
             /\ e.jobs[n].stage = "waits" => e.jobs[n].registered
             /\ up => /\ e.jobs[n].stage = "decided" => Held(c, d) /\ ~c.flying[ViewOf(d)]
                      /\ e.doc[ViewOf(d)] = d
                      /\ Held(c, d) => e.doc = c.doc /\ e.flying = c.flying
                      /\ \A v \in Views : v # ViewOf(d) =>
                           e.doc[v] = c.doc[v] /\ e.flying[v] = c.flying[v]
             /\ ~up => /\ e.doc = c.doc /\ e.flying = c.flying
                       /\ e.jobs[n].outcome = "failed" /\ e.jobs[n].stage = "decided"
<1> DEFINE d == job.doc
           v == ViewOf(d)
           up == c.page # None /\ d \notin Dropped
           n == Len(c.jobs) + 1
           o == Outdated(c)
           armed == IF Held(c, d) THEN o ELSE Rearmed(o, v)
           asked == [job EXCEPT !.stage = IF Waits(c, d) THEN "waits" ELSE "decided",
                                !.registered = Waits(c, d)]
           failed == [job EXCEPT !.outcome = "failed"]
<1>1. c \in Canvas /\ v \in Views /\ c.jobs \in Seq(Job)
  BY ViewIs, CanvasFields DEF CanvasOK
<1>2. /\ o \in Canvas /\ o = [c EXCEPT !.jobs = o.jobs] /\ DOMAIN o.jobs = DOMAIN c.jobs
      /\ \A i \in DOMAIN c.jobs : Aged(o.jobs[i], c.jobs[i])
  BY <1>1, OutdatedIs DEF Aged
<1>3. /\ o.jobs \in Seq(Job) /\ Len(o.jobs) = Len(c.jobs) /\ Len(c.jobs) \in Nat
      /\ DOMAIN c.jobs = 1 .. Len(c.jobs)
  BY <1>1, <1>2, CanvasFields
<1>4. /\ o.page = c.page /\ o.doc = c.doc /\ o.tail = c.tail
      /\ o.sel = c.sel /\ o.flying = c.flying /\ o.given = c.given
  <2> DEFINE js == o.jobs
  <2>1. o = [c EXCEPT !.jobs = js] /\ js \in Seq(Job)
    BY <1>2, <1>3
  <2> HIDE DEF js, o
  <2> QED BY <1>1, <2>1, WithJobs
<1>5. JobIs(failed) /\ failed.kind = job.kind /\ failed.ref = job.ref /\ failed.doc = d
      /\ failed.outcome = "failed" /\ failed.stage = "decided"
  BY DEF JobIs, Job
<1>6. /\ JobIs(asked) /\ asked.kind = job.kind /\ asked.ref = job.ref /\ asked.doc = d
      /\ asked.stage # "polls"
      /\ asked.stage = "waits" => asked.registered
      /\ asked.stage = "decided" => ~Waits(c, d)
  <2>1. Waits(c, d) \in BOOLEAN
    BY DEF Waits
  <2>2. d # None
    BY NoneIs
  <2> DEFINE st == IF Waits(c, d) THEN "waits" ELSE "decided"
             rg == Waits(c, d)
  <2>3. asked = [job EXCEPT !.stage = st, !.registered = rg] /\ rg \in BOOLEAN
        /\ st \in {"waits", "decided"} /\ (st = "decided" => ~Waits(c, d))
        /\ (st = "waits" => rg)
    BY <2>1
  <2> HIDE DEF st, rg, asked
  <2> QED BY <2>2, <2>3 DEF JobIs, Job
<1>7. CASE ~up
  <2>1. Activate(c, job) = [o EXCEPT !.jobs = Append(o.jobs, failed)]
    BY <1>7 DEF Activate
  <2> HIDE DEF failed, o
  <2>2. /\ Append(o.jobs, failed) \in Seq(Job) /\ Len(Append(o.jobs, failed)) = n
        /\ \A i \in 1 .. Len(c.jobs) : Append(o.jobs, failed)[i] = o.jobs[i]
        /\ Append(o.jobs, failed)[n] = failed
    BY <1>3, <1>5 DEF JobIs
  <2>3. /\ Activate(c, job) \in Canvas /\ Activate(c, job).jobs = Append(o.jobs, failed)
        /\ Activate(c, job).page = c.page 
        /\ Activate(c, job).doc = c.doc /\ Activate(c, job).tail = c.tail
        /\ Activate(c, job).sel = c.sel /\ Activate(c, job).flying = c.flying
        /\ Activate(c, job).given = c.given
    <3> DEFINE js == Append(o.jobs, failed)
    <3>1. js \in Seq(Job) /\ Activate(c, job) = [o EXCEPT !.jobs = js]
      BY <2>1, <2>2
    <3> HIDE DEF js
    <3>2. /\ [o EXCEPT !.jobs = js] \in Canvas /\ [o EXCEPT !.jobs = js].jobs = js
          /\ [o EXCEPT !.jobs = js].page = o.page
          /\ [o EXCEPT !.jobs = js].doc = o.doc /\ [o EXCEPT !.jobs = js].tail = o.tail
          /\ [o EXCEPT !.jobs = js].sel = o.sel /\ [o EXCEPT !.jobs = js].flying = o.flying
          /\ [o EXCEPT !.jobs = js].given = o.given
      BY <1>2, <3>1, WithJobs
    <3> QED BY <1>4, <3>1, <3>2 DEF js
  <2>4. CanvasOK(Activate(c, job))
    BY <2>3 DEF CanvasOK, Held
  <2>5. DOMAIN Append(o.jobs, failed) = 1 .. n
    BY <2>2
  <2> HIDE DEF v
  <2> QED BY <1>2, <1>3, <1>5, <1>7, <2>2, <2>3, <2>4, <2>5
<1>8. CASE up
  <2>1. Activate(c, job) = [Switched(armed, d) EXCEPT !.jobs = Append(@, asked)]
    BY <1>8 DEF Activate
  <2>2. /\ armed \in Canvas /\ DOMAIN armed.jobs = DOMAIN c.jobs
        /\ \A i \in DOMAIN c.jobs : Aged(armed.jobs[i], c.jobs[i])
        /\ armed.doc = c.doc /\ armed.tail = c.tail /\ armed.sel = c.sel /\ armed.given = c.given
        /\ armed.flying = IF Held(c, d) THEN c.flying ELSE [c.flying EXCEPT ![v] = TRUE]
    <3>1. CASE Held(c, d)
      BY <1>2, <1>4, <3>1
    <3>2. CASE ~Held(c, d)
      <4> HIDE DEF o, v
      <4> DEFINE r == Rearmed(o, v)
      <4>0. \A i \in DOMAIN o.jobs : JobIs(o.jobs[i])
        BY <1>2 DEF Aged
      <4>1. /\ r \in Canvas /\ r.flying = [o.flying EXCEPT ![v] = TRUE]
            /\ r.doc = o.doc /\ r.tail = o.tail /\ r.sel = o.sel /\ r.given = o.given
            /\ DOMAIN r.jobs = DOMAIN o.jobs
            /\ \A i \in DOMAIN o.jobs :
                 /\ JobIs(r.jobs[i])
                 /\ \E b \in BOOLEAN : r.jobs[i] = [o.jobs[i] EXCEPT !.registered = b]
        BY <1>1, <1>2, <4>0, RearmedIs
      <4> HIDE DEF r
      <4>2. ASSUME NEW i \in DOMAIN c.jobs PROVE Aged(r.jobs[i], c.jobs[i])
        <5>1. Aged(o.jobs[i], c.jobs[i]) /\ JobIs(r.jobs[i])
          BY <1>2, <4>1
        <5>2. PICK b \in BOOLEAN : r.jobs[i] = [o.jobs[i] EXCEPT !.registered = b]
          BY <1>2, <4>1
        <5> QED BY <5>1, <5>2 DEF Aged, JobIs, Job
      <4> QED BY <1>2, <1>4, <3>2, <4>1, <4>2 DEF r
    <3> QED BY <3>1, <3>2
  <2> HIDE DEF armed, o
  <2>3. Held(armed, d) <=> Held(c, d)
    BY <2>2 DEF Held
  <2> DEFINE sw == Switched(armed, d)
  <2>x. /\ sw \in Canvas /\ Held(sw, d) /\ sw.page = d /\ sw.jobs = armed.jobs
        /\ sw.given = armed.given /\ sw.sel = armed.sel /\ sw.flying = armed.flying
        /\ sw.doc[v] = d
        /\ Held(armed, d) => sw.doc = armed.doc /\ sw.tail = armed.tail
        /\ ~Held(armed, d) => sw.tail[v] = "watched"
        /\ \A w \in Views : w # v => sw.doc[w] = armed.doc[w] /\ sw.tail[w] = armed.tail[w]
    BY <2>2, SwitchedIs
  <2>y. \A w \in Views : sw.flying[w] <=> sw.tail[w] = "watched"
    BY <1>1, <2>2, <2>3, <2>x, CanvasFields DEF CanvasOK
  <2>4. /\ CanvasOK(sw) /\ sw.page = d /\ sw.jobs = armed.jobs
        /\ sw.given = c.given /\ sw.sel = c.sel /\ sw.flying = armed.flying
        /\ sw.doc[v] = d
        /\ Held(c, d) => sw.doc = c.doc
        /\ \A w \in Views : w # v => sw.doc[w] = c.doc[w]
    BY <2>2, <2>3, <2>x, <2>y DEF CanvasOK
  <2> HIDE DEF sw, asked, v
  <2> DEFINE js == Append(sw.jobs, asked)
             e == [sw EXCEPT !.jobs = js]
  <2>5. sw \in Canvas /\ sw.jobs \in Seq(Job) /\ Len(sw.jobs) = Len(c.jobs)
    BY <1>3, <2>2, <2>4, CanvasFields DEF CanvasOK
  <2>6. /\ js \in Seq(Job) /\ DOMAIN js = 1 .. n /\ js[n] = asked
        /\ \A i \in 1 .. Len(c.jobs) : js[i] = armed.jobs[i]
    BY <1>3, <1>6, <2>4, <2>5 DEF JobIs
  <2> HIDE DEF js
  <2>7. /\ e \in Canvas /\ e.jobs = js /\ e.page = sw.page
        /\ e.doc = sw.doc /\ e.tail = sw.tail /\ e.sel = sw.sel /\ e.flying = sw.flying
        /\ e.given = sw.given
    BY <2>5, <2>6, WithJobs
  <2>8. Activate(c, job) = e
    BY <2>1 DEF js, sw
  <2> HIDE DEF e
  <2>9. CanvasOK(e)
    BY <2>4, <2>7 DEF CanvasOK, Held
  <2>10. /\ e.jobs[n].stage = "decided" => Held(c, d) /\ ~c.flying[v]
         /\ Held(c, d) => e.flying = c.flying
         /\ \A w \in Views : w # v => e.flying[w] = c.flying[w]
    BY <1>1, <1>6, <2>2, <2>4, <2>6, <2>7, CanvasFields DEF Waits, v
  <2>11. /\ e.page = d /\ e.given = c.given /\ e.sel = c.sel /\ DOMAIN e.jobs = 1 .. n
         /\ \A i \in DOMAIN c.jobs : Aged(e.jobs[i], c.jobs[i])
         /\ e.jobs[n] = asked
    BY <1>3, <2>2, <2>4, <2>6, <2>7
  <2>12. /\ e.doc[v] = d /\ (Held(c, d) => e.doc = c.doc)
         /\ \A w \in Views : w # v => e.doc[w] = c.doc[w]
    BY <2>4, <2>7
  <2>13. v = ViewOf(d)
    BY DEF v
  <2> QED BY <1>3, <1>6, <1>8, <2>8, <2>9, <2>10, <2>11, <2>12, <2>13
<1> QED BY <1>7, <1>8

(* No part is about to be selected but on the page of d; no mount is due.  *)
Aimed(c, d) == \A i \in DOMAIN c.jobs : Selecting(c.jobs[i]) => c.jobs[i].doc = d
NoMount(c) == \A i \in DOMAIN c.jobs : ~MountDue(c.jobs[i])
(* What is given to an activation.                                         *)
Asks(job) == JobIs(job) /\ job.doc \in Docs /\ job.stage = "decided" /\ job.outcome = "ok"

LEMMA ActivateSound ==
  ASSUME NEW p, NEW c, Sound(p, c), NEW job, Asks(job), Aimed(c, job.doc),
         job.kind = "mount" => c.page # None
  PROVE  LET e == Activate(c, job)
         IN  /\ Sound(p, e) /\ Aimed(e, job.doc)
             /\ job.ref = None => \A x : Aimed(c, x) => Aimed(e, x)
             /\ e.given = c.given /\ e.sel = c.sel
             /\ e.page = IF c.page # None /\ job.doc \notin Dropped THEN job.doc ELSE c.page
             /\ NoMount(c) /\ job.kind # "mount" => NoMount(e)
<1> DEFINE e == Activate(c, job)
           d == job.doc
           n == Len(c.jobs) + 1
           up == c.page # None /\ d \notin Dropped
<1>1. CanvasOK(c) /\ \A i \in DOMAIN c.jobs : JobIs(c.jobs[i]) /\ SettledFits(c, c.jobs[i])
                                           /\ MountFits(p, c, c.jobs[i])
  BY DEF Sound, JobsOK
<1>2. /\ CanvasOK(e) /\ e.given = c.given /\ e.sel = c.sel
      /\ e.page = IF up THEN d ELSE c.page
      /\ Len(c.jobs) \in Nat /\ DOMAIN c.jobs = 1 .. Len(c.jobs) /\ DOMAIN e.jobs = 1 .. n
      /\ \A i \in DOMAIN c.jobs : Aged(e.jobs[i], c.jobs[i])
      /\ JobIs(e.jobs[n]) /\ e.jobs[n].kind = job.kind /\ e.jobs[n].ref = job.ref
      /\ e.jobs[n].doc = d /\ e.jobs[n].stage # "polls"
      /\ e.jobs[n].stage = "waits" => e.jobs[n].registered
  BY <1>1, ActivateIs DEF Asks
<1>3. up => /\ e.jobs[n].stage = "decided" => Held(c, d) /\ ~c.flying[ViewOf(d)]
            /\ e.doc[ViewOf(d)] = d
            /\ Held(c, d) => e.doc = c.doc /\ e.flying = c.flying
  BY <1>1, ActivateIs DEF Asks
<1>4. ~up => /\ e.doc = c.doc /\ e.flying = c.flying
             /\ e.jobs[n].outcome = "failed" /\ e.jobs[n].stage = "decided"
  BY <1>1, ActivateIs DEF Asks
<1> HIDE DEF e
<1>5. \A i \in DOMAIN e.jobs : i \in DOMAIN c.jobs \/ i = n
  BY <1>2
<1>6. ASSUME NEW i \in DOMAIN c.jobs
      PROVE  /\ JobIs(e.jobs[i]) /\ NewestFits(p, e, e.jobs[i]) /\ SettledFits(e, e.jobs[i])
             /\ MountFits(p, e, e.jobs[i])
             /\ Selecting(e.jobs[i]) => Selecting(c.jobs[i]) /\ e.jobs[i].doc = c.jobs[i].doc
             /\ Selecting(e.jobs[i]) => e.jobs[i].doc = d
             /\ ~MountDue(c.jobs[i]) => ~MountDue(e.jobs[i])
  <2>1. Aged(e.jobs[i], c.jobs[i]) /\ SettledFits(c, c.jobs[i])
        /\ (Selecting(c.jobs[i]) => c.jobs[i].doc = d)
    BY <1>1, <1>2 DEF Aimed
  <2>2. Held(c, d) => e.doc = c.doc /\ e.flying = c.flying
    BY <1>3, <1>4
  <2>3. MountFits(p, e, e.jobs[i])
    BY <1>1, <1>2, <2>1, NoneIs DEF MountFits, Aged, Asks
  <2> QED BY <2>1, <2>2, <2>3 DEF Aged, NewestFits, SettledFits, Selecting, MountDue, Held
<1>7. /\ JobIs(e.jobs[n]) /\ NewestFits(p, e, e.jobs[n]) /\ SettledFits(e, e.jobs[n])
      /\ Selecting(e.jobs[n]) => job.ref # None /\ e.jobs[n].doc = d
      /\ job.kind # "mount" => ~MountDue(e.jobs[n])
  <2>1. CASE up
    BY <1>2, <1>3, <2>1 DEF NewestFits, SettledFits, Selecting, MountDue, Held
  <2>2. CASE ~up
    BY <1>2, <1>4, <2>2 DEF NewestFits, SettledFits, Selecting, MountDue
  <2> QED BY <2>1, <2>2
<1>8. MountFits(p, e, e.jobs[n])
  BY <1>2, NoneIs DEF MountFits, Asks
<1>9. JobsOK(p, e) /\ Aimed(e, d)
  BY <1>5, <1>6, <1>7, <1>8 DEF JobsOK, Aimed
<1>10. NoMount(c) /\ job.kind # "mount" => NoMount(e)
  BY <1>5, <1>6, <1>7 DEF NoMount
<1>11. job.ref = None => \A x : Aimed(c, x) => Aimed(e, x)
  BY <1>5, <1>6, <1>7 DEF Aimed
<1> QED BY <1>2, <1>9, <1>10, <1>11 DEF Sound, e

(* What an activation is given by the page.                                *)
LEMMA NewJobIs ==
  ASSUME opens \in 1 .. MaxOpens
  PROVE  /\ \A d \in Docs : Asks(NewJob("host", d, None)) /\ Asks(NewJob("mount", d, None))
         /\ \A d \in Docs, r \in Refs : Asks(NewJob("focus", d, r))
         /\ \A d \in Docs, r \in Refs, v \in Views, b \in Refs \cup {None} :
              Asks([NewJob("outline", d, r) EXCEPT !.on = v, !.before = b])
<1>1. ASSUME NEW k \in {"host", "mount"}, NEW d \in Docs PROVE Asks(NewJob(k, d, None))
  BY DEF Asks, NewJob, JobIs, Job, Views
<1>2. ASSUME NEW d \in Docs, NEW r \in Refs PROVE Asks(NewJob("focus", d, r))
  BY DEF Asks, NewJob, JobIs, Job, Views
<1>3. ASSUME NEW d \in Docs, NEW r \in Refs, NEW v \in Views, NEW b \in Refs \cup {None}
      PROVE  Asks([NewJob("outline", d, r) EXCEPT !.on = v, !.before = b])
  <2> DEFINE n == NewJob("outline", d, r)
  <2>1. n \in Job /\ n.kind = "outline" /\ n.doc = d /\ n.stage = "decided" /\ n.outcome = "ok"
        /\ n.project <= opens
    BY DEF NewJob, Job, Views
  <2> HIDE DEF n
  <2> DEFINE j == [n EXCEPT !.on = v, !.before = b]
  <2>2. j \in Job /\ j.kind = "outline" /\ j.doc = d /\ j.stage = "decided" /\ j.outcome = "ok"
        /\ j.project <= opens
    BY <2>1 DEF Job
  <2> HIDE DEF j
  <2>3. Asks(j)
    BY <2>2 DEF Asks, JobIs
  <2> QED BY <2>3 DEF j, n
<1> QED BY <1>1, <1>2, <1>3

(* A switch of page, and a drawing outlined.                               *)
LEMMA HostIs ==
  ASSUME NEW p, NEW c, Sound(p, c), NoMount(c), NEW d \in Docs, Aimed(c, d), opens \in 1 .. MaxOpens
  PROVE  LET e == Activate(c, NewJob("host", d, None))
         IN  /\ Sound(p, e) /\ NoMount(e) /\ \A x : Aimed(c, x) => Aimed(e, x)
             /\ e.page = IF c.page # None /\ d \notin Dropped THEN d ELSE c.page
<1> DEFINE job == NewJob("host", d, None)
<1>1. Asks(job) /\ job.doc = d /\ job.kind = "host" /\ job.ref = None
  BY NewJobIs DEF NewJob
<1> HIDE DEF job
<1>2. Aimed(c, job.doc)
  BY <1>1
<1> QED BY <1>1, <1>2, ActivateSound DEF job

LEMMA OutlineIs ==
  ASSUME NEW p, NEW c, Sound(p, c), NoMount(c), NEW d \in Docs, NEW r \in Refs, NEW v \in Views,
         Aimed(c, d), opens \in 1 .. MaxOpens
  PROVE  LET w == Outline(World(p, c), v, d, r)
         IN  /\ w.p = p /\ Sound(p, w.c) /\ Aimed(w.c, d) /\ NoMount(w.c)
             /\ w.c.page = IF c.page # None /\ d \notin Dropped THEN d ELSE c.page
<1> DEFINE b == p.shown[v]
           job == [NewJob("outline", d, r) EXCEPT !.on = v, !.before = b]
<1>1. b \in Refs \cup {None}
  BY DEF Sound, PageOK, Page
<1>2. Outline(World(p, c), v, d, r) = World(p, Activate(c, job))
  BY DEF Outline, World
<1> HIDE DEF b
<1>3. Asks(job) /\ job.doc = d /\ job.kind = "outline"
  BY <1>1, NewJobIs DEF NewJob
<1> HIDE DEF job
<1>4. Aimed(c, job.doc)
  BY <1>3
<1> QED BY <1>2, <1>3, <1>4, ActivateSound DEF World

(* Two canvases that differ in what is selected, how the board is drawn,   *)
(* and what a reader claimed.                                              *)
SameJob(j, k) ==
  /\ JobIs(j) /\ j.doc = k.doc /\ j.stage = k.stage /\ j.outcome = k.outcome
  /\ j.ref = k.ref /\ j.kind = k.kind /\ j.project = k.project /\ j.newest = k.newest
  /\ j.registered = k.registered
Alike(e, c) ==
  /\ e \in Canvas /\ e.page = c.page /\ e.doc = c.doc
  /\ e.tail = c.tail /\ e.flying = c.flying /\ DOMAIN e.jobs = DOMAIN c.jobs
  /\ \A i \in DOMAIN c.jobs : SameJob(e.jobs[i], c.jobs[i])

LEMMA AlikeSound ==
  ASSUME NEW p, NEW c, Sound(p, c), NEW q, NEW e, Alike(e, c), PageOK(q),
         q.session => p.session, e.given = q.applied
  PROVE  /\ Sound(q, e) /\ (NoMount(c) => NoMount(e))
         /\ \A d : Aimed(c, d) => Aimed(e, d)
<1>1. CanvasOK(e)
  BY DEF Sound, CanvasOK, Alike, Held
<1>2. ASSUME NEW i \in DOMAIN e.jobs
      PROVE  /\ JobIs(e.jobs[i]) /\ NewestFits(q, e, e.jobs[i]) /\ SettledFits(e, e.jobs[i])
             /\ MountFits(q, e, e.jobs[i])
             /\ Selecting(e.jobs[i]) = Selecting(c.jobs[i])
             /\ MountDue(e.jobs[i]) = MountDue(c.jobs[i]) /\ e.jobs[i].doc = c.jobs[i].doc
  BY DEF Sound, JobsOK, Alike, SameJob, NewestFits, MountFits, SettledFits, Selecting, MountDue, Held
<1>3. JobsOK(q, e)
  BY <1>2 DEF JobsOK
<1>4. NoMount(c) => NoMount(e)
  BY <1>2 DEF NoMount, Alike
<1>5. \A d : Aimed(c, d) => Aimed(e, d)
  BY <1>2 DEF Aimed, Alike
<1> QED BY <1>1, <1>3, <1>4, <1>5 DEF Sound

LEMMA SameJobs == ASSUME NEW p, NEW c, JobsOK(p, c)
                  PROVE  \A i \in DOMAIN c.jobs : SameJob(c.jobs[i], c.jobs[i])
BY DEF JobsOK, SameJob

(* A selection.                                                            *)
LEMMA SelectIs ==
  ASSUME NEW p, NEW c, Sound(p, c), NEW r \in Refs \cup {None}
  PROVE  LET e == Select(c, r)
         IN  /\ Alike(e, c) /\ e.given = c.given /\ e.jobs = c.jobs
             /\ c.page # None /\ Has(c, r) => e.sel[ViewOf(c.page)] = r
<1>1. c \in Canvas /\ \A i \in DOMAIN c.jobs : SameJob(c.jobs[i], c.jobs[i])
  BY SameJobs DEF Sound, CanvasOK
<1>2. CASE c.page = None
  BY <1>1, <1>2 DEF Select, Alike
<1>3. CASE c.page # None
  <2> DEFINE v == ViewOf(c.page)
             x == IF Has(c, r) THEN r ELSE None
             ss == [c.sel EXCEPT ![v] = x]
  <2>1. Select(c, r) = [c EXCEPT !.sel = ss]
    BY <1>3 DEF Select
  <2>2. v \in Views /\ x \in Refs \cup {None} /\ c.sel \in [Views -> Refs \cup {None}]
    BY <1>1, ViewIs, CanvasFields
  <2> HIDE DEF v, x
  <2>3. ss \in [Views -> Refs \cup {None}] /\ ss[v] = x
    BY <2>2
  <2> HIDE DEF ss
  <2>4. [c EXCEPT !.sel = ss] \in Canvas
    BY <1>1, <2>3 DEF Canvas
  <2>5. LET e == [c EXCEPT !.sel = ss]
        IN  /\ e.page = c.page /\ e.doc = c.doc /\ e.tail = c.tail
            /\ e.flying = c.flying /\ e.jobs = c.jobs /\ e.given = c.given /\ e.sel = ss
    BY <1>1, <2>3 DEF Canvas
  <2> QED BY <1>1, <2>1, <2>3, <2>4, <2>5 DEF Alike, v, x
<1> QED BY <1>2, <1>3

(* A gesture claims the view.                                              *)
LEMMA ClaimedIs ==
  ASSUME NEW p, NEW c, Sound(p, c)
  PROVE  Alike(Claimed(c), c) /\ Claimed(c).given = c.given /\ Claimed(c).sel = c.sel
<1> DEFINE f(j) == [j EXCEPT !.current = FALSE]
           s == [i \in DOMAIN c.jobs |-> f(c.jobs[i])]
<1>1. Claimed(c) = [c EXCEPT !.jobs = s]
  BY DEF Claimed, EachJob
<1>2. ASSUME NEW j, JobIs(j) PROVE SameJob(f(j), j)
  BY <1>2 DEF JobIs, Job, SameJob
<1> HIDE DEF f
<1>3. c \in Canvas /\ c.jobs \in Seq(Job) /\ \A i \in DOMAIN c.jobs : SameJob(f(c.jobs[i]), c.jobs[i])
  BY <1>2, CanvasFields DEF Sound, CanvasOK, JobsOK
<1>4. s \in Seq(Job) /\ DOMAIN s = DOMAIN c.jobs
  BY <1>3 DEF SameJob, JobIs
<1>5. \A i \in DOMAIN c.jobs : SameJob(s[i], c.jobs[i])
  BY <1>3
<1> HIDE DEF s
<1> QED BY <1>1, <1>3, <1>4, <1>5, WithJobs DEF Alike

(* A selection made at once leaves a job that only has to be told.         *)
Told(j) == JobIs(j) /\ j.stage = "decided" /\ j.outcome # "ok" /\ j.kind # "mount"
LEMMA ToldSound ==
  ASSUME NEW p, NEW c, Sound(p, c), NEW job, Told(job)
  PROVE  LET e == [c EXCEPT !.jobs = Append(@, job)]
         IN  /\ Sound(p, e) /\ e.page = c.page /\ e.sel = c.sel /\ e.given = c.given
             /\ NoMount(c) => NoMount(e)
             /\ \A d : Aimed(c, d) => Aimed(e, d)
<1> DEFINE js == Append(c.jobs, job)
           e == [c EXCEPT !.jobs = js]
           n == Len(c.jobs) + 1
<1>1. c \in Canvas /\ c.jobs \in Seq(Job) /\ Len(c.jobs) \in Nat /\ job \in Job
  BY CanvasFields DEF Sound, CanvasOK, Told, JobIs
<1>2. /\ js \in Seq(Job) /\ DOMAIN js = 1 .. n /\ DOMAIN c.jobs = 1 .. Len(c.jobs)
      /\ js[n] = job /\ \A i \in DOMAIN c.jobs : js[i] = c.jobs[i]
  BY <1>1
<1> HIDE DEF js
<1>3. /\ e \in Canvas /\ e.jobs = js /\ e.page = c.page /\ e.doc = c.doc
      /\ e.tail = c.tail /\ e.sel = c.sel /\ e.flying = c.flying /\ e.given = c.given
  BY <1>1, <1>2, WithJobs
<1> HIDE DEF e
<1>4. CanvasOK(e)
  BY <1>3 DEF Sound, CanvasOK, Held
<1>5. ASSUME NEW i \in DOMAIN e.jobs
      PROVE  /\ JobIs(e.jobs[i]) /\ NewestFits(p, e, e.jobs[i]) /\ SettledFits(e, e.jobs[i])
             /\ MountFits(p, e, e.jobs[i])
             /\ NoMount(c) => ~MountDue(e.jobs[i])
             /\ \A d : Aimed(c, d) /\ Selecting(e.jobs[i]) => e.jobs[i].doc = d
  <2>1. CASE i = n
    BY <1>2, <1>3, <2>1 DEF Told, NewestFits, MountFits, SettledFits, Selecting, MountDue
  <2>2. CASE i \in DOMAIN c.jobs
    <3>1. e.jobs[i] = c.jobs[i] /\ JobIs(c.jobs[i]) /\ NewestFits(p, c, c.jobs[i])
          /\ MountFits(p, c, c.jobs[i]) /\ SettledFits(c, c.jobs[i])
      BY <1>2, <1>3, <2>2 DEF Sound, JobsOK
    <3> QED BY <1>3, <2>2, <3>1 DEF NewestFits, MountFits, SettledFits, Held, NoMount, Aimed
  <2> QED BY <1>1, <1>2, <1>3, <2>1, <2>2
<1>6. JobsOK(p, e) /\ (NoMount(c) => NoMount(e)) /\ \A d : Aimed(c, d) => Aimed(e, d)
  BY <1>5 DEF JobsOK, NoMount, Aimed
<1>7. e = [c EXCEPT !.jobs = Append(@, job)]
  BY DEF e, js
<1> QED BY <1>3, <1>4, <1>6, <1>7 DEF Sound

(* Pages that differ in what is selected and reported.                     *)
Near(q, p) ==
  /\ q \in Page /\ q.session = p.session /\ q.tab = p.tab /\ q.sheet = p.sheet
  /\ q.look = p.look /\ q.applied = p.applied

LEMMA NearIs ==
  ASSUME NEW p, NEW q, PageOK(p), Near(q, p)
  PROVE  PageOK(q) /\ Wanted(q) = Wanted(p) /\ View(q) = View(p)
         /\ \A c : Fits(p, c) => Fits(q, c)
BY DEF PageOK, Near, Wanted, View, Fits

LEMMA ReportedIs ==
  ASSUME NEW p \in Page, NEW c, NEW r \in Refs \cup {None}
  PROVE  LET q == Reported(p, c, r)
         IN  Near(q, p) /\ q.selected = r /\ q.shown[ViewOf(c.page)] = r
<1> DEFINE v == ViewOf(c.page)
           sh == [p.shown EXCEPT ![v] = r]
<1>1. v \in Views /\ p.shown \in [Views -> Refs \cup {None}]
  BY ViewIs DEF Page
<1>2. Reported(p, c, r) = [p EXCEPT !.shown = sh, !.selected = r]
  BY DEF Reported
<1> HIDE DEF v
<1>3. sh \in [Views -> Refs \cup {None}] /\ sh[v] = r
  BY <1>1
<1> HIDE DEF sh
<1>4. LET q == [p EXCEPT !.shown = sh, !.selected = r]
      IN  /\ q \in Page /\ q.session = p.session /\ q.tab = p.tab /\ q.sheet = p.sheet
          /\ q.look = p.look /\ q.applied = p.applied /\ q.selected = r /\ q.shown = sh
  BY <1>3 DEF Page
<1> QED BY <1>2, <1>3, <1>4 DEF Near, v

LEMMA TellIs ==
  ASSUME NEW k \in {"focus", "outline"}, NEW r \in Refs, NEW b \in Refs \cup {None},
         NEW o \in {"focused", "not-found", "unsupported"}, SheetOf[r] = None,
         opens \in 1 .. MaxOpens
  PROVE  Told([NewJob(k, None, r) EXCEPT !.outcome = o, !.before = b])
<1> DEFINE n == NewJob(k, None, r)
           j == [n EXCEPT !.outcome = o, !.before = b]
<1>1. n \in Job /\ n.kind = k /\ n.ref = r /\ n.stage = "decided" /\ n.project <= opens
  BY DEF NewJob, Job, Views
<1> HIDE DEF n
<1>2. /\ j \in Job /\ j.kind = k /\ j.ref = r /\ j.stage = "decided" /\ j.project <= opens
      /\ j.outcome = o
  BY <1>1 DEF Job
<1> HIDE DEF j
<1>3. Told(j)
  BY <1>2 DEF Told, JobIs
<1> QED BY <1>3 DEF j, n

LEMMA SelectNowIs ==
  ASSUME NEW p, NEW c, Sound(p, c), NEW r \in Refs, SheetOf[r] = None,
         NEW k \in {"focus", "outline"}, opens \in 1 .. MaxOpens
  PROVE  LET w == SelectNow(World(p, c), k, r)
         IN  /\ Sound(w.p, w.c) /\ Near(w.p, p) /\ w.c.page = c.page
             /\ w.p.selected \in {r, p.selected}
             /\ NoMount(c) => NoMount(w.c)
             /\ \A d : Aimed(c, d) => Aimed(w.c, d)
<1> DEFINE o == IF c.page = None THEN "unsupported" ELSE IF Has(c, r) THEN "focused" ELSE "not-found"
           b == p.shown["schematic"]
           job == [NewJob(k, None, r) EXCEPT !.outcome = o, !.before = b]
           s == Select(c, r)
           q == IF Has(c, r) THEN Reported(p, c, r) ELSE p
           e == [s EXCEPT !.jobs = Append(@, job)]
<1>1. SelectNow(World(p, c), k, r) = World(q, e)
  BY DEF SelectNow, World
<1>2. p \in Page /\ b \in Refs \cup {None} /\ o \in {"focused", "not-found", "unsupported"}
  BY DEF Sound, PageOK, Page, Views
<1>3. Told(job)
  <2> HIDE DEF o, b
  <2> QED BY <1>2, TellIs
<1>4. Near(q, p) /\ q.selected \in {r, p.selected}
  BY <1>2, ReportedIs DEF Near
<1>5. Alike(s, c) /\ s.given = c.given
  BY SelectIs
<1> HIDE DEF job, q, s
<1>6. PageOK(q) /\ q.session = p.session /\ s.given = q.applied
  BY <1>4, <1>5, NearIs DEF Sound, Near
<1>7. /\ Sound(q, s) /\ (NoMount(c) => NoMount(s))
      /\ \A d : Aimed(c, d) => Aimed(s, d)
  BY <1>5, <1>6, AlikeSound
<1>8. /\ Sound(q, e) /\ e.page = s.page /\ (NoMount(s) => NoMount(e))
      /\ \A d : Aimed(s, d) => Aimed(e, d)
  BY <1>3, <1>7, ToldSound
<1> HIDE DEF e
<1> QED BY <1>1, <1>4, <1>5, <1>7, <1>8 DEF World, Alike

(* The panel is sent to a board on screen, and recorded as sent.           *)
LEMMA ApplyIs ==
  ASSUME NEW p, NEW c, Sound(p, c)
  PROVE  LET w == Apply(World(p, c))
         IN  /\ Sound(w.p, w.c) /\ w.c.page = c.page /\ w.c.jobs = c.jobs /\ w.c.sel = c.sel
             /\ w.p.tab = p.tab /\ w.p.sheet = p.sheet /\ w.p.session = p.session
             /\ w.p.look = p.look /\ w.p.selected = p.selected /\ w.p.shown = p.shown
             /\ c.page = Board => w.p.applied = p.look
             /\ c.page # Board => w.p = p
             /\ p.look = p.applied => w.p.look = w.p.applied
             /\ NoMount(c) => NoMount(w.c)
             /\ \A d : Aimed(c, d) => Aimed(w.c, d)
<1> DEFINE q == [p EXCEPT !.applied = p.look]
           e == IF p.look = p.applied THEN c ELSE [c EXCEPT !.given = p.look]
<1>0. p \in Page /\ c \in Canvas /\ c.given = p.applied
  BY DEF Sound, PageOK, CanvasOK
<1>1. CASE c.page # Board
  BY <1>1 DEF Apply, World
<1>2. CASE c.page = Board
  <2>1. c.doc["board"] = Board
    BY <1>2, NoneIs DEF Sound, CanvasOK, Held, ViewOf
  <2>2. Apply(World(p, c)) = World(q, e)
    BY <1>2, <2>1 DEF Apply, World
  <2>3. /\ q \in Page /\ q.tab = p.tab /\ q.sheet = p.sheet /\ q.session = p.session
        /\ q.look = p.look /\ q.selected = p.selected /\ q.shown = p.shown /\ q.applied = p.look
    BY <1>0 DEF Page
  <2>4. p.look \in Looks
    BY <1>0 DEF Page
  <2>5. /\ e \in Canvas /\ e.given = p.look /\ e.page = c.page
        /\ e.doc = c.doc /\ e.tail = c.tail /\ e.flying = c.flying /\ e.jobs = c.jobs
        /\ e.sel = c.sel
    BY <1>0, <2>4 DEF Canvas
  <2> HIDE DEF q, e
  <2>6. Alike(e, c)
    BY <2>5, SameJobs DEF Alike, Sound
  <2>7. PageOK(q)
    BY <2>3 DEF PageOK, Sound
  <2>8. /\ Sound(q, e) /\ (NoMount(c) => NoMount(e)) /\ \A d : Aimed(c, d) => Aimed(e, d)
    BY <2>3, <2>5, <2>6, <2>7, AlikeSound
  <2> QED BY <1>2, <2>2, <2>3, <2>5, <2>8 DEF World
<1> QED BY <1>1, <1>2

(***************************************************************************)
(* The effects of a commit.                                                *)
(***************************************************************************)

(* What is about to be selected is on the page that is wanted, and on the  *)
(* sheet the selection would be carried to.                                *)
Aims(p, c) ==
  /\ Aimed(c, Wanted(p))
  /\ p.tab = "schematic" /\ p.selected # None => Aimed(c, SheetOf[p.selected])

LEMMA HostEffectIs ==
  ASSUME opens \in 1 .. MaxOpens, NEW from \in Page, NEW p, NEW c, Sound(p, c), NoMount(c),
         Aimed(c, Wanted(p)), c.page # None, c.page = Wanted(p) \/ c.page = Wanted(from)
  PROVE  LET w == HostEffect(from, World(p, c))
         IN  /\ w.p = p /\ Sound(p, w.c) /\ NoMount(w.c) /\ w.c.page = Wanted(p)
             /\ \A x : Aimed(c, x) => Aimed(w.c, x)
<1>0. p \in Page /\ p.sheet \notin Dropped
  BY DEF Sound, PageOK
<1>1. CASE HostDeps(from) = HostDeps(p)
  <2>1. Wanted(from) = Wanted(p)
    BY <1>1 DEF HostDeps, Wanted, View
  <2> QED BY <1>1, <2>1 DEF HostEffect, World
<1>2. CASE HostDeps(from) # HostDeps(p)
  <2> DEFINE e == Activate(c, NewJob("host", Wanted(p), None))
  <2>1. Wanted(p) \in Docs /\ Wanted(p) \notin Dropped
    BY <1>0, ViewIs, WantedKept
  <2>2. HostEffect(from, World(p, c)) = World(p, e)
    BY <1>2 DEF HostEffect, World
  <2>3. Sound(p, e) /\ NoMount(e) /\ e.page = Wanted(p) /\ \A x : Aimed(c, x) => Aimed(e, x)
    BY <2>1, HostIs
  <2> HIDE DEF e
  <2> QED BY <1>2, <2>2, <2>3 DEF World
<1> QED BY <1>1, <1>2

LEMMA CarryIs ==
  ASSUME opens \in 1 .. MaxOpens, NEW p, NEW c, Sound(p, c), NoMount(c), c.page = Wanted(p),
         p.tab \in Views, Aims(p, c)
  PROVE  LET w == Carry(World(p, c))
         IN  /\ Sound(w.p, w.c) /\ NoMount(w.c) /\ w.c.page = Wanted(w.p)
             /\ w.p.session = p.session /\ w.p.tab = p.tab /\ w.p.look = p.look
             /\ w.p.applied = p.applied
<1> DEFINE r == p.selected
           t == p.tab
           w == Carry(World(p, c))
<1>0. /\ p \in Page /\ p.sheet \notin Dropped /\ r \in Refs \cup {None} /\ t \in {"board", "schematic"}
      /\ c.page # None /\ Wanted(p) \in Docs /\ c \in Canvas /\ c.given = p.applied
  BY ViewIs, NoneIs DEF Sound, PageOK, CanvasOK, Page, Views
<1>1. CASE w = World(p, c)
  BY <1>1 DEF World
<1>2. CASE r = None /\ p.shown[t] # None
  <2> DEFINE sh == [p.shown EXCEPT ![t] = None]
             q == [p EXCEPT !.shown = sh]
             e == Select(c, None)
  <2>1. w = World(q, e)
    BY <1>2 DEF Carry, World
  <2>2. sh \in [Views -> Refs \cup {None}]
    BY <1>0 DEF Page
  <2> HIDE DEF sh
  <2>3. Near(q, p)
    BY <1>0, <2>2 DEF Near, Page
  <2>4. Alike(e, c) /\ e.given = c.given
    BY SelectIs
  <2> HIDE DEF q, e
  <2>5. PageOK(q) /\ (q.session => p.session) /\ e.given = q.applied /\ Wanted(q) = Wanted(p)
    BY <1>0, <2>3, <2>4, NearIs DEF Sound, Near
  <2>6. Sound(q, e) /\ (NoMount(c) => NoMount(e))
    BY <2>4, <2>5, AlikeSound
  <2>7. e.page = c.page
    BY <2>4 DEF Alike
  <2> QED BY <2>1, <2>3, <2>5, <2>6, <2>7 DEF World, Near
<1>3. CASE r # None /\ p.shown[t] # r /\ t = "board"
  <2> DEFINE o == Outline(World(p, c), t, Board, r)
  <2>1. w = o
    BY <1>3 DEF Carry, World
  <2>2. Wanted(p) = Board /\ Board \in Docs /\ Board \notin Dropped
    BY <1>3, NoneIs, ViewerAssumption DEF Wanted
  <2>3. Aimed(c, Board) /\ r \in Refs /\ t \in Views
    BY <1>0, <1>3, <2>2 DEF Aims
  <2>4. o.p = p /\ Sound(p, o.c) /\ NoMount(o.c) /\ o.c.page = Board
    BY <1>0, <2>2, <2>3, OutlineIs
  <2> HIDE DEF o, w
  <2> QED BY <2>1, <2>2, <2>4 DEF w
<1>4. CASE r # None /\ p.shown[t] # r /\ t # "board" /\ SheetOf[r] = None
  <2> DEFINE o == SelectNow(World(p, c), "outline", r)
  <2>1. w = o
    BY <1>4 DEF Carry, World
  <2>2. Sound(o.p, o.c) /\ Near(o.p, p) /\ o.c.page = c.page /\ NoMount(o.c)
    BY <1>0, <1>4, SelectNowIs
  <2>3. Wanted(o.p) = Wanted(p)
    BY <2>2, NearIs DEF Sound
  <2> HIDE DEF o, w
  <2> QED BY <2>1, <2>2, <2>3 DEF w, Near
<1>5. CASE r # None /\ p.shown[t] # r /\ t # "board" /\ SheetOf[r] # None /\ SheetOf[r] \notin Dropped
  <2> DEFINE d == SheetOf[r]
             o == Outline(World(p, c), t, d, r)
             q == [p EXCEPT !.sheet = d]
             h == HostEffect(p, World(q, o.c))
  <2>1. w = h
    BY <1>5 DEF Carry, World
  <2>2. r \in Refs /\ d \in Sheets /\ d \in Docs /\ d # None
    BY <1>0, <1>5, ViewerAssumption DEF Docs
  <2>3. Aimed(c, d)
    BY <1>0, <1>5 DEF Aims
  <2> HIDE DEF d
  <2>4. Sound(p, o.c) /\ Aimed(o.c, d) /\ NoMount(o.c) /\ o.c.page = d
    BY <1>0, <1>5, <2>2, <2>3, OutlineIs DEF d
  <2>5. /\ q \in Page /\ q.sheet = d /\ q.session = p.session /\ q.tab = p.tab /\ q.look = p.look
        /\ q.applied = p.applied
    BY <1>0, <2>2 DEF Page
  <2>6. Wanted(q) = d
    BY <1>5, <2>2, <2>5 DEF Wanted
  <2> HIDE DEF o, q
  <2>7. Sound(q, o.c)
    <3>1. PageOK(q)
      BY <1>5, <2>5 DEF PageOK, d
    <3> QED BY <2>4, <2>5, <3>1 DEF Sound, JobsOK, NewestFits, MountFits
  <2>8. h.p = q /\ Sound(q, h.c) /\ NoMount(h.c) /\ h.c.page = d
    BY <1>0, <2>2, <2>4, <2>6, <2>7, NoneIs, HostEffectIs
  <2> HIDE DEF h, w
  <2> QED BY <2>1, <2>5, <2>6, <2>8 DEF w
<1>6. w = World(p, c) \/ (r = None /\ p.shown[t] # None)
      \/ (r # None /\ p.shown[t] # r /\ (t = "board" \/ SheetOf[r] = None \/ SheetOf[r] \notin Dropped))
  BY DEF Carry, World
<1> HIDE DEF w
<1> QED BY <1>1, <1>2, <1>3, <1>4, <1>5, <1>6 DEF w

(* What a handler hands to the commit of a canvas that is ready.           *)
Handed(p, c) ==
  /\ Sound(p, c) /\ NoMount(c) /\ Aims(p, c) /\ p.session
  /\ c.page # None /\ (c.page = Wanted(p) \/ c.page = Wanted(page))
  /\ p.applied = page.applied

LEMMA CommitIs ==
  ASSUME state = "ready", page \in Page, Fits(page, canvas), opens \in 1 .. MaxOpens,
         NEW p, NEW c, Handed(p, c), Commit(World(p, c))
  PROVE  Sound(page', canvas') /\ NoMount(canvas') /\ Fits(page', canvas')
<1> DEFINE h == HostEffect(page, World(p, c))
           l == LookEffect(page, h)
           s == SyncEffect(page, l)
<1>1. page' = s.p /\ canvas' = s.c
  BY DEF Commit
<1>2. /\ h.p = p /\ Sound(p, h.c) /\ NoMount(h.c) /\ h.c.page = Wanted(p)
      /\ \A x : Aimed(c, x) => Aimed(h.c, x)
  BY HostEffectIs DEF Handed, Aims
<1> HIDE DEF h
<1>3. h = World(p, h.c)
  BY <1>2 DEF h, HostEffect, World
<1>4. /\ Sound(l.p, l.c) /\ NoMount(l.c) /\ l.c.page = Wanted(p)
      /\ \A x : Aimed(c, x) => Aimed(l.c, x)
      /\ l.p.tab = p.tab /\ l.p.sheet = p.sheet /\ l.p.session = p.session
      /\ l.p.look = p.look /\ l.p.selected = p.selected
      /\ p.tab = "board" => l.p.look = l.p.applied
  <2>1. CASE l = h
    <3>1. p.tab = "board" => p.look = p.applied
      <4> SUFFICES ASSUME p.tab = "board" PROVE p.look = p.applied
        OBVIOUS
      <4>1. CASE <<page.tab, page.look>> = <<p.tab, p.look>>
        BY <4>1 DEF Fits, Handed
      <4>2. CASE <<page.tab, page.look>> # <<p.tab, p.look>>
        <5>1. l = Apply(World(p, h.c)) /\ Wanted(p) = Board
          BY <1>2, <1>3, <4>2 DEF LookEffect, Wanted
        <5>2. Apply(World(p, h.c)).p.applied = p.look
          BY <1>2, <5>1, ApplyIs
        <5> QED BY <1>2, <2>1, <5>1, <5>2
      <4> QED BY <4>1, <4>2
    <3> QED BY <1>2, <2>1, <3>1
  <2>2. CASE l # h
    <3>1. l = Apply(World(p, h.c)) /\ p.tab = "board" /\ Wanted(p) = Board
      BY <1>2, <1>3, <2>2 DEF LookEffect, Wanted
    <3> DEFINE a == Apply(World(p, h.c))
    <3>2. /\ Sound(a.p, a.c) /\ a.c.page = h.c.page /\ NoMount(a.c)
          /\ a.p.tab = p.tab /\ a.p.sheet = p.sheet /\ a.p.session = p.session
          /\ a.p.look = p.look /\ a.p.selected = p.selected /\ a.p.applied = p.look
          /\ \A x : Aimed(h.c, x) => Aimed(a.c, x)
      BY <1>2, <3>1, ApplyIs
    <3> HIDE DEF a
    <3> QED BY <1>2, <3>1, <3>2 DEF a
  <2> QED BY <2>1, <2>2
<1> HIDE DEF l
<1>5. Wanted(l.p) = Wanted(p) /\ Aims(l.p, l.c)
  BY <1>4 DEF Wanted, Aims, Handed
<1>6. CASE s = l
  BY <1>1, <1>4, <1>5, <1>6 DEF Fits, Handed
<1>7. CASE s # l
  <2>1. l.p.tab \in Views /\ s = Carry(l)
    BY <1>4, <1>7 DEF SyncEffect, Sound, PageOK, Page, Tabs
  <2>2. l = World(l.p, l.c)
    BY <1>3 DEF l, LookEffect, Apply, World
  <2> DEFINE y == Carry(World(l.p, l.c))
  <2>3. /\ Sound(y.p, y.c) /\ NoMount(y.c) /\ y.c.page = Wanted(y.p)
        /\ y.p.session = l.p.session /\ y.p.tab = l.p.tab /\ y.p.look = l.p.look
        /\ y.p.applied = l.p.applied
    BY <1>4, <1>5, <2>1, CarryIs
  <2>4. s = y
    BY <2>1, <2>2
  <2> HIDE DEF y, s
  <2> QED BY <1>1, <1>4, <2>3, <2>4 DEF Fits, Handed
<1> QED BY <1>6, <1>7


(***************************************************************************)
(* The gestures.                                                           *)
(***************************************************************************)

(* With nothing decided there is no selection and no mount to come.        *)
Idle(c) == NoMount(c) /\ \A d : Aimed(c, d)

(* What a handler makes of a page and a canvas.                            *)
From(q, e, p, c) ==
  /\ Sound(q, e) /\ NoMount(e) /\ Aims(q, e)
  /\ q.session = p.session /\ (q.applied = p.applied \/ state = "opening")
  /\ e.page = None <=> c.page = None
  /\ e.page = Wanted(q) \/ e.page = c.page

LEMMA NotBusy == ASSUME ~Busy PROVE Idle(canvas)
BY DEF Busy, Idle, NoMount, MountDue, Aimed, Selecting

LEMMA IdleSelects == ASSUME NEW c, Idle(c), NEW i \in DOMAIN c.jobs PROVE ~Selecting(c.jobs[i])
<1>1. Aimed(c, None) /\ Aimed(c, Board) /\ Board # None
  BY NoneIs DEF Idle
<1> QED BY <1>1 DEF Aimed

LEMMA IdleAims == ASSUME NEW c, Idle(c), NEW p PROVE Aims(p, c)
BY DEF Idle, Aims

(* A page changed by hand, on a canvas that is the same but for claims.    *)
LEMMA EditIs ==
  ASSUME NEW p, NEW c, Sound(p, c), Idle(c), NEW q, PageOK(q), q.session = p.session,
         q.applied = p.applied, NEW e, e = c \/ e = Claimed(c)
  PROVE  From(q, e, p, c)
<1>1. Alike(e, c) /\ e.given = c.given
  <2>1. CASE e = c
    BY <2>1, SameJobs DEF Alike, Sound, CanvasOK
  <2>2. CASE e = Claimed(c)
    BY <2>2, ClaimedIs
  <2> QED BY <2>1, <2>2
<1>2. Sound(q, e) /\ NoMount(e) /\ \A d : Aimed(e, d)
  BY <1>1, AlikeSound DEF Sound, Idle
<1> QED BY <1>1, <1>2 DEF From, Aims, Alike

LEMMA FocusOnIs ==
  ASSUME opens \in 1 .. MaxOpens, NEW p, NEW c, Sound(p, c), Idle(c), NEW r \in Refs
  PROVE  LET w == FocusOn(World(p, c), r) IN From(w.p, w.c, p, c)
<1> DEFINE d == SheetOf[r]
           k == Claimed(c)
           w == FocusOn(World(p, c), r)
           s == IF d = None THEN p.sheet ELSE d
           named == [p EXCEPT !.selected = r, !.tab = "schematic", !.sheet = s]
<1>0. /\ p \in Page /\ p.sheet \in Sheets \cup {None} /\ p.sheet \notin Dropped
      /\ d \in Sheets \cup {None}
  BY ViewerAssumption DEF Sound, PageOK, Page
<1>1. CASE d # None /\ d \in Dropped
  <2> DEFINE q == [p EXCEPT !.selected = r]
  <2>1. w = World(q, k)
    BY <1>1 DEF FocusOn, World
  <2>2. PageOK(q) /\ q.session = p.session /\ q.applied = p.applied
    BY <1>0 DEF PageOK, Page
  <2> HIDE DEF q
  <2>3. From(q, k, p, c)
    BY <2>2, EditIs
  <2> QED BY <2>1, <2>3 DEF World
<1>2. ASSUME d \notin Dropped
      PROVE  /\ PageOK(named) /\ named.session = p.session /\ named.applied = p.applied
             /\ named.tab = "schematic" /\ named.sheet = s /\ named.selected = r
             /\ From(named, k, p, c)
  <2>1. s \in Sheets \cup {None} /\ s \notin Dropped
    BY <1>0, <1>2
  <2> HIDE DEF s
  <2>2. /\ PageOK(named) /\ named.session = p.session /\ named.applied = p.applied
        /\ named.tab = "schematic" /\ named.sheet = s /\ named.selected = r
    BY <1>0, <2>1 DEF PageOK, Page, Tabs, Views
  <2> HIDE DEF named, k
  <2>3. From(named, k, p, c)
    BY <2>2, EditIs DEF k
  <2> QED BY <2>2, <2>3
<1>3. CASE d = None
  <2> DEFINE z == SelectNow(World(named, k), "focus", r)
  <2>1. w = z
    BY <1>0, <1>3 DEF FocusOn, World
  <2>2. d \notin Dropped
    BY <1>3, NoneIs, ViewerAssumption DEF Docs
  <2>3. Sound(named, k) /\ NoMount(k) /\ PageOK(named) /\ named.session = p.session
        /\ (named.applied = p.applied \/ state = "opening") /\ k.page = c.page
        /\ \A x : Aimed(k, x)
    BY <1>2, <2>2, ClaimedIs, AlikeSound DEF From, Alike, Idle, Sound
  <2> HIDE DEF named, k
  <2>4. /\ Sound(z.p, z.c) /\ Near(z.p, named) /\ z.c.page = k.page /\ NoMount(z.c)
        /\ \A x : Aimed(z.c, x)
    BY <1>3, <2>3, SelectNowIs
  <2> HIDE DEF z, w
  <2> QED BY <2>1, <2>3, <2>4 DEF From, Near, Aims, w
<1>4. CASE d # None /\ d \notin Dropped
  <2> DEFINE job == NewJob("focus", d, r)
             e == Activate(k, job)
  <2>1. w = World(named, e)
    BY <1>4 DEF FocusOn, World
  <2>2. d \in Docs /\ Asks(job) /\ job.doc = d /\ job.kind = "focus"
    BY <1>0, <1>4, NewJobIs DEF Docs, NewJob
  <2>3. Sound(named, k) /\ NoMount(k) /\ k.page = c.page /\ Aimed(k, d)
    BY <1>2, <1>4, ClaimedIs, AlikeSound DEF From, Alike, Idle, Sound
  <2>4. /\ named.session = p.session /\ named.applied = p.applied
        /\ named.tab = "schematic" /\ named.sheet = d /\ named.selected = r
    BY <1>2, <1>4
  <2> HIDE DEF named, k, job
  <2>5. Sound(named, e) /\ Aimed(e, d) /\ NoMount(e) /\ e.page = IF k.page # None THEN d ELSE k.page
    BY <1>4, <2>2, <2>3, ActivateSound
  <2>6. Wanted(named) = d
    BY <1>4, <2>4 DEF Wanted
  <2>7. d # None
    BY <1>4
  <2> HIDE DEF e, w, d
  <2>8. From(named, e, p, c)
    BY <2>3, <2>4, <2>5, <2>6, <2>7 DEF From, Aims, d
  <2> QED BY <2>1, <2>8 DEF World, w
<1> QED BY <1>1, <1>3, <1>4

(* The step's state, from what holds of the page and the canvas.           *)
LEMMA InvKept ==
  ASSUME ViewerInv, opens' = opens, Sound(page', canvas'), LoneMount',
         state' \in {"loading", "opening", "ready", "failed"},
         state' \in {"loading", "failed"} => canvas'.page = None /\ page'.applied = Plain,
         state' = "opening" => page'.session /\ canvas'.page # None,
         state' = "ready" => Fits(page', canvas'),
         toast' \in Toast \cup {None}, moves' \in 0 .. MaxMoves, fails' \in 0 .. MaxFails
  PROVE  ViewerInv'
<1>1. Sound(page, canvas)'
  <2>1. PageOK(page)' /\ CanvasOK(canvas)'
    BY DEF Sound, PageOK, CanvasOK, Held
  <2>2. ASSUME NEW i \in DOMAIN canvas'.jobs
        PROVE /\ JobIs(canvas.jobs[i])' /\ NewestFits(page, canvas, canvas.jobs[i])'
              /\ MountFits(page, canvas, canvas.jobs[i])' /\ SettledFits(canvas, canvas.jobs[i])'
    BY DEF Sound, JobsOK, JobIs, NewestFits, MountFits, SettledFits, Selecting, Held
  <2> QED BY <2>1, <2>2 DEF Sound, JobsOK
<1>2. (state = "ready" => Fits(page, canvas))'
  BY DEF Fits, Wanted
<1> QED BY <1>1, <1>2 DEF ViewerInv

(* A handler whose result React commits.                                   *)
LEMMA HandlerKeeps ==
  ASSUME ViewerInv, page.session, NEW p, NEW c, From(p, c, page, canvas), Commit(World(p, c)),
         UNCHANGED <<state, opens, fails>>, moves' \in 0 .. MaxMoves, toast' \in Toast \cup {None}
  PROVE  ViewerInv'
<1>1. CASE state = "ready"
  <2>1. page \in Page /\ Fits(page, canvas) /\ opens \in 1 .. MaxOpens
    BY <1>1 DEF ViewerInv, Sound, PageOK
  <2>2. canvas.page # None /\ canvas.page = Wanted(page)
    BY <2>1, ViewIs, NoneIs DEF Fits
  <2>3. Handed(p, c)
    BY <1>1, <2>2 DEF Handed, From
  <2>4. Sound(page', canvas') /\ NoMount(canvas') /\ Fits(page', canvas')
    BY <1>1, <2>1, <2>3, CommitIs
  <2>5. LoneMount'
    BY <2>4 DEF NoMount, LoneMount, MountDue
  <2> QED BY <1>1, <2>4, <2>5, InvKept DEF ViewerInv
<1>2. CASE state # "ready"
  <2>1. page' = p /\ canvas' = c
    BY <1>2 DEF Commit, World
  <2>2. LoneMount'
    BY <2>1 DEF From, NoMount, LoneMount, MountDue
  <2> QED BY <1>2, <2>1, <2>2, InvKept DEF ViewerInv, From
<1> QED BY <1>1, <1>2

LEMMA FocusKeeps ==
  ASSUME ViewerInv, ~Busy, page.session, NEW p, PageOK(p), p.session = page.session,
         p.applied = page.applied, NEW r \in Refs, Focus(p, r),
         UNCHANGED <<state, opens, fails>>, moves' \in 0 .. MaxMoves
  PROVE  ViewerInv'
<1> DEFINE w == FocusOn(World(p, canvas), r)
<1>1. Sound(page, canvas) /\ Idle(canvas) /\ opens \in 1 .. MaxOpens /\ toast \in Toast \cup {None}
  BY NotBusy DEF ViewerInv
<1>2. From(p, canvas, page, canvas)
  BY <1>1, EditIs
<1>3. From(w.p, w.c, p, canvas)
  BY <1>1, <1>2, FocusOnIs DEF From
<1>4. From(w.p, w.c, page, canvas)
  <2> HIDE DEF w
  <2> QED BY <1>3 DEF From
<1>5. Commit(World(w.p, w.c))
  <2>1. w = World(w.p, w.c)
    BY DEF FocusOn, SelectNow, World
  <2>2. Commit(w)
    BY DEF Focus
  <2> HIDE DEF w
  <2> QED BY <2>1, <2>2
<1>6. toast' \in Toast \cup {None}
  BY <1>1 DEF Focus, Says, Toast
<1> HIDE DEF w
<1> QED BY <1>4, <1>5, <1>6, HandlerKeeps

(* A part outlined on the board, by a page that is to show the board.      *)
LEMMA OutlineBoardIs ==
  ASSUME ViewerInv, ~Busy, page.session, NEW p, PageOK(p), p.session = page.session,
         p.applied = page.applied, p.tab = "board", NEW e, e = canvas \/ e = Claimed(canvas),
         NEW r \in Refs, Commit(Outline(World(p, e), "board", Board, r)),
         UNCHANGED <<state, opens, fails, toast>>, moves' \in 0 .. MaxMoves
  PROVE  ViewerInv'
<1> DEFINE w == Outline(World(p, e), "board", Board, r)
<1>1. Sound(page, canvas) /\ Idle(canvas) /\ opens \in 1 .. MaxOpens /\ toast \in Toast \cup {None}
  BY NotBusy DEF ViewerInv
<1>2. From(p, e, page, canvas)
  BY <1>1, EditIs
<1>3. Board \in Docs /\ Board \notin Dropped /\ Wanted(p) = Board /\ Board # None
  BY NoneIs, ViewerAssumption DEF Wanted
<1>4. "board" \in Views
  BY DEF Views
<1>5. /\ w.p = p /\ Sound(p, w.c) /\ Aimed(w.c, Board) /\ NoMount(w.c)
      /\ w.c.page = IF e.page # None THEN Board ELSE e.page
  BY <1>1, <1>2, <1>3, <1>4, OutlineIs DEF From, Aims
<1>6. w = World(w.p, w.c)
  BY DEF Outline, World
<1> HIDE DEF w
<1>7. From(w.p, w.c, page, canvas)
  BY <1>2, <1>3, <1>5 DEF From, Aims
<1> QED BY <1>1, <1>6, <1>7, HandlerKeeps DEF w

(* A gesture that only edits the page, and may claim the view.             *)
LEMMA EditKeeps ==
  ASSUME ViewerInv, ~Busy, page.session, NEW q, PageOK(q), q.session = page.session,
         q.applied = page.applied, NEW e, e = canvas \/ e = Claimed(canvas),
         Commit(World(q, e)), UNCHANGED <<state, opens, fails>>, moves' \in 0 .. MaxMoves,
         toast' \in Toast \cup {None}
  PROVE  ViewerInv'
<1>1. Sound(page, canvas) /\ Idle(canvas)
  BY NotBusy DEF ViewerInv
<1>2. From(q, e, page, canvas)
  BY <1>1, EditIs
<1> QED BY <1>2, HandlerKeeps

LEMMA GestureIs ==
  ASSUME ViewerInv, Gesture
  PROVE  /\ ~Busy /\ page.session /\ UNCHANGED <<state, opens, fails>> /\ moves' \in 0 .. MaxMoves
         /\ PageOK(page) /\ page \in Page /\ page.sheet \notin Dropped
         /\ toast \in Toast \cup {None}
<1>1. moves' = moves + 1 /\ moves < MaxMoves /\ moves \in 0 .. MaxMoves /\ MaxMoves \in Nat
  BY ViewerAssumption DEF Gesture, ViewerInv
<1> QED BY <1>1 DEF Gesture, ViewerInv, Sound, PageOK

Gestures ==
  \/ \E t \in Tabs : ChooseTab(t) \/ ShowOn(t)
  \/ \E d \in Sheets : ChooseSheet(d)
  \/ \E r \in Refs \cup {None} : ClickPart(r) \/ Pick(r)
  \/ \E r \in Refs : ClickChip(r) \/ FollowLink(r) \/ Search(r)
  \/ Escape
  \/ \E l \in Looks : SetLook(l)

LEMMA GesturesKeep ==
  ASSUME ViewerInv, Gestures
  PROVE  ViewerInv'
<1>g. Gesture
  BY DEF Gestures, ChooseTab, ShowOn, ChooseSheet, ClickPart, Pick, ClickChip, FollowLink, Search,
         Escape, SetLook
<1>0. /\ ~Busy /\ page.session /\ UNCHANGED <<state, opens, fails>> /\ moves' \in 0 .. MaxMoves
      /\ PageOK(page) /\ page \in Page /\ page.sheet \notin Dropped
      /\ toast \in Toast \cup {None}
  BY <1>g, GestureIs
<1>1. ASSUME NEW t \in Tabs, ChooseTab(t) PROVE ViewerInv'
  <2> DEFINE q == [page EXCEPT !.tab = t]
  <2>1. PageOK(q) /\ q.session = page.session /\ q.applied = page.applied
    BY <1>0 DEF PageOK, Page
  <2>2. Commit(World(q, canvas)) /\ toast' = toast
    BY <1>1 DEF ChooseTab
  <2> HIDE DEF q
  <2> QED BY <1>0, <2>1, <2>2, EditKeeps
<1>2. ASSUME NEW d \in Sheets, ChooseSheet(d) PROVE ViewerInv'
  <2> DEFINE q == IF d \in Dropped THEN page ELSE [page EXCEPT !.sheet = d, !.tab = "schematic"]
  <2>1. PageOK(q) /\ q.session = page.session /\ q.applied = page.applied
    BY <1>0 DEF PageOK, Page, Tabs, Views
  <2>2. Commit(World(q, Claimed(canvas))) /\ toast' \in Toast \cup {None}
    BY <1>0, <1>2 DEF ChooseSheet, Says, Toast
  <2> HIDE DEF q
  <2> QED BY <1>0, <2>1, <2>2, EditKeeps
<1>3. ASSUME NEW r \in Refs \cup {None}, ClickPart(r) PROVE ViewerInv'
  <2> DEFINE q == Reported(page, canvas, r)
             e == Select(canvas, r)
  <2>1. Sound(page, canvas) /\ Idle(canvas)
    BY <1>0, NotBusy DEF ViewerInv
  <2>2. Near(q, page) /\ PageOK(q)
    BY <1>0, ReportedIs, NearIs
  <2>3. Alike(e, canvas) /\ e.given = canvas.given
    BY <2>1, SelectIs
  <2>4. Commit(World(q, e)) /\ toast' = toast
    BY <1>3 DEF ClickPart
  <2> HIDE DEF q, e
  <2>5. Sound(q, e) /\ NoMount(e) /\ (\A d : Aimed(e, d)) /\ e.page = canvas.page
    BY <2>1, <2>2, <2>3, AlikeSound DEF Near, Sound, Idle, Alike
  <2>6. From(q, e, page, canvas)
    BY <2>2, <2>5 DEF From, Aims, Near
  <2> QED BY <1>0, <2>4, <2>6, HandlerKeeps
<1>4. ASSUME NEW r \in Refs, ClickChip(r) PROVE ViewerInv'
  BY <1>0, <1>4, FocusKeeps DEF ClickChip
<1>5. ASSUME NEW r \in Refs, FollowLink(r) PROVE ViewerInv'
  <2>1. CASE state = "ready"
    BY <1>0, <1>5, <2>1, FocusKeeps DEF FollowLink
  <2>2. CASE state # "ready"
    <3> DEFINE q == [page EXCEPT !.pending = r]
    <3>1. PageOK(q) /\ q.session = page.session /\ q.applied = page.applied
      BY <1>0 DEF PageOK, Page
    <3>2. page' = q /\ canvas' = canvas /\ toast' = toast
      BY <1>5, <2>2 DEF FollowLink
    <3> HIDE DEF q
    <3>3. Commit(World(q, canvas))
      BY <2>2, <3>2 DEF Commit, World
    <3> QED BY <1>0, <3>1, <3>2, <3>3, EditKeeps
  <2> QED BY <2>1, <2>2
<1>6. ASSUME NEW r \in Refs \cup {None}, Pick(r) PROVE ViewerInv'
  <2> DEFINE q == [page EXCEPT !.selected = r]
  <2>1. PageOK(q) /\ q.session = page.session /\ q.applied = page.applied
    BY <1>0 DEF PageOK, Page
  <2>2. Commit(World(q, canvas)) /\ toast' = toast
    BY <1>6 DEF Pick
  <2> HIDE DEF q
  <2> QED BY <1>0, <2>1, <2>2, EditKeeps
<1>7. ASSUME NEW r \in Refs, Search(r) PROVE ViewerInv'
  <2>0. page.tab \in {"schematic", "board", "other"}
    BY <1>0 DEF Page, Tabs, Views
  <2> DEFINE q == [page EXCEPT !.selected = r]
             s == [q.shown EXCEPT !["board"] = r]
             b == [q EXCEPT !.shown = s]
  <2>1. PageOK(q) /\ q.session = page.session /\ q.applied = page.applied /\ q.tab = page.tab
    BY <1>0 DEF PageOK, Page
  <2>2. CASE page.tab = "schematic"
    BY <1>0, <1>7, <2>2, FocusKeeps DEF Search
  <2>3. CASE page.tab = "board"
    <3>1. FocusBoard(q, r)
      BY <1>7, <2>3 DEF Search
    <3>2. Commit(Outline(World(b, canvas), "board", Board, r)) /\ toast' = toast
      BY <3>1 DEF FocusBoard
    <3> HIDE DEF q
    <3>3. s \in [Views -> Refs \cup {None}]
      BY <2>1 DEF PageOK, Page
    <3> HIDE DEF s
    <3>4. PageOK(b) /\ b.session = page.session /\ b.applied = page.applied /\ b.tab = "board"
      BY <2>1, <2>3, <3>3 DEF PageOK, Page
    <3> HIDE DEF b
    <3> QED BY <1>0, <3>2, <3>4, OutlineBoardIs
  <2>4. CASE page.tab = "other"
    <3>1. Commit(World(q, canvas)) /\ toast' = toast
      BY <1>7, <2>4 DEF Search
    <3> HIDE DEF q
    <3> QED BY <1>0, <2>1, <3>1, EditKeeps
  <2> QED BY <2>0, <2>2, <2>3, <2>4
<1>8. ASSUME NEW t \in Tabs, ShowOn(t) PROVE ViewerInv'
  <2>0. t \in {"schematic", "board", "other"} /\ page.selected \in Refs
    BY <1>0, <1>8 DEF Page, Tabs, Views, ShowOn
  <2>1. CASE t = "schematic"
    BY <1>0, <1>8, <2>0, <2>1, FocusKeeps DEF ShowOn
  <2>2. CASE t = "board"
    <3> DEFINE r == page.selected
               s == [page.shown EXCEPT !["board"] = r]
               b == [page EXCEPT !.tab = "board", !.shown = s]
    <3>1. Commit(Outline(World(b, Claimed(canvas)), "board", Board, r)) /\ toast' = toast
      BY <1>8, <2>2 DEF ShowOn
    <3>2. s \in [Views -> Refs \cup {None}]
      BY <1>0, <2>0 DEF Page
    <3> HIDE DEF s
    <3>3. PageOK(b) /\ b.session = page.session /\ b.applied = page.applied /\ b.tab = "board"
      BY <1>0, <3>2 DEF PageOK, Page, Tabs, Views
    <3> HIDE DEF b
    <3> QED BY <1>0, <2>0, <3>1, <3>3, OutlineBoardIs
  <2>3. CASE t = "other"
    <3> DEFINE q == [page EXCEPT !.tab = t]
    <3>1. Commit(World(q, Claimed(canvas))) /\ toast' = toast
      BY <1>8, <2>3 DEF ShowOn
    <3>2. PageOK(q) /\ q.session = page.session /\ q.applied = page.applied
      BY <1>0 DEF PageOK, Page
    <3> HIDE DEF q
    <3> QED BY <1>0, <3>1, <3>2, EditKeeps
  <2> QED BY <2>0, <2>1, <2>2, <2>3
<1>9. ASSUME Escape PROVE ViewerInv'
  <2> DEFINE q == [page EXCEPT !.look = Plain]
             n == [page EXCEPT !.selected = None]
  <2>1. /\ PageOK(q) /\ q.session = page.session /\ q.applied = page.applied
        /\ PageOK(n) /\ n.session = page.session /\ n.applied = page.applied
    BY <1>0, ViewerAssumption DEF PageOK, Page
  <2>2. (Commit(World(q, canvas)) \/ Commit(World(n, Claimed(canvas)))) /\ toast' = toast
    BY <1>9 DEF Escape
  <2> HIDE DEF q, n
  <2> QED BY <1>0, <2>1, <2>2, EditKeeps
<1>10. ASSUME NEW l \in Looks, SetLook(l) PROVE ViewerInv'
  <2> DEFINE q == [page EXCEPT !.look = l]
  <2>1. PageOK(q) /\ q.session = page.session /\ q.applied = page.applied
    BY <1>0 DEF PageOK, Page
  <2>2. Commit(World(q, canvas)) /\ toast' = toast
    BY <1>10 DEF SetLook
  <2> HIDE DEF q
  <2> QED BY <1>0, <2>1, <2>2, EditKeeps
<1> QED BY <1>1, <1>2, <1>3, <1>4, <1>5, <1>6, <1>7, <1>8, <1>9, <1>10 DEF Gestures

(***************************************************************************)
(* Projects, the mount, and the loads.                                     *)
(***************************************************************************)
LEMMA BareIs ==
  /\ NoCanvas \in Canvas /\ CanvasOK(NoCanvas) /\ NoCanvas.jobs = <<>>
  /\ NoCanvas.page = None /\ NoCanvas.given = Plain
  /\ \A v \in Views : NoCanvas.doc[v] = None /\ NoCanvas.flying[v] = FALSE /\ NoCanvas.tail[v] = "none"
<1>1. <<>> \in Seq(Job) /\ Plain \in Looks
  BY ViewerAssumption
<1>2. /\ NoCanvas.jobs = <<>> /\ NoCanvas.page = None /\ NoCanvas.given = Plain
      /\ \A v \in Views : NoCanvas.doc[v] = None /\ NoCanvas.flying[v] = FALSE /\ NoCanvas.tail[v] = "none"
  BY DEF NoCanvas
<1>3. NoCanvas \in Canvas
  BY <1>1 DEF NoCanvas, Canvas, Loads
<1> QED BY <1>2, <1>3 DEF CanvasOK

LEMMA NoCanvasIs ==
  ASSUME NEW s \in Seq(Job)
  PROVE  LET e == [NoCanvas EXCEPT !.jobs = s]
         IN  /\ CanvasOK(e) /\ e.jobs = s /\ e.page = None /\ e.given = Plain
             /\ \A v \in Views : e.doc[v] = None /\ e.flying[v] = FALSE /\ e.tail[v] = "none"
<1> DEFINE e == [NoCanvas EXCEPT !.jobs = s]
<1>3. /\ e \in Canvas /\ e.jobs = s /\ e.page = NoCanvas.page /\ e.given = NoCanvas.given
      /\ e.doc = NoCanvas.doc /\ e.flying = NoCanvas.flying /\ e.tail = NoCanvas.tail
  BY BareIs, WithJobs
<1> HIDE DEF e
<1> QED BY <1>3, BareIs DEF CanvasOK, e

LEMMA FreshPageIs ==
  /\ PageOK(FreshPage) /\ FreshPage.applied = Plain
  /\ \A t \in Tabs, r \in Refs \cup {None} :
       /\ PageOK([FreshPage EXCEPT !.session = FALSE, !.tab = t])
       /\ PageOK([FreshPage EXCEPT !.pending = r])
       /\ [FreshPage EXCEPT !.pending = r].applied = Plain
<1>1. None \notin Dropped /\ Plain \in Looks /\ "schematic" \in Tabs
  BY NoneIs, ViewerAssumption DEF Docs, Tabs, Views
<1>2. FreshPage \in Page /\ FreshPage.sheet = None /\ FreshPage.applied = Plain
  BY <1>1 DEF FreshPage, Page
<1> QED BY <1>1, <1>2 DEF PageOK, Page

LEMMA LoneKept == ASSUME NoMount(canvas') PROVE LoneMount'
BY DEF NoMount, LoneMount, MountDue

LEMMA InvIs ==
  ASSUME ViewerInv
  PROVE  /\ page \in Page /\ PageOK(page) /\ CanvasOK(canvas) /\ canvas \in Canvas
         /\ canvas.jobs \in Seq(Job) /\ opens \in 1 .. MaxOpens /\ MaxOpens \in Nat
         /\ moves \in 0 .. MaxMoves /\ fails \in 0 .. MaxFails /\ MaxMoves \in Nat /\ MaxFails \in Nat
         /\ toast \in Toast \cup {None} /\ canvas.given = page.applied
         /\ \A i \in DOMAIN canvas.jobs :
              /\ JobIs(canvas.jobs[i]) /\ NewestFits(page, canvas, canvas.jobs[i])
              /\ MountFits(page, canvas, canvas.jobs[i]) /\ SettledFits(canvas, canvas.jobs[i])
BY CanvasFields, ViewerAssumption DEF ViewerInv, Sound, PageOK, CanvasOK, JobsOK

LEMMA OpenAnotherKeeps == ASSUME ViewerInv, OpenAnother PROVE ViewerInv'
<1>1. Idle(canvas) /\ page.tab \in Tabs
  BY NotBusy, InvIs DEF OpenAnother, Page
<1>2. /\ PageOK(page') /\ page'.applied = Plain /\ page'.session = FALSE
  <2>1. page' = [FreshPage EXCEPT !.session = FALSE, !.tab = page.tab]
    BY DEF OpenAnother
  <2> QED BY <1>1, <2>1, FreshPageIs DEF FreshPage
<1>3. /\ CanvasOK(canvas') /\ canvas'.jobs = canvas.jobs /\ canvas'.page = None
      /\ canvas'.given = Plain
  BY InvIs, NoCanvasIs DEF OpenAnother
<1>4. JobsOK(page', canvas')
  <2>1. ASSUME NEW i \in DOMAIN canvas.jobs
        PROVE  /\ JobIs(canvas.jobs[i]) /\ NewestFits(page', canvas', canvas.jobs[i])
               /\ MountFits(page', canvas', canvas.jobs[i]) /\ SettledFits(canvas', canvas.jobs[i])
    <3>1. JobIs(canvas.jobs[i]) /\ ~Selecting(canvas.jobs[i])
      BY <1>1, InvIs, IdleSelects
    <3> QED BY <1>2, <3>1 DEF NewestFits, MountFits, SettledFits
  <2> QED BY <1>3, <2>1 DEF JobsOK
<1>5. NoMount(canvas')
  BY <1>1, <1>3 DEF NoMount, Idle
<1>6. Sound(page', canvas') /\ LoneMount'
  BY <1>2, <1>3, <1>4, <1>5, LoneKept DEF Sound
<1>7. /\ state' = "loading" /\ toast' \in Toast \cup {None} /\ moves' \in 0 .. MaxMoves
      /\ opens' = opens /\ fails' = fails
  BY InvIs DEF OpenAnother
<1> QED BY <1>2, <1>3, <1>6, <1>7, InvKept, InvIs

LEMMA OpenProjectKeeps ==
  ASSUME ViewerInv, NEW r \in Refs \cup {None}, OpenProject(r) PROVE ViewerInv'
<1>1. Idle(canvas) /\ ~page.session /\ canvas' = canvas
  BY NotBusy DEF OpenProject
<1>2. PageOK(page') /\ page'.applied = Plain
  <2>1. page' = [FreshPage EXCEPT !.pending = r]
    BY DEF OpenProject
  <2>2. "schematic" \in Tabs
    BY DEF Tabs, Views
  <2> QED BY <2>1, <2>2, FreshPageIs
<1>3. canvas.page = None /\ canvas.given = Plain
  BY <1>1, InvIs DEF ViewerInv, Fits
<1>4. opens' = opens + 1 /\ opens' \in 1 .. MaxOpens
  BY InvIs DEF OpenProject
<1>5. PageOK(page)' /\ CanvasOK(canvas)' /\ (canvas.given = page.applied)'
  BY <1>1, <1>2, <1>3, InvIs DEF PageOK, CanvasOK, Held
<1>6. ASSUME NEW i \in DOMAIN canvas.jobs
      PROVE /\ JobIs(canvas.jobs[i])' /\ NewestFits(page, canvas, canvas.jobs[i])'
            /\ MountFits(page, canvas, canvas.jobs[i])' /\ SettledFits(canvas, canvas.jobs[i])'
  <2>1. JobIs(canvas.jobs[i]) /\ canvas.jobs[i].project # opens' /\ ~Selecting(canvas.jobs[i])
        /\ canvas.jobs[i].project <= opens'
    <3>1. JobIs(canvas.jobs[i]) /\ opens \in Int /\ MaxOpens \in Int
      BY InvIs
    <3>2. canvas.jobs[i].project \in Int /\ canvas.jobs[i].project <= opens
      BY <3>1 DEF JobIs, Job
    <3>3. ~Selecting(canvas.jobs[i])
      BY <1>1, IdleSelects
    <3> QED BY <1>4, <3>1, <3>2, <3>3
  <2> QED BY <1>1, <2>1 DEF JobIs, NewestFits, MountFits, SettledFits, Selecting
<1>7. JobsOK(page, canvas)'
  BY <1>1, <1>6 DEF JobsOK
<1>8. LoneMount'
  BY <1>1, LoneKept DEF Idle
<1>9. state' = "loading" /\ toast' = toast /\ moves' \in 0 .. MaxMoves /\ fails' = fails
  BY InvIs DEF OpenProject
<1> QED BY <1>1, <1>2, <1>3, <1>4, <1>5, <1>7, <1>8, <1>9, InvIs DEF ViewerInv, Sound

LEMMA EmbedReadyKeeps == ASSUME ViewerInv, EmbedReady PROVE ViewerInv'
<1> DEFINE b == [NoCanvas EXCEPT !.jobs = canvas.jobs]
           s == Opened(b)
           job == NewJob("mount", Root, None)
<1>1. Idle(canvas) /\ canvas.page = None /\ page.applied = Plain /\ page.session
  BY NotBusy DEF EmbedReady, ViewerInv
<1>2. /\ CanvasOK(b) /\ b.jobs = canvas.jobs /\ b.given = Plain
      /\ \A v \in Views : b.flying[v] = FALSE /\ b.tail[v] = "none"
  BY InvIs, NoCanvasIs
<1> HIDE DEF b
<1>3. CanvasOK(s) /\ s.page = Board /\ s.jobs = canvas.jobs /\ s.given = Plain
  <2> DEFINE t == Switched(b, Board)
             ts == [t.tail EXCEPT !["board"] = "unwatched"]
  <2>1. Board \in Docs /\ b \in Canvas /\ ViewOf(Board) = "board" /\ "board" \in Views
    BY <1>2, NoneIs DEF CanvasOK, ViewOf, Views
  <2>2. /\ t \in Canvas /\ Held(t, Board) /\ t.page = Board /\ t.jobs = b.jobs /\ t.given = b.given
        /\ t.flying = b.flying
        /\ \A v \in Views : v # "board" => t.tail[v] = b.tail[v]
    BY <2>1, SwitchedIs
  <2> HIDE DEF t
  <2>3. /\ ts \in [Views -> Loads] /\ ts["board"] = "unwatched"
        /\ \A v \in Views : v # "board" => ts[v] = t.tail[v]
    BY <2>1, <2>2, CanvasFields DEF Loads
  <2>4. s = [t EXCEPT !.tail = ts]
    BY DEF Opened, t
  <2> HIDE DEF ts, s
  <2>5. /\ s \in Canvas /\ s.page = t.page /\ s.jobs = t.jobs /\ s.given = t.given
        /\ s.flying = t.flying /\ s.doc = t.doc /\ s.tail = ts
    BY <2>2, <2>3, <2>4 DEF Canvas
  <2> QED BY <1>2, <2>2, <2>3, <2>5 DEF CanvasOK, Held
<1> HIDE DEF s
<1>4. Sound(page, s)
  <2>1. ASSUME NEW i \in DOMAIN canvas.jobs
        PROVE  /\ JobIs(canvas.jobs[i]) /\ NewestFits(page, s, canvas.jobs[i])
               /\ MountFits(page, s, canvas.jobs[i]) /\ SettledFits(s, canvas.jobs[i])
    <3>1. /\ JobIs(canvas.jobs[i]) /\ NewestFits(page, canvas, canvas.jobs[i])
          /\ ~Selecting(canvas.jobs[i])
      BY <1>1, InvIs, IdleSelects
    <3> QED BY <1>1, <1>3, <3>1, NoneIs DEF NewestFits, MountFits, SettledFits, JobIs
  <2> QED BY <1>1, <1>3, <2>1, InvIs DEF Sound, JobsOK
<1>5. Asks(job) /\ job.doc = Root /\ Root \notin Dropped /\ Root \in Docs
  BY InvIs, NoneIs, NewJobIs, ViewerAssumption DEF NewJob
<1> HIDE DEF job
<1>6. Aimed(s, job.doc) /\ s.page # None
  BY <1>1, <1>3, NoneIs DEF Idle, Aimed
<1> DEFINE e == Activate(s, job)
<1>7. Sound(page, e) /\ e.page = Root
  BY <1>4, <1>5, <1>6, ActivateSound
<1>8. /\ DOMAIN e.jobs = 1 .. Len(s.jobs) + 1 /\ Len(s.jobs) \in Nat /\ DOMAIN s.jobs = 1 .. Len(s.jobs)
      /\ \A i \in DOMAIN s.jobs : Aged(e.jobs[i], s.jobs[i])
  <2>1. CanvasOK(s) /\ \A i \in DOMAIN s.jobs : JobIs(s.jobs[i])
    BY <1>4 DEF Sound, JobsOK
  <2>2. JobIs(job) /\ job.doc \in Docs /\ job.stage = "decided" /\ job.outcome = "ok"
    BY <1>5 DEF Asks
  <2> QED BY <2>1, <2>2, ActivateIs
<1> HIDE DEF e
<1>9. canvas' = e /\ page' = page /\ state' = "opening"
      /\ UNCHANGED <<toast, moves, opens, fails>>
  BY DEF EmbedReady, e, s, b, job
<1>10. \A i \in DOMAIN e.jobs : e.jobs[i].stage = "decided" => i = Len(s.jobs) + 1
  <2>1. ASSUME NEW i \in DOMAIN s.jobs PROVE e.jobs[i].stage # "decided"
    BY <1>3, <1>8, EmbedReady DEF EmbedReady, Busy, Aged
  <2> QED BY <1>8, <2>1
<1>11. LoneMount'
  BY <1>9, <1>10 DEF LoneMount, MountDue
<1> QED BY <1>1, <1>5, <1>7, <1>9, <1>11, NoneIs, InvIs, InvKept

(* A load ends; of the activations that waited for it only a poll is left. *)
LEMMA EndedIs ==
  ASSUME NEW p, NEW c, Sound(p, c), Idle(c), NEW v \in Views
  PROVE  LET e == [EachJob(c, LAMBDA j :
                             IF j.stage = "waits" /\ ViewOf(j.doc) = v /\ Alive(j)
                             THEN [j EXCEPT !.stage = "polls"] ELSE j)
                   EXCEPT !.tail[v] = "none", !.flying[v] = FALSE, !.sel[v] = None]
         IN  Sound(p, e) /\ NoMount(e) /\ e.page = c.page
<1> DEFINE f(j) == IF j.stage = "waits" /\ ViewOf(j.doc) = v /\ Alive(j)
                   THEN [j EXCEPT !.stage = "polls"] ELSE j
           s == [i \in DOMAIN c.jobs |-> f(c.jobs[i])]
           b == [c EXCEPT !.jobs = s]
           ts == [c.tail EXCEPT ![v] = "none"]
           fs == [c.flying EXCEPT ![v] = FALSE]
           ss == [c.sel EXCEPT ![v] = None]
           e == [b EXCEPT !.tail = ts, !.flying = fs, !.sel = ss]
<1>0. /\ c \in Canvas /\ c.jobs \in Seq(Job) /\ CanvasOK(c) /\ c.given = p.applied /\ PageOK(p)
      /\ c.tail \in [Views -> Loads] /\ c.flying \in [Views -> BOOLEAN]
      /\ c.sel \in [Views -> Refs \cup {None}]
      /\ \A i \in DOMAIN c.jobs : /\ JobIs(c.jobs[i]) /\ NewestFits(p, c, c.jobs[i])
                                  /\ MountFits(p, c, c.jobs[i])
  BY CanvasFields DEF Sound, CanvasOK, JobsOK
<1>1. ASSUME NEW j, JobIs(j)
      PROVE  /\ JobIs(f(j)) /\ f(j).doc = j.doc /\ f(j).newest = j.newest
             /\ f(j).outcome = j.outcome /\ f(j).ref = j.ref /\ f(j).kind = j.kind
             /\ f(j).project = j.project
             /\ f(j).registered = j.registered
             /\ f(j).stage = j.stage \/ (f(j).stage = "polls" /\ j.stage = "waits" /\ ViewOf(j.doc) = v)
  BY <1>1 DEF JobIs, Job
<1>2. EachJob(c, f) = b
  BY DEF EachJob
<1> HIDE DEF f
<1>3. s \in Seq(Job) /\ DOMAIN s = DOMAIN c.jobs
  BY <1>0, <1>1 DEF JobIs
<1>4. \A i \in DOMAIN c.jobs : s[i] = f(c.jobs[i])
  OBVIOUS
<1> HIDE DEF s
<1>5. /\ b \in Canvas /\ b.jobs = s /\ b.page = c.page /\ b.doc = c.doc
      /\ b.given = c.given /\ b.tail = c.tail /\ b.flying = c.flying /\ b.sel = c.sel
  BY <1>0, <1>3, WithJobs
<1>6. /\ ts \in [Views -> Loads] /\ fs \in [Views -> BOOLEAN] /\ ss \in [Views -> Refs \cup {None}]
      /\ fs[v] = FALSE /\ ts[v] = "none"
      /\ \A w \in Views : w # v => fs[w] = c.flying[w] /\ ts[w] = c.tail[w]
  BY <1>0 DEF Loads
<1> HIDE DEF b, ts, fs, ss
<1>7. /\ e \in Canvas /\ e.jobs = s /\ e.page = c.page /\ e.doc = c.doc
      /\ e.given = c.given /\ e.tail = ts /\ e.flying = fs
  BY <1>5, <1>6 DEF Canvas
<1>8. [EachJob(c, f) EXCEPT !.tail[v] = "none", !.flying[v] = FALSE, !.sel[v] = None] = e
  BY <1>2, <1>5 DEF ts, fs, ss
<1> HIDE DEF e
<1>9. CanvasOK(e)
  BY <1>0, <1>6, <1>7 DEF CanvasOK, Held
<1>10. ASSUME NEW i \in DOMAIN c.jobs
       PROVE  /\ JobIs(s[i]) /\ NewestFits(p, e, s[i]) /\ MountFits(p, e, s[i])
              /\ ~Selecting(s[i]) /\ ~MountDue(s[i])
  <2>1. /\ JobIs(c.jobs[i]) /\ NewestFits(p, c, c.jobs[i]) /\ MountFits(p, c, c.jobs[i])
        /\ ViewOf(c.jobs[i].doc) \in Views
    BY <1>0, ViewIs
  <2>2. ~Selecting(c.jobs[i]) /\ ~MountDue(c.jobs[i])
    BY IdleSelects DEF Idle, NoMount
  <2> DEFINE j == c.jobs[i]
             k == f(j)
  <2>3. s[i] = k
    BY <1>4
  <2>4. /\ JobIs(k) /\ k.doc = j.doc /\ k.newest = j.newest
        /\ k.outcome = j.outcome /\ k.ref = j.ref /\ k.kind = j.kind /\ k.project = j.project
        /\ k.registered = j.registered
        /\ k.stage = j.stage \/ (k.stage = "polls" /\ j.stage = "waits" /\ ViewOf(j.doc) = v)
    BY <1>1, <2>1
  <2> HIDE DEF j, k
  <2>5. NewestFits(p, e, k)
    BY <1>6, <1>7, <2>1, <2>4 DEF NewestFits, j
  <2>6. MountFits(p, e, k) /\ ~Selecting(k) /\ ~MountDue(k)
    BY <1>7, <2>1, <2>2, <2>4 DEF MountFits, Selecting, MountDue, j
  <2> QED BY <2>3, <2>4, <2>5, <2>6
<1>11. Sound(p, e) /\ NoMount(e)
  BY <1>0, <1>3, <1>7, <1>9, <1>10 DEF Sound, JobsOK, NoMount, SettledFits
<1> QED BY <1>7, <1>8, <1>11 DEF f

LEMMA LoadTailKeeps == ASSUME ViewerInv, NEW v \in Views, LoadTail(v) PROVE ViewerInv'
<1> DEFINE e == [EachJob(canvas, LAMBDA j :
                             IF j.stage = "waits" /\ ViewOf(j.doc) = v /\ Alive(j)
                             THEN [j EXCEPT !.stage = "polls"] ELSE j)
                   EXCEPT !.tail[v] = "none", !.flying[v] = FALSE, !.sel[v] = None]
           w == IF v = "board" THEN Apply(World(page, e)) ELSE World(page, e)
<1>1. page' = w.p /\ canvas' = w.c /\ UNCHANGED <<state, toast, moves, opens, fails>>
  BY DEF LoadTail
<1>2. Sound(page, e) /\ NoMount(e) /\ e.page = canvas.page
  <2>1. Sound(page, canvas) /\ Idle(canvas)
    BY NotBusy DEF ViewerInv, LoadTail
  <2> QED BY <2>1, EndedIs
<1> HIDE DEF e
<1>3. /\ Sound(w.p, w.c) /\ NoMount(w.c) /\ w.c.page = canvas.page
      /\ w.p.session = page.session /\ Wanted(w.p) = Wanted(page) /\ w.p.tab = page.tab
      /\ page.look = page.applied => w.p.look = w.p.applied
      /\ canvas.page # Board => w.p = page
  BY <1>2, ApplyIs DEF World, Wanted
<1> HIDE DEF w
<1>4. LoneMount' /\ Sound(page', canvas')
  BY <1>1, <1>3, LoneKept
<1>5. canvas'.page = canvas.page /\ page'.session = page.session
      /\ (canvas.page = None => page'.applied = page.applied)
  BY <1>1, <1>3, NoneIs
<1>6. state = "ready" => Fits(page', canvas')
  BY <1>1, <1>3 DEF ViewerInv, Fits
<1> QED BY <1>1, <1>4, <1>5, <1>6, InvIs, InvKept DEF ViewerInv

(* A watch given up: its load is no longer watched, and nothing else is    *)
(* changed.                                                                *)
LEMMA GivenUpIs ==
  ASSUME NEW c, CanvasOK(c), NEW j, JobIs(j)
  PROVE  LET e == GivenUp(c, j)
         IN  /\ CanvasOK(e) /\ e.page = c.page /\ e.doc = c.doc /\ e.given = c.given
             /\ e.jobs = c.jobs
             /\ \A w \in Views : e.flying[w] => c.flying[w]
             /\ j.stage = "waits" /\ Alive(j) /\ j.registered => ~e.flying[ViewOf(j.doc)]
<1> DEFINE v == ViewOf(j.doc)
           spent == j.stage = "waits" /\ Alive(j) /\ j.registered
           x == c.flying[v] /\ ~spent
           y == IF spent THEN "unwatched" ELSE c.tail[v]
           fs == [c.flying EXCEPT ![v] = x]
           ts == [c.tail EXCEPT ![v] = y]
           e == [c EXCEPT !.flying = fs, !.tail = ts]
<1>1. /\ c \in Canvas /\ v \in Views /\ c.flying \in [Views -> BOOLEAN] /\ c.tail \in [Views -> Loads]
      /\ \A w \in Views : c.flying[w] <=> c.tail[w] = "watched"
  BY ViewIs, CanvasFields DEF CanvasOK
<1>2. GivenUp(c, j) = e
  BY DEF GivenUp
<1>3. /\ x \in BOOLEAN /\ y \in Loads /\ (x <=> y = "watched") /\ (x => c.flying[v])
      /\ (spent => ~x)
  BY <1>1 DEF Loads
<1> HIDE DEF x, y, v, spent
<1>4. /\ fs \in [Views -> BOOLEAN] /\ ts \in [Views -> Loads] /\ fs[v] = x /\ ts[v] = y
      /\ \A w \in Views : w # v => fs[w] = c.flying[w] /\ ts[w] = c.tail[w]
  BY <1>1, <1>3
<1> HIDE DEF fs, ts
<1>5. /\ e \in Canvas /\ e.page = c.page /\ e.doc = c.doc /\ e.given = c.given
      /\ e.jobs = c.jobs /\ e.flying = fs /\ e.tail = ts
  BY <1>1, <1>4 DEF Canvas
<1> HIDE DEF e
<1>6. \A w \in Views : (e.flying[w] <=> e.tail[w] = "watched") /\ (e.flying[w] => c.flying[w])
  BY <1>1, <1>3, <1>4, <1>5
<1>7. spent => ~e.flying[v]
  BY <1>3, <1>4, <1>5
<1>8. CanvasOK(e)
  BY <1>5, <1>6 DEF CanvasOK, Held
<1> QED BY <1>2, <1>5, <1>6, <1>7, <1>8 DEF v, spent

(* A job that is through, or whose budget is spent.                        *)
LEMMA PollKeeps ==
  ASSUME ViewerInv, NEW i \in DOMAIN canvas.jobs, Poll(i) PROVE ViewerInv'
<1> DEFINE j == canvas.jobs[i]
           o == Outcome(j)
           k == [j EXCEPT !.stage = "decided", !.outcome = o]
           s == [canvas.jobs EXCEPT ![i] = k]
           g == GivenUp(canvas, j)
           b == [g EXCEPT !.jobs = s]
<1>0. canvas.jobs \in Seq(Job) /\ JobIs(j) /\ canvas \in Canvas /\ CanvasOK(canvas)
      /\ NewestFits(page, canvas, j) /\ MountFits(page, canvas, j)
      /\ canvas.given = page.applied /\ PageOK(page)
  BY InvIs
<1>1. Idle(canvas) /\ j.stage \in {"waits", "polls"} /\ j.doc \in Docs
  <2>1. j.stage # "decided" => j.doc # None /\ j.doc \in Docs
    BY <1>0 DEF JobIs, Job
  <2>2. ~Busy
    BY DEF Poll
  <2> QED BY <1>0, <2>1, <2>2, NotBusy DEF JobIs, Job, Busy
<1>g. /\ CanvasOK(g) /\ g.page = canvas.page /\ g.doc = canvas.doc /\ g.given = canvas.given
      /\ g.jobs = canvas.jobs
      /\ \A w \in Views : g.flying[w] => canvas.flying[w]
      /\ j.stage = "waits" /\ Alive(j) /\ j.registered => ~g.flying[ViewOf(j.doc)]
  BY <1>0, GivenUpIs
<1> HIDE DEF g
<1>2. o = "ok" => /\ canvas.page = j.doc /\ Held(canvas, j.doc)
                  /\ ~g.flying[ViewOf(j.doc)]
  <2>1. ViewOf(j.doc) \in Views
    BY ViewIs
  <2> QED BY <1>0, <1>1, <1>g, <2>1, NoneIs DEF Outcome, Alive, NewestFits, CanvasOK
<1>3. /\ JobIs(k) /\ k.doc = j.doc /\ k.stage = "decided" /\ k.outcome = o /\ k.ref = j.ref
      /\ k.kind = j.kind /\ k.project = j.project
  <2>1. o \in {"superseded", "ok", "failed"}
    BY DEF Outcome
  <2> HIDE DEF o
  <2> QED BY <1>0, <2>1 DEF JobIs, Job
<1>4. Settled(canvas, i) = b
  <2>1. [g EXCEPT !.jobs[i].stage = "decided", !.jobs[i].outcome = Outcome(canvas.jobs[i])]
          = [g EXCEPT !.jobs = [g.jobs EXCEPT ![i] = k]]
    BY <1>0, <1>g DEF Canvas, CanvasOK
  <2> QED BY <1>g, <2>1 DEF Settled, g
<1> HIDE DEF k, o
<1>5. /\ s \in Seq(Job) /\ DOMAIN s = DOMAIN canvas.jobs /\ s[i] = k
      /\ \A m \in DOMAIN canvas.jobs : m # i => s[m] = canvas.jobs[m]
  BY <1>0, <1>3 DEF JobIs
<1> HIDE DEF s
<1>6. /\ b \in Canvas /\ b.jobs = s /\ b.page = canvas.page
      /\ b.doc = canvas.doc /\ b.given = canvas.given /\ b.tail = g.tail
      /\ b.flying = g.flying
  BY <1>g, <1>5, WithJobs DEF CanvasOK
<1>7. \A w \in Views : b.flying[w] => canvas.flying[w]
  BY <1>g, <1>6
<1> HIDE DEF b
<1>8. canvas' = b /\ page' = page /\ UNCHANGED <<state, toast, moves, opens, fails>>
  BY <1>4 DEF Poll
<1>9. ASSUME NEW m \in DOMAIN s
      PROVE  /\ JobIs(s[m]) /\ NewestFits(page, b, s[m]) /\ MountFits(page, b, s[m])
             /\ SettledFits(b, s[m]) /\ (s[m].stage = "decided" => m = i)
  <2>1. CASE m = i
    <3>1. NewestFits(page, b, k) /\ MountFits(page, b, k)
      BY <1>0, <1>3, <1>6 DEF NewestFits, MountFits
    <3>2. SettledFits(b, k)
      BY <1>2, <1>3, <1>6 DEF SettledFits, Selecting, Held
    <3> QED BY <1>3, <1>5, <2>1, <3>1, <3>2
  <2>2. CASE m # i
    <3>1. /\ s[m] = canvas.jobs[m] /\ JobIs(s[m]) /\ NewestFits(page, canvas, s[m])
          /\ MountFits(page, canvas, s[m]) /\ SettledFits(canvas, s[m]) /\ s[m].stage # "decided"
      BY <1>5, <2>2, InvIs DEF Poll, Busy
    <3>2. ViewOf(s[m].doc) \in Views
      BY ViewIs
    <3> QED BY <1>6, <1>7, <3>1, <3>2 DEF NewestFits, MountFits, SettledFits, Selecting
  <2> QED BY <2>1, <2>2
<1>10. Sound(page', canvas')
  <2>1. CanvasOK(b)
    BY <1>6, <1>g DEF CanvasOK, Held
  <2> QED BY <1>0, <1>6, <1>8, <1>9, <2>1 DEF Sound, JobsOK
<1>11. LoneMount'
  <2>1. \A m \in DOMAIN canvas'.jobs : canvas'.jobs[m].stage = "decided" => m = i
    BY <1>6, <1>8, <1>9
  <2> QED BY <2>1 DEF LoneMount, MountDue
<1>12. state = "ready" => Fits(page', canvas')
  BY <1>6, <1>8 DEF ViewerInv, Fits
<1> QED BY <1>6, <1>8, <1>10, <1>11, <1>12, InvIs, InvKept DEF ViewerInv

(***************************************************************************)
(* What follows an activation.                                             *)
(***************************************************************************)

LEMMA RemoveAtIs ==
  ASSUME NEW S, NEW q \in Seq(S), NEW i \in 1 .. Len(q)
  PROVE  /\ RemoveAt(q, i) \in Seq(S)
         /\ \A m \in DOMAIN RemoveAt(q, i) : \E k \in DOMAIN q : k # i /\ RemoveAt(q, i)[m] = q[k]
<1> DEFINE n == Len(q)
           a == SubSeq(q, 1, i - 1)
           z == SubSeq(q, i + 1, n)
           s == a \o z
<1>1. n \in Nat /\ i \in 1 .. n /\ DOMAIN q = 1 .. n
  OBVIOUS
<1>2. /\ a \in Seq(S) /\ Len(a) = i - 1 /\ \A m \in 1 .. i - 1 : a[m] = q[m]
      /\ z \in Seq(S) /\ Len(z) = n - i /\ \A m \in 1 .. n - i : z[m] = q[m + i]
  OBVIOUS
<1>3. RemoveAt(q, i) = s
  BY DEF RemoveAt
<1> HIDE DEF a, z, n
<1>4. /\ s \in Seq(S) /\ Len(s) = n - 1 /\ DOMAIN s = 1 .. n - 1
      /\ \A m \in 1 .. n - 1 : s[m] = IF m <= i - 1 THEN a[m] ELSE z[m - (i - 1)]
  BY <1>1, <1>2
<1> HIDE DEF s
<1>5. ASSUME NEW m \in 1 .. n - 1 PROVE \E k \in DOMAIN q : k # i /\ s[m] = q[k]
  <2>1. CASE m <= i - 1
    <3>1. m \in DOMAIN q /\ m # i /\ m \in 1 .. i - 1
      BY <1>1, <2>1
    <3>2. s[m] = q[m]
      BY <1>2, <1>4, <2>1, <3>1
    <3> QED BY <3>1, <3>2
  <2>2. CASE m > i - 1
    <3>1. s[m] = z[m - (i - 1)] /\ m - (i - 1) \in 1 .. n - i
      BY <1>1, <1>4, <2>2
    <3>2. z[m - (i - 1)] = q[(m - (i - 1)) + i] /\ (m - (i - 1)) + i = m + 1
      BY <1>1, <1>2, <3>1
    <3>3. m + 1 \in DOMAIN q /\ m + 1 # i
      BY <1>1, <2>2
    <3>4. s[m] = q[m + 1]
      BY <3>1, <3>2
    <3> QED BY <3>3, <3>4
  <2> QED BY <1>1, <2>1, <2>2
<1> QED BY <1>3, <1>4, <1>5

(* A job that is through leaves the others; a mount leaves nothing decided.*)
LEMMA RestIs ==
  ASSUME ViewerInv, NEW i \in DOMAIN canvas.jobs, canvas.jobs[i].stage = "decided"
  PROVE  LET e == [canvas EXCEPT !.jobs = RemoveAt(@, i)]
         IN  /\ Sound(page, e) /\ NoMount(e) /\ e.page = canvas.page
             /\ canvas.jobs[i].kind = "mount" => Idle(e)
<1> DEFINE s == RemoveAt(canvas.jobs, i)
           e == [canvas EXCEPT !.jobs = s]
<1>4. /\ s \in Seq(Job)
      /\ \A m \in DOMAIN s : \E k \in DOMAIN canvas.jobs : k # i /\ s[m] = canvas.jobs[k]
  BY InvIs, RemoveAtIs
<1> HIDE DEF s
<1>5. /\ e \in Canvas /\ e.jobs = s /\ e.page = canvas.page
      /\ e.doc = canvas.doc /\ e.tail = canvas.tail /\ e.flying = canvas.flying
      /\ e.given = canvas.given
  BY <1>4, InvIs, WithJobs
<1> HIDE DEF e
<1>6. CanvasOK(e)
  BY <1>5, InvIs DEF CanvasOK, Held
<1>7. ASSUME NEW m \in DOMAIN s
      PROVE  /\ JobIs(s[m]) /\ NewestFits(page, e, s[m]) /\ MountFits(page, e, s[m])
             /\ SettledFits(e, s[m]) /\ ~MountDue(s[m])
             /\ canvas.jobs[i].kind = "mount" => s[m].stage # "decided"
  <2>1. PICK k \in DOMAIN canvas.jobs : k # i /\ s[m] = canvas.jobs[k]
    BY <1>4
  <2>2. JobIs(s[m]) /\ NewestFits(page, e, s[m]) /\ MountFits(page, e, s[m]) /\ SettledFits(e, s[m])
    BY <1>5, <2>1, InvIs DEF NewestFits, MountFits, SettledFits, Held
  <2>3. ~MountDue(s[m]) /\ (canvas.jobs[i].kind = "mount" => s[m].stage # "decided")
    BY <2>1 DEF ViewerInv, LoneMount, MountDue
  <2> QED BY <2>2, <2>3
<1>8. Sound(page, e) /\ NoMount(e)
  BY <1>5, <1>6, <1>7, InvIs DEF Sound, JobsOK, NoMount
<1>9. canvas.jobs[i].kind = "mount" => Idle(e)
  BY <1>5, <1>7, <1>8 DEF Idle, Aimed, Selecting
<1>10. [canvas EXCEPT !.jobs = RemoveAt(@, i)] = e
  BY DEF e, s
<1> QED BY <1>5, <1>8, <1>9, <1>10

(* The panel is sent again to a board that was just drawn.                 *)
LEMMA RedrawnIs ==
  ASSUME ViewerInv, NEW i \in DOMAIN canvas.jobs, canvas.jobs[i].stage = "decided"
  PROVE  LET w == Redrawn(canvas.jobs[i], World(page, [canvas EXCEPT !.jobs = RemoveAt(@, i)]))
         IN  /\ Sound(w.p, w.c) /\ NoMount(w.c) /\ w.c.page = canvas.page
             /\ w.p.tab = page.tab /\ w.p.sheet = page.sheet /\ w.p.session = page.session
             /\ w.p.look = page.look /\ w.p.selected = page.selected /\ w.p.shown = page.shown
             /\ canvas.page # Board => w.p = page
             /\ state = "ready" => w.p.applied = page.applied
             /\ canvas.jobs[i].kind = "mount" => Idle(w.c)
<1> DEFINE e == [canvas EXCEPT !.jobs = RemoveAt(@, i)]
           a == Apply(World(page, e))
           w == Redrawn(canvas.jobs[i], World(page, e))
<1>1. Sound(page, e) /\ NoMount(e) /\ e.page = canvas.page
      /\ (canvas.jobs[i].kind = "mount" => Idle(e))
  BY RestIs
<1> HIDE DEF e
<1>2. /\ Sound(a.p, a.c) /\ NoMount(a.c) /\ a.c.page = canvas.page
      /\ a.p.tab = page.tab /\ a.p.sheet = page.sheet /\ a.p.session = page.session
      /\ a.p.look = page.look /\ a.p.selected = page.selected /\ a.p.shown = page.shown
      /\ canvas.page = Board => a.p.applied = page.look
      /\ canvas.page # Board => a.p = page
      /\ \A d : Aimed(e, d) => Aimed(a.c, d)
  BY <1>1, ApplyIs
<1>3. state = "ready" => a.p.applied = page.applied
  <2>1. ASSUME state = "ready", canvas.page = Board PROVE page.look = page.applied
    <3>1. Wanted(page) = Board /\ page.sheet \in Sheets \cup {None} /\ Board # None
      BY <2>1, InvIs, NoneIs DEF ViewerInv, Fits, Page
    <3>2. page.tab = "board"
      BY <3>1, ViewerAssumption DEF Wanted
    <3> QED BY <2>1, <3>2 DEF ViewerInv, Fits
  <2> QED BY <1>2, <2>1
<1>4. canvas.jobs[i].kind = "mount" => Idle(a.c)
  BY <1>1, <1>2 DEF Idle
<1>5. w = a \/ w = World(page, e)
  BY DEF Redrawn
<1> HIDE DEF a, w
<1> DEFINE G == /\ Sound(w.p, w.c) /\ NoMount(w.c) /\ w.c.page = canvas.page
                /\ w.p.tab = page.tab /\ w.p.sheet = page.sheet /\ w.p.session = page.session
                /\ w.p.look = page.look /\ w.p.selected = page.selected /\ w.p.shown = page.shown
                /\ canvas.page # Board => w.p = page
                /\ state = "ready" => w.p.applied = page.applied
                /\ canvas.jobs[i].kind = "mount" => Idle(w.c)
<1>6. CASE w = a
  <2>1. G
    BY <1>2, <1>3, <1>4, <1>6
  <2> QED BY <2>1 DEF w, e
<1>7. CASE w = World(page, e)
  <2>1. G
    BY <1>1, <1>7 DEF World
  <2> QED BY <2>1 DEF w, e
<1> QED BY <1>5, <1>6, <1>7

(* A part selected, and what the host is told of it.                       *)
LEMMA ChosenIs ==
  ASSUME NEW j, j.ref \in Refs \cup {None}, NEW p, NEW c, Sound(p, c)
  PROVE  LET z == Chosen(j, World(p, c))
         IN  /\ Sound(z.p, z.c) /\ z.c.page = c.page /\ (NoMount(c) => NoMount(z.c))
             /\ Near(z.p, p)
             /\ \/ z.p = p
                \/ z.p.selected # None /\ z.p.shown[ViewOf(c.page)] = z.p.selected
             /\ ~(Goes(j) /\ Has(c, j.ref)) => z.p = p
             /\ Goes(j) /\ Has(c, j.ref) => z.c.sel[ViewOf(c.page)] = j.ref
<1> DEFINE q == IF Has(c, j.ref) THEN Reported(p, c, j.ref) ELSE p
           e == Select(c, j.ref)
           z == Chosen(j, World(p, c))
<1>0. p \in Page /\ PageOK(p) /\ Near(p, p)
  BY DEF Sound, PageOK, Near
<1>1. CASE ~Goes(j)
  <2>1. z = World(p, c)
    BY <1>1 DEF Chosen
  <2> QED BY <1>0, <1>1, <2>1 DEF World
<1>2. CASE Goes(j)
  <2>1. z = World(q, e)
    BY <1>2 DEF Chosen, World
  <2>2. Near(q, p) /\ PageOK(q)
    BY <1>0, ReportedIs, NearIs
  <2>3. /\ Has(c, j.ref) => q.selected = j.ref /\ q.shown[ViewOf(c.page)] = j.ref /\ j.ref # None
        /\ ~Has(c, j.ref) => q = p
    BY <1>0, ReportedIs DEF Has
  <2>4. /\ Alike(e, c) /\ e.given = c.given
        /\ c.page # None /\ Has(c, j.ref) => e.sel[ViewOf(c.page)] = j.ref
    BY SelectIs
  <2>5. Has(c, j.ref) => c.page # None
    BY DEF Has
  <2> HIDE DEF q, e, z
  <2>6. Sound(q, e) /\ (NoMount(c) => NoMount(e)) /\ e.page = c.page
    BY <2>2, <2>4, AlikeSound DEF Near, Sound, Alike
  <2> QED BY <1>2, <2>1, <2>2, <2>3, <2>4, <2>5, <2>6 DEF World, z
<1> QED BY <1>1, <1>2

(* A commit has nothing to do when the page is the same but for what is    *)
(* selected, and the drawing on screen said so itself.                     *)
LEMMA NothingToDo ==
  ASSUME NEW p, NEW c, Commit(World(p, c)), page \in Page,
         state = "ready" =>
           /\ p.tab = page.tab /\ p.sheet = page.sheet /\ p.look = page.look
           /\ \/ p.selected = page.selected
              \/ p.selected # None /\ p.shown[View(page)] = p.selected
  PROVE  page' = p /\ canvas' = c
<1>1. CASE state # "ready"
  BY <1>1 DEF Commit, World
<1>2. CASE state = "ready"
  <2> DEFINE w == World(p, c)
  <2>0. w.p = p /\ w.c = c
    BY DEF World
  <2>1. HostEffect(page, w) = w
    BY <1>2, <2>0 DEF HostEffect, HostDeps, View
  <2>2. LookEffect(page, w) = w
    BY <1>2, <2>0 DEF LookEffect
  <2>3. SyncEffect(page, w) = w
    <3>1. CASE p.selected = page.selected \/ p.tab = "other"
      BY <1>2, <2>0, <3>1 DEF SyncEffect
    <3>2. CASE p.selected # page.selected /\ p.tab # "other"
      <4>1. p.selected # None /\ p.shown[p.tab] = p.selected
        BY <1>2, <3>2 DEF View, Page, Tabs, Views
      <4>2. Carry(w) = w
        BY <2>0, <4>1 DEF Carry
      <4> QED BY <4>2 DEF SyncEffect
    <3> QED BY <3>1, <3>2
  <2> HIDE DEF w
  <2>4. page' = w.p /\ canvas' = w.c
    BY <2>1, <2>2, <2>3 DEF Commit, w
  <2> QED BY <2>0, <2>4
<1> QED BY <1>1, <1>2

(* A mount that is through makes the canvas ready.                         *)
LEMMA ReadyIs ==
  ASSUME opens \in 1 .. MaxOpens, NEW p, NEW c, Sound(p, c), Idle(c), c.page # None, p.session
  PROVE  LET all == Ready(World(p, c))
         IN  Sound(all.p, all.c) /\ NoMount(all.c) /\ Fits(all.p, all.c)
<1> DEFINE e == Activate(c, NewJob("host", Wanted(p), None))
           h == World(p, e)
           a == IF p.tab = "board" THEN Apply(h) ELSE h
           all == Ready(World(p, c))
<1>1. /\ p \in Page /\ Wanted(p) \in Docs /\ Wanted(p) \notin Dropped
      /\ p.tab \in {"board", "schematic", "other"}
  BY ViewIs, WantedKept DEF Sound, PageOK, Page, Tabs, Views
<1>2. Sound(p, e) /\ NoMount(e) /\ e.page = Wanted(p) /\ \A x : Aimed(e, x)
  BY <1>1, HostIs DEF Idle
<1>3. all = IF p.tab = "other" THEN a ELSE Carry(a)
  BY DEF Ready, World
<1> HIDE DEF e, all
<1>4. /\ Sound(a.p, a.c) /\ NoMount(a.c) /\ a.c.page = Wanted(a.p) /\ \A x : Aimed(a.c, x)
      /\ a.p.session /\ a.p.tab = p.tab
      /\ a.p.tab = "board" => a.p.look = a.p.applied
  <2>1. CASE p.tab # "board"
    BY <1>2, <2>1 DEF World
  <2>2. CASE p.tab = "board"
    <3> DEFINE y == Apply(h)
    <3>1. /\ Sound(y.p, y.c) /\ NoMount(y.c) /\ y.c.page = e.page /\ \A x : Aimed(y.c, x)
          /\ y.p.tab = p.tab /\ y.p.sheet = p.sheet /\ y.p.session = p.session
          /\ y.p.look = p.look
          /\ e.page = Board => y.p.applied = p.look
      BY <1>2, ApplyIs
    <3>2. a = y
      BY <2>2
    <3> HIDE DEF y, a
    <3>3. Wanted(p) = Board /\ Wanted(y.p) = Board
      BY <2>2, <3>1 DEF Wanted
    <3> QED BY <1>2, <3>1, <3>2, <3>3
  <2> QED BY <2>1, <2>2
<1>5. a = World(a.p, a.c)
  BY DEF Apply, World
<1> HIDE DEF a
<1>6. CASE p.tab = "other"
  BY <1>3, <1>4, <1>6 DEF Fits, all
<1>7. CASE p.tab # "other"
  <2> DEFINE y == Carry(World(a.p, a.c))
  <2>1. a.p.tab \in Views /\ Aims(a.p, a.c)
    BY <1>1, <1>4, <1>7 DEF Views, Aims
  <2>2. /\ Sound(y.p, y.c) /\ NoMount(y.c) /\ y.c.page = Wanted(y.p)
        /\ y.p.session = a.p.session /\ y.p.tab = a.p.tab /\ y.p.look = a.p.look
        /\ y.p.applied = a.p.applied
    BY <1>4, <2>1, CarryIs
  <2>3. all = y
    BY <1>3, <1>5, <1>7
  <2> HIDE DEF y
  <2>4. Sound(all.p, all.c) /\ NoMount(all.c) /\ Fits(all.p, all.c)
    BY <1>4, <2>2, <2>3 DEF Fits
  <2> QED BY <2>4 DEF all
<1> QED BY <1>6, <1>7

(* A focus or an outline that is through: the part is selected where its   *)
(* drawing is on screen, and the page follows without another effect.      *)
LEMMA AnsweredIs ==
  ASSUME ViewerInv, NEW i \in DOMAIN canvas.jobs, canvas.jobs[i].stage = "decided",
         NEW z, z = Chosen(canvas.jobs[i],
                           Redrawn(canvas.jobs[i],
                                   World(page, [canvas EXCEPT !.jobs = RemoveAt(@, i)]))),
         NEW q, q = z.p \/ q = Honest(canvas.jobs[i], z.p), Commit(World(q, z.c))
  PROVE  /\ Sound(page', canvas') /\ NoMount(canvas') /\ canvas'.page = canvas.page
         /\ page'.session = page.session
         /\ canvas.page = None => page'.applied = page.applied
         /\ state = "ready" => Fits(page', canvas')
         /\ state = "ready" => View(page') = View(page)
         /\ canvas' = z.c
<1> DEFINE j == canvas.jobs[i]
           w == Redrawn(j, World(page, [canvas EXCEPT !.jobs = RemoveAt(@, i)]))
<1>1. /\ Sound(w.p, w.c) /\ NoMount(w.c) /\ w.c.page = canvas.page
      /\ w.p.tab = page.tab /\ w.p.sheet = page.sheet /\ w.p.session = page.session
      /\ w.p.look = page.look /\ w.p.selected = page.selected /\ w.p.shown = page.shown
      /\ canvas.page # Board => w.p = page
      /\ state = "ready" => w.p.applied = page.applied
  BY RedrawnIs
<1>2. w = World(w.p, w.c)
  BY DEF Redrawn, Apply, World
<1>3. j.ref \in Refs \cup {None} /\ j.on \in Views
  BY InvIs DEF JobIs, Job
<1> HIDE DEF w
<1>4. /\ Sound(z.p, z.c) /\ z.c.page = canvas.page /\ NoMount(z.c)
      /\ Near(z.p, w.p)
      /\ \/ z.p = w.p
         \/ z.p.selected # None /\ z.p.shown[ViewOf(canvas.page)] = z.p.selected
      /\ ~(Goes(j) /\ Has(w.c, j.ref)) => z.p = w.p
  <2>1. z = Chosen(j, World(w.p, w.c))
    BY <1>2 DEF w
  <2> QED BY <1>1, <1>3, <2>1, ChosenIs
<1>5. /\ Sound(q, z.c) /\ Near(q, w.p)
      /\ \/ q.selected = page.selected
         \/ q.selected # None /\ q.shown[ViewOf(canvas.page)] = q.selected
  <2>1. CASE q = z.p
    BY <1>1, <1>4, <2>1
  <2>2. CASE q # z.p
    <3> DEFINE s == [z.p.shown EXCEPT ![j.on] = None]
               n == [z.p EXCEPT !.shown = s]
    <3>1. q = n /\ Result(j) = "not-found"
      BY <2>2 DEF Honest
    <3>2. ~(Goes(j) /\ Has(w.c, j.ref))
      <4>1. Has(w.c, j.ref) <=> Has(canvas, j.ref)
        BY <1>1 DEF Has
      <4>2. ~(Goes(j) /\ Has(canvas, j.ref))
        BY <3>1 DEF Result, Goes
      <4> QED BY <4>1, <4>2
    <3>3. z.p = w.p /\ z.p \in Page
      BY <1>4, <3>2 DEF Near
    <3>4. s \in [Views -> Refs \cup {None}]
      BY <1>3, <3>3 DEF Page
    <3> HIDE DEF s
    <3>5. Near(n, z.p) /\ n.selected = z.p.selected
      BY <3>3, <3>4 DEF Near, Page
    <3> HIDE DEF n
    <3>6. Sound(n, z.c)
      <4>1. PageOK(n)
        BY <1>4, <3>5, NearIs DEF Sound
      <4> QED BY <1>4, <3>5, <4>1 DEF Sound, JobsOK, NewestFits, MountFits, Near
    <3> QED BY <1>1, <3>1, <3>3, <3>5, <3>6
  <2> QED BY <2>1, <2>2
<1>6. page \in Page /\ (state = "ready" => View(page) = ViewOf(canvas.page))
  BY InvIs, ViewIs DEF ViewerInv, Fits
<1>7. page' = q /\ canvas' = z.c
  BY <1>1, <1>5, <1>6, NothingToDo DEF Near
<1>8. q.session = page.session /\ q.tab = page.tab /\ q.sheet = page.sheet /\ q.look = page.look
      /\ (canvas.page = None => q.applied = page.applied)
      /\ (state = "ready" => q.applied = page.applied)
  BY <1>1, <1>5, NoneIs DEF Near
<1>9. state = "ready" => Fits(q, z.c) /\ View(q) = View(page)
  BY <1>4, <1>8 DEF ViewerInv, Fits, Wanted, View
<1> QED BY <1>4, <1>5, <1>7, <1>8, <1>9

LEMMA FinishKeeps ==
  ASSUME ViewerInv, NEW i \in DOMAIN canvas.jobs, Finish(i) PROVE ViewerInv'
<1> DEFINE j == canvas.jobs[i]
           w == Redrawn(j, World(page, [canvas EXCEPT !.jobs = RemoveAt(@, i)]))
           z == Chosen(j, w)
<1>0. /\ j.stage = "decided" /\ UNCHANGED <<moves, opens, fails>> /\ JobIs(j)
      /\ j.ref \in Refs \cup {None} /\ j.kind \in {"mount", "host", "focus", "outline"}
  BY InvIs DEF Finish, JobIs, Job
<1>1. /\ Sound(w.p, w.c) /\ NoMount(w.c) /\ w.c.page = canvas.page
      /\ w.p.tab = page.tab /\ w.p.sheet = page.sheet /\ w.p.session = page.session
      /\ w.p.look = page.look
      /\ canvas.page # Board => w.p = page
      /\ state = "ready" => w.p.applied = page.applied
      /\ j.kind = "mount" => Idle(w.c)
  BY <1>0, RedrawnIs
<1>2. w = World(w.p, w.c)
  BY DEF Redrawn, Apply, World
<1>3. CASE j.kind = "mount" /\ Alive(j)
  <2> DEFINE all == Ready(World(w.p, w.c))
  <2>1. canvas.page # None /\ page.session
    BY <1>3, InvIs DEF Alive, MountFits
  <2>2. page' = all.p /\ canvas' = all.c /\ state' = "ready" /\ toast' = toast
    <3>1. LET a == Ready(w) IN page' = a.p /\ canvas' = a.c /\ state' = "ready" /\ toast' = toast
      BY <1>3 DEF Finish
    <3> HIDE DEF w
    <3> QED BY <1>2, <3>1
  <2> HIDE DEF w
  <2>3. Sound(all.p, all.c) /\ NoMount(all.c) /\ Fits(all.p, all.c)
    BY <1>1, <1>3, <2>1, InvIs, ReadyIs
  <2> HIDE DEF all
  <2> QED BY <1>0, <2>2, <2>3, InvIs, LoneKept, InvKept
<1>4. CASE j.kind = "host" \/ (j.kind = "mount" /\ ~Alive(j))
  <2>1. page' = w.p /\ canvas' = w.c /\ UNCHANGED <<state, toast>>
    BY <1>4 DEF Finish
  <2> HIDE DEF w
  <2>2. state = "ready" => Fits(w.p, w.c)
    BY <1>1 DEF ViewerInv, Fits, Wanted
  <2>3. canvas.page = None => w.p.applied = page.applied
    BY <1>1, NoneIs
  <2> QED BY <1>0, <1>1, <2>1, <2>2, <2>3, InvIs, LoneKept, InvKept DEF ViewerInv
<1>5. ASSUME NEW q, q = z.p \/ q = Honest(j, z.p), Commit(World(q, z.c)), state' = state,
             toast' \in Toast \cup {None}
      PROVE  ViewerInv'
  <2>1. /\ Sound(page', canvas') /\ NoMount(canvas') /\ canvas'.page = canvas.page
        /\ page'.session = page.session
        /\ canvas.page = None => page'.applied = page.applied
        /\ state = "ready" => Fits(page', canvas')
    BY <1>0, <1>5, AnsweredIs
  <2> HIDE DEF w, z
  <2> QED BY <1>0, <1>5, <2>1, InvIs, LoneKept, InvKept DEF ViewerInv
<1>6. z = World(z.p, z.c)
  <2> HIDE DEF w
  <2> QED BY <1>2 DEF Chosen, World
<1>7. CASE j.kind = "focus"
  <2>1. Commit(z) /\ state' = state
    BY <1>7 DEF Finish
  <2>2. toast' \in Toast \cup {None}
    <3>1. Result(j) \in {"focused", "not-found", "unsupported", "superseded"}
      BY DEF Result
    <3>2. \/ toast' = toast
          \/ Result(j) # "superseded" /\ toast' = [ref |-> j.ref, says |-> Result(j)]
      BY <1>7 DEF Finish, Says
    <3> QED BY <1>0, <3>1, <3>2, InvIs DEF Toast
  <2> HIDE DEF z, w
  <2> QED BY <1>5, <1>6, <2>1, <2>2
<1>8. CASE j.kind = "outline"
  <2>1. Commit(World(Honest(j, z.p), z.c)) /\ state' = state /\ toast' = toast
    BY <1>8 DEF Finish
  <2> HIDE DEF z, w
  <2> QED BY <1>5, <2>1, InvIs
<1> QED BY <1>0, <1>3, <1>4, <1>7, <1>8

(***************************************************************************)
(* Theorems.                                                               *)
(***************************************************************************)
LEMMA InitInv == ASSUME Init PROVE ViewerInv
<1>1. /\ CanvasOK(NoCanvas) /\ NoCanvas.jobs = <<>> /\ NoCanvas.page = None /\ NoCanvas.given = Plain
  BY BareIs
<1>2. PageOK(FreshPage) /\ FreshPage.applied = Plain
  BY FreshPageIs
<1> QED BY <1>1, <1>2, ViewerAssumption DEF Init, ViewerInv, Sound, JobsOK, LoneMount

LEMMA UnchangedKeeps ==
  ASSUME ViewerInv, UNCHANGED <<page, canvas, opens, fails, moves>>, toast' \in Toast \cup {None},
         state' = state \/ {state, state'} \subseteq {"loading", "failed"}
  PROVE  ViewerInv'
<1>1. LoneMount'
  BY DEF ViewerInv, LoneMount
<1>2. Sound(page', canvas') /\ (state = "ready" => Fits(page', canvas'))
  BY DEF ViewerInv
<1> QED BY <1>1, <1>2, InvIs, InvKept DEF ViewerInv

LEMMA StepInv == ASSUME ViewerInv, [Next]_vars PROVE ViewerInv'
<1>1. CASE UNCHANGED vars
  BY <1>1, UnchangedKeeps, InvIs DEF vars
<1>2. CASE Gestures
  BY <1>2, GesturesKeep
<1>3. CASE OpenAnother
  BY <1>3, OpenAnotherKeeps
<1>4. ASSUME NEW r \in Refs \cup {None}, OpenProject(r) PROVE ViewerInv'
  BY <1>4, OpenProjectKeeps
<1>5. CASE TryAgain
  BY <1>5, UnchangedKeeps, InvIs DEF TryAgain
<1>6. CASE EmbedReady
  BY <1>6, EmbedReadyKeeps
<1>7. CASE MountFails
  <2>1. /\ UNCHANGED <<page, canvas, toast, moves, opens>> /\ state = "loading" /\ state' = "failed"
        /\ fails' \in 0 .. MaxFails
    BY <1>7, InvIs DEF MountFails
  <2>2. LoneMount'
    BY <2>1 DEF ViewerInv, LoneMount
  <2>3. Sound(page', canvas') /\ canvas'.page = None /\ page'.applied = Plain
    BY <2>1 DEF ViewerInv
  <2> QED BY <2>1, <2>2, <2>3, InvIs, InvKept
<1>8. ASSUME NEW v \in Views, LoadTail(v) PROVE ViewerInv'
  BY <1>8, LoadTailKeeps
<1>9. ASSUME NEW i \in DOMAIN canvas.jobs, Poll(i) PROVE ViewerInv'
  BY <1>9, PollKeeps
<1>10. ASSUME NEW i \in DOMAIN canvas.jobs, Finish(i) PROVE ViewerInv'
  BY <1>10, FinishKeeps
<1>11. CASE FocusOwed
  <2> DEFINE q == [page EXCEPT !.pending = None]
  <2>1. ~Busy /\ page.pending # None /\ state = "ready" /\ Focus(q, page.pending)
        /\ UNCHANGED <<state, moves, opens, fails>>
    BY <1>11 DEF FocusOwed, Owed
  <2>2. PageOK(q) /\ q.session = page.session /\ q.applied = page.applied /\ page.pending \in Refs
    BY <2>1, InvIs DEF PageOK, Page
  <2>3. page.session
    BY <2>1 DEF ViewerInv, Fits
  <2> HIDE DEF q
  <2> QED BY <2>1, <2>2, <2>3, InvIs, FocusKeeps
<1>12. CASE ToastFades
  BY <1>12, UnchangedKeeps DEF ToastFades
<1> QED BY <1>1, <1>2, <1>3, <1>4, <1>5, <1>6, <1>7, <1>8, <1>9, <1>10, <1>11, <1>12
        DEF Next, Reader, System, Gestures

(* The invariant holds in every reachable state.                            *)
LEMMA Inductive == Spec => []ViewerInv
<1>1. Init => ViewerInv
  BY InitInv
<1>2. ViewerInv /\ [Next]_vars => ViewerInv'
  BY StepInv
<1> QED BY <1>1, <1>2, PTL DEF Spec

(* The page, the canvas and its jobs keep their types, and a watched load  *)
(* is one that has not ended, whatever the gestures and the failures.      *)
THEOREM ViewerTypes == Spec => []TypeOK
<1>1. ViewerInv => TypeOK
  BY DEF ViewerInv, Sound, PageOK, CanvasOK, TypeOK
<1> QED BY <1>1, Inductive, PTL

(* Once no activation is under way the page on screen is the one the tab    *)
(* and the sheet list name (DesignCanvas, kicanvasController).              *)
THEOREM ViewerShowsOneDrawing == Spec => []OneDrawing
<1>1. ViewerInv => OneDrawing
  BY DEF ViewerInv, Quiet, Fits, OneDrawing
<1> QED BY <1>1, Inductive, PTL

(* No part is selected under a load an activation still waits for, whose   *)
(* end would clear the selection (kicanvasController); a load that outlived *)
(* the budget of a wait for it, and the embed's own, are not waited for.   *)
THEOREM ViewerSelectsSettled == Spec => []SelectsSettled
<1>1. ViewerInv => SelectsSettled
  <2> SUFFICES ASSUME ViewerInv, NEW i \in DOMAIN canvas.jobs,
                      canvas.jobs[i].stage = "decided", canvas.jobs[i].outcome = "ok",
                      canvas.jobs[i].ref # None
               PROVE  canvas.tail[ViewOf(canvas.jobs[i].doc)] # "watched"
    BY DEF SelectsSettled
  <2>1. SettledFits(canvas, canvas.jobs[i]) /\ CanvasOK(canvas)
        /\ ViewOf(canvas.jobs[i].doc) \in Views
    BY InvIs, ViewIs
  <2> QED BY <2>1 DEF SettledFits, Selecting, CanvasOK
<1> QED BY <1>1, Inductive, PTL

(* The board on screen is drawn as the panel says, also when the panel     *)
(* changed while another view was up (boardView, applyToCanvas).           *)
THEOREM ViewerBoardFollowsPanel == Spec => []BoardFollowsPanel
<1>1. ViewerInv => BoardFollowsPanel
  BY InvIs DEF ViewerInv, Fits, Quiet, BoardFollowsPanel
<1> QED BY <1>1, Inductive, PTL

(* What an answer can say, and where it comes from.                        *)
LEMMA SaysIs ==
  ASSUME ViewerInv, [Next]_vars
  PROVE  \/ toast' = toast \/ toast' = None \/ toast'.says = "dropped"
         \/ \E i \in DOMAIN canvas.jobs : Finish(i) /\ canvas.jobs[i].kind = "focus"
<1>1. ASSUME NEW p, NEW r, Focus(p, r) PROVE toast' = toast \/ toast'.says = "dropped"
  BY <1>1 DEF Focus, Says
<1>0. page.tab \in {"schematic", "board", "other"} /\ Tabs = {"schematic", "board", "other"}
  BY InvIs DEF Page, Tabs, Views
<1>2. CASE Gestures
  <2>1. ASSUME NEW t \in Tabs, ChooseTab(t) \/ ShowOn(t) PROVE toast' = toast \/ toast'.says = "dropped"
    <3>1. CASE t = "schematic"
      BY <1>1, <2>1, <3>1 DEF ChooseTab, ShowOn
    <3>2. CASE t = "board"
      BY <2>1, <3>2 DEF ChooseTab, ShowOn
    <3>3. CASE t = "other"
      BY <2>1, <3>3 DEF ChooseTab, ShowOn
    <3> QED BY <1>0, <3>1, <3>2, <3>3
  <2>2. ASSUME NEW r \in Refs, Search(r) PROVE toast' = toast \/ toast'.says = "dropped"
    <3>1. CASE page.tab = "schematic"
      BY <1>1, <2>2, <3>1 DEF Search
    <3>2. CASE page.tab = "board"
      BY <2>2, <3>2 DEF Search, FocusBoard
    <3>3. CASE page.tab = "other"
      BY <2>2, <3>3 DEF Search
    <3> QED BY <1>0, <3>1, <3>2, <3>3
  <2>3. ASSUME NEW r \in Refs, ClickChip(r) \/ FollowLink(r)
        PROVE  toast' = toast \/ toast'.says = "dropped"
    BY <1>1, <2>3 DEF ClickChip, FollowLink
  <2>4. ASSUME NEW d \in Sheets, ChooseSheet(d) PROVE toast' = toast \/ toast'.says = "dropped"
    BY <2>4 DEF ChooseSheet, Says
  <2>5. ASSUME NEW r \in Refs \cup {None}, ClickPart(r) \/ Pick(r) PROVE toast' = toast
    BY <2>5 DEF ClickPart, Pick
  <2>6. ASSUME Escape \/ (\E l \in Looks : SetLook(l)) PROVE toast' = toast
    BY <2>6 DEF Escape, SetLook
  <2> QED BY <1>2, <2>1, <2>2, <2>3, <2>4, <2>5, <2>6 DEF Gestures
<1>3. CASE OpenAnother \/ (\E r \in Refs \cup {None} : OpenProject(r)) \/ TryAgain
  BY <1>3 DEF OpenAnother, OpenProject, TryAgain
<1>4. CASE System
  <2>1. ASSUME NEW i \in DOMAIN canvas.jobs, Finish(i)
        PROVE  toast' = toast \/ canvas.jobs[i].kind = "focus"
    <3>1. canvas.jobs[i].kind \in {"mount", "host", "focus", "outline"}
      BY InvIs DEF JobIs, Job
    <3>2. CASE canvas.jobs[i].kind = "mount"
      BY <2>1, <3>2 DEF Finish
    <3>3. CASE canvas.jobs[i].kind = "host"
      BY <2>1, <3>3 DEF Finish
    <3>4. CASE canvas.jobs[i].kind = "outline"
      BY <2>1, <3>4 DEF Finish
    <3> QED BY <3>1, <3>2, <3>3, <3>4
  <2>2. ASSUME ~(\E i \in DOMAIN canvas.jobs : Finish(i)), ~FocusOwed
        PROVE  toast' = toast \/ toast' = None
    BY <1>4, <2>2 DEF System, EmbedReady, MountFails, LoadTail, Poll, ToastFades
  <2>3. ASSUME FocusOwed PROVE toast' = toast \/ toast'.says = "dropped"
    BY <1>1, <2>3 DEF FocusOwed
  <2> QED BY <2>1, <2>2, <2>3
<1>5. CASE UNCHANGED vars
  BY <1>5 DEF vars
<1> QED BY <1>2, <1>3, <1>4, <1>5 DEF Next, Reader, Gestures

LEMMA FocusedIs ==
  ASSUME ViewerInv, NEW i \in DOMAIN canvas.jobs, Finish(i), canvas.jobs[i].kind = "focus",
         toast' # toast, toast'.says = "focused", state = "ready", SheetOf[toast'.ref] # None
  PROVE  canvas'.sel[View(page')] = toast'.ref
<1> DEFINE j == canvas.jobs[i]
           w == Redrawn(j, World(page, [canvas EXCEPT !.jobs = RemoveAt(@, i)]))
           z == Chosen(j, w)
<1>1. toast' = [ref |-> j.ref, says |-> Result(j)] /\ j.stage = "decided" /\ Commit(z)
  BY DEF Finish, Says
<1>2. j.outcome # "focused" /\ Result(j) = "focused" /\ j.ref \in Refs \cup {None}
  BY <1>1, InvIs DEF JobIs, Job
<1>3. Goes(j) /\ Has(canvas, j.ref)
  BY <1>2 DEF Result, Goes
<1>4. Sound(w.p, w.c) /\ w.c.page = canvas.page
  BY <1>1, RedrawnIs
<1>5. w = World(w.p, w.c)
  BY DEF Redrawn, Apply, World
<1>6. z = World(z.p, z.c)
  <2> HIDE DEF w
  <2> QED BY <1>5 DEF Chosen, World
<1>7. z.c.sel[ViewOf(canvas.page)] = j.ref
  <2> HIDE DEF w
  <2>1. Has(w.c, j.ref)
    BY <1>3, <1>4 DEF Has
  <2> DEFINE y == Chosen(j, World(w.p, w.c))
  <2>2. y.c.sel[ViewOf(w.c.page)] = j.ref
    BY <1>2, <1>3, <1>4, <2>1, ChosenIs
  <2>3. z = y
    BY <1>5
  <2> HIDE DEF y, z
  <2> QED BY <1>4, <2>2, <2>3
<1>8. canvas' = z.c /\ View(page') = View(page)
  <2>1. Commit(World(z.p, z.c))
    <3> HIDE DEF z
    <3> QED BY <1>1, <1>6
  <2> QED BY <1>1, <2>1, AnsweredIs
<1>9. View(page) = ViewOf(canvas.page)
  BY InvIs, ViewIs DEF ViewerInv, Fits
<1> HIDE DEF z, w
<1> QED BY <1>1, <1>7, <1>8, <1>9

(* "Focused r" is said of a part the parts list knows only when the        *)
(* drawing the reader looks at has it selected (the viewer's onFocused).   *)
THEOREM ViewerFocusedIsShown == Spec => FocusedIsShown
<1> DEFINE A == toast' # toast /\ toast' # None =>
                  (toast'.says = "focused" /\ state = "ready" /\ SheetOf[toast'.ref] # None
                     => canvas'.sel[View(page')] = toast'.ref)
<1>1. ViewerInv /\ [Next]_vars => [A]_vars
  BY SaysIs, FocusedIs
<1> QED BY <1>1, Inductive, PTL DEF Spec, FocusedIsShown
=============================================================================
