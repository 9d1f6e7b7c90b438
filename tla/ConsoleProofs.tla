--------------------------- MODULE ConsoleProofs ---------------------------
(***************************************************************************)
(* What a tab of the admin console shows and keeps, for every value of the *)
(* constants: what is stored is never newer than its stamp says, belongs   *)
(* to the person it is kept for, and never hides their own edit.           *)
(***************************************************************************)
EXTENDS AdminConsole, TLAPS

(***************************************************************************)
(* Types of the cache, and of what the requests carry.                     *)
(***************************************************************************)
Entries == Entry \cup {None}

(* An answer comes to a request that was sent, and a good one has data.    *)
Answers == \A t \in Tabs, k \in Keys : flight[t][k] # None =>
  /\ flight[t][k].stage # "answered" => flight[t][k].answer = None
  /\ flight[t][k].stage = "answered" =>
       flight[t][k].answer \in Answer /\ (flight[t][k].answer.code = 200
                                            => flight[t][k].answer.data \in Payload)

CacheInv ==
  /\ CacheTypeOK
  /\ gen \in [Users -> 0 .. MaxGen]
  /\ edit \in [Tabs -> Edit \cup {None}]
  /\ change \in [Tabs -> Change \cup {None}]
  /\ Answers

LEMMA VersionsAre == /\ \A v \in Versions : v \in Nat /\ v <= MaxWrites
                     /\ \A v \in Nat : v <= MaxWrites => v \in Versions
BY CacheAssumption DEF Versions

LEMMA LookupTypes ==
  ASSUME CacheTypeOK, NEW t \in Tabs
  PROVE  /\ Namespace \in Users \cup {None}
         /\ Owned(t) \in [Keys -> Entries]
         /\ \A k \in Keys : Lookup(t, k) \in Entries
<1>1. Namespace \in Users \cup {None}
  BY DEF CacheTypeOK, Namespace, Tokens
<1>2. Owned(t) \in [Keys -> Entries]
  BY DEF CacheTypeOK, Owned, NoEntries, Entries
<1>3. \A k \in Keys : Lookup(t, k) \in Entries
  BY <1>1, <1>2 DEF CacheTypeOK, Lookup, Entries
<1> QED BY <1>1, <1>2, <1>3

(* Updates of a request's record.                                          *)
LEMMA FlightUpdates ==
  ASSUME NEW f \in Flight, NEW v \in Versions \cup {None}, NEW b \in Tokens \cup {None},
         NEW a \in Answer
  PROVE  /\ [f EXCEPT !.current = FALSE] \in Flight
         /\ [f EXCEPT !.stage = "known", !.stamp = v] \in Flight
         /\ [f EXCEPT !.stage = "sent", !.stale = None, !.bearer = b] \in Flight
         /\ [f EXCEPT !.stage = "answered", !.bearer = None, !.answer = a] \in Flight
BY DEF Flight

LEMMA OutdatedIs ==
  ASSUME NEW f \in Flight \cup {None}
  PROVE  /\ Outdated(f) \in Flight \cup {None}
         /\ Outdated(f) # None => f # None
         /\ f # None => Outdated(f) = [f EXCEPT !.current = FALSE]
         /\ Outdated(f) # None => ~Outdated(f).current
BY DEF Outdated, Flight

(***************************************************************************)
(* What a step does to the cache.                                          *)
(***************************************************************************)
OnlyToken == UNCHANGED <<disk, ver, mem, owner, probed, probe, flight>>

Writes == /\ ver < MaxWrites /\ ver' = ver + 1
          /\ UNCHANGED <<token, disk, mem, owner, probed, probe, flight>>

CacheStep(t) ==
  \/ Forget(t) /\ UNCHANGED <<token, disk, ver>>
  \/ ClearPersisted(t) /\ token' = None /\ ver' = ver
  \/ \E k \in Keys : RunQuery(t, k) /\ Screen(t) = "console"
                    /\ UNCHANGED <<token, disk, ver, probed>>
  \/ \E k \in Keys : SendFetch(t, k)
  \/ \E k \in Keys : ServeFetch(t, k, AnswerOf(flight[t][k])) \/ ServeFetch(t, k, Failed)
  \/ \E k \in Keys : SettleUnchanged(t, k)
  \/ \E k \in Keys : SettleFetched(t, k)
  \/ \E k \in Keys : SettleFailed(t, k)
  \/ \E code \in {200, 401, 403, 500} : ServeProbe(t, code)
  \/ ProbeReturns(t)
  \/ Invalidate(t) /\ UNCHANGED <<token, ver>>
  \/ ProbeExpires(t)

Elsewhere == OnlyToken \/ Writes \/ \E k \in Keys : Age(k)

LEMMA CacheSteps ==
  ASSUME [Next]_vars PROVE Elsewhere \/ \E t \in Tabs : CacheStep(t)
<1>1. ASSUME NEW t \in Tabs, Step(t) PROVE Elsewhere \/ CacheStep(t)
  <2>1. ASSUME Reload(t) PROVE CacheStep(t)
    BY <2>1 DEF Reload, CacheStep
  <2>2. ASSUME BootSucceeds(t) \/ BootFails(t) \/ \E u \in Users : Login(t, u) PROVE OnlyToken
    BY <2>2 DEF BootSucceeds, BootFails, Login, OnlyToken, cacheVars
  <2>3. ASSUME Logout(t) PROVE CacheStep(t)
    BY <2>3 DEF Logout, CacheStep
  <2>4. ASSUME NEW a \in asks[t], AskReturns(t, a) PROVE OnlyToken
    BY <2>4 DEF AskReturns, OnlyToken
  <2>5. ASSUME NEW k \in Keys, Mount(t, k) PROVE CacheStep(t)
    BY <2>5 DEF Mount, CacheStep
  <2>6. ASSUME NEW k \in Keys, Fetch(t, k) PROVE CacheStep(t)
    BY <2>6 DEF Fetch, CacheStep
  <2>7. ASSUME NEW k \in Keys, Serve(t, k) PROVE CacheStep(t)
    BY <2>7 DEF Serve, CacheStep
  <2>8. ASSUME NEW k \in Keys, Settle(t, k) PROVE CacheStep(t)
    BY <2>8 DEF Settle, PageSettles, CacheStep
  <2>9. ASSUME Unmount(t) \/ SendEdit(t) \/ EditFails(t) \/ SendChange(t) \/ ApplyChange(t)
               \/ ChangeReturns(t) \/ ChangeFails(t)
        PROVE  OnlyToken
    BY <2>9 DEF Unmount, SendEdit, EditFails, SendChange, ApplyChange, ChangeReturns, ChangeFails,
      OnlyToken, cacheVars
  <2>10. ASSUME Check(t) PROVE CacheStep(t)
    <3>1. CASE ProbeReturns(t)
      BY <3>1 DEF CacheStep
    <3>2. CASE \E code \in {GateCode(probe[t].bearer), 500} : ServeProbe(t, code)
      <4>1. PICK code \in {GateCode(probe[t].bearer), 500} : ServeProbe(t, code)
        BY <3>2
      <4>2. code \in {200, 401, 403, 500}
        BY <4>1 DEF GateCode
      <4> QED BY <4>1, <4>2 DEF CacheStep
    <3> QED BY <2>10, <3>1, <3>2 DEF Check
  <2>11. ASSUME ApplyEdit(t) PROVE Writes
    BY <2>11 DEF ApplyEdit, Writes
  <2>12. ASSUME EditReturns(t) PROVE CacheStep(t)
    BY <2>12 DEF EditReturns, CacheStep
  <2> QED BY <1>1, <2>1, <2>2, <2>3, <2>4, <2>5, <2>6, <2>7, <2>8, <2>9, <2>10, <2>11, <2>12
          DEF Step, Elsewhere
<1>2. ASSUME \/ \E u \in MayReset : ForceReset(u)
             \/ \E u \in MayRetire : RetireSessions(u)
             \/ \E u \in Customers : Activate(u)
      PROVE  OnlyToken
  BY <1>2 DEF ForceReset, RetireSessions, Activate, OnlyToken, cacheVars
<1>3. ASSUME ForeignWrite PROVE Writes
  BY <1>3 DEF ForeignWrite, Writes
<1>4. ASSUME Passing PROVE Elsewhere \/ \E t \in Tabs : CacheStep(t)
  BY <1>4 DEF Passing, CacheStep, Elsewhere
<1>5. ASSUME UNCHANGED vars PROVE OnlyToken
  BY <1>5 DEF vars, cacheVars, OnlyToken
<1> QED BY <1>1, <1>2, <1>3, <1>4, <1>5 DEF Next, Elsewhere

(***************************************************************************)
(* The cache stays typed.                                                  *)
(***************************************************************************)
StoresOK ==
  /\ disk \in [Users -> [Keys -> Entries]]
  /\ ver \in Versions
  /\ mem \in [Tabs -> [Keys -> Entries]]
  /\ owner \in [Tabs -> Users \cup {None}]
  /\ probed \in [Tabs -> Versions \cup {None}]
  /\ probe \in [Tabs -> Probe \cup {None}]
  /\ flight \in [Tabs -> [Keys -> Flight \cup {None}]]

LEMMA StoresAre == CacheTypeOK <=> token \in Tokens \cup {None} /\ StoresOK
BY DEF CacheTypeOK, StoresOK, Entries

LEMMA ForgetOK ==
  ASSUME CacheInv, NEW t \in Tabs, Forget(t), UNCHANGED <<token, disk, ver>> PROVE StoresOK'
<1>1. NoEntries \in [Keys -> Entries] /\ NoFlights \in [Keys -> Flight \cup {None}]
  BY DEF NoEntries, NoFlights, Entries
<1> QED BY <1>1, StoresAre DEF CacheInv, StoresOK, Forget

LEMMA InvalidateOK ==
  ASSUME CacheInv, NEW t \in Tabs, NEW fl \in [Keys -> Flight \cup {None}], NEW S,
         InvalidateWith(t, fl, S), ver' = ver, owner' \in [Tabs -> Users \cup {None}]
  PROVE  StoresOK'
<1>0. StoresOK /\ NoEntries \in [Keys -> Entries]
  BY StoresAre DEF CacheInv, NoEntries, Entries
<1>1. [k \in Keys |-> Outdated(fl[k])] \in [Keys -> Flight \cup {None}]
  BY OutdatedIs
<1>2. probe' \in [Tabs -> Probe \cup {None}]
  <2>1. ASSUME NEW x \in Probe PROVE [x EXCEPT !.current = FALSE] \in Probe
    <3> DEFINE B == Tokens \cup {None}
               T == {None, 200, 401, 403, 500}
               U == Versions \cup {None}
    <3>1. Probe = [current : BOOLEAN, bearer : B, code : T, answer : U]
      BY DEF Probe
    <3> HIDE DEF B, T, U
    <3> QED BY <3>1
  <2> QED BY <1>0, <2>1 DEF InvalidateWith, StoresOK, Outdated
<1>3. /\ mem' \in [Tabs -> [Keys -> Entries]] /\ probed' \in [Tabs -> Versions \cup {None}]
      /\ flight' \in [Tabs -> [Keys -> Flight \cup {None}]]
  BY <1>0, <1>1 DEF InvalidateWith, StoresOK
<1>4. disk' \in [Users -> [Keys -> Entries]]
  BY <1>0 DEF InvalidateWith, StoresOK
<1> QED BY <1>0, <1>2, <1>3, <1>4 DEF StoresOK

LEMMA RunQueryOK ==
  ASSUME CacheInv, NEW t \in Tabs, NEW k \in Keys, RunQuery(t, k),
         UNCHANGED <<token, disk, ver, probed>>
  PROVE  StoresOK'
<1>0. StoresOK /\ CacheTypeOK
  BY StoresAre DEF CacheInv
<1>1. /\ Lookup(t, k) \in Entries /\ Owned(t) \in [Keys -> Entries]
      /\ Namespace \in Users \cup {None} /\ probed[t] \in Versions \cup {None}
  BY <1>0, LookupTypes DEF StoresOK
<1>2. mem' \in [Tabs -> [Keys -> Entries]] /\ owner' \in [Tabs -> Users \cup {None}]
  BY <1>0, <1>1 DEF RunQuery, Hydrate, StoresOK
<1>3. \A st \in {"probe", "known"}, v \in {None, probed[t]} :
        FlightOf(st, Lookup(t, k), v) \in Flight
  BY <1>1 DEF FlightOf, Flight, Entries
<1>4. flight' \in [Tabs -> [Keys -> Flight \cup {None}]]
  <2>1. ASSUME NEW f \in Flight, flight' = [flight EXCEPT ![t][k] = f]
        PROVE  flight' \in [Tabs -> [Keys -> Flight \cup {None}]]
    BY <1>0, <2>1 DEF StoresOK
  <2>2. flight' = flight \/ \E f \in Flight : flight' = [flight EXCEPT ![t][k] = f]
    BY <1>3 DEF RunQuery
  <2> QED BY <1>0, <2>1, <2>2 DEF StoresOK
<1>5. probe' \in [Tabs -> Probe \cup {None}]
  <2>1. token \in Tokens \cup {None}
    BY <1>0, StoresAre
  <2>2. [current |-> TRUE, bearer |-> token, code |-> None, answer |-> None] \in Probe
    BY <2>1 DEF Probe
  <2> QED BY <1>0, <2>2 DEF RunQuery, StartProbe, StoresOK
<1> QED BY <1>0, <1>2, <1>4, <1>5 DEF StoresOK

LEMMA AnswerTypes ==
  ASSUME CacheInv, NEW f \in Flight
  PROVE  /\ AnswerOf(f) \in Answer /\ Failed \in Answer /\ Failed.code # 200
         /\ AnswerOf(f).code = 200 => AnswerOf(f).data \in Payload
                                      /\ f.bearer # None /\ f.bearer \in Tokens
                                      /\ AnswerOf(f).data = [of |-> f.bearer.u, ver |-> ver]
<1>1. CodeFor(f.bearer) \in {200, 401, 403, 500}
  BY DEF CodeFor, GateCode
<1>2. CodeFor(f.bearer) = 200 => f.bearer # None
  BY DEF CodeFor, GateCode, Honoured
<1>3. f.bearer \in Tokens \cup {None} /\ ver \in Versions
  BY DEF Flight, CacheInv, CacheTypeOK
<1>4. CodeFor(f.bearer) = 200 => [of |-> f.bearer.u, ver |-> ver] \in Payload
  BY <1>2, <1>3 DEF Payload, Tokens
<1> QED BY <1>1, <1>2, <1>3, <1>4 DEF AnswerOf, Answer, Failed

(* One request of a tab becomes g, or is over.                             *)
OneFlight(t, k, g) ==
  /\ flight' \in [Tabs -> [Keys -> Flight \cup {None}]]
  /\ \A v \in Tabs, j \in Keys :
       flight'[v][j] = IF v = t /\ j = k THEN g ELSE flight[v][j]

LEMMA SendIs ==
  ASSUME CacheInv, NEW t \in Tabs, NEW k \in Keys, SendFetch(t, k)
  PROVE  /\ flight[t][k] \in Flight /\ flight[t][k].stage = "known"
         /\ OneFlight(t, k, [flight[t][k] EXCEPT !.stage = "sent", !.stale = None,
                                                 !.bearer = token])
         /\ UNCHANGED <<token, disk, ver, mem, owner, probed, probe>>
<1>0. /\ flight \in [Tabs -> [Keys -> Flight \cup {None}]] /\ token \in Tokens \cup {None}
  BY DEF CacheInv, CacheTypeOK
<1> DEFINE f == flight[t][k]
           g == [f EXCEPT !.stage = "sent", !.stale = None, !.bearer = token]
<1>1. f \in Flight /\ g \in Flight
  <2>1. f \in Flight
    BY <1>0 DEF SendFetch
  <2> QED BY <1>0, <2>1 DEF Flight
<1>2. flight' = [flight EXCEPT ![t] = [flight[t] EXCEPT ![k] = g]]
  BY <1>0 DEF SendFetch
<1>3. OneFlight(t, k, g)
  BY <1>0, <1>1, <1>2 DEF OneFlight
<1> QED BY <1>1, <1>3 DEF SendFetch

LEMMA ServeIs ==
  ASSUME CacheInv, NEW t \in Tabs, NEW k \in Keys, NEW a \in Answer, ServeFetch(t, k, a)
  PROVE  /\ flight[t][k] \in Flight /\ flight[t][k].stage = "sent"
         /\ OneFlight(t, k, [flight[t][k] EXCEPT !.stage = "answered", !.bearer = None,
                                                 !.answer = a])
         /\ UNCHANGED <<token, disk, ver, mem, owner, probed, probe>>
<1>0. /\ flight \in [Tabs -> [Keys -> Flight \cup {None}]]
  BY DEF CacheInv, CacheTypeOK
<1> DEFINE f == flight[t][k]
           g == [f EXCEPT !.stage = "answered", !.bearer = None, !.answer = a]
<1>1. f \in Flight /\ g \in Flight
  <2>1. f \in Flight
    BY <1>0 DEF ServeFetch
  <2> QED BY <1>0, <2>1 DEF Flight
<1>2. flight' = [flight EXCEPT ![t] = [flight[t] EXCEPT ![k] = g]]
  BY <1>0 DEF ServeFetch
<1>3. OneFlight(t, k, g)
  BY <1>0, <1>1, <1>2 DEF OneFlight
<1> QED BY <1>1, <1>3 DEF ServeFetch

(* The change check once it is answered, and the checks of all the tabs.   *)
Served(p, code, v) ==
  [p EXCEPT !.code = code, !.bearer = None, !.answer = IF code = 200 THEN v ELSE None]

ServedIn(p, t, code, v) ==
  [p EXCEPT ![t].code = code, ![t].bearer = None,
            ![t].answer = IF code = 200 THEN v ELSE None]

LEMMA ServedInIs ==
  ASSUME NEW p \in [Tabs -> Probe \cup {None}], NEW t \in Tabs, NEW code, NEW v
  PROVE  ServedIn(p, t, code, v) = [p EXCEPT ![t] = Served(p[t], code, v)]
BY DEF ServedIn, Served

LEMMA ServeProbeIs ==
  ASSUME CacheInv, NEW t \in Tabs, NEW code \in {200, 401, 403, 500}, ServeProbe(t, code)
  PROVE  probe' = [probe EXCEPT ![t] = Served(probe[t], code, ver)]
<1>1. probe \in [Tabs -> Probe \cup {None}]
  BY DEF CacheInv, CacheTypeOK
<1>2. probe' = ServedIn(probe, t, code, ver)
  BY DEF ServeProbe, ServedIn
<1> QED BY <1>1, <1>2, ServedInIs

LEMMA ServeProbeOK ==
  ASSUME CacheInv, NEW t \in Tabs, NEW code \in {200, 401, 403, 500}, ServeProbe(t, code)
  PROVE  /\ StoresOK' /\ UNCHANGED <<token, disk, ver, mem, owner, probed, flight>>
         /\ probe[t] # None /\ probe'[t].current = probe[t].current
         /\ probe'[t].answer \in {ver, None}
         /\ \A v \in Tabs \ {t} : probe'[v] = probe[v]
<1>0. StoresOK /\ probe \in [Tabs -> Probe \cup {None}] /\ ver \in Versions
  BY StoresAre DEF CacheInv, StoresOK
<1> DEFINE q == Served(probe[t], code, ver)
<1>1. q \in Probe /\ q.current = probe[t].current /\ q.answer \in {ver, None}
  <2> DEFINE S == Tokens \cup {None}
             T == {None, 200, 401, 403, 500}
             U == Versions \cup {None}
  <2>1. Probe = [current : BOOLEAN, bearer : S, code : T, answer : U]
    BY DEF Probe
  <2>2. probe[t] \in Probe
    BY <1>0 DEF ServeProbe
  <2>3. code \in T /\ None \in S /\ (IF code = 200 THEN ver ELSE None) \in U
    BY <1>0
  <2> HIDE DEF S, T, U
  <2> QED BY <2>1, <2>2, <2>3 DEF Served
<1>2. probe' = [probe EXCEPT ![t] = q]
  BY ServeProbeIs
<1>3. probe' \in [Tabs -> Probe \cup {None}] /\ probe'[t] = q
      /\ \A v \in Tabs \ {t} : probe'[v] = probe[v]
  <2> HIDE DEF q
  <2> QED BY <1>0, <1>1, <1>2
<1>4. StoresOK' /\ probe[t] # None
  BY <1>0, <1>3 DEF ServeProbe, StoresOK
<1> QED BY <1>1, <1>3, <1>4 DEF ServeProbe

(* The requests that waited for the change check.                          *)
Told(f, s) == [f EXCEPT !.stage = "known", !.stamp = s]

LEMMA ProbeReturnsOK ==
  ASSUME CacheInv, NEW t \in Tabs, ProbeReturns(t)
  PROVE  /\ StoresOK' /\ UNCHANGED <<disk, ver, mem, owner>>
         /\ probe[t] # None /\ probe[t] \in Probe
         /\ \A v \in Tabs : probe'[v] = IF v = t THEN None ELSE probe[v]
         /\ \A v \in Tabs : probed'[v] = probed[v] \/ (v = t /\ probed'[v] = probe[v].answer)
         /\ \A v \in Tabs, k \in Keys :
              flight'[v][k] = IF v = t /\ flight[v][k] # None /\ flight[v][k].stage = "probe"
                              THEN Told(flight[v][k], probe[v].answer)
                              ELSE flight[v][k]
<1>0. StoresOK
  BY StoresAre DEF CacheInv
<1>1. probe[t] \in Probe /\ probe[t].answer \in Versions \cup {None}
  <2>1. probe[t] \in Probe
    BY <1>0 DEF StoresOK, ProbeReturns
  <2> QED BY <2>1 DEF Probe
<1> DEFINE row == [k \in Keys |->
                    IF flight[t][k] # None /\ flight[t][k].stage = "probe"
                    THEN [flight[t][k] EXCEPT !.stage = "known", !.stamp = probe[t].answer]
                    ELSE flight[t][k]]
<1>2. row \in [Keys -> Flight \cup {None}]
  <2> SUFFICES ASSUME NEW k \in Keys, flight[t][k] # None
               PROVE  [flight[t][k] EXCEPT !.stage = "known", !.stamp = probe[t].answer] \in Flight
    BY <1>0 DEF StoresOK
  <2>1. flight[t][k] \in Flight
    BY <1>0 DEF StoresOK
  <2> QED BY <1>1, <2>1 DEF Flight
<1>3. flight' = [flight EXCEPT ![t] = row]
  BY DEF ProbeReturns
<1>4. probed' = [probed EXCEPT ![t] = IF probe[t].answer # None /\ probe[t].current
                                      THEN probe[t].answer ELSE @]
  BY DEF ProbeReturns
<1>5. StoresOK'
  <2>1. flight' \in [Tabs -> [Keys -> Flight \cup {None}]]
    BY <1>0, <1>2, <1>3 DEF StoresOK
  <2>2. probed' \in [Tabs -> Versions \cup {None}]
    BY <1>0, <1>1, <1>4 DEF StoresOK
  <2>3. probe' \in [Tabs -> Probe \cup {None}] /\ UNCHANGED <<disk, ver, mem, owner>>
    BY <1>0 DEF StoresOK, ProbeReturns
  <2> QED BY <1>0, <2>1, <2>2, <2>3 DEF StoresOK
<1>6. \A v \in Tabs : probe'[v] = IF v = t THEN None ELSE probe[v]
  BY <1>0 DEF StoresOK, ProbeReturns
<1>7. \A v \in Tabs : probed'[v] = probed[v] \/ (v = t /\ probed'[v] = probe[v].answer)
  BY <1>0, <1>4 DEF StoresOK
<1>8. \A v \in Tabs, k \in Keys :
        flight'[v][k] = IF v = t /\ flight[v][k] # None /\ flight[v][k].stage = "probe"
                        THEN Told(flight[v][k], probe[v].answer) ELSE flight[v][k]
  BY <1>0, <1>3 DEF StoresOK, Told
<1> QED BY <1>1, <1>5, <1>6, <1>7, <1>8 DEF ProbeReturns

(***************************************************************************)
(* Where an entry comes from.                                              *)
(***************************************************************************)
SameRead(e, f) == f # None /\ e.data = f.data /\ e.stamp = f.stamp

(* e is what the request for k in tab t settles with, and nothing has been *)
(* invalidated since it started.                                           *)
Settling(t, k, e) ==
  LET f == flight[t][k] IN
  /\ f # None /\ f.current
  /\ \/ SameRead(e, f.stale)
     \/ /\ f.stage = "answered" /\ f.answer.code = 200
        /\ e.data = f.answer.data /\ e.stamp = f.stamp

MemFrom(v, k) ==
  \/ mem'[v][k] = None
  \/ SameRead(mem'[v][k], mem[v][k]) /\ owner'[v] = owner[v]
  \/ /\ Screen(v) = "console" /\ owner'[v] = Namespace /\ Namespace # None
     /\ SameRead(mem'[v][k], disk[Namespace][k])
  \/ owner'[v] = Namespace /\ Settling(v, k, mem'[v][k])

DiskFrom(u, k) ==
  \/ disk'[u][k] = None
  \/ SameRead(disk'[u][k], disk[u][k])
  \/ u = Namespace /\ \E v \in Tabs : Settling(v, k, disk'[u][k])

GoesOn(f, g, v) ==
  \/ g = f
  \/ g = [f EXCEPT !.current = FALSE]
  \/ /\ f.stage = "probe" /\ probe[v] # None
     /\ g = Told(f, probe[v].answer)
  \/ f.stage = "known" /\ g = [f EXCEPT !.stage = "sent", !.stale = None, !.bearer = token]
  \/ f.stage = "sent" /\ \E a \in {AnswerOf(f), Failed} :
       g = [f EXCEPT !.stage = "answered", !.bearer = None, !.answer = a]

Begins(v, k, g) ==
  /\ Screen(v) = "console"
  /\ \E st \in {"probe", "known"}, s \in {None, probed[v]} : g = FlightOf(st, Lookup(v, k), s)

FlightFrom(v, k) ==
  \/ flight'[v][k] = None
  \/ flight[v][k] # None /\ GoesOn(flight[v][k], flight'[v][k], v)
  \/ Begins(v, k, flight'[v][k])

Provenance ==
  /\ StoresOK'
  /\ \A v \in Tabs, k \in Keys : MemFrom(v, k) /\ FlightFrom(v, k)
  /\ \A u \in Users, k \in Keys : DiskFrom(u, k)
  /\ \A v \in Tabs : \/ probed'[v] \in {None, probed[v]}
                     \/ probe[v] # None /\ probed'[v] = probe[v].answer
  /\ \A v \in Tabs : \/ probe'[v] = None \/ probe'[v].answer \in {None, ver}
                     \/ probe[v] # None /\ probe'[v].answer = probe[v].answer
  /\ ver \in Nat /\ ver' \in Nat /\ ver <= ver'

LEMMA StillStored ==
  ASSUME CacheInv, UNCHANGED <<mem, owner, disk>>
  PROVE  /\ \A v \in Tabs, k \in Keys : MemFrom(v, k)
         /\ \A u \in Users, k \in Keys : DiskFrom(u, k)
BY DEF MemFrom, DiskFrom, SameRead

LEMMA SameFlights ==
  ASSUME CacheInv, flight' = flight PROVE \A v \in Tabs, k \in Keys : FlightFrom(v, k)
BY DEF FlightFrom, GoesOn

LEMMA VersionGrows ==
  ASSUME CacheInv, ver' = ver PROVE ver \in Nat /\ ver' \in Nat /\ ver <= ver'
BY VersionsAre DEF CacheInv, CacheTypeOK

LEMMA OnlyTokenProvenance ==
  ASSUME CacheInv, OnlyToken PROVE Provenance
<1>1. StoresOK'
  BY StoresAre DEF CacheInv, StoresOK, OnlyToken
<1> QED BY <1>1, StillStored, SameFlights, VersionGrows DEF OnlyToken, Provenance

LEMMA WritesProvenance ==
  ASSUME CacheInv, Writes PROVE Provenance
<1>1. ver \in Nat /\ ver' \in Nat /\ ver <= ver' /\ ver' \in Versions
  BY VersionsAre, CacheAssumption DEF CacheInv, CacheTypeOK, Writes
<1>2. StoresOK'
  BY <1>1, StoresAre DEF CacheInv, StoresOK, Writes
<1> QED BY <1>1, <1>2, StillStored, SameFlights DEF Writes, Provenance

(* An entry that passes its age is the same read.                          *)
LEMMA OldIs ==
  ASSUME NEW e \in Entries
  PROVE  Old(e) \in Entries /\ (Old(e) = None \/ SameRead(Old(e), e))
BY DEF Old, Entries, Entry, SameRead

LEMMA AgeProvenance ==
  ASSUME CacheInv, NEW j \in Keys, Age(j) PROVE Provenance
<1>0. StoresOK
  BY StoresAre DEF CacheInv
<1>1. \A v \in Tabs, k \in Keys : mem'[v][k] = IF k = j THEN Old(mem[v][k]) ELSE mem[v][k]
  BY <1>0 DEF Age, StoresOK
<1>2. \A u \in Users, k \in Keys : disk'[u][k] = IF k = j THEN Old(disk[u][k]) ELSE disk[u][k]
  BY <1>0 DEF Age, StoresOK
<1>3. mem' \in [Tabs -> [Keys -> Entries]] /\ disk' \in [Users -> [Keys -> Entries]]
  <2>1. \A v \in Tabs : [mem[v] EXCEPT ![j] = Old(@)] \in [Keys -> Entries]
    BY <1>0, OldIs DEF StoresOK
  <2>2. \A u \in Users : [disk[u] EXCEPT ![j] = Old(@)] \in [Keys -> Entries]
    BY <1>0, OldIs DEF StoresOK
  <2> QED BY <2>1, <2>2 DEF Age
<1>4. StoresOK'
  BY <1>0, <1>3 DEF StoresOK, Age
<1>5. ASSUME NEW v \in Tabs, NEW k \in Keys PROVE MemFrom(v, k)
  BY <1>0, <1>1, OldIs DEF Age, MemFrom, StoresOK, SameRead
<1>6. ASSUME NEW u \in Users, NEW k \in Keys PROVE DiskFrom(u, k)
  BY <1>0, <1>2, OldIs DEF Age, DiskFrom, StoresOK, SameRead
<1> QED BY <1>4, <1>5, <1>6, SameFlights, VersionGrows DEF Age, Provenance

LEMMA ForgetProvenance ==
  ASSUME CacheInv, NEW t \in Tabs, Forget(t), UNCHANGED <<token, disk, ver>> PROVE Provenance
<1>0. StoresOK
  BY StoresAre DEF CacheInv
<1>1. ASSUME NEW v \in Tabs, NEW k \in Keys PROVE MemFrom(v, k) /\ FlightFrom(v, k)
  BY <1>0 DEF Forget, MemFrom, FlightFrom, GoesOn, StoresOK, SameRead, NoEntries, NoFlights
<1>2. ASSUME NEW u \in Users, NEW k \in Keys PROVE DiskFrom(u, k)
  BY DEF DiskFrom, SameRead
<1>3. \A v \in Tabs : /\ probed'[v] \in {None, probed[v]}
                      /\ \/ probe'[v] = None
                         \/ probe[v] # None /\ probe'[v].answer = probe[v].answer
  BY <1>0 DEF Forget, StoresOK
<1> QED BY <1>1, <1>2, <1>3, ForgetOK, VersionGrows DEF Provenance

(* An invalidation, of the requests that are not over.                     *)
LEMMA InvalidateProvenance ==
  ASSUME CacheInv, NEW t \in Tabs, NEW fl \in [Keys -> Flight \cup {None}], NEW S,
         \A k \in Keys : fl[k] \in {None, flight[t][k]},
         InvalidateWith(t, fl, S), ver' = ver, owner' \in [Tabs -> Users \cup {None}],
         \A v \in Tabs \ {t} : owner'[v] = owner[v]
  PROVE  /\ Provenance
         /\ \A k \in Keys : mem'[t][k] = None /\ (flight'[t][k] # None => ~flight'[t][k].current)
<1>0. StoresOK
  BY StoresAre DEF CacheInv
<1>1. /\ \A v \in Tabs, k \in Keys : mem'[v][k] = IF v = t THEN None ELSE mem[v][k]
      /\ \A v \in Tabs, k \in Keys :
           flight'[v][k] = IF v = t THEN Outdated(fl[k]) ELSE flight[v][k]
      /\ \A u \in Users, k \in Keys : disk'[u][k] \in {None, disk[u][k]}
  BY <1>0 DEF InvalidateWith, StoresOK, NoEntries
<1>2. ASSUME NEW v \in Tabs, NEW k \in Keys PROVE MemFrom(v, k)
  BY <1>1 DEF MemFrom, SameRead
<1>3. ASSUME NEW v \in Tabs, NEW k \in Keys PROVE FlightFrom(v, k)
  <2>1. CASE v = t
    <3>0. Outdated(None) = None
      BY DEF Outdated
    <3>1. flight'[v][k] = None \/ flight'[v][k] = Outdated(flight[v][k])
      BY <1>1, <2>1, <3>0
    <3>2. flight[v][k] = None => Outdated(flight[v][k]) = None
      BY DEF Outdated
    <3>3. flight[v][k] # None => Outdated(flight[v][k]) = [flight[v][k] EXCEPT !.current = FALSE]
      BY DEF Outdated
    <3> QED BY <3>1, <3>2, <3>3 DEF FlightFrom, GoesOn
  <2>2. CASE v # t
    BY <1>1, <2>2 DEF FlightFrom, GoesOn
  <2> QED BY <2>1, <2>2
<1>4. ASSUME NEW u \in Users, NEW k \in Keys PROVE DiskFrom(u, k)
  BY <1>1 DEF DiskFrom, SameRead
<1>5. ASSUME NEW v \in Tabs
      PROVE  /\ probed'[v] \in {None, probed[v]}
             /\ probe'[v] = None \/ (probe[v] # None /\ probe'[v].answer = probe[v].answer)
  <2>1. probed'[v] = IF v = t THEN None ELSE probed[v]
    BY <1>0 DEF InvalidateWith, StoresOK
  <2>2. probe'[v] = IF v = t THEN Outdated(probe[v]) ELSE probe[v]
    BY <1>0 DEF InvalidateWith, StoresOK
  <2>3. probe[v] # None => [probe[v] EXCEPT !.current = FALSE].answer = probe[v].answer
    BY <1>0 DEF StoresOK, Probe
  <2> QED BY <2>1, <2>2, <2>3 DEF Outdated
<1>6. ASSUME NEW k \in Keys
      PROVE  mem'[t][k] = None /\ (flight'[t][k] # None => ~flight'[t][k].current)
  BY <1>0, <1>1, OutdatedIs
<1> QED BY <1>2, <1>3, <1>4, <1>5, <1>6, InvalidateOK, VersionGrows DEF Provenance

LEMMA RunQueryProvenance ==
  ASSUME CacheInv, NEW t \in Tabs, NEW k \in Keys, RunQuery(t, k), Screen(t) = "console",
         UNCHANGED <<token, disk, ver, probed>>
  PROVE  Provenance
<1>0. StoresOK /\ CacheTypeOK
  BY StoresAre DEF CacheInv
<1>1. /\ Lookup(t, k) \in Entries /\ Owned(t) \in [Keys -> Entries]
  BY <1>0, LookupTypes
<1>2. ASSUME NEW v \in Tabs, NEW j \in Keys PROVE MemFrom(v, j)
  <2>1. owner'[v] = IF v = t THEN Namespace ELSE owner[v]
    BY <1>0 DEF RunQuery, Hydrate, StoresOK
  <2>2. mem'[v][j] = IF v = t THEN IF j = k THEN Lookup(t, k) ELSE Owned(t)[j] ELSE mem[v][j]
    BY <1>0, <1>1 DEF RunQuery, Hydrate, StoresOK
  <2>3. CASE v # t
    BY <2>1, <2>2, <2>3 DEF MemFrom, SameRead
  <2>4. CASE v = t /\ j # k
    BY <2>1, <2>2, <2>4 DEF MemFrom, SameRead, Owned, NoEntries
  <2>5. CASE v = t /\ j = k
    BY <2>1, <2>2, <2>5 DEF MemFrom, SameRead, Owned, Lookup, NoEntries
  <2> QED BY <2>3, <2>4, <2>5
<1>3. ASSUME NEW v \in Tabs, NEW j \in Keys PROVE FlightFrom(v, j)
  <2>1. CASE v = t /\ j = k /\ flight' # flight
    <3>1. PICK st \in {"probe", "known"}, s \in {None, probed[t]} :
            flight' = [flight EXCEPT ![t][k] = FlightOf(st, Lookup(t, k), s)]
      BY <2>1 DEF RunQuery
    <3>2. flight'[t][k] = FlightOf(st, Lookup(t, k), s)
      BY <1>0, <3>1 DEF StoresOK
    <3> QED BY <2>1, <3>2 DEF FlightFrom, Begins
  <2>2. CASE ~(v = t /\ j = k) \/ flight' = flight
    <3>1. flight'[v][j] = flight[v][j]
      BY <1>0, <2>2 DEF RunQuery, StoresOK
    <3> QED BY <3>1 DEF FlightFrom, GoesOn
  <2> QED BY <2>1, <2>2
<1>4. ASSUME NEW v \in Tabs
      PROVE  \/ probe'[v].answer = None
             \/ probe'[v] = probe[v]
  BY <1>0 DEF RunQuery, StartProbe, StoresOK
<1>5. ASSUME NEW u \in Users, NEW j \in Keys PROVE DiskFrom(u, j)
  BY DEF DiskFrom, SameRead
<1> QED BY <1>2, <1>3, <1>4, <1>5, RunQueryOK, VersionGrows DEF Provenance

(* One request goes on, and nothing is stored.                             *)
LEMMA OneFlightProvenance ==
  ASSUME CacheInv, NEW t \in Tabs, NEW k \in Keys, NEW g, OneFlight(t, k, g),
         flight[t][k] # None, g = None \/ GoesOn(flight[t][k], g, t),
         UNCHANGED <<disk, ver, mem, owner, probed, probe>>
  PROVE  Provenance
<1>0. StoresOK
  BY StoresAre DEF CacheInv
<1>1. StoresOK'
  BY <1>0 DEF StoresOK, OneFlight
<1>2. ASSUME NEW v \in Tabs, NEW j \in Keys PROVE FlightFrom(v, j)
  BY DEF OneFlight, FlightFrom, GoesOn
<1> QED BY <1>1, <1>2, StillStored, VersionGrows DEF Provenance

LEMMA SendProvenance ==
  ASSUME CacheInv, NEW t \in Tabs, NEW k \in Keys, SendFetch(t, k) PROVE Provenance
<1> DEFINE g == [flight[t][k] EXCEPT !.stage = "sent", !.stale = None, !.bearer = token]
<1>1. GoesOn(flight[t][k], g, t)
  BY SendIs DEF GoesOn
<1>2. OneFlight(t, k, g) /\ UNCHANGED <<disk, ver, mem, owner, probed, probe>>
  BY SendIs
<1>3. flight[t][k] # None
  BY DEF SendFetch
<1> QED BY <1>1, <1>2, <1>3, OneFlightProvenance

LEMMA ServeProvenance ==
  ASSUME CacheInv, NEW t \in Tabs, NEW k \in Keys,
         NEW a \in {AnswerOf(flight[t][k]), Failed}, ServeFetch(t, k, a)
  PROVE  Provenance
<1>1. flight[t][k] # None /\ flight[t][k] \in Flight
  BY DEF ServeFetch, CacheInv, CacheTypeOK
<1>2. a \in Answer
  BY <1>1, AnswerTypes
<1> DEFINE g == [flight[t][k] EXCEPT !.stage = "answered", !.bearer = None, !.answer = a]
<1>3. flight[t][k].stage = "sent" /\ OneFlight(t, k, g)
      /\ UNCHANGED <<disk, ver, mem, owner, probed, probe>>
  BY <1>2, ServeIs
<1>4. GoesOn(flight[t][k], g, t)
  BY <1>3 DEF GoesOn
<1> QED BY <1>1, <1>3, <1>4, OneFlightProvenance

(* The request is over.                                                    *)
LEMMA OverIs ==
  ASSUME CacheInv, NEW t \in Tabs, NEW k \in Keys, flight' = [flight EXCEPT ![t][k] = None]
  PROVE  OneFlight(t, k, None)
<1>1. flight \in [Tabs -> [Keys -> Flight \cup {None}]]
  BY DEF CacheInv, CacheTypeOK
<1> QED BY <1>1 DEF OneFlight

LEMMA SettleFailedProvenance ==
  ASSUME CacheInv, NEW t \in Tabs, NEW k \in Keys, SettleFailed(t, k) PROVE Provenance
BY OverIs, OneFlightProvenance DEF SettleFailed

LEMMA StoreProvenance ==
  ASSUME CacheInv, NEW t \in Tabs, NEW k \in Keys, NEW e \in Entry, Settling(t, k, e),
         Store(t, k, e), UNCHANGED <<token, ver>>
  PROVE  Provenance
<1>0. StoresOK /\ CacheTypeOK
  BY StoresAre DEF CacheInv
<1> DEFINE rest == [flight[t] EXCEPT ![k] = None]
<1>1. /\ rest \in [Keys -> Flight \cup {None}]
      /\ \A j \in Keys : rest[j] \in {None, flight[t][j]}
  BY <1>0 DEF StoresOK
<1>2. /\ Namespace \in Users \cup {None} /\ Owned(t) \in [Keys -> Entries]
      /\ owner' = [owner EXCEPT ![t] = Namespace]
  BY <1>0, LookupTypes DEF Store
<1>3. owner' \in [Tabs -> Users \cup {None}] /\ \A v \in Tabs \ {t} : owner'[v] = owner[v]
  BY <1>0, <1>2 DEF StoresOK
<1>4. CASE InvalidateWith(t, rest, Users)
  <2> HIDE DEF rest
  <2> QED BY <1>1, <1>3, <1>4, InvalidateProvenance
<1>5. CASE /\ mem' = [mem EXCEPT ![t] = [Owned(t) EXCEPT ![k] = e]]
           /\ disk' = IF Namespace = None THEN disk
                      ELSE [disk EXCEPT ![Namespace][k] = Written(e, k)]
           /\ flight' = [flight EXCEPT ![t] = rest]
           /\ UNCHANGED <<probe, probed>>
  <2>1. Written(e, k) \in {e, None}
    BY DEF Written
  <2>2. disk' \in [Users -> [Keys -> Entries]]
    BY <1>0, <1>2, <1>5, <2>1 DEF StoresOK, Entries
  <2>3. mem' \in [Tabs -> [Keys -> Entries]] /\ flight' \in [Tabs -> [Keys -> Flight \cup {None}]]
    BY <1>0, <1>1, <1>2, <1>5 DEF StoresOK, Entries
  <2>4. StoresOK'
    BY <1>0, <1>3, <1>5, <2>2, <2>3 DEF StoresOK
  <2>5. ASSUME NEW v \in Tabs, NEW j \in Keys PROVE MemFrom(v, j)
    <3>1. owner'[v] = IF v = t THEN Namespace ELSE owner[v]
      BY <1>0, <1>2 DEF StoresOK
    <3>2. mem'[v][j] = IF v = t THEN IF j = k THEN e ELSE Owned(t)[j] ELSE mem[v][j]
      BY <1>0, <1>2, <1>5 DEF StoresOK
    <3>3. CASE v = t /\ j = k
      BY <3>1, <3>2, <3>3 DEF MemFrom
    <3>4. CASE v = t /\ j # k
      BY <3>1, <3>2, <3>4 DEF MemFrom, SameRead, Owned, NoEntries
    <3>5. CASE v # t
      BY <3>1, <3>2, <3>5 DEF MemFrom, SameRead
    <3> QED BY <3>3, <3>4, <3>5
  <2>6. ASSUME NEW u \in Users, NEW j \in Keys PROVE DiskFrom(u, j)
    <3>1. \/ disk'[u][j] = disk[u][j]
          \/ u = Namespace /\ j = k /\ disk'[u][j] \in {e, None}
      BY <1>0, <1>2, <1>5, <2>1 DEF StoresOK
    <3> QED BY <3>1 DEF DiskFrom, SameRead
  <2>7. ASSUME NEW v \in Tabs, NEW j \in Keys PROVE FlightFrom(v, j)
    <3>1. flight'[v][j] \in {None, flight[v][j]}
      BY <1>0, <1>1, <1>5 DEF StoresOK
    <3> QED BY <3>1 DEF FlightFrom, GoesOn
  <2> QED BY <1>5, <2>4, <2>5, <2>6, <2>7, VersionGrows DEF Provenance
<1> QED BY <1>4, <1>5 DEF Store

LEMMA SettleProvenance ==
  ASSUME CacheInv, NEW t \in Tabs, NEW k \in Keys, SettleUnchanged(t, k) \/ SettleFetched(t, k)
  PROVE  Provenance
<1> DEFINE f == flight[t][k]
<1>0. f # None /\ f \in Flight /\ UNCHANGED <<token, ver>>
  BY DEF SettleUnchanged, SettleFetched, CacheInv, CacheTypeOK
<1>1. PICK e \in Entry : /\ SameRead(e, f.stale) \/ (/\ f.stage = "answered" /\ f.answer.code = 200
                                                   /\ e.data = f.answer.data /\ e.stamp = f.stamp)
                         /\ StoreIfCurrent(t, k, e)
  <2>1. CASE SettleUnchanged(t, k)
    <3>1. f.stale \in Entry
      BY <1>0, <2>1 DEF SettleUnchanged, Unchanged, Flight
    <3> DEFINE e == [f.stale EXCEPT !.fresh = TRUE]
    <3>2. e \in Entry /\ e.data = f.stale.data /\ e.stamp = f.stale.stamp
      BY <3>1 DEF Entry
    <3>3. StoreIfCurrent(t, k, e) /\ f.stale # None
      BY <2>1 DEF SettleUnchanged, Unchanged
    <3> QED BY <3>2, <3>3 DEF SameRead
  <2>2. CASE SettleFetched(t, k)
    <3> DEFINE e == [data |-> f.answer.data, fresh |-> TRUE, stamp |-> f.stamp]
    <3>1. f.answer.data \in Payload /\ f.stage = "answered" /\ f.answer.code = 200
      BY <2>2 DEF SettleFetched, CacheInv, Answers
    <3>2. e \in Entry
      BY <1>0, <3>1 DEF Flight, Entry
    <3>3. StoreIfCurrent(t, k, e)
      BY <2>2 DEF SettleFetched
    <3> QED BY <3>1, <3>2, <3>3
  <2> QED BY <2>1, <2>2
<1>2. CASE f.current /\ Store(t, k, e)
  <2>1. Settling(t, k, e)
    BY <1>0, <1>1, <1>2 DEF Settling
  <2> QED BY <1>0, <1>2, <2>1, StoreProvenance
<1>3. CASE /\ flight' = [flight EXCEPT ![t][k] = None]
           /\ UNCHANGED <<disk, mem, owner, probe, probed>>
  BY <1>0, <1>3, OverIs, OneFlightProvenance
<1> QED BY <1>1, <1>2, <1>3 DEF StoreIfCurrent

LEMMA ServeProbeProvenance ==
  ASSUME CacheInv, NEW t \in Tabs, NEW code \in {200, 401, 403, 500}, ServeProbe(t, code)
  PROVE  Provenance
<1>1. /\ StoresOK' /\ UNCHANGED <<token, disk, ver, mem, owner, probed, flight>>
      /\ probe'[t].answer \in {ver, None} /\ \A v \in Tabs \ {t} : probe'[v] = probe[v]
  BY ServeProbeOK
<1>2. \A v \in Tabs : \/ probe'[v] = None \/ probe'[v].answer \in {None, ver}
                      \/ probe[v] # None /\ probe'[v].answer = probe[v].answer
  BY <1>1
<1> QED BY <1>1, <1>2, StillStored, SameFlights, VersionGrows DEF Provenance

LEMMA ProbeReturnsProvenance ==
  ASSUME CacheInv, NEW t \in Tabs, ProbeReturns(t) PROVE Provenance
<1>1. ASSUME NEW v \in Tabs, NEW k \in Keys PROVE FlightFrom(v, k)
  <2> DEFINE f == flight[v][k]
  <2>1. flight'[v][k] = IF v = t /\ f # None /\ f.stage = "probe"
                        THEN Told(f, probe[v].answer) ELSE f
    BY ProbeReturnsOK
  <2>2. probe[t] # None
    BY DEF ProbeReturns
  <2>3. CASE v = t /\ f # None /\ f.stage = "probe"
    BY <2>1, <2>2, <2>3 DEF FlightFrom, GoesOn
  <2>4. CASE ~(v = t /\ f # None /\ f.stage = "probe")
    <3>1. flight'[v][k] = f
      BY <2>1, <2>4
    <3> QED BY <3>1 DEF FlightFrom, GoesOn
  <2> QED BY <2>3, <2>4
<1>2. \A v \in Tabs : /\ \/ probed'[v] \in {None, probed[v]}
                         \/ probe[v] # None /\ probed'[v] = probe[v].answer
                      /\ \/ probe'[v] = None
                         \/ probe[v] # None /\ probe'[v].answer = probe[v].answer
  BY ProbeReturnsOK
<1> QED BY <1>1, <1>2, ProbeReturnsOK, StillStored, VersionGrows DEF Provenance

LEMMA ProbeExpiresProvenance ==
  ASSUME CacheInv, NEW t \in Tabs, ProbeExpires(t) PROVE Provenance
<1>1. StoresOK' /\ \A v \in Tabs : probed'[v] \in {None, probed[v]}
  BY StoresAre DEF CacheInv, StoresOK, ProbeExpires
<1> QED BY <1>1, StillStored, SameFlights, VersionGrows DEF ProbeExpires, Provenance

LEMMA StepsProvenance ==
  ASSUME CacheInv, [Next]_vars PROVE Provenance
<1>1. ASSUME NEW t \in Tabs, CacheStep(t) PROVE Provenance
  <2>1. CASE Forget(t) /\ UNCHANGED <<token, disk, ver>>
    BY <2>1, ForgetProvenance
  <2>0. flight[t] \in [Keys -> Flight \cup {None}] /\ owner \in [Tabs -> Users \cup {None}]
    BY DEF CacheInv, CacheTypeOK
  <2>2. CASE ClearPersisted(t) /\ ver' = ver
    BY <2>0, <2>2, InvalidateProvenance DEF ClearPersisted
  <2>3. CASE \E k \in Keys : RunQuery(t, k) /\ Screen(t) = "console"
                             /\ UNCHANGED <<token, disk, ver, probed>>
    BY <2>3, RunQueryProvenance
  <2>4. CASE \E k \in Keys : SendFetch(t, k)
    BY <2>4, SendProvenance
  <2>5. CASE \E k \in Keys : ServeFetch(t, k, AnswerOf(flight[t][k])) \/ ServeFetch(t, k, Failed)
    BY <2>5, ServeProvenance
  <2>6. CASE \E k \in Keys : SettleUnchanged(t, k) \/ SettleFetched(t, k)
    BY <2>6, SettleProvenance
  <2>7. CASE \E k \in Keys : SettleFailed(t, k)
    BY <2>7, SettleFailedProvenance
  <2>8. CASE \E code \in {200, 401, 403, 500} : ServeProbe(t, code)
    BY <2>8, ServeProbeProvenance
  <2>9. CASE ProbeReturns(t) \/ ProbeExpires(t)
    BY <2>9, ProbeReturnsProvenance, ProbeExpiresProvenance
  <2>10. CASE Invalidate(t) /\ ver' = ver
    BY <2>0, <2>10, InvalidateProvenance DEF Invalidate
  <2> QED BY <1>1, <2>1, <2>2, <2>3, <2>4, <2>5, <2>6, <2>7, <2>8, <2>9, <2>10 DEF CacheStep
<1>2. Elsewhere => Provenance
  BY OnlyTokenProvenance, WritesProvenance, AgeProvenance DEF Elsewhere
<1> QED BY <1>1, <1>2, CacheSteps

(***************************************************************************)
(* The requests, the token and the types.                                  *)
(***************************************************************************)
LEMMA GoesOnIs ==
  ASSUME NEW f \in Flight, NEW v \in Tabs, NEW g, GoesOn(f, g, v)
  PROVE  /\ g.current => f.current
         /\ g.stale \in {f.stale, None}
         /\ \/ g.stamp = f.stamp
            \/ f.stage = "probe" /\ probe[v] # None /\ g.stamp = probe[v].answer
         /\ g.bearer \in {f.bearer, None} \/ (f.stage = "known" /\ g.bearer = token)
         /\ \/ g.answer = f.answer /\ (g.stage = f.stage \/ (f.stage # "answered"
                                                             /\ g.stage # "answered"))
            \/ /\ f.stage = "sent" /\ g.stage = "answered" /\ g.bearer = None
               /\ g.answer \in {AnswerOf(f), Failed}
<1>1. CASE g = f \/ g = [f EXCEPT !.current = FALSE]
  BY <1>1 DEF Flight
<1>2. CASE f.stage = "probe" /\ probe[v] # None /\ g = Told(f, probe[v].answer)
  BY <1>2 DEF Flight, Told
<1>3. CASE f.stage = "known" /\ g = [f EXCEPT !.stage = "sent", !.stale = None, !.bearer = token]
  BY <1>3 DEF Flight
<1>4. CASE f.stage = "sent" /\ \E a \in {AnswerOf(f), Failed} :
             g = [f EXCEPT !.stage = "answered", !.bearer = None, !.answer = a]
  <2>1. PICK a \in {AnswerOf(f), Failed} :
          g = [f EXCEPT !.stage = "answered", !.bearer = None, !.answer = a]
    BY <1>4
  <2>2. /\ g.stage = "answered" /\ g.bearer = None /\ g.answer = a /\ g.current = f.current
        /\ g.stale = f.stale /\ g.stamp = f.stamp
    BY <2>1 DEF Flight
  <2> QED BY <1>4, <2>2
<1> QED BY <1>1, <1>2, <1>3, <1>4 DEF GoesOn

LEMMA BeginsIs ==
  ASSUME NEW v \in Tabs, NEW k \in Keys, NEW g, Begins(v, k, g)
  PROVE  /\ g.stale = Lookup(v, k) /\ g.stamp \in {None, probed[v]} /\ g.bearer = None
         /\ g.answer = None /\ g.stage # "answered" /\ Screen(v) = "console"
BY DEF Begins, FlightOf

LEMMA AnswersStay ==
  ASSUME CacheInv, Provenance PROVE Answers'
<1> SUFFICES ASSUME NEW t \in Tabs, NEW k \in Keys, flight'[t][k] # None
             PROVE  LET g == flight'[t][k] IN
                    /\ g.stage # "answered" => g.answer = None
                    /\ g.stage = "answered" =>
                         g.answer \in Answer /\ (g.answer.code = 200 => g.answer.data \in Payload)
  BY DEF Answers
<1> DEFINE f == flight[t][k]
           g == flight'[t][k]
<1>1. CASE f # None /\ GoesOn(f, g, t)
  <2>1. f \in Flight
    BY <1>1 DEF CacheInv, CacheTypeOK
  <2>2. \/ g.answer = f.answer /\ (g.stage = f.stage \/ (f.stage # "answered"
                                                          /\ g.stage # "answered"))
        \/ g.stage = "answered" /\ g.answer \in {AnswerOf(f), Failed}
    BY <1>1, <2>1, GoesOnIs
  <2>3. /\ f.stage # "answered" => f.answer = None
        /\ f.stage = "answered" =>
             f.answer \in Answer /\ (f.answer.code = 200 => f.answer.data \in Payload)
    BY <1>1 DEF CacheInv, Answers
  <2>4. \A a \in {AnswerOf(f), Failed} : a \in Answer /\ (a.code = 200 => a.data \in Payload)
    <3>1. AnswerOf(f) \in Answer /\ (AnswerOf(f).code = 200 => AnswerOf(f).data \in Payload)
      BY <2>1, AnswerTypes
    <3>2. Failed \in Answer /\ Failed.code # 200
      BY ZenonT(40), <2>1, AnswerTypes
    <3> QED BY <3>1, <3>2
  <2> QED BY <2>2, <2>3, <2>4
<1>2. CASE Begins(t, k, g)
  BY <1>2, BeginsIs
<1> QED BY <1>1, <1>2 DEF Provenance, FlightFrom

LEMMA TokenSteps ==
  ASSUME [Next]_vars
  PROVE  \/ token' \in {token, None}
         \/ \E t \in Tabs : (\E u \in Users : Login(t, u)) \/ ChangeReturns(t)
<1>1. ASSUME NEW t \in Tabs, Step(t)
      PROVE  token' \in {token, None} \/ (\E u \in Users : Login(t, u)) \/ ChangeReturns(t)
  <2>1. ASSUME \/ Reload(t) \/ BootSucceeds(t) \/ BootFails(t) \/ Logout(t) \/ Unmount(t)
               \/ SendEdit(t) \/ ApplyEdit(t) \/ EditReturns(t) \/ SendChange(t) \/ ApplyChange(t)
        PROVE  token' \in {token, None}
    BY <2>1 DEF Reload, BootSucceeds, BootFails, Logout, Unmount, SendEdit, ApplyEdit,
      EditReturns, SendChange, ApplyChange, cacheVars
  <2>2. ASSUME EditFails(t) \/ ChangeFails(t) \/ \E a \in asks[t] : AskReturns(t, a)
        PROVE  token' \in {token, None}
    BY <2>2 DEF EditFails, ChangeFails, AskReturns, TokenAfter
  <2>3. ASSUME NEW k \in Keys, Mount(t, k) \/ Fetch(t, k) \/ Serve(t, k)
        PROVE  token' \in {token, None}
    BY <2>3 DEF Mount, Fetch, Serve, SendFetch, ServeFetch
  <2>4. ASSUME NEW k \in Keys, Settle(t, k) PROVE token' \in {token, None}
    BY <2>4 DEF Settle, PageSettles, SettleUnchanged, SettleFetched, TokenAfter
  <2>5. ASSUME Check(t) PROVE token' \in {token, None}
    BY <2>5 DEF Check, ServeProbe, TokenAfter
  <2> QED BY <1>1, <2>1, <2>2, <2>3, <2>4, <2>5 DEF Step
<1>2. ASSUME \/ \E u \in MayReset : ForceReset(u)
             \/ \E u \in MayRetire : RetireSessions(u)
             \/ \E u \in Customers : Activate(u)
             \/ ForeignWrite \/ Passing \/ UNCHANGED vars
      PROVE  token' = token
  BY <1>2 DEF ForceReset, RetireSessions, Activate, ForeignWrite, Passing, Age, ProbeExpires,
    vars, cacheVars
<1> QED BY <1>1, <1>2 DEF Next

LEMMA RestTypes ==
  ASSUME CacheInv, [Next]_vars
  PROVE  /\ token' \in Tokens \cup {None}
         /\ gen' \in [Users -> 0 .. MaxGen]
         /\ edit' \in [Tabs -> Edit \cup {None}]
         /\ change' \in [Tabs -> Change \cup {None}]
<1>0. /\ token \in Tokens \cup {None} /\ gen \in [Users -> 0 .. MaxGen] /\ MaxGen \in Nat
      /\ edit \in [Tabs -> Edit \cup {None}] /\ change \in [Tabs -> Change \cup {None}]
      /\ ver \in Nat /\ \A w \in Nat : w <= MaxWrites => w \in Versions
      /\ MaxWrites \in Nat
  BY VersionsAre, CacheAssumption DEF CacheInv, CacheTypeOK
<1>1. ASSUME NEW t \in Tabs, NEW u \in Users, Login(t, u) PROVE token' \in Tokens \cup {None}
  BY <1>0, <1>1 DEF Login, Tokens
<1>2. ASSUME NEW t \in Tabs, ChangeReturns(t) PROVE token' \in Tokens \cup {None}
  <2>1. change[t] \in Change
    BY <1>0, <1>2 DEF ChangeReturns
  <2>2. change[t].bearer.u \in Users /\ change[t].next \in 0 .. MaxGen
    BY <1>2, <2>1 DEF ChangeReturns, Change, Tokens
  <2> QED BY <1>2, <2>2 DEF ChangeReturns, Tokens
<1>3. token' \in Tokens \cup {None}
  BY <1>0, <1>1, <1>2, TokenSteps
<1>4. ASSUME NEW t \in Tabs, Step(t)
      PROVE  /\ gen' \in [Users -> 0 .. MaxGen]
             /\ edit' \in [Tabs -> Edit \cup {None}]
             /\ change' \in [Tabs -> Change \cup {None}]
  <2>1. ASSUME \/ Reload(t) \/ BootSucceeds(t) \/ BootFails(t) \/ Logout(t) \/ Unmount(t)
               \/ Check(t) \/ (\E u \in Users : Login(t, u))
               \/ (\E a \in asks[t] : AskReturns(t, a))
        PROVE  /\ gen' = gen /\ edit' \in [Tabs -> Edit \cup {None}]
               /\ change' \in [Tabs -> Change \cup {None}]
    BY <1>0, <2>1 DEF Reload, BootSucceeds, BootFails, Logout, Unmount, Check, Login, AskReturns,
      authVars, pageVars
  <2>2. ASSUME NEW k \in Keys, Mount(t, k) \/ Fetch(t, k) \/ Serve(t, k) \/ Settle(t, k)
        PROVE  gen' = gen /\ edit' = edit /\ change' = change
    BY <2>2 DEF Mount, Fetch, Serve, Settle, authVars, pageVars
  <2>3. ASSUME SendEdit(t)
        PROVE  gen' = gen /\ edit' \in [Tabs -> Edit \cup {None}] /\ change' = change
    <3>1. [bearer |-> token, ver |-> None] \in Edit
      BY <1>0, <2>3 DEF SendEdit, Edit
    <3> QED BY <1>0, <2>3, <3>1 DEF SendEdit, authVars
  <2>4. ASSUME ApplyEdit(t)
        PROVE  gen' = gen /\ edit' \in [Tabs -> Edit \cup {None}] /\ change' = change
    <3>1. edit[t] \in Edit /\ ver + 1 \in Versions
      BY <1>0, <2>4 DEF ApplyEdit
    <3>2. [edit[t] EXCEPT !.ver = ver + 1] \in Edit
      BY <3>1 DEF Edit
    <3>3. edit' = [edit EXCEPT ![t] = [edit[t] EXCEPT !.ver = ver + 1]]
      BY <1>0, <2>4 DEF ApplyEdit
    <3> QED BY <1>0, <2>4, <3>2, <3>3 DEF ApplyEdit, authVars
  <2>5. ASSUME EditReturns(t) \/ EditFails(t)
        PROVE  gen' = gen /\ edit' \in [Tabs -> Edit \cup {None}] /\ change' = change
    BY <1>0, <2>5 DEF EditReturns, EditFails, authVars
  <2>6. ASSUME SendChange(t)
        PROVE  gen' = gen /\ edit' = edit /\ change' \in [Tabs -> Change \cup {None}]
    <3>1. [bearer |-> token, next |-> None] \in Change
      BY <1>0, <2>6 DEF SendChange, Change
    <3> QED BY <1>0, <2>6, <3>1 DEF SendChange, authVars
  <2>7. ASSUME ApplyChange(t)
        PROVE  /\ gen' \in [Users -> 0 .. MaxGen] /\ edit' = edit
               /\ change' \in [Tabs -> Change \cup {None}]
    <3> DEFINE u == change[t].bearer.u
    <3>1. change[t] \in Change /\ u \in Users
      BY <1>0, <2>7 DEF ApplyChange, Change, Tokens
    <3>2. gen[u] + 1 \in 0 .. MaxGen
      BY <1>0, <2>7, <3>1 DEF ApplyChange
    <3>3. [change[t] EXCEPT !.next = gen[u] + 1] \in Change
      BY <3>1, <3>2 DEF Change
    <3>4. change' = [change EXCEPT ![t] = [change[t] EXCEPT !.next = gen[u] + 1]]
      BY <1>0, <2>7 DEF ApplyChange
    <3> QED BY <1>0, <2>7, <3>2, <3>3, <3>4 DEF ApplyChange
  <2>8. ASSUME ChangeReturns(t) \/ ChangeFails(t)
        PROVE  gen' = gen /\ edit' = edit /\ change' \in [Tabs -> Change \cup {None}]
    BY <1>0, <2>8 DEF ChangeReturns, ChangeFails, authVars
  <2> QED BY <1>0, <1>4, <2>1, <2>2, <2>3, <2>4, <2>5, <2>6, <2>7, <2>8 DEF Step
<1>5. ASSUME NEW u \in MayRetire, RetireSessions(u)
      PROVE  /\ gen' \in [Users -> 0 .. MaxGen] /\ edit' = edit /\ change' = change
  <2>1. u \in Users
    BY ConsoleAssumption
  <2>2. gen[u] + 1 \in 0 .. MaxGen
    BY <1>0, <1>5, <2>1 DEF RetireSessions
  <2> QED BY <1>0, <1>5, <2>2 DEF RetireSessions
<1>6. ASSUME \/ \E u \in MayReset : ForceReset(u)
             \/ \E u \in Customers : Activate(u)
             \/ ForeignWrite \/ Passing \/ UNCHANGED vars
      PROVE  gen' = gen /\ edit' = edit /\ change' = change
  BY <1>6 DEF ForceReset, Activate, ForeignWrite, Passing, vars, authVars, pageVars
<1> QED BY <1>0, <1>3, <1>4, <1>5, <1>6 DEF Next

LEMMA CacheInvStep ==
  ASSUME CacheInv, [Next]_vars PROVE CacheInv'
<1>1. Provenance
  BY StepsProvenance
<1>2. CacheTypeOK'
  BY <1>1, RestTypes DEF CacheTypeOK, Provenance, StoresOK, Entries
<1> QED BY <1>1, <1>2, RestTypes, AnswersStay DEF CacheInv

LEMMA CacheInvInit ==
  ASSUME Init PROVE CacheInv
<1>1. CacheTypeOK
  BY CacheAssumption DEF Init, CacheInit, CacheTypeOK, Versions, NoEntries, NoFlights
<1>2. Answers
  BY DEF Init, CacheInit, Answers, NoFlights
<1>3. gen \in [Users -> 0 .. MaxGen]
  BY CacheAssumption DEF Init
<1> QED BY <1>1, <1>2, <1>3 DEF CacheInv, Init

(***************************************************************************)
(* What is stored is at least as new as the version it is stored under.    *)
(***************************************************************************)
Sound(e) == e # None /\ e.stamp # None => e.data.ver >= e.stamp
Known(v) == v # None => v <= ver

StampInv ==
  /\ \A t \in Tabs, k \in Keys : Sound(mem[t][k])
  /\ \A u \in Users, k \in Keys : Sound(disk[u][k])
  /\ \A t \in Tabs : Known(probed[t]) /\ (probe[t] # None => Known(probe[t].answer))
  /\ \A t \in Tabs, k \in Keys : flight[t][k] # None =>
       LET f == flight[t][k] IN
       /\ Sound(f.stale) /\ Known(f.stamp)
       /\ f.stage = "answered" /\ f.answer.code = 200 /\ f.stamp # None =>
            f.answer.data.ver >= f.stamp

LEMMA StampStep ==
  ASSUME CacheInv, StampInv, [Next]_vars PROVE StampInv'
<1>0. Provenance /\ CacheTypeOK
  BY StepsProvenance DEF CacheInv
<1>1. ver \in Nat /\ ver' \in Nat /\ ver <= ver'
  BY <1>0 DEF Provenance
<1>2. ASSUME NEW v \in Versions \cup {None}, v # None => v <= ver PROVE v # None => v <= ver'
  BY <1>1, <1>2, VersionsAre
<1>3. ASSUME NEW v \in Tabs, NEW k \in Keys, NEW e, Settling(v, k, e) PROVE Sound(e)
  BY <1>3 DEF StampInv, Settling, SameRead, Sound
<1>4. ASSUME NEW v \in Tabs, NEW k \in Keys PROVE Sound(mem'[v][k])
  <2>1. CASE owner'[v] = Namespace /\ Namespace # None /\ SameRead(mem'[v][k], disk[Namespace][k])
    <3>1. Namespace \in Users
      BY <1>0, <2>1, LookupTypes
    <3> QED BY <2>1, <3>1 DEF StampInv, SameRead, Sound
  <2>2. CASE mem'[v][k] = None \/ SameRead(mem'[v][k], mem[v][k])
    BY <2>2 DEF StampInv, SameRead, Sound
  <2> QED BY <1>0, <1>3, <2>1, <2>2 DEF Provenance, MemFrom
<1>5. ASSUME NEW u \in Users, NEW k \in Keys PROVE Sound(disk'[u][k])
  <2>1. CASE disk'[u][k] = None \/ SameRead(disk'[u][k], disk[u][k])
    BY <2>1 DEF StampInv, SameRead, Sound
  <2> QED BY <1>0, <1>3, <2>1 DEF Provenance, DiskFrom
<1>6. ASSUME NEW v \in Tabs PROVE probed'[v] # None => probed'[v] <= ver'
  <2>1. probed'[v] # None => probed'[v] <= ver
    BY <1>0 DEF Provenance, StampInv, Known
  <2>2. probed'[v] \in Versions \cup {None}
    BY <1>0 DEF Provenance, StoresOK
  <2> QED BY <1>2, <2>1, <2>2
<1>7. ASSUME NEW v \in Tabs, probe'[v] # None
      PROVE  probe'[v].answer # None => probe'[v].answer <= ver'
  <2>1. probe'[v].answer # None => probe'[v].answer <= ver
    BY <1>0, <1>1, <1>7 DEF Provenance, StampInv, Known
  <2>2. probe'[v].answer \in Versions \cup {None}
    BY <1>0, <1>7 DEF Provenance, StoresOK, Probe
  <2> QED BY <1>2, <2>1, <2>2
<1>8. ASSUME NEW v \in Tabs, NEW k \in Keys, flight'[v][k] # None
      PROVE  LET g == flight'[v][k] IN
             /\ Sound(g.stale) /\ (g.stamp # None => g.stamp <= ver')
             /\ g.stage = "answered" /\ g.answer.code = 200 /\ g.stamp # None =>
                  g.answer.data.ver >= g.stamp
  <2> DEFINE f == flight[v][k]
             g == flight'[v][k]
  <2>1. g.stamp \in Versions \cup {None}
    BY <1>0, <1>8 DEF Provenance, StoresOK, Flight
  <2>2. CASE f # None /\ GoesOn(f, g, v)
    <3>1. f \in Flight /\ Sound(f.stale) /\ Sound(None) /\ (f.stamp # None => f.stamp <= ver)
      BY <1>0, <2>2 DEF CacheTypeOK, StampInv, Sound, Known
    <3>2. Sound(g.stale)
      BY <2>2, <3>1, GoesOnIs
    <3>3. g.stamp # None => g.stamp <= ver
      <4>1. probe[v] # None /\ probe[v].answer # None => probe[v].answer <= ver
        BY DEF StampInv, Known
      <4> QED BY <2>2, <3>1, <4>1, GoesOnIs
    <3>4. ASSUME g.stage = "answered", g.answer.code = 200, g.stamp # None
          PROVE  g.answer.data.ver >= g.stamp
      <4>1. CASE g.answer = f.answer /\ f.stage = "answered"
        <5>1. g.stamp = f.stamp
          BY <2>2, <3>1, <4>1, GoesOnIs
        <5> QED BY <2>2, <3>4, <4>1, <5>1 DEF StampInv
      <4>2. CASE f.stage = "sent" /\ g.answer \in {AnswerOf(f), Failed}
        <5>1. g.answer.data = [of |-> f.bearer.u, ver |-> ver]
          BY <3>1, <3>4, <4>2, AnswerTypes
        <5> QED BY <1>1, <2>1, <3>3, <3>4, <5>1, VersionsAre
      <4> QED BY <2>2, <3>1, <3>4, <4>1, <4>2, GoesOnIs
    <3> QED BY <1>2, <2>1, <3>2, <3>3, <3>4
  <2>3. CASE Begins(v, k, g)
    <3>1. Sound(Lookup(v, k))
      <4>1. Namespace \in Users \cup {None}
        BY <1>0, LookupTypes
      <4> QED BY <4>1 DEF Lookup, Owned, NoEntries, StampInv, Sound
    <3>2. g.stamp # None => g.stamp <= ver
      BY <2>3, BeginsIs DEF StampInv, Known
    <3> QED BY <1>2, <2>1, <2>3, <3>1, <3>2, BeginsIs
  <2> QED BY <1>0, <1>8, <2>2, <2>3 DEF Provenance, FlightFrom
<1> QED BY <1>4, <1>5, <1>6, <1>7, <1>8 DEF StampInv, Sound, Known

(* The change check never pins a stale payload: what a browser stores under *)
(* a version was fetched after the server had reached it (queryCache.ts     *)
(* revalidate asks for the versions before it fetches), in any number of    *)
(* tabs.                                                                    *)
THEOREM StampsAreSafe == Spec => []StampNeverAhead
<1>1. Init => CacheInv /\ StampInv
  <2> SUFFICES ASSUME Init PROVE StampInv
    BY CacheInvInit
  <2> QED BY DEF Init, CacheInit, StampInv, NoEntries, NoFlights, Sound, Known
<1>2. CacheInv /\ StampInv /\ [Next]_vars => (CacheInv /\ StampInv)'
  BY CacheInvStep, StampStep
<1>3. CacheInv /\ StampInv => StampNeverAhead
  BY DEF StampInv, Sound, StampNeverAhead, Cached
<1> QED BY <1>1, <1>2, <1>3, PTL DEF Spec

(***************************************************************************)
(* Who is signed in, in a browser with one tab of the console.  A token is *)
(* of the person signed in, or the one the page load is asking about; and  *)
(* nothing else is under way while a page loads.                           *)
(***************************************************************************)
OneTab == \A t, v \in Tabs : t = v

Booting == \A t \in Tabs : booting[t] # None =>
  /\ booting[t] = token /\ user[t] = None /\ asks[t] = {} /\ change[t] = None /\ edit[t] = None
  /\ view[t] = None /\ probe[t] = None /\ \A k \in Keys : flight[t][k] = None

Signed == token # None => \A t \in Tabs : booting[t] = None => user[t] = token.u

AskIsOwn == \A t \in Tabs : \A a \in asks[t] :
  a.bearer.u \in Customers /\ (~a.cancelled => a.bearer.u = user[t])

Verdict == [of : Customers, open : BOOLEAN]

SessionTypes ==
  /\ user \in [Tabs -> Users \cup {None}]
  /\ booting \in [Tabs -> Tokens \cup {None}]
  /\ asks \in [Tabs -> SUBSET Ask]
  /\ verdict \in [Tabs -> Verdict \cup {None}]
  /\ view \in [Tabs -> View \cup {None}]

SessionInv == CacheInv /\ SessionTypes /\ Booting /\ Signed /\ AskIsOwn /\ VerdictIsOwn

(* The steps that leave alone who is signed in.                            *)
Calm == UNCHANGED <<user, booting, verdict, asks>> /\ token' \in {token, None}

LEMMA CalmSteps ==
  ASSUME NEW t \in Tabs, Step(t)
  PROVE  \/ Reload(t) \/ BootSucceeds(t) \/ BootFails(t) \/ Logout(t) \/ ChangeReturns(t)
         \/ (\E u \in Users : Login(t, u)) \/ (\E a \in asks[t] : AskReturns(t, a)) \/ Calm
<1>1. ASSUME \/ Unmount(t) \/ SendEdit(t) \/ ApplyEdit(t) \/ EditReturns(t) \/ SendChange(t)
             \/ ApplyChange(t) \/ EditFails(t) \/ ChangeFails(t)
      PROVE  Calm
  BY <1>1 DEF Calm, Unmount, SendEdit, ApplyEdit, EditReturns, SendChange, ApplyChange,
    EditFails, ChangeFails, TokenAfter, cacheVars, authVars
<1>2. ASSUME NEW k \in Keys, Mount(t, k) \/ Fetch(t, k) \/ Serve(t, k) PROVE Calm
  BY <1>2 DEF Calm, Mount, Fetch, Serve, SendFetch, ServeFetch, authVars
<1>3. ASSUME NEW k \in Keys, Settle(t, k) PROVE Calm
  BY <1>3 DEF Calm, Settle, PageSettles, SettleUnchanged, SettleFetched, TokenAfter
<1>4. ASSUME Check(t) PROVE Calm
  BY <1>4 DEF Calm, Check, ServeProbe, TokenAfter, authVars
<1> QED BY <1>1, <1>2, <1>3, <1>4 DEF Step

LEMMA CalmWorld ==
  ASSUME \/ \E u \in MayReset : ForceReset(u)
         \/ \E u \in MayRetire : RetireSessions(u)
         \/ \E u \in Customers : Activate(u)
         \/ ForeignWrite \/ Passing \/ UNCHANGED vars
  PROVE  /\ UNCHANGED <<user, booting, verdict, asks, token, view, change, probe, flight, edit,
                        gate>>
         /\ own' = own
BY DEF ForceReset, RetireSessions, Activate, ForeignWrite, Passing, Age, ProbeExpires, vars,
  cacheVars, authVars, pageVars

(* While a page loads, the tab does nothing but load.                      *)
LEMMA WhileBooting ==
  ASSUME SessionInv, NEW t \in Tabs, booting[t] # None, Step(t)
  PROVE  Reload(t) \/ BootSucceeds(t) \/ BootFails(t)
<1>1. /\ user[t] = None /\ asks[t] = {} /\ change[t] = None /\ edit[t] = None
      /\ view[t] = None /\ probe[t] = None /\ \A k \in Keys : flight[t][k] = None
  BY DEF SessionInv, Booting
<1>2. Screen(t) = "waiting"
  BY DEF Screen
<1>3. ~Logout(t) /\ ~ChangeReturns(t) /\ \A u \in Users : ~Login(t, u)
  BY <1>1, <1>2 DEF Logout, ChangeReturns, Login
<1>4. \A a \in asks[t] : ~AskReturns(t, a)
  BY <1>1
<1>5. \A k \in Keys : ~Mount(t, k) /\ ~Fetch(t, k) /\ ~Serve(t, k) /\ ~Settle(t, k)
  BY <1>1, <1>2 DEF Mount, Fetch, Serve, Settle, SendFetch, ServeFetch, PageSettles,
    SettleUnchanged, SettleFetched, SettleFailed
<1>6. ~Unmount(t) /\ ~Check(t) /\ ~SendEdit(t) /\ ~ApplyEdit(t) /\ ~EditReturns(t) /\ ~EditFails(t)
  BY <1>1 DEF Unmount, Check, ProbeReturns, SendEdit, ApplyEdit, EditReturns, EditFails
<1>7. ~SendChange(t) /\ ~ApplyChange(t) /\ ~ChangeFails(t)
  BY <1>1, <1>2 DEF SendChange, ApplyChange, ChangeFails
<1> QED BY <1>3, <1>4, <1>5, <1>6, <1>7 DEF Step

(* Signing in, or out, cancels the probes of whoever it was before.        *)
LEMMA CancelledIs ==
  ASSUME NEW as \in SUBSET Ask
  PROVE  \A c \in Cancelled(as) : c \in Ask /\ c.cancelled /\ \E a \in as : c.bearer = a.bearer
BY DEF Cancelled, Ask

LEMMA BecomeIs ==
  ASSUME SessionTypes, AskIsOwn, VerdictIsOwn, NEW t \in Tabs, NEW u \in Users \cup {None},
         Become(t, u), u # None /\ u # user[t] => token' \in Tokens /\ token'.u = u
  PROVE  /\ user' = [user EXCEPT ![t] = u] /\ user' \in [Tabs -> Users \cup {None}]
         /\ asks' \in [Tabs -> SUBSET Ask] /\ verdict' \in [Tabs -> Verdict \cup {None}]
         /\ \A a \in asks'[t] : a.bearer.u \in Customers /\ (~a.cancelled => a.bearer.u = u)
         /\ verdict'[t] # None => verdict'[t].of = u
<1>1. user' = [user EXCEPT ![t] = u] /\ user' \in [Tabs -> Users \cup {None}]
  BY DEF Become, SessionTypes
<1>2. CASE u = user[t]
  <2>1. verdict' = verdict /\ asks' = asks
    BY <1>2 DEF Become
  <2>2. \A a \in asks[t] : a.bearer.u \in Customers /\ (~a.cancelled => a.bearer.u = u)
    BY <1>2 DEF AskIsOwn
  <2>3. verdict[t] # None => verdict[t].of = u
    BY <1>2 DEF VerdictIsOwn
  <2> QED BY <1>1, <2>1, <2>2, <2>3 DEF SessionTypes
<1>3. CASE u # user[t]
  <2> DEFINE new == {[bearer |-> token', cancelled |-> FALSE] : c \in {u} \cap Customers}
             as == Cancelled(asks[t]) \cup new
  <2>1. verdict' = [verdict EXCEPT ![t] = None] /\ asks' = [asks EXCEPT ![t] = as]
    BY <1>3 DEF Become
  <2>2. asks[t] \in SUBSET Ask
    BY DEF SessionTypes
  <2>3. \A a \in Cancelled(asks[t]) : a \in Ask /\ a.bearer.u \in Customers /\ a.cancelled
    BY <2>2, CancelledIs DEF AskIsOwn
  <2>4. ASSUME NEW a \in new
        PROVE  a \in Ask /\ a.bearer.u \in Customers /\ a.bearer.u = u
    <3>1. u \in Customers /\ a = [bearer |-> token', cancelled |-> FALSE]
      OBVIOUS
    <3>2. u # None
      BY <3>1, ConsoleAssumption, CacheAssumption
    <3>3. token' \in Tokens /\ token'.u = u
      BY <1>3, <3>2
    <3> QED BY <3>1, <3>3 DEF Ask
  <2>5. as \in SUBSET Ask
    BY <2>3, <2>4
  <2>6. \A a \in as : a.bearer.u \in Customers /\ (~a.cancelled => a.bearer.u = u)
    BY <2>3, <2>4
  <2> HIDE DEF as
  <2> QED BY <1>1, <2>1, <2>5, <2>6 DEF SessionTypes
<1> QED BY <1>2, <1>3

(* What a page shows.                                                      *)
LEMMA DeliveredTyped ==
  ASSUME NEW v \in View \cup {None}, NEW k, NEW d \in Payload \cup {None}
  PROVE  Delivered(v, k, d) \in View \cup {None}
BY DEF Delivered, View

LEMMA ViewAfterTyped ==
  ASSUME view \in [Tabs -> View \cup {None}], NEW t \in Tabs, NEW code,
         NEW v \in View \cup {None}
  PROVE  ViewAfter(t, code, v) \in [Tabs -> View \cup {None}]
BY DEF ViewAfter

LEMMA ViewTyped ==
  ASSUME CacheInv, view \in [Tabs -> View \cup {None}], [Next]_vars
  PROVE  view' \in [Tabs -> View \cup {None}]
<1>1. ASSUME NEW t \in Tabs, Step(t) PROVE view' \in [Tabs -> View \cup {None}]
  <2>1. ASSUME \/ Reload(t) \/ BootSucceeds(t) \/ BootFails(t) \/ Logout(t) \/ Unmount(t)
               \/ SendEdit(t) \/ ApplyEdit(t) \/ EditReturns(t) \/ SendChange(t)
               \/ ApplyChange(t) \/ ChangeReturns(t) \/ ChangeFails(t)
               \/ (\E u \in Users : Login(t, u))
        PROVE  view' \in [Tabs -> View \cup {None}]
    BY <2>1 DEF Reload, BootSucceeds, BootFails, Logout, Unmount, SendEdit, ApplyEdit,
      EditReturns, SendChange, ApplyChange, ChangeReturns, ChangeFails, Login, pageVars
  <2>2. ASSUME EditFails(t) \/ (\E a \in asks[t] : AskReturns(t, a))
        PROVE  view' \in [Tabs -> View \cup {None}]
    BY <2>2, ViewAfterTyped DEF EditFails, AskReturns
  <2>3. ASSUME NEW k \in Keys, Fetch(t, k) \/ Serve(t, k) PROVE view' = view
    BY <2>3 DEF Fetch, Serve, pageVars
  <2>4. ASSUME Check(t) PROVE view' \in [Tabs -> View \cup {None}]
    BY <2>4, ViewAfterTyped DEF Check, pageVars
  <2>5. ASSUME NEW k \in Keys, Mount(t, k) PROVE view' \in [Tabs -> View \cup {None}]
    <3> DEFINE hit == Lookup(t, k)
               q == [key |-> k, data |-> IF hit = None THEN None ELSE hit.data,
                     loading |-> hit = None, waiting |-> ~IsFresh(t, k)]
    <3>1. hit \in Entries
      BY LookupTypes DEF CacheInv
    <3>2. (IF hit = None THEN None ELSE hit.data) \in Payload \cup {None}
      BY <3>1 DEF Entries, Entry
    <3>3. IsFresh(t, k) \in BOOLEAN /\ (hit = None) \in BOOLEAN
      BY <3>1 DEF IsFresh, Entries, Entry
    <3>4. q \in View
      BY <3>2, <3>3 DEF View
    <3>5. view' = [view EXCEPT ![t] = q]
      BY <2>5 DEF Mount
    <3> QED BY <3>4, <3>5
  <2>6. ASSUME NEW k \in Keys, Settle(t, k) PROVE view' \in [Tabs -> View \cup {None}]
    <3>0. flight[t][k] \in Flight \cup {None} /\ view[t] \in View \cup {None}
      BY DEF CacheInv, CacheTypeOK
    <3>1. CASE SettleUnchanged(t, k) /\ view' = [view EXCEPT ![t] =
                 Delivered(@, k, flight[t][k].stale.data)]
      <4>1. flight[t][k].stale.data \in Payload
        BY <3>0, <3>1 DEF SettleUnchanged, Unchanged, Flight, Entry
      <4> QED BY <3>0, <3>1, <4>1, DeliveredTyped
    <3>2. CASE SettleFetched(t, k) /\ view' = [view EXCEPT ![t] =
                 Delivered(@, k, flight[t][k].answer.data)]
      <4>1. flight[t][k].answer.data \in Payload
        BY <3>2 DEF SettleFetched, CacheInv, Answers
      <4> QED BY <3>0, <3>2, <4>1, DeliveredTyped
    <3>3. CASE view' = ViewAfter(t, flight[t][k].answer.code, Delivered(view[t], k, None))
      <4>1. Delivered(view[t], k, None) \in View \cup {None}
        BY <3>0, DeliveredTyped
      <4> QED BY <3>3, <4>1, ViewAfterTyped
    <3> QED BY <2>6, <3>1, <3>2, <3>3 DEF Settle, PageSettles
  <2> QED BY <1>1, <2>1, <2>2, <2>3, <2>4, <2>5, <2>6 DEF Step
<1> QED BY <1>1, CalmWorld DEF Next

(* Who is signed in, over one step of the tab.                             *)
LEMMA SessionTabStep ==
  ASSUME OneTab, SessionInv, NEW t \in Tabs, Step(t)
  PROVE  /\ user' \in [Tabs -> Users \cup {None}] /\ booting' \in [Tabs -> Tokens \cup {None}]
         /\ asks' \in [Tabs -> SUBSET Ask] /\ verdict' \in [Tabs -> Verdict \cup {None}]
         /\ booting'[t] # None =>
              /\ booting'[t] = token' /\ user'[t] = None /\ asks'[t] = {} /\ change'[t] = None
              /\ edit'[t] = None /\ view'[t] = None /\ probe'[t] = None
              /\ \A k \in Keys : flight'[t][k] = None
         /\ token' # None /\ booting'[t] = None => user'[t] = token'.u
         /\ \A a \in asks'[t] : a.bearer.u \in Customers /\ (~a.cancelled => a.bearer.u = user'[t])
         /\ verdict'[t] # None => verdict'[t].of = user'[t]
<1>0. /\ user \in [Tabs -> Users \cup {None}] /\ booting \in [Tabs -> Tokens \cup {None}]
      /\ asks \in [Tabs -> SUBSET Ask] /\ verdict \in [Tabs -> Verdict \cup {None}]
      /\ view \in [Tabs -> View \cup {None}] /\ edit \in [Tabs -> Edit \cup {None}]
      /\ change \in [Tabs -> Change \cup {None}] /\ token \in Tokens \cup {None}
      /\ flight \in [Tabs -> [Keys -> Flight \cup {None}]] /\ probe \in [Tabs -> Probe \cup {None}]
      /\ gen \in [Users -> 0 .. MaxGen]
      /\ SessionTypes /\ AskIsOwn /\ VerdictIsOwn
  BY DEF SessionInv, SessionTypes, CacheInv, CacheTypeOK
<1>1. /\ booting[t] # None => booting[t] = token /\ user[t] = None /\ asks[t] = {}
      /\ token # None /\ booting[t] = None => user[t] = token.u
      /\ \A a \in asks[t] : a.bearer.u \in Customers /\ (~a.cancelled => a.bearer.u = user[t])
      /\ verdict[t] # None => verdict[t].of = user[t]
  BY DEF SessionInv, Booting, Signed, AskIsOwn, VerdictIsOwn
<1>2. CASE Reload(t)
  <2>1. /\ user' = [user EXCEPT ![t] = None] /\ booting' = [booting EXCEPT ![t] = token]
        /\ asks' = [asks EXCEPT ![t] = {}] /\ verdict' = [verdict EXCEPT ![t] = None]
        /\ token' = token
    BY <1>2 DEF Reload
  <2>2. change'[t] = None /\ edit'[t] = None /\ view'[t] = None
    BY <1>0, <1>2 DEF Reload
  <2>3. probe'[t] = None /\ \A k \in Keys : flight'[t][k] = None
    BY <1>0, <1>2 DEF Reload, Forget, NoFlights
  <2> QED BY <1>0, <2>1, <2>2, <2>3
<1>3. CASE BootSucceeds(t)
  <2>1. /\ booting[t] = token /\ token # None /\ token' = token /\ token \in Tokens
        /\ booting' = [booting EXCEPT ![t] = None] /\ Become(t, token.u)
    BY <1>0, <1>1, <1>3 DEF BootSucceeds, cacheVars
  <2>2. token.u \in Users \cup {None} /\ (token' \in Tokens /\ token'.u = token.u)
    BY <2>1 DEF Tokens
  <2> QED BY <1>0, <2>1, <2>2, BecomeIs
<1>4. CASE BootFails(t)
  <2>1. token' = None /\ booting' = [booting EXCEPT ![t] = None] /\ Become(t, None)
    BY <1>4 DEF BootFails
  <2> QED BY <1>0, <2>1, BecomeIs
<1>5. CASE \E u \in Users : Login(t, u)
  <2>1. PICK u \in Users : Login(t, u)
    BY <1>5
  <2>2. token' \in Tokens /\ token'.u = u /\ booting' = booting /\ Become(t, u)
    BY <1>0, <2>1 DEF Login, Tokens
  <2>3. booting[t] = None
    BY <2>1 DEF Login, Screen
  <2> QED BY <1>0, <2>2, <2>3, BecomeIs
<1>6. CASE Logout(t)
  <2>1. token' = None /\ booting' = booting /\ Become(t, None) /\ booting[t] = None
    BY <1>1, <1>6 DEF Logout
  <2> QED BY <1>0, <2>1, BecomeIs
<1>7. CASE ChangeReturns(t)
  <2>1. change[t] \in Change /\ change[t].next \in 0 .. MaxGen /\ change[t].bearer \in Tokens
    BY <1>0, <1>7 DEF ChangeReturns, Change
  <2> DEFINE u == change[t].bearer.u
  <2>2. u \in Users
    BY <2>1 DEF Tokens
  <2>3. token' \in Tokens /\ token'.u = u /\ booting' = booting /\ Become(t, u)
    BY <1>7, <2>1, <2>2 DEF ChangeReturns, Tokens
  <2>4. booting[t] = None
    BY <1>7 DEF ChangeReturns, SessionInv, Booting
  <2> HIDE DEF u
  <2> QED BY <1>0, <2>2, <2>3, <2>4, BecomeIs
<1>8. CASE \E a \in asks[t] : AskReturns(t, a)
  <2>1. PICK a \in asks[t] : AskReturns(t, a)
    BY <1>8
  <2>2. PICK code \in {GateCode(a.bearer), 500} :
          AskSettles(t, a, code) /\ token' = TokenAfter(code)
    BY <2>1 DEF AskReturns
  <2>3. /\ user' = user /\ booting' = booting /\ asks' = [asks EXCEPT ![t] = @ \ {a}]
        /\ token' \in {token, None} /\ booting[t] = None
    BY <1>1, <2>1, <2>2 DEF AskReturns, TokenAfter
  <2>4. VerdictOf(a, code) \in Verdict /\ VerdictOf(a, code).of = a.bearer.u
    BY <1>1, <2>1 DEF VerdictOf, Verdict, ActivationFromProbe
  <2>5. /\ verdict' \in [Tabs -> Verdict \cup {None}]
        /\ verdict'[t] = verdict[t] \/ (~a.cancelled /\ verdict'[t] = VerdictOf(a, code))
    BY <1>0, <2>2, <2>4 DEF AskSettles
  <2>6. asks' \in [Tabs -> SUBSET Ask] /\ asks'[t] \subseteq asks[t]
    BY <1>0, <2>3
  <2> QED BY <1>0, <1>1, <2>1, <2>3, <2>4, <2>5, <2>6
<1>9. CASE Calm /\ booting[t] = None
  BY <1>0, <1>1, <1>9 DEF Calm
<1> QED BY <1>2, <1>3, <1>4, <1>5, <1>6, <1>7, <1>8, <1>9, CalmSteps, WhileBooting

LEMMA SessionStep ==
  ASSUME OneTab, SessionInv, [Next]_vars PROVE SessionInv'
<1>1. CacheInv' /\ view' \in [Tabs -> View \cup {None}]
  BY CacheInvStep, ViewTyped DEF SessionInv, SessionTypes
<1>2. ASSUME NEW t \in Tabs, Step(t) PROVE SessionInv'
  <2>1. \A v \in Tabs : v = t
    BY DEF OneTab
  <2>2. SessionTypes'
    BY <1>1, <1>2, SessionTabStep DEF SessionTypes
  <2>3. Booting'
    BY <1>2, <2>1, SessionTabStep DEF Booting
  <2>4. Signed'
    BY <1>2, <2>1, SessionTabStep DEF Signed
  <2>5. AskIsOwn' /\ VerdictIsOwn'
    BY <1>2, <2>1, SessionTabStep DEF AskIsOwn, VerdictIsOwn
  <2> QED BY <1>1, <2>2, <2>3, <2>4, <2>5 DEF SessionInv
<1>3. ASSUME UNCHANGED <<user, booting, verdict, asks, token, view, change, probe, flight, edit,
                         gate>>
      PROVE  SessionInv'
  BY <1>1, <1>3 DEF SessionInv, SessionTypes, Booting, Signed, AskIsOwn, VerdictIsOwn
<1> QED BY <1>2, <1>3, CalmWorld DEF Next

LEMMA SessionInit ==
  ASSUME Init PROVE SessionInv
BY CacheInvInit DEF Init, CacheInit, SessionInv, SessionTypes, Booting, Signed, AskIsOwn,
  VerdictIsOwn, Ask, Verdict

(* The verdict on the activation of an account that the screen follows is  *)
(* about the person signed in, however late the probe of somebody before   *)
(* them answers (AuthContext.tsx cancels it), in a browser with one tab.   *)
THEOREM VerdictsAreOwn ==
  ASSUME OneTab PROVE Spec => []VerdictIsOwn
<1>1. SessionInv /\ [Next]_vars => SessionInv'
  BY SessionStep
<1>2. SessionInv => VerdictIsOwn
  BY DEF SessionInv
<1> QED BY <1>1, <1>2, SessionInit, PTL DEF Spec

(***************************************************************************)
(* The rest of the types.                                                  *)
(***************************************************************************)
LEMMA OwnSteps ==
  ASSUME NEW t \in Tabs, Step(t), ~EditReturns(t) PROVE own' = own
<1>1. ASSUME NEW k \in Keys, Mount(t, k) \/ Fetch(t, k) \/ Serve(t, k) \/ Settle(t, k)
      PROVE  own' = own
  BY <1>1 DEF Mount, Fetch, Serve, Settle, pageVars
<1>2. ASSUME (\E a \in asks[t] : AskReturns(t, a)) \/ (\E u \in Users : Login(t, u))
      PROVE  own' = own
  BY <1>2 DEF AskReturns, Login, pageVars
<1> QED BY <1>1, <1>2 DEF Step, Reload, BootSucceeds, BootFails, Logout, Unmount, Check, SendEdit,
  ApplyEdit, EditFails, SendChange, ApplyChange, ChangeReturns, ChangeFails, pageVars

LEMMA OwnTyped ==
  ASSUME CacheInv, own \in [Users -> Versions], NEW t \in Tabs, EditReturns(t)
  PROVE  /\ own' \in [Users -> Versions]
         /\ edit[t] # None /\ edit[t].ver # None /\ edit[t] \in Edit /\ edit[t].ver \in Versions
         /\ \/ own' = own
            \/ /\ Namespace \in Users
               /\ own' = [own EXCEPT ![Namespace] = edit[t].ver]
<1>1. edit[t] \in Edit /\ edit[t] # None /\ edit[t].ver # None
  BY DEF CacheInv, EditReturns
<1>2. edit[t].ver \in Versions /\ edit[t].bearer.u \in Users
  BY <1>1 DEF Edit, Tokens
<1>3. own' = own \/ (Namespace \in Users /\ own' = [own EXCEPT ![Namespace] = edit[t].ver])
  BY <1>2 DEF EditReturns
<1> QED BY <1>1, <1>2, <1>3

LEMMA GateTyped ==
  ASSUME gate \in [Tabs -> BOOLEAN], [Next]_vars PROVE gate' \in [Tabs -> BOOLEAN]
<1>1. ASSUME NEW t \in Tabs, Step(t) PROVE gate' \in [Tabs -> BOOLEAN]
  <2>0. ASSUME NEW b \in BOOLEAN, gate' = [gate EXCEPT ![t] = b] PROVE gate' \in [Tabs -> BOOLEAN]
    BY <2>0
  <2>1. ASSUME \/ Unmount(t) \/ SendEdit(t) \/ ApplyEdit(t) \/ EditReturns(t) \/ SendChange(t)
               \/ ApplyChange(t) \/ ChangeFails(t)
        PROVE  gate' = gate
    BY <2>1 DEF Unmount, SendEdit, ApplyEdit, EditReturns, SendChange, ApplyChange, ChangeFails,
      authVars
  <2>7. ASSUME Reload(t) \/ BootFails(t) \/ Logout(t) \/ ChangeReturns(t)
        PROVE  gate' = [gate EXCEPT ![t] = FALSE]
    BY <2>7 DEF Reload, BootFails, Logout, ChangeReturns
  <2>8. ASSUME BootSucceeds(t) PROVE gate' \in [Tabs -> BOOLEAN]
    <3>1. gate' = [gate EXCEPT ![t] = booting[t].u \in flagged]
      BY <2>8 DEF BootSucceeds
    <3>2. (booting[t].u \in flagged) \in BOOLEAN
      OBVIOUS
    <3> QED BY <2>0, <3>1, <3>2
  <2>9. ASSUME NEW u \in Users, Login(t, u) PROVE gate' \in [Tabs -> BOOLEAN]
    <3>1. gate' = [gate EXCEPT ![t] = u \in flagged]
      BY <2>9 DEF Login
    <3>2. (u \in flagged) \in BOOLEAN
      OBVIOUS
    <3> QED BY <2>0, <3>1, <3>2
  <2>2. ASSUME NEW code, gate' = GateAfter(t, code) PROVE gate' \in [Tabs -> BOOLEAN]
    BY <2>2 DEF GateAfter
  <2>3. ASSUME EditFails(t) \/ (\E a \in asks[t] : AskReturns(t, a))
        PROVE  gate' \in [Tabs -> BOOLEAN]
    BY <2>2, <2>3 DEF EditFails, AskReturns
  <2>4. ASSUME NEW k \in Keys, Mount(t, k) \/ Fetch(t, k) \/ Serve(t, k) PROVE gate' = gate
    BY <2>4 DEF Mount, Fetch, Serve, authVars
  <2>5. ASSUME NEW k \in Keys, Settle(t, k) PROVE gate' \in [Tabs -> BOOLEAN]
    BY <2>2, <2>5 DEF Settle, PageSettles
  <2>6. ASSUME Check(t) PROVE gate' \in [Tabs -> BOOLEAN]
    BY <2>2, <2>6 DEF Check, authVars
  <2> QED BY <1>1, <2>0, <2>1, <2>3, <2>4, <2>5, <2>6, <2>7, <2>8, <2>9 DEF Step
<1> QED BY <1>1, CalmWorld DEF Next

Upsets == flagged \subseteq Users /\ approved \subseteq Customers /\ upsets \in 0 .. MaxUpsets

LEMMA UpsetsTyped ==
  ASSUME Upsets, [Next]_vars PROVE Upsets'
<1>0. MaxUpsets \in Nat /\ MayReset \subseteq Users
  BY ConsoleAssumption
<1>1. ASSUME NEW t \in Tabs, Step(t)
      PROVE  flagged' \subseteq flagged /\ approved' = approved /\ upsets' = upsets
  <2>1. ASSUME NEW k \in Keys, Mount(t, k) \/ Fetch(t, k) \/ Serve(t, k) \/ Settle(t, k)
        PROVE  UNCHANGED <<flagged, approved, upsets>>
    BY <2>1 DEF Mount, Fetch, Serve, Settle, authVars, pageVars
  <2>2. ASSUME (\E a \in asks[t] : AskReturns(t, a)) \/ (\E u \in Users : Login(t, u))
        PROVE  UNCHANGED <<flagged, approved, upsets>>
    BY <2>2 DEF AskReturns, Login, pageVars
  <2>3. ASSUME ApplyChange(t)
        PROVE  flagged' \subseteq flagged /\ approved' = approved /\ upsets' = upsets
    BY <2>3 DEF ApplyChange
  <2> QED BY <1>1, <2>1, <2>2, <2>3 DEF Step, Reload, BootSucceeds, BootFails, Logout, Unmount,
    Check, SendEdit, ApplyEdit, EditReturns, EditFails, SendChange, ChangeReturns, ChangeFails,
    authVars, pageVars
<1>2. ASSUME NEW u \in MayReset, ForceReset(u) PROVE Upsets'
  BY <1>0, <1>2 DEF ForceReset, Upsets
<1>3. ASSUME NEW u \in MayRetire, RetireSessions(u) PROVE Upsets'
  BY <1>0, <1>3 DEF RetireSessions, Upsets
<1>4. ASSUME NEW u \in Customers, Activate(u) PROVE Upsets'
  BY <1>0, <1>4 DEF Activate, Upsets
<1>5. ASSUME ForeignWrite \/ Passing \/ UNCHANGED vars
      PROVE  UNCHANGED <<flagged, approved, upsets>>
  BY <1>5 DEF ForeignWrite, Passing, vars, authVars, pageVars
<1> QED BY <1>1, <1>2, <1>3, <1>4, <1>5 DEF Next, Upsets

TypeInv == SessionInv /\ gate \in [Tabs -> BOOLEAN] /\ Upsets /\ own \in [Users -> Versions]

LEMMA TypeStep ==
  ASSUME OneTab, TypeInv, [Next]_vars PROVE TypeInv'
<1>1. own' \in [Users -> Versions]
  BY OwnSteps, OwnTyped, CalmWorld DEF TypeInv, SessionInv, Next
<1> QED BY <1>1, SessionStep, GateTyped, UpsetsTyped DEF TypeInv

LEMMA TypeInit ==
  ASSUME Init PROVE TypeInv
<1>1. own \in [Users -> Versions] /\ Upsets /\ gate \in [Tabs -> BOOLEAN]
  BY CacheAssumption, ConsoleAssumption DEF Init, Upsets, Versions
<1> QED BY <1>1, SessionInit DEF TypeInv

(* Every variable of the console keeps its type, in a browser with one tab *)
(* of it; with two, a page that loads can ask on behalf of nobody.         *)
THEOREM ConsoleTypes ==
  ASSUME OneTab PROVE Spec => []TypeOK
<1>1. TypeInv /\ [Next]_vars => TypeInv'
  BY TypeStep
<1>2. TypeInv => TypeOK
  BY DEF TypeInv, TypeOK, SessionInv, CacheInv, SessionTypes, Upsets, Verdict
<1> QED BY <1>1, <1>2, TypeInit, PTL DEF Spec

(***************************************************************************)
(* What a browser keeps is of the person it is kept for, when nobody signs *)
(* in before the password change of the one before is answered.            *)
(***************************************************************************)
Prompt == SlowChange = FALSE

(* Whose reads the memory of a tab holds.                                  *)
Whose(t) == IF owner[t] = None THEN user[t] ELSE owner[t]

ReadBy(f, u) ==
  /\ f.stale # None => f.stale.data.of = u
  /\ f.bearer # None => f.bearer.u = u
  /\ f.stage = "answered" /\ f.answer.code = 200 => f.answer.data.of = u

KeptInv ==
  /\ \A t \in Tabs, k \in Keys :
       mem[t][k] # None => user[t] # None /\ mem[t][k].data.of = Whose(t)
  /\ \A t \in Tabs, k \in Keys :
       flight[t][k] # None /\ flight[t][k].current =>
         user[t] # None /\ ReadBy(flight[t][k], user[t])
  /\ \A u \in Users, k \in Keys : disk[u][k] # None => disk[u][k].data.of = u
  /\ \A t \in Tabs : change[t] # None => user[t] \in {None, change[t].bearer.u}

(* An invalidation by a tab leaves it nothing to go on with.               *)
Emptied(t) ==
  \A k \in Keys : mem'[t][k] = None /\ (flight'[t][k] # None => ~flight'[t][k].current)

LEMMA InvalidateEmpties ==
  ASSUME CacheInv, NEW t \in Tabs, Invalidate(t) \/ ClearPersisted(t), ver' = ver PROVE Emptied(t)
<1>1. flight[t] \in [Keys -> Flight \cup {None}] /\ owner \in [Tabs -> Users \cup {None}]
  BY DEF CacheInv, CacheTypeOK
<1> QED BY <1>1, InvalidateProvenance DEF Invalidate, ClearPersisted, Emptied

LEMMA ForgetEmpties ==
  ASSUME CacheInv, NEW t \in Tabs, Forget(t) PROVE Emptied(t)
<1>1. flight \in [Tabs -> [Keys -> Flight \cup {None}]] /\ mem \in [Tabs -> [Keys -> Entries]]
  BY DEF CacheInv, CacheTypeOK, Entries
<1> QED BY <1>1 DEF Forget, NoEntries, NoFlights, Emptied

(* How the person signed in changes: only when nothing is kept for one.    *)
LEMMA UserMoves ==
  ASSUME SessionInv, KeptInv, NEW t \in Tabs, Step(t)
  PROVE  user'[t] = user[t] \/ (user[t] = None /\ OnlyToken) \/ Emptied(t)
<1>0. user \in [Tabs -> Users \cup {None}] /\ CacheInv
  BY DEF SessionInv, SessionTypes
<1>1. CASE Reload(t)
  BY <1>0, <1>1, ForgetEmpties DEF Reload
<1>2. CASE Logout(t)
  BY <1>0, <1>2, InvalidateEmpties DEF Logout
<1>3. CASE BootSucceeds(t) \/ BootFails(t)
  <2>1. user[t] = None
    BY <1>3 DEF BootSucceeds, BootFails, SessionInv, Booting
  <2> QED BY <1>3, <2>1 DEF BootSucceeds, BootFails, OnlyToken, cacheVars
<1>4. CASE \E u \in Users : Login(t, u)
  BY <1>4 DEF Login, Screen, OnlyToken
<1>5. CASE ChangeReturns(t)
  <2>1. user[t] \in {None, change[t].bearer.u}
    BY <1>5 DEF ChangeReturns, KeptInv
  <2>2. user' = [user EXCEPT ![t] = change[t].bearer.u] /\ OnlyToken
    BY <1>5 DEF ChangeReturns, Become, OnlyToken
  <2> QED BY <1>0, <2>1, <2>2
<1>6. CASE (\E a \in asks[t] : AskReturns(t, a)) \/ Calm
  BY <1>6 DEF AskReturns, Calm
<1> QED BY <1>1, <1>2, <1>3, <1>4, <1>5, <1>6, CalmSteps

LEMMA ChangeIsOwn ==
  ASSUME SessionInv, KeptInv, Prompt, NEW t \in Tabs, Step(t), change'[t] # None
  PROVE  user'[t] \in {None, change'[t].bearer.u}
<1>0. /\ user \in [Tabs -> Users \cup {None}] /\ change \in [Tabs -> Change \cup {None}]
      /\ change[t] # None => user[t] \in {None, change[t].bearer.u}
  BY DEF SessionInv, SessionTypes, CacheInv, KeptInv
<1>1. CASE Reload(t) \/ ChangeReturns(t)
  BY <1>0, <1>1 DEF Reload, ChangeReturns
<1>2. CASE Logout(t) \/ BootFails(t)
  BY <1>0, <1>2 DEF Logout, BootFails, Become
<1>3. CASE BootSucceeds(t)
  BY <1>3 DEF BootSucceeds, SessionInv, Booting, pageVars
<1>4. CASE \E u \in Users : Login(t, u)
  BY <1>4 DEF Login, Prompt, pageVars
<1>5. CASE SendChange(t)
  <2>1. booting[t] = None /\ token # None /\ user' = user
    BY <1>5 DEF SendChange, Screen, authVars
  <2>2. user[t] = token.u
    BY <2>1 DEF SessionInv, Signed
  <2>3. change'[t].bearer = token
    BY <1>0, <1>5 DEF SendChange
  <2> QED BY <2>1, <2>2, <2>3
<1>6. CASE ApplyChange(t)
  <2>1. change[t] \in Change /\ change[t] # None /\ user' = user
    BY <1>0, <1>6 DEF ApplyChange
  <2>2. change' = [change EXCEPT ![t] = [change[t] EXCEPT !.next = gen[change[t].bearer.u] + 1]]
    BY <1>0, <1>6 DEF ApplyChange
  <2>3. change'[t].bearer = change[t].bearer
    BY <1>0, <2>1, <2>2 DEF Change
  <2> QED BY <1>0, <2>1, <2>3
<1>7. CASE change' = change /\ user' = user
  BY <1>0, <1>7
<1>8. CASE ChangeFails(t)
  BY <1>0, <1>8 DEF ChangeFails
<1>9. ASSUME \/ Unmount(t) \/ Check(t) \/ SendEdit(t) \/ ApplyEdit(t) \/ EditReturns(t)
             \/ EditFails(t) \/ \E a \in asks[t] : AskReturns(t, a)
      PROVE  change' = change /\ user' = user
  BY <1>9 DEF Unmount, Check, SendEdit, ApplyEdit, EditReturns, EditFails, AskReturns, authVars,
    pageVars
<1>10. ASSUME NEW k \in Keys, Mount(t, k) \/ Fetch(t, k) \/ Serve(t, k) \/ Settle(t, k)
       PROVE  change' = change /\ user' = user
  BY <1>10 DEF Mount, Fetch, Serve, Settle, authVars, pageVars
<1> QED BY <1>1, <1>2, <1>3, <1>4, <1>5, <1>6, <1>7, <1>8, <1>9, <1>10 DEF Step

LEMMA SettlingIsOwn ==
  ASSUME SessionInv, KeptInv, NEW v \in Tabs, NEW k \in Keys, NEW e, Settling(v, k, e)
  PROVE  user[v] # None /\ e.data.of = user[v] /\ (Namespace # None => Namespace = user[v])
<1>1. user[v] # None /\ e.data.of = user[v]
  BY DEF Settling, SameRead, KeptInv, ReadBy
<1>2. Namespace # None => Namespace = user[v]
  BY <1>1 DEF SessionInv, Booting, Signed, Namespace
<1> QED BY <1>1, <1>2

LEMMA KeptTabStep ==
  ASSUME SessionInv, KeptInv, Provenance, NEW v \in Tabs,
         user'[v] = user[v] \/ (user[v] = None /\ OnlyToken) \/ Emptied(v), NEW k \in Keys
  PROVE  /\ mem'[v][k] # None =>
              /\ user'[v] # None
              /\ mem'[v][k].data.of = IF owner'[v] = None THEN user'[v] ELSE owner'[v]
         /\ flight'[v][k] # None /\ flight'[v][k].current =>
              user'[v] # None /\ ReadBy(flight'[v][k], user'[v])
<1>0. MemFrom(v, k) /\ FlightFrom(v, k) /\ Namespace \in Users \cup {None} /\ CacheTypeOK
  BY LookupTypes DEF Provenance, SessionInv, CacheInv
<1>1. CASE Emptied(v)
  BY <1>1 DEF Emptied
<1>2. CASE user[v] = None /\ OnlyToken
  BY <1>2 DEF OnlyToken, KeptInv
<1>3. CASE user'[v] = user[v]
  <2>1. ASSUME mem'[v][k] # None
        PROVE  user'[v] # None /\ mem'[v][k].data.of = IF owner'[v] = None THEN user'[v]
                                                       ELSE owner'[v]
    <3>1. CASE SameRead(mem'[v][k], mem[v][k]) /\ owner'[v] = owner[v]
      BY <1>3, <3>1 DEF SameRead, KeptInv, Whose
    <3>2. CASE /\ Screen(v) = "console" /\ owner'[v] = Namespace /\ Namespace # None
               /\ SameRead(mem'[v][k], disk[Namespace][k])
      BY <1>0, <1>3, <3>2 DEF SameRead, KeptInv, Screen
    <3>3. CASE owner'[v] = Namespace /\ Settling(v, k, mem'[v][k])
      BY <1>3, <3>3, SettlingIsOwn
    <3> QED BY <1>0, <2>1, <3>1, <3>2, <3>3 DEF MemFrom
  <2>2. ASSUME flight'[v][k] # None, flight'[v][k].current
        PROVE  user'[v] # None /\ ReadBy(flight'[v][k], user'[v])
    <3> DEFINE f == flight[v][k]
               g == flight'[v][k]
    <3>1. CASE f # None /\ GoesOn(f, g, v)
      <4>1. f \in Flight
        BY <1>0, <3>1 DEF CacheTypeOK
      <4>2. user[v] # None /\ ReadBy(f, user[v])
        BY <2>2, <3>1, <4>1, GoesOnIs DEF KeptInv
      <4>3. token # None => token.u = user[v]
        BY <4>2 DEF SessionInv, Booting, Signed
      <4>4. g.stale # None => g.stale.data.of = user[v]
        BY <3>1, <4>1, <4>2, GoesOnIs DEF ReadBy
      <4>5. g.bearer # None => g.bearer.u = user[v]
        BY <3>1, <4>1, <4>2, <4>3, GoesOnIs DEF ReadBy
      <4>6. ASSUME g.stage = "answered", g.answer.code = 200 PROVE g.answer.data.of = user[v]
        <5>1. CASE g.answer = f.answer /\ f.stage = "answered"
          BY <4>2, <4>6, <5>1 DEF ReadBy
        <5>2. CASE g.answer \in {AnswerOf(f), Failed}
          <6>1. f.bearer # None /\ g.answer.data = [of |-> f.bearer.u, ver |-> ver]
            BY <4>1, <4>6, <5>2, AnswerTypes DEF SessionInv
          <6> QED BY <4>2, <6>1 DEF ReadBy
        <5> QED BY <3>1, <4>1, <4>6, <5>1, <5>2, GoesOnIs
      <4> QED BY <1>3, <4>2, <4>4, <4>5, <4>6 DEF ReadBy
    <3>2. CASE Begins(v, k, g)
      <4>1. /\ g.stale = Lookup(v, k) /\ g.bearer = None /\ g.stage # "answered"
            /\ Screen(v) = "console"
        BY <3>2, BeginsIs
      <4>2. user[v] # None /\ booting[v] = None
        BY <4>1 DEF Screen
      <4>3. Namespace # None => Namespace = user[v]
        BY <4>2 DEF SessionInv, Signed, Namespace
      <4>4. Lookup(v, k) # None => Lookup(v, k).data.of = user[v]
        BY <1>0, <4>3 DEF Lookup, Owned, NoEntries, KeptInv, Whose
      <4> QED BY <1>3, <4>1, <4>2, <4>4 DEF ReadBy
    <3> QED BY <1>0, <2>2, <3>1, <3>2 DEF FlightFrom
  <2> QED BY <2>1, <2>2
<1> QED BY <1>1, <1>2, <1>3

LEMMA KeptStep ==
  ASSUME OneTab, Prompt, SessionInv, KeptInv, [Next]_vars PROVE KeptInv'
<1>1. Provenance
  BY StepsProvenance DEF SessionInv
<1>2. ASSUME NEW v \in Tabs
      PROVE  /\ user'[v] = user[v] \/ (user[v] = None /\ OnlyToken) \/ Emptied(v)
             /\ change'[v] # None => user'[v] \in {None, change'[v].bearer.u}
  <2>1. ASSUME NEW t \in Tabs, Step(t)
        PROVE  /\ user'[v] = user[v] \/ (user[v] = None /\ OnlyToken) \/ Emptied(v)
               /\ change'[v] # None => user'[v] \in {None, change'[v].bearer.u}
    <3>1. v = t
      BY DEF OneTab
    <3> QED BY <2>1, <3>1, UserMoves, ChangeIsOwn
  <2> QED BY <2>1, CalmWorld DEF Next, KeptInv
<1>3. ASSUME NEW u \in Users, NEW k \in Keys, disk'[u][k] # None PROVE disk'[u][k].data.of = u
  <2>1. CASE SameRead(disk'[u][k], disk[u][k])
    BY <2>1 DEF SameRead, KeptInv
  <2>2. CASE u = Namespace /\ \E v \in Tabs : Settling(v, k, disk'[u][k])
    <3>1. u # None
      BY CacheAssumption
    <3> QED BY <2>2, <3>1, SettlingIsOwn
  <2> QED BY <1>1, <1>3, <2>1, <2>2 DEF Provenance, DiskFrom
<1> QED BY <1>1, <1>2, <1>3, KeptTabStep DEF KeptInv, Whose

LEMMA KeptInit ==
  ASSUME Init PROVE KeptInv
BY DEF Init, CacheInit, KeptInv, NoEntries, NoFlights

(* What the memory of a tab and the storage of its browser keep for a      *)
(* person was read as that person (queryCache.ts namespaces, ensureOwner,  *)
(* epoch), in a browser with one tab where nobody signs in while a         *)
(* password change of somebody else is still unanswered.                   *)
THEOREM KeptIsOwn ==
  ASSUME OneTab, Prompt PROVE Spec => []KeptForItsOwner
<1>1. SessionInv /\ KeptInv /\ [Next]_vars => (SessionInv /\ KeptInv)'
  BY SessionStep, KeptStep
<1>2. SessionInv /\ KeptInv => KeptForItsOwner
  BY DEF KeptInv, Whose, KeptForItsOwner
<1> QED BY <1>1, <1>2, SessionInit, KeptInit, PTL DEF Spec

(***************************************************************************)
(* Nothing kept for a person predates an edit acknowledged to them.        *)
(***************************************************************************)
Since(d) == d.ver >= own[d.of]

RecentInv ==
  /\ \A u \in Users : own[u] <= ver
  /\ \A t \in Tabs : edit[t] # None /\ edit[t].ver # None => edit[t].ver <= ver
  /\ \A t \in Tabs, k \in Keys : mem[t][k] # None => Since(mem[t][k].data)
  /\ \A u \in Users, k \in Keys : disk[u][k] # None => Since(disk[u][k].data)
  /\ \A t \in Tabs, k \in Keys : flight[t][k] # None /\ flight[t][k].current =>
       LET f == flight[t][k] IN
       /\ f.stale # None => Since(f.stale.data)
       /\ f.stage = "answered" /\ f.answer.code = 200 => Since(f.answer.data)

LEMMA EditsKnown ==
  ASSUME TypeInv, RecentInv, NEW t \in Tabs, Step(t), ver \in Nat, ver' \in Nat, ver <= ver'
  PROVE  \A v \in Tabs : edit'[v] # None /\ edit'[v].ver # None => edit'[v].ver <= ver'
<1>0. edit \in [Tabs -> Edit \cup {None}]
  BY DEF TypeInv, SessionInv, CacheInv
<1>1. \A v \in Tabs : edit[v] # None /\ edit[v].ver # None =>
        edit[v].ver \in Nat /\ edit[v].ver <= ver
  BY <1>0, VersionsAre DEF RecentInv, Edit
<1>2. CASE edit' = edit \/ edit' = [edit EXCEPT ![t] = None]
  BY <1>0, <1>1, <1>2
<1>3. CASE SendEdit(t)
  <2>1. \A v \in Tabs : edit'[v] = edit[v] \/ edit'[v] = [bearer |-> token, ver |-> None]
    BY <1>0, <1>3 DEF SendEdit
  <2> QED BY <1>1, <2>1
<1>4. CASE ApplyEdit(t)
  <2>1. edit[t] \in Edit /\ ver' = ver + 1
    BY <1>0, <1>4 DEF ApplyEdit
  <2>2. edit' = [edit EXCEPT ![t] = [edit[t] EXCEPT !.ver = ver + 1]]
    BY <1>0, <1>4 DEF ApplyEdit
  <2>3. edit'[t].ver = ver' /\ \A v \in Tabs \ {t} : edit'[v] = edit[v]
    BY <1>0, <2>1, <2>2 DEF Edit
  <2> QED BY <1>1, <2>3
<1>5. ASSUME NEW k \in Keys, Mount(t, k) \/ Fetch(t, k) \/ Serve(t, k) \/ Settle(t, k)
      PROVE  edit' = edit
  BY <1>5 DEF Mount, Fetch, Serve, Settle, pageVars
<1>6. ASSUME (\E a \in asks[t] : AskReturns(t, a)) \/ (\E u \in Users : Login(t, u))
      PROVE  edit' = edit
  BY <1>6 DEF AskReturns, Login, pageVars
<1>7. ASSUME ~SendEdit(t), ~ApplyEdit(t) PROVE edit' = edit \/ edit' = [edit EXCEPT ![t] = None]
  BY <1>5, <1>6, <1>7 DEF Step, Reload, BootSucceeds, BootFails, Logout, Unmount, Check,
    EditReturns, EditFails, SendChange, ApplyChange, ChangeReturns, ChangeFails, pageVars
<1> QED BY <1>2, <1>3, <1>4, <1>7

LEMMA EditsKnownWorld ==
  ASSUME [Next]_vars, \A t \in Tabs : ~Step(t) PROVE edit' = edit /\ own' = own
BY CalmWorld DEF Next

(* An edit that comes back: nothing of before it is left to be stored.     *)
LEMMA RecentAfterEdit ==
  ASSUME OneTab, TypeInv, KeptInv, RecentInv, NEW t \in Tabs, EditReturns(t)
  PROVE  /\ \A u \in Users : own'[u] <= ver'
         /\ \A u \in Users, k \in Keys : disk'[u][k] # None =>
              disk'[u][k].data.ver >= own'[disk'[u][k].data.of]
         /\ Emptied(t)
<1>0. /\ own \in [Users -> Versions] /\ CacheInv /\ ver' = ver /\ ver \in Versions
      /\ disk \in [Users -> [Keys -> Entry \cup {None}]]
  BY DEF TypeInv, SessionInv, CacheInv, CacheTypeOK, EditReturns
<1>1. /\ edit[t] # None /\ edit[t].ver # None /\ edit[t].ver \in Versions
      /\ \/ own' = own
         \/ Namespace \in Users /\ own' = [own EXCEPT ![Namespace] = edit[t].ver]
  BY <1>0, OwnTyped
<1>2. edit[t].ver <= ver /\ \A u \in Users : own[u] <= ver
  BY <1>1 DEF RecentInv
<1>3. \A u \in Users : own'[u] <= ver'
  BY <1>0, <1>1, <1>2
<1>4. Emptied(t)
  BY <1>0, InvalidateEmpties DEF EditReturns
<1>5. \A u \in Users : disk'[u] = IF u \in {Namespace} \cap Users THEN NoEntries ELSE disk[u]
  BY <1>0 DEF EditReturns, Invalidate, InvalidateWith
<1>6. ASSUME NEW u \in Users, NEW k \in Keys, disk'[u][k] # None
      PROVE  disk'[u][k].data.ver >= own'[disk'[u][k].data.of]
  <2>1. u # Namespace /\ disk'[u][k] = disk[u][k]
    BY <1>5, <1>6 DEF NoEntries
  <2>2. disk[u][k].data.of = u /\ disk[u][k].data.ver >= own[disk[u][k].data.of]
    BY <1>6, <2>1 DEF KeptInv, RecentInv, Since
  <2>3. own'[u] = own[u]
    BY <1>0, <1>1, <2>1
  <2> QED BY <2>1, <2>2, <2>3
<1> QED BY <1>3, <1>4, <1>6

LEMMA SettlingIsRecent ==
  ASSUME RecentInv, NEW v \in Tabs, NEW k \in Keys, NEW e, Settling(v, k, e) PROVE Since(e.data)
BY DEF Settling, SameRead, RecentInv

(* A step that acknowledges no edit.                                       *)
LEMMA RecentTabStep ==
  ASSUME TypeInv, RecentInv, Provenance, own' = own, NEW v \in Tabs, NEW k \in Keys
  PROVE  /\ mem'[v][k] # None => Since(mem'[v][k].data)
         /\ flight'[v][k] # None /\ flight'[v][k].current =>
              LET g == flight'[v][k] IN
              /\ g.stale # None => Since(g.stale.data)
              /\ g.stage = "answered" /\ g.answer.code = 200 => Since(g.answer.data)
<1>0. MemFrom(v, k) /\ FlightFrom(v, k) /\ Namespace \in Users \cup {None} /\ CacheTypeOK
      /\ CacheInv
  BY LookupTypes DEF Provenance, TypeInv, SessionInv, CacheInv
<1>1. mem'[v][k] # None => Since(mem'[v][k].data)
  BY <1>0, SettlingIsRecent DEF MemFrom, SameRead, RecentInv
<1>2. ASSUME flight'[v][k] # None, flight'[v][k].current
      PROVE  LET g == flight'[v][k] IN
             /\ g.stale # None => Since(g.stale.data)
             /\ g.stage = "answered" /\ g.answer.code = 200 => Since(g.answer.data)
  <2> DEFINE f == flight[v][k]
             g == flight'[v][k]
  <2>1. CASE f # None /\ GoesOn(f, g, v)
    <3>1. f \in Flight
      BY <1>0, <2>1 DEF CacheTypeOK
    <3>2. f.current
      BY <1>2, <2>1, <3>1, GoesOnIs
    <3>3. /\ f.stale # None => Since(f.stale.data)
          /\ f.stage = "answered" /\ f.answer.code = 200 => Since(f.answer.data)
      BY <2>1, <3>2 DEF RecentInv
    <3>4. g.stale # None => Since(g.stale.data)
      BY <2>1, <3>1, <3>3, GoesOnIs
    <3>5. ASSUME g.stage = "answered", g.answer.code = 200 PROVE Since(g.answer.data)
      <4>1. CASE g.answer = f.answer /\ f.stage = "answered"
        BY <3>3, <3>5, <4>1
      <4>2. CASE g.answer \in {AnswerOf(f), Failed}
        <5>1. /\ f.bearer \in Tokens /\ g.answer.data = [of |-> f.bearer.u, ver |-> ver]
          BY <1>0, <3>1, <3>5, <4>2, AnswerTypes
        <5>2. f.bearer.u \in Users /\ own[f.bearer.u] <= ver
          BY <5>1 DEF Tokens, RecentInv
        <5>3. own[f.bearer.u] \in Versions /\ ver \in Versions
          BY <1>0, <5>2 DEF TypeInv, CacheTypeOK
        <5> QED BY <5>1, <5>2, <5>3, VersionsAre DEF Since
      <4> QED BY <2>1, <3>1, <3>5, <4>1, <4>2, GoesOnIs
    <3> QED BY <3>4, <3>5
  <2>2. CASE Begins(v, k, g)
    <3>1. g.stale = Lookup(v, k) /\ g.stage # "answered"
      BY <2>2, BeginsIs
    <3>2. Lookup(v, k) # None => Since(Lookup(v, k).data)
      BY <1>0 DEF Lookup, Owned, NoEntries, RecentInv
    <3> QED BY <3>1, <3>2
  <2> QED BY <1>0, <1>2, <2>1, <2>2 DEF FlightFrom
<1> QED BY <1>1, <1>2

LEMMA RecentStep ==
  ASSUME OneTab, TypeInv, KeptInv, RecentInv, [Next]_vars PROVE RecentInv'
<1>0. Provenance
  BY StepsProvenance DEF TypeInv, SessionInv
<1>1. ver \in Nat /\ ver' \in Nat /\ ver <= ver'
  BY <1>0 DEF Provenance
<1>2. \A v \in Tabs : edit'[v] # None /\ edit'[v].ver # None => edit'[v].ver <= ver'
  <2>1. CASE \E t \in Tabs : Step(t)
    BY <1>1, <2>1, EditsKnown
  <2>2. CASE \A t \in Tabs : ~Step(t)
    <3>1. edit' = edit
      BY <2>2, EditsKnownWorld
    <3>2. ASSUME NEW v \in Tabs, edit[v] # None, edit[v].ver # None PROVE edit[v].ver <= ver'
      <4>1. edit[v].ver \in Versions /\ edit[v].ver <= ver
        BY <3>2 DEF TypeInv, SessionInv, CacheInv, Edit, RecentInv
      <4> QED BY <1>1, <4>1, VersionsAre
    <3> QED BY <3>1, <3>2
  <2> QED BY <2>1, <2>2
<1>3. CASE own' = own
  <2>1. \A u \in Users : own'[u] <= ver'
    <3> SUFFICES ASSUME NEW u \in Users PROVE own[u] <= ver'
      BY <1>3
    <3>1. own[u] \in Versions /\ own[u] <= ver
      BY DEF TypeInv, RecentInv
    <3> QED BY <1>1, <3>1, VersionsAre
  <2>2. ASSUME NEW u \in Users, NEW k \in Keys, disk'[u][k] # None PROVE Since(disk'[u][k].data)
    BY <1>0, <2>2, SettlingIsRecent DEF Provenance, DiskFrom, SameRead, RecentInv
  <2> QED BY <1>0, <1>2, <1>3, <2>1, <2>2, RecentTabStep DEF RecentInv, Since
<1>4. ASSUME NEW t \in Tabs, EditReturns(t) PROVE RecentInv'
  <2>1. \A v \in Tabs : v = t
    BY DEF OneTab
  <2> QED BY <1>2, <1>4, <2>1, RecentAfterEdit DEF RecentInv, Since, Emptied
<1>5. own' = own \/ \E t \in Tabs : EditReturns(t)
  BY OwnSteps, EditsKnownWorld
<1> QED BY <1>3, <1>4, <1>5

LEMMA RecentInit ==
  ASSUME Init PROVE RecentInv
BY DEF Init, CacheInit, RecentInv, NoEntries, NoFlights

(* An operator's own edit is not masked by a cached read: once it came     *)
(* back, what is kept for them is at least as new, whatever was in flight  *)
(* (adminApi.ts invalidateAfterMutation, queryCache.ts epoch), under the   *)
(* same two hypotheses.                                                    *)
THEOREM OwnEditsShow ==
  ASSUME OneTab, Prompt PROVE Spec => []OwnEditNotMasked
<1> DEFINE I == TypeInv /\ KeptInv /\ RecentInv
<1>1. I /\ [Next]_vars => I'
  BY TypeStep, KeptStep, RecentStep DEF TypeInv
<1>2. I => OwnEditNotMasked
  <2> SUFFICES ASSUME I PROVE OwnEditNotMasked
    OBVIOUS
  <2>1. \A u \in Users, k \in Keys : disk[u][k] # None => disk[u][k].data.ver >= own[u]
    BY DEF KeptInv, RecentInv, Since
  <2>2. \A t \in Tabs, k \in Keys :
          mem[t][k] # None /\ owner[t] # None => mem[t][k].data.ver >= own[owner[t]]
    BY DEF KeptInv, RecentInv, Since, Whose
  <2> QED BY <2>1, <2>2 DEF OwnEditNotMasked
<1>3. Init => I
  BY TypeInit, KeptInit, RecentInit
<1> QED BY <1>1, <1>2, <1>3, PTL DEF Spec
=============================================================================
