----------------------------- MODULE QueryCache -----------------------------
(***************************************************************************)
(* The admin console's read cache (admin/services/queryCache.ts): memory   *)
(* over localStorage, one request per key, and a change check before a     *)
(* refetch.  A tab is one document of the console; localStorage, hence the *)
(* token and the persisted entries, is shared by the tabs of a browser.    *)
(*                                                                         *)
(* A payload is abstracted to whose it is and to the number of writes the  *)
(* server had seen when it answered.  `epoch' is abstracted to a flag each *)
(* request carries: no invalidation since it started.                      *)
(*                                                                         *)
(* The module holds the cache's own steps; who waits for a result, and     *)
(* what a result does to a page, belongs to the modules that extend it.    *)
(***************************************************************************)
EXTENDS Naturals

CONSTANTS Tabs, Users, Keys,
          Scoped,      \* the keys read with scopes: they use the change check
          Big,         \* the keys whose payload is above MAX_PERSIST_BYTES
          MaxWrites,   \* bound: writes the server applies
          MaxGen,      \* bound: sessions the server retires, per user
          None

ASSUME CacheAssumption == MaxWrites \in Nat /\ MaxGen \in Nat /\ None \notin Users

VARIABLES token,    \* localStorage admin_token: whose and which, or None
          disk,     \* localStorage entries, by namespace (a token's subject)
          ver,      \* the server's tables: how many writes they have seen
          mem,      \* entries, per tab
          owner,    \* memoryOwner, per tab
          probed,   \* versionsCache, per tab
          probe,    \* versionsInflight, per tab
          flight    \* inflight, per tab and key

cacheVars == <<token, disk, ver, mem, owner, probed, probe, flight>>

Versions == 0 .. MaxWrites
Payload  == [of : Users, ver : Versions]
Entry    == [data : Payload, fresh : BOOLEAN, stamp : Versions \cup {None}]
Answer   == [code : {200, 401, 403, 500}, data : Payload \cup {None}]
Tokens   == [u : Users, gen : 0 .. MaxGen]
Probe    == [current : BOOLEAN, bearer : Tokens \cup {None},
             code : {None, 200, 401, 403, 500}, answer : Versions \cup {None}]
Flight   == [stage : {"probe", "known", "sent", "answered"}, current : BOOLEAN,
             stale : Entry \cup {None}, stamp : Versions \cup {None},
             bearer : Tokens \cup {None}, answer : Answer \cup {None}]

Failed    == [code |-> 500, data |-> None]
NoEntries == [k \in Keys |-> None]
NoFlights == [k \in Keys |-> None]

CacheInit ==
  /\ token = None
  /\ disk = [u \in Users |-> NoEntries]
  /\ ver = 0
  /\ mem = [t \in Tabs |-> NoEntries]
  /\ owner = [t \in Tabs |-> None]
  /\ probed = [t \in Tabs |-> None]
  /\ probe = [t \in Tabs |-> None]
  /\ flight = [t \in Tabs |-> NoFlights]

-----------------------------------------------------------------------------
(* Lookups.  ensureOwner empties the memory of a tab when the token's      *)
(* subject is no longer the one it belongs to.                             *)

Namespace == IF token = None THEN None ELSE token.u

Owned(t) == IF owner[t] = Namespace THEN mem[t] ELSE NoEntries

Lookup(t, k) ==
  IF Owned(t)[k] # None \/ Namespace = None THEN Owned(t)[k] ELSE disk[Namespace][k]

IsFresh(t, k) == Lookup(t, k) # None /\ Lookup(t, k).fresh

(* A lookup leaves what it found on disk in memory. *)
Hydrate(t, k) ==
  /\ mem' = [mem EXCEPT ![t] = [Owned(t) EXCEPT ![k] = Lookup(t, k)]]
  /\ owner' = [owner EXCEPT ![t] = Namespace]

-----------------------------------------------------------------------------
(* runQuery: a fresh hit needs no request, a request in flight for the key *)
(* is joined, and otherwise a new one asks for the versions first.         *)

NeedsRequest(t, k) == ~IsFresh(t, k) /\ flight[t][k] = None

FlightOf(stage, stale, stamp) ==
  [stage |-> stage, current |-> TRUE, stale |-> stale, stamp |-> stamp,
   bearer |-> None, answer |-> None]

StartProbe(t) ==
  probe' = [probe EXCEPT ![t] =
    IF @ = None THEN [current |-> TRUE, bearer |-> token, code |-> None, answer |-> None]
    ELSE @]

RunQuery(t, k) ==
  /\ Hydrate(t, k)
  /\ \/ /\ ~NeedsRequest(t, k)
        /\ UNCHANGED <<flight, probe>>
     \/ /\ NeedsRequest(t, k) /\ k \notin Scoped
        /\ flight' = [flight EXCEPT ![t][k] = FlightOf("known", Lookup(t, k), None)]
        /\ UNCHANGED probe
     \/ /\ NeedsRequest(t, k) /\ k \in Scoped /\ probed[t] # None
        /\ flight' = [flight EXCEPT ![t][k] = FlightOf("known", Lookup(t, k), probed[t])]
        /\ UNCHANGED probe
     \/ /\ NeedsRequest(t, k) /\ k \in Scoped /\ probed[t] = None
        /\ flight' = [flight EXCEPT ![t][k] = FlightOf("probe", Lookup(t, k), None)]
        /\ StartProbe(t)

-----------------------------------------------------------------------------
(* The change check: one GET /data-versions shared by the tab's requests.  *)

ServeProbe(t, code) ==
  /\ probe[t] # None /\ probe[t].code = None
  /\ probe' = [probe EXCEPT ![t].code = code, ![t].bearer = None,
                            ![t].answer = IF code = 200 THEN ver ELSE None]
  /\ UNCHANGED <<token, disk, ver, mem, owner, probed, flight>>

(* The requests that waited for it go on, with or without a version. *)
ProbeReturns(t) ==
  LET v == probe[t].answer IN
  /\ probe[t] # None /\ probe[t].code # None
  /\ probe' = [probe EXCEPT ![t] = None]
  /\ probed' = [probed EXCEPT ![t] = IF v # None /\ probe[t].current THEN v ELSE @]
  /\ flight' = [flight EXCEPT ![t] = [k \in Keys |->
                  IF flight[t][k] # None /\ flight[t][k].stage = "probe"
                  THEN [flight[t][k] EXCEPT !.stage = "known", !.stamp = v]
                  ELSE flight[t][k]]]
  /\ UNCHANGED <<disk, ver, mem, owner>>

(* The stale entry was read under the versions just reported. *)
Unchanged(f) == f.stale # None /\ f.stamp # None /\ f.stale.stamp = f.stamp

SendFetch(t, k) ==
  /\ flight[t][k] # None /\ flight[t][k].stage = "known"
  /\ ~Unchanged(flight[t][k])
  /\ flight' = [flight EXCEPT ![t][k].stage = "sent", ![t][k].stale = None,
                              ![t][k].bearer = token]
  /\ UNCHANGED <<token, disk, ver, mem, owner, probed, probe>>

ServeFetch(t, k, answer) ==
  /\ flight[t][k] # None /\ flight[t][k].stage = "sent"
  /\ flight' = [flight EXCEPT ![t][k].stage = "answered", ![t][k].bearer = None,
                              ![t][k].answer = answer]
  /\ UNCHANGED <<token, disk, ver, mem, owner, probed, probe>>

-----------------------------------------------------------------------------
(* Invalidation and storing.                                               *)

Outdated(f) == IF f = None THEN None ELSE [f EXCEPT !.current = FALSE]

(* invalidateQueries() after the flights of the tab became fl. *)
InvalidateWith(t, fl, wiped) ==
  /\ mem' = [mem EXCEPT ![t] = NoEntries]
  /\ disk' = [u \in Users |-> IF u \in wiped THEN NoEntries ELSE disk[u]]
  /\ flight' = [flight EXCEPT ![t] = [k \in Keys |-> Outdated(fl[k])]]
  /\ probe' = [probe EXCEPT ![t] = Outdated(@)]
  /\ probed' = [probed EXCEPT ![t] = None]

Invalidate(t) ==
  /\ InvalidateWith(t, flight[t], {Namespace} \cap Users)
  /\ UNCHANGED owner

(* clearPersistedQueries(): every namespace, then the tab's memory. *)
ClearPersisted(t) ==
  /\ InvalidateWith(t, flight[t], Users)
  /\ UNCHANGED owner

Written(e, k) == IF k \in Big THEN None ELSE e

(* store(): memory and disk, or, when the browser refuses the write, a     *)
(* fresh start of the whole cache.  The request is over either way.        *)
Store(t, k, e) ==
  LET rest == [flight[t] EXCEPT ![k] = None] IN
  /\ owner' = [owner EXCEPT ![t] = Namespace]
  /\ \/ /\ mem' = [mem EXCEPT ![t] = [Owned(t) EXCEPT ![k] = e]]
        /\ disk' = IF Namespace = None THEN disk
                   ELSE [disk EXCEPT ![Namespace][k] = Written(e, k)]
        /\ flight' = [flight EXCEPT ![t] = rest]
        /\ UNCHANGED <<probe, probed>>
     \/ /\ Namespace # None /\ k \notin Big
        /\ InvalidateWith(t, rest, Users)

(* A request that an invalidation overtook stores nothing. *)
StoreIfCurrent_Always(t, k, e) == Store(t, k, e)

StoreIfCurrent(t, k, e) ==
  \/ /\ flight[t][k].current
     /\ Store(t, k, e)
  \/ /\ ~flight[t][k].current
     /\ flight' = [flight EXCEPT ![t][k] = None]
     /\ UNCHANGED <<disk, mem, owner, probe, probed>>

(* The two ways a request settles with a payload, and the one it fails. *)
SettleUnchanged(t, k) ==
  /\ flight[t][k] # None /\ flight[t][k].stage = "known"
  /\ Unchanged(flight[t][k])
  /\ StoreIfCurrent(t, k, [flight[t][k].stale EXCEPT !.fresh = TRUE])
  /\ UNCHANGED <<token, ver>>

SettleFetched_AskedAfter(t, k) ==
  /\ flight[t][k] # None /\ flight[t][k].stage = "answered"
  /\ flight[t][k].answer.code = 200
  /\ StoreIfCurrent(t, k, [data |-> flight[t][k].answer.data, fresh |-> TRUE, stamp |-> ver])
  /\ UNCHANGED <<token, ver>>

SettleFetched(t, k) ==
  /\ flight[t][k] # None /\ flight[t][k].stage = "answered"
  /\ flight[t][k].answer.code = 200
  /\ StoreIfCurrent(t, k, [data |-> flight[t][k].answer.data, fresh |-> TRUE,
                           stamp |-> flight[t][k].stamp])
  /\ UNCHANGED <<token, ver>>

SettleFailed(t, k) ==
  /\ flight[t][k] # None /\ flight[t][k].stage = "answered"
  /\ flight[t][k].answer.code # 200
  /\ flight' = [flight EXCEPT ![t][k] = None]
  /\ UNCHANGED <<disk, ver, mem, owner, probe, probed>>

-----------------------------------------------------------------------------
(* Time: an entry passes its maxAge, the change check's answer its ten     *)
(* seconds.                                                                *)

Old(e) == IF e = None THEN None ELSE [e EXCEPT !.fresh = FALSE]

Age(k) ==
  /\ mem' = [t \in Tabs |-> [mem[t] EXCEPT ![k] = Old(@)]]
  /\ disk' = [u \in Users |-> [disk[u] EXCEPT ![k] = Old(@)]]
  /\ UNCHANGED <<token, ver, owner, probed, probe, flight>>

ProbeExpires(t) ==
  /\ probed[t] # None
  /\ probed' = [probed EXCEPT ![t] = None]
  /\ UNCHANGED <<token, disk, ver, mem, owner, probe, flight>>

(* A new document: module memory starts empty. *)
Forget(t) ==
  /\ mem' = [mem EXCEPT ![t] = NoEntries]
  /\ owner' = [owner EXCEPT ![t] = None]
  /\ probed' = [probed EXCEPT ![t] = None]
  /\ probe' = [probe EXCEPT ![t] = None]
  /\ flight' = [flight EXCEPT ![t] = NoFlights]

-----------------------------------------------------------------------------
(* Properties of the cache.                                                *)

(* Types of the variables. *)
CacheTypeOK ==
  /\ token \in Tokens \cup {None}
  /\ disk \in [Users -> [Keys -> Entry \cup {None}]]
  /\ ver \in Versions
  /\ mem \in [Tabs -> [Keys -> Entry \cup {None}]]
  /\ owner \in [Tabs -> Users \cup {None}]
  /\ probed \in [Tabs -> Versions \cup {None}]
  /\ probe \in [Tabs -> Probe \cup {None}]
  /\ flight \in [Tabs -> [Keys -> Flight \cup {None}]]

Cached == {mem[t][k] : t \in Tabs, k \in Keys} \cup {disk[u][k] : u \in Users, k \in Keys}

(* A stored payload is never older than the version it is stored under: the *)
(* versions are asked for before the fetch (queryCache.ts revalidate), so   *)
(* the change check can refetch once too often but never pin a stale one.   *)
StampNeverAhead ==
  \A e \in Cached : e # None /\ e.stamp # None => e.data.ver >= e.stamp

(* What a browser keeps for a person was read as that person. *)
KeptForItsOwner ==
  /\ \A u \in Users, k \in Keys : disk[u][k] # None => disk[u][k].data.of = u
  /\ \A t \in Tabs, k \in Keys : mem[t][k] # None => owner[t] \in {mem[t][k].data.of, None}
=============================================================================
