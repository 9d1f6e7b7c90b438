---------------------------- MODULE AdminConsole ----------------------------
(***************************************************************************)
(* A tab of the admin console: who is signed in (AuthContext), which       *)
(* screen the route guard shows (ProtectedRoute), one mounted page that    *)
(* reads through the cache (useCachedQuery), and the axios interceptors    *)
(* that invalidate the cache, retire the token and raise the forced        *)
(* password screen.  Requests to the server are answered in any order.     *)
(***************************************************************************)
EXTENDS QueryCache

CONSTANTS Customers,   \* the users of the customer mount; the others are staff
          MaxUpsets,   \* bound: activations, forced resets and sessions ended
          MayReset,    \* bound: whom staff force to change the password
          MayRetire,   \* bound: whose sessions the server ends
          SlowChange   \* may somebody else sign in before a password change of
                       \* the person before them is answered?

ASSUME ConsoleAssumption ==
  /\ Customers \cup MayReset \cup MayRetire \subseteq Users
  /\ MaxUpsets \in Nat /\ SlowChange \in BOOLEAN

VARIABLES gen,       \* server: the generation of tokens it still honours
          flagged,   \* server: users who owe a password change
          approved,  \* server: activated customers
          user,      \* AuthContext user, per tab
          booting,   \* the token getMe was sent with, while `loading'
          gate,      \* passwordGate, per tab
          verdict,   \* accountActivated, per tab: of whom, and what
          asks,      \* activation probes not yet settled, per tab
          view,      \* the mounted page's useCachedQuery state, per tab
          edit,      \* the page's mutating request, per tab
          change,    \* the change-password request, per tab
          upsets,    \* activations, forced resets and ended sessions so far
          own        \* history: the last write of each user acknowledged to them

authVars == <<gen, flagged, approved, user, booting, gate, verdict, asks>>
pageVars == <<view, edit, change, upsets, own>>
vars == <<cacheVars, authVars, pageVars>>

View   == [key : Keys, data : Payload \cup {None}, loading : BOOLEAN, waiting : BOOLEAN]
Edit   == [bearer : Tokens, ver : Versions \cup {None}]
Change == [bearer : Tokens, next : 0 .. MaxGen \cup {None}]
Ask    == [bearer : Tokens, cancelled : BOOLEAN]

Init ==
  /\ CacheInit
  /\ gen = [u \in Users |-> 0]
  /\ flagged = {}
  /\ approved = {}
  /\ user = [t \in Tabs |-> None]
  /\ booting = [t \in Tabs |-> None]
  /\ gate = [t \in Tabs |-> FALSE]
  /\ verdict = [t \in Tabs |-> None]
  /\ asks = [t \in Tabs |-> {}]
  /\ view = [t \in Tabs |-> None]
  /\ edit = [t \in Tabs |-> None]
  /\ change = [t \in Tabs |-> None]
  /\ upsets = 0
  /\ own = [u \in Users |-> 0]

-----------------------------------------------------------------------------
(* The route guard.                                                        *)

Screen(t) ==
  IF booting[t] # None THEN "waiting"
  ELSE IF user[t] = None THEN "login"
  ELSE IF gate[t] THEN "change"
  ELSE IF user[t] \notin Customers THEN "console"
  ELSE IF verdict[t] = None THEN "waiting"
  ELSE IF verdict[t].open THEN "console" ELSE "awaiting"

Honoured(tok) == tok # None /\ tok.gen = gen[tok.u]

(* What the server answers to a request that carries tok: the forced-reset *)
(* gate on every route, activation on those of a customer's console.       *)
GateCode(tok) ==
  IF ~Honoured(tok) THEN 401 ELSE IF tok.u \in flagged THEN 403 ELSE 200

CodeFor(tok) ==
  IF GateCode(tok) = 200 /\ tok.u \in Customers \ approved THEN 500 ELSE GateCode(tok)

(* A rejected request: 401 retires the token, whichever is stored now, and *)
(* the forced-reset 403 raises the gate, which unmounts the page.          *)
TokenAfter(code) == IF code = 401 THEN None ELSE token
GateAfter(t, code) == [gate EXCEPT ![t] = @ \/ code = 403]
ViewAfter(t, code, v) == [view EXCEPT ![t] = IF code = 403 THEN None ELSE v]

-----------------------------------------------------------------------------
(* Becoming somebody.  A change of user cancels the activation probe in    *)
(* flight and, for a customer, sends another with the token stored by then.*)

Cancelled(as) == {[a EXCEPT !.cancelled = TRUE] : a \in as}

Become(t, u) ==
  /\ user' = [user EXCEPT ![t] = u]
  /\ IF u = user[t]
     THEN UNCHANGED <<verdict, asks>>
     ELSE /\ verdict' = [verdict EXCEPT ![t] = None]
          /\ asks' = [asks EXCEPT ![t] = Cancelled(@) \cup
                        {[bearer |-> token', cancelled |-> FALSE] : c \in {u} \cap Customers}]

(* A full page load: the token is all that survives, and getMe asks whose. *)
Reload(t) ==
  /\ Forget(t)
  /\ user' = [user EXCEPT ![t] = None]
  /\ booting' = [booting EXCEPT ![t] = token]
  /\ gate' = [gate EXCEPT ![t] = FALSE]
  /\ verdict' = [verdict EXCEPT ![t] = None]
  /\ asks' = [asks EXCEPT ![t] = {}]
  /\ view' = [view EXCEPT ![t] = None]
  /\ edit' = [edit EXCEPT ![t] = None]
  /\ change' = [change EXCEPT ![t] = None]
  /\ UNCHANGED <<token, disk, ver, gen, flagged, approved, upsets, own>>

BootSucceeds(t) ==
  /\ booting[t] # None /\ Honoured(booting[t])
  /\ UNCHANGED cacheVars
  /\ booting' = [booting EXCEPT ![t] = None]
  /\ gate' = [gate EXCEPT ![t] = booting[t].u \in flagged]
  /\ Become(t, booting[t].u)
  /\ UNCHANGED <<gen, flagged, approved, pageVars>>

(* Any failure of getMe, also of the network, drops the token. *)
BootFails(t) ==
  /\ booting[t] # None
  /\ booting' = [booting EXCEPT ![t] = None]
  /\ token' = None
  /\ gate' = [gate EXCEPT ![t] = FALSE]
  /\ Become(t, None)
  /\ UNCHANGED <<disk, ver, mem, owner, probed, probe, flight, gen, flagged, approved, pageVars>>

Login(t, u) ==
  /\ Screen(t) = "login"
  /\ change[t] = None \/ SlowChange
  /\ token' = [u |-> u, gen |-> gen[u]]
  /\ gate' = [gate EXCEPT ![t] = u \in flagged]
  /\ Become(t, u)
  /\ UNCHANGED <<disk, ver, mem, owner, probed, probe, flight, gen, flagged, approved,
                 booting, pageVars>>

Logout(t) ==
  /\ user[t] # None
  /\ token' = None
  /\ ClearPersisted(t)
  /\ gate' = [gate EXCEPT ![t] = FALSE]
  /\ Become(t, None)
  /\ view' = [view EXCEPT ![t] = None]
  /\ UNCHANGED <<ver, gen, flagged, approved, booting, edit, change, upsets, own>>

-----------------------------------------------------------------------------
(* The activation probe, GET /account/me.                                  *)

(* Only the explicit not-activated answer closes the console. *)
ActivationFromProbe(u, failed) == failed \/ u \in approved

VerdictOf(a, code) == [of |-> a.bearer.u, open |-> ActivationFromProbe(a.bearer.u, code # 200)]

AskSettles_Uncancelled(t, a, code) == verdict' = [verdict EXCEPT ![t] = VerdictOf(a, code)]

AskSettles(t, a, code) ==
  verdict' = IF a.cancelled THEN verdict ELSE [verdict EXCEPT ![t] = VerdictOf(a, code)]

AskReturns(t, a) ==
  /\ asks' = [asks EXCEPT ![t] = @ \ {a}]
  /\ \E code \in {GateCode(a.bearer), 500} :
       /\ AskSettles(t, a, code)
       /\ token' = TokenAfter(code)
       /\ gate' = GateAfter(t, code)
       /\ view' = ViewAfter(t, code, view[t])
  /\ UNCHANGED <<disk, ver, mem, owner, probed, probe, flight, gen, flagged, approved, user,
                 booting, edit, change, upsets, own>>

-----------------------------------------------------------------------------
(* The page: useCachedQuery.                                               *)

Mount(t, k) ==
  /\ Screen(t) = "console" /\ view[t] = None
  /\ RunQuery(t, k)
  /\ LET hit == Lookup(t, k) IN
     view' = [view EXCEPT ![t] =
       [key |-> k, data |-> IF hit = None THEN None ELSE hit.data,
        loading |-> hit = None, waiting |-> ~IsFresh(t, k)]]
  /\ UNCHANGED <<token, disk, ver, probed, authVars, edit, change, upsets, own>>

Unmount(t) ==
  /\ view[t] # None
  /\ view' = [view EXCEPT ![t] = None]
  /\ UNCHANGED <<cacheVars, authVars, edit, change, upsets, own>>

(* The promise a page still waits for settles, with data or without. *)
Delivered_NoCatch(v, k, data) ==
  IF v = None \/ ~v.waiting \/ v.key # k \/ data = None THEN v
  ELSE [v EXCEPT !.data = data, !.loading = FALSE, !.waiting = FALSE]

Delivered(v, k, data) ==
  IF v = None \/ ~v.waiting \/ v.key # k THEN v
  ELSE [v EXCEPT !.data = IF data = None THEN @ ELSE data, !.loading = FALSE,
                 !.waiting = FALSE]

PageSettles(t, k) ==
  \/ /\ SettleUnchanged(t, k)
     /\ view' = [view EXCEPT ![t] = Delivered(@, k, flight[t][k].stale.data)]
     /\ UNCHANGED gate
  \/ /\ SettleFetched(t, k)
     /\ view' = [view EXCEPT ![t] = Delivered(@, k, flight[t][k].answer.data)]
     /\ UNCHANGED gate
  \/ /\ SettleFailed(t, k)
     /\ LET code == flight[t][k].answer.code IN
        /\ token' = TokenAfter(code)
        /\ gate' = GateAfter(t, code)
        /\ view' = ViewAfter(t, code, Delivered(view[t], k, None))

Settle(t, k) ==
  /\ PageSettles(t, k)
  /\ UNCHANGED <<gen, flagged, approved, user, booting, verdict, asks, edit, change, upsets, own>>

Fetch(t, k) == SendFetch(t, k) /\ UNCHANGED <<authVars, pageVars>>

AnswerOf(f) ==
  [code |-> CodeFor(f.bearer),
   data |-> IF CodeFor(f.bearer) = 200 THEN [of |-> f.bearer.u, ver |-> ver] ELSE None]

Serve(t, k) ==
  /\ \/ flight[t][k] # None /\ ServeFetch(t, k, AnswerOf(flight[t][k]))
     \/ ServeFetch(t, k, Failed)
  /\ UNCHANGED <<authVars, pageVars>>

(* The change check goes through the same interceptors. *)
Check(t) ==
  \/ /\ probe[t] # None
     /\ \E code \in {GateCode(probe[t].bearer), 500} : ServeProbe(t, code)
     /\ UNCHANGED <<authVars, pageVars>>
  \/ /\ ProbeReturns(t)
     /\ token' = TokenAfter(probe[t].code)
     /\ gate' = GateAfter(t, probe[t].code)
     /\ view' = ViewAfter(t, probe[t].code, view[t])
     /\ UNCHANGED <<gen, flagged, approved, user, booting, verdict, asks, edit, change, upsets,
                    own>>

-----------------------------------------------------------------------------
(* An edit from the page, and a change of password.                        *)

SendEdit(t) ==
  /\ Screen(t) = "console" /\ view[t] # None /\ edit[t] = None /\ token # None
  /\ edit' = [edit EXCEPT ![t] = [bearer |-> token, ver |-> None]]
  /\ UNCHANGED <<cacheVars, authVars, view, change, upsets, own>>

ApplyEdit(t) ==
  /\ edit[t] # None /\ edit[t].ver = None /\ CodeFor(edit[t].bearer) = 200
  /\ ver < MaxWrites
  /\ ver' = ver + 1
  /\ edit' = [edit EXCEPT ![t].ver = ver + 1]
  /\ UNCHANGED <<token, disk, mem, owner, probed, probe, flight, authVars, view, change, upsets, own>>

EditReturns_NoInvalidation(t) ==
  /\ edit[t] # None /\ edit[t].ver # None
  /\ edit' = [edit EXCEPT ![t] = None]
  /\ own' = IF Namespace = edit[t].bearer.u THEN [own EXCEPT ![Namespace] = edit[t].ver]
             ELSE own
  /\ UNCHANGED <<cacheVars, authVars, view, change, upsets>>

(* A mutation that succeeded drops every cached read (fail-closed). *)
EditReturns(t) ==
  /\ edit[t] # None /\ edit[t].ver # None
  /\ edit' = [edit EXCEPT ![t] = None]
  /\ own' = IF Namespace = edit[t].bearer.u THEN [own EXCEPT ![Namespace] = edit[t].ver]
             ELSE own
  /\ Invalidate(t)
  /\ UNCHANGED <<token, ver, authVars, view, change, upsets>>

(* A refusal, or an answer that never came: nothing is invalidated. *)
EditFails(t) ==
  /\ edit[t] # None
  /\ edit' = [edit EXCEPT ![t] = None]
  /\ \E code \in {CodeFor(edit[t].bearer), 500} \ {200} :
       /\ code # 500 => edit[t].ver = None
       /\ token' = TokenAfter(code)
       /\ gate' = GateAfter(t, code)
       /\ view' = ViewAfter(t, code, view[t])
  /\ UNCHANGED <<disk, ver, mem, owner, probed, probe, flight, gen, flagged, approved, user,
                 booting, verdict, asks, change, upsets, own>>

SendChange(t) ==
  /\ Screen(t) = "change" /\ change[t] = None /\ token # None
  /\ change' = [change EXCEPT ![t] = [bearer |-> token, next |-> None]]
  /\ UNCHANGED <<cacheVars, authVars, view, edit, upsets, own>>

ApplyChange(t) ==
  /\ change[t] # None /\ change[t].next = None /\ Honoured(change[t].bearer)
  /\ LET u == change[t].bearer.u IN
     /\ gen[u] < MaxGen
     /\ gen' = [gen EXCEPT ![u] = @ + 1]
     /\ flagged' = flagged \ {u}
     /\ change' = [change EXCEPT ![t].next = gen[u] + 1]
  /\ UNCHANGED <<cacheVars, approved, user, booting, gate, verdict, asks, view, edit, upsets, own>>

(* adopt: the fresh token replaces the one the change retired. *)
ChangeReturns(t) ==
  /\ change[t] # None /\ change[t].next # None
  /\ token' = [u |-> change[t].bearer.u, gen |-> change[t].next]
  /\ gate' = [gate EXCEPT ![t] = FALSE]
  /\ Become(t, change[t].bearer.u)
  /\ view' = [view EXCEPT ![t] = IF user'[t] = user[t] THEN @ ELSE None]
  /\ change' = [change EXCEPT ![t] = None]
  /\ UNCHANGED <<disk, ver, mem, owner, probed, probe, flight, gen, flagged, approved, booting,
                 edit, upsets, own>>

ChangeFails(t) ==
  /\ change[t] # None
  /\ change' = [change EXCEPT ![t] = None]
  /\ \E code \in {IF Honoured(change[t].bearer) THEN 500 ELSE 401, 500} :
       /\ code = 401 => change[t].next = None
       /\ token' = TokenAfter(code)
  /\ UNCHANGED <<disk, ver, mem, owner, probed, probe, flight, authVars, view, edit, upsets, own>>

-----------------------------------------------------------------------------
(* Staff and the rest of the world.                                        *)

ForceReset(u) ==
  /\ u \notin flagged /\ upsets < MaxUpsets
  /\ flagged' = flagged \cup {u}
  /\ upsets' = upsets + 1
  /\ UNCHANGED <<cacheVars, gen, approved, user, booting, gate, verdict, asks, view, edit, change,
                 own>>

RetireSessions(u) ==
  /\ gen[u] < MaxGen /\ upsets < MaxUpsets
  /\ gen' = [gen EXCEPT ![u] = @ + 1]
  /\ upsets' = upsets + 1
  /\ UNCHANGED <<cacheVars, flagged, approved, user, booting, gate, verdict, asks, view, edit,
                 change, own>>

Activate(u) ==
  /\ u \in Customers \ approved /\ upsets < MaxUpsets
  /\ approved' = approved \cup {u}
  /\ upsets' = upsets + 1
  /\ UNCHANGED <<cacheVars, gen, flagged, user, booting, gate, verdict, asks, view, edit, change,
                 own>>

ForeignWrite ==
  /\ ver < MaxWrites
  /\ ver' = ver + 1
  /\ UNCHANGED <<token, disk, mem, owner, probed, probe, flight, authVars, pageVars>>

Passing ==
  /\ (\E k \in Keys : Age(k)) \/ (\E t \in Tabs : ProbeExpires(t))
  /\ UNCHANGED <<authVars, pageVars>>

-----------------------------------------------------------------------------
Step(t) ==
  \/ Reload(t) \/ BootSucceeds(t) \/ BootFails(t)
  \/ \E u \in Users : Login(t, u)
  \/ Logout(t)
  \/ \E a \in asks[t] : AskReturns(t, a)
  \/ \E k \in Keys : Mount(t, k) \/ Fetch(t, k) \/ Serve(t, k) \/ Settle(t, k)
  \/ Unmount(t) \/ Check(t)
  \/ SendEdit(t) \/ ApplyEdit(t) \/ EditReturns(t) \/ EditFails(t)
  \/ SendChange(t) \/ ApplyChange(t) \/ ChangeReturns(t) \/ ChangeFails(t)

Next ==
  \/ \E t \in Tabs : Step(t)
  \/ \E u \in MayReset : ForceReset(u)
  \/ \E u \in MayRetire : RetireSessions(u)
  \/ \E u \in Customers : Activate(u)
  \/ ForeignWrite
  \/ Passing

(* Requests are answered and promises settle: the network does not hold a  *)
(* request for ever.                                                       *)
Fairness ==
  \A t \in Tabs :
    /\ WF_vars(Check(t))
    /\ \A k \in Keys : WF_vars(Fetch(t, k)) /\ WF_vars(Serve(t, k)) /\ WF_vars(Settle(t, k))

Spec == Init /\ [][Next]_vars
FairSpec == Spec /\ Fairness

-----------------------------------------------------------------------------
(* Properties.                                                             *)

(* Types of the variables. *)
TypeOK ==
  /\ CacheTypeOK
  /\ gen \in [Users -> 0 .. MaxGen]
  /\ flagged \subseteq Users
  /\ approved \subseteq Customers
  /\ user \in [Tabs -> Users \cup {None}]
  /\ booting \in [Tabs -> Tokens \cup {None}]
  /\ gate \in [Tabs -> BOOLEAN]
  /\ verdict \in [Tabs -> [of : Customers, open : BOOLEAN] \cup {None}]
  /\ asks \in [Tabs -> SUBSET Ask]
  /\ view \in [Tabs -> View \cup {None}]
  /\ edit \in [Tabs -> Edit \cup {None}]
  /\ change \in [Tabs -> Change \cup {None}]
  /\ upsets \in 0 .. MaxUpsets
  /\ own \in [Users -> Versions]

(* An operator's own edit is never masked by a cached read: once a write    *)
(* was acknowledged to them, signed in, no entry kept for them predates it, *)
(* whatever was in flight when it returned (adminApi.ts                     *)
(* invalidateAfterMutation, queryCache.ts epoch).                           *)
OwnEditNotMasked ==
  /\ \A u \in Users, k \in Keys : disk[u][k] # None => disk[u][k].data.ver >= own[u]
  /\ \A t \in Tabs, k \in Keys :
       mem[t][k] # None /\ owner[t] # None => mem[t][k].data.ver >= own[owner[t]]

(* The activation verdict on screen is about the person signed in, however  *)
(* late the probe of somebody before them answers (AuthContext.tsx).        *)
VerdictIsOwn == \A t \in Tabs : verdict[t] # None => verdict[t].of = user[t]

(* A page that shows its loading state leaves it: every request it can be   *)
(* waiting for settles, also one it joined (useCachedQuery).                *)
LoadingEnds ==
  \A t \in Tabs :
    (view[t] # None /\ view[t].loading) ~> (view[t] = None \/ ~view[t].loading)
=============================================================================
