--------------------------- MODULE WorkbenchProofs ---------------------------
(***************************************************************************)
(* What the BOM workbench shows, asks for and keeps, for every value of    *)
(* the constants: any number of parses, lines, reads and picks.            *)
(***************************************************************************)
EXTENDS Workbench, TLAPS

(***************************************************************************)
(* The invariant.  Its parts are predicates of a bench, a memory, calls    *)
(* and what was told, so that they can speak of what an action hands to    *)
(* Commit as well as of the state.                                         *)
(***************************************************************************)

(* A table all of whose rows answer for parse p.                           *)
TableOf(rows, p) == rows \in Table /\ \A l \in Lines : rows[l].of = p
(* The rows of p a reader would see: on screen, or filed.                  *)
Shown(b, mem, p) == IF b.of = p /\ b.landed THEN b.rows ELSE mem.priced[p].rows
Store == [session : Designs \cup {None}, priced : [Parses -> Snapshot \cup {Unpriced}]]
Told  == [answered : SUBSET Parses, picks : [Parses -> [Lines -> Skus \cup {None}]]]

(* Rows are on screen exactly when an answer landed, all for the bench's   *)
(* parse; a match is awaited only before that.                             *)
BenchOK(b) ==
  /\ b \in Bench
  /\ b.landed => b.of \in Parses \ Unpriceable /\ TableOf(b.rows, b.of)
  /\ ~b.landed => b.rows = NoRows
  /\ b.matching => b.of \in Parses \ Unpriceable /\ ~b.landed

(* A filed answer is a table of its parse and nothing in it waits.         *)
MemoryOK(mem) ==
  /\ mem \in Store
  /\ \A p \in Parses : mem.priced[p] # Unpriced =>
       p \notin Unpriceable /\ TableOf(mem.priced[p].rows, p) /\ ~Waiting(mem.priced[p].rows)

(* A parse without an answer on screen, or with one that still waits, has  *)
(* none filed.                                                             *)
AskedOK(b, mem) ==
  b.of # None /\ (~b.landed \/ Waiting(b.rows)) => mem.priced[b.of] = Unpriced

(* An answer in which nothing waits is filed as it is on screen.           *)
FiledOK(b, mem) ==
  b.landed /\ ~Waiting(b.rows) => mem.priced[b.of] # Unpriced /\ mem.priced[b.of].rows = b.rows

(* Every request of the hook is for the bench's parse.  A stream owes only *)
(* lines without a part, a pick is of a line with one.                     *)
CallsOK(b, cs) ==
  /\ cs \subseteq Call
  /\ \A c \in cs :
       /\ c.kind # "read" => c.of = b.of
       /\ c.kind = "match" => b.matching
       /\ c.kind = "stream" => b.landed /\ \A l \in c.left : b.rows[l].answer \notin Skus
       /\ c.kind = "pick" => b.landed /\ b.rows[c.line].answer \in Skus

(* A line that spins is owed an event.                                     *)
SpinOK(b, cs) ==
  \A l \in DOMAIN b.rows : b.rows[l].state = "resolving" =>
    \E c \in cs : c.kind = "stream" /\ l \in c.left

(* An answer was given exactly when it is filed or on screen, and a part   *)
(* that was picked is in it.                                               *)
ToldOK(b, mem, t) ==
  /\ t \in Told
  /\ \A p \in Parses :
       /\ p \in t.answered <=> mem.priced[p] # Unpriced \/ (b.of = p /\ b.landed)
       /\ \A l \in Lines : t.picks[p][l] # None =>
            p \in t.answered /\ Shown(b, mem, p)[l].answer = t.picks[p][l]

WorkInv ==
  /\ page \in Page /\ fresh \subseteq Parses /\ bench.of = Handed(page)
  /\ BenchOK(bench) /\ MemoryOK(memory) /\ AskedOK(bench, memory) /\ FiledOK(bench, memory)
  /\ CallsOK(bench, calls) /\ SpinOK(bench, calls) /\ ToldOK(bench, memory, told)

(***************************************************************************)
(* Operators.                                                              *)
(***************************************************************************)
LEMMA NoneIs == None \notin Parses /\ None \notin Skus /\ "resolve" # None /\ "live" # None
BY WorkbenchAssumption DEF None, Parses

LEMMA SkusAre == Best \in Skus
BY WorkbenchAssumption

LEMMA TablesHaveRows ==
  ASSUME NEW rows \in Table PROVE rows # NoRows /\ DOMAIN rows = Lines
BY WorkbenchAssumption DEF Table, NoRows

LEMMA NoRowsWait == ~Waiting(NoRows) /\ DOMAIN NoRows = {}
BY DEF Waiting, NoRows

LEMMA UnpricedIs == Unpriced.rows = NoRows /\ Unpriced \notin Snapshot
<1>1. Unpriced.rows = NoRows
  BY DEF Unpriced
<1>2. ASSUME Unpriced \in Snapshot PROVE FALSE
  <2>1. Unpriced.rows \in Table
    BY <1>2 DEF Snapshot
  <2> QED BY <1>1, <2>1, TablesHaveRows
<1> QED BY <1>1, <1>2

LEMMA SettledIs ==
  ASSUME NEW p \in Parses, NEW rows, TableOf(rows, p)
  PROVE  /\ TableOf(SettleStragglers(rows), p) /\ ~Waiting(SettleStragglers(rows))
         /\ \A l \in Lines : SettleStragglers(rows)[l].answer = rows[l].answer
         /\ ~Waiting(rows) => SettleStragglers(rows) = rows
<1>1. DOMAIN rows = Lines /\ rows = [l \in Lines |-> rows[l]]
  BY DEF TableOf, Table
<1>2. SettleStragglers(rows) = [l \in Lines |->
        IF rows[l].state = "resolving" THEN [rows[l] EXCEPT !.state = "matched"] ELSE rows[l]]
  BY <1>1 DEF SettleStragglers
<1>3. ASSUME NEW l \in Lines
      PROVE  /\ SettleStragglers(rows)[l] \in TableRow
             /\ SettleStragglers(rows)[l].of = p
             /\ SettleStragglers(rows)[l].state # "resolving"
             /\ SettleStragglers(rows)[l].answer = rows[l].answer
             /\ rows[l].state # "resolving" => SettleStragglers(rows)[l] = rows[l]
  <2>1. rows[l] \in TableRow /\ rows[l].of = p
    BY DEF TableOf, Table
  <2> QED BY <1>2, <2>1 DEF TableRow, RowState
<1>4. DOMAIN SettleStragglers(rows) = Lines
  BY <1>2
<1>5. SettleStragglers(rows) \in Table
  BY <1>2, <1>3 DEF Table
<1>6. ~Waiting(SettleStragglers(rows))
  BY <1>3, <1>4 DEF Waiting
<1>7. ASSUME ~Waiting(rows) PROVE SettleStragglers(rows) = rows
  <2>1. \A l \in Lines : SettleStragglers(rows)[l] = rows[l]
    BY <1>1, <1>3, <1>7 DEF Waiting
  <2> QED BY <1>1, <1>2, <2>1
<1> QED BY <1>3, <1>5, <1>6, <1>7 DEF TableOf

(* Filing the answer on screen.                                            *)
LEMMA RememberedIs ==
  ASSUME NEW mem, MemoryOK(mem), NEW b, BenchOK(b), b.landed
  PROVE  LET pr == Remember(mem.priced, b) IN
         /\ pr \in [Parses -> Snapshot \cup {Unpriced}]
         /\ \A p \in Parses : p # b.of => pr[p] = mem.priced[p]
         /\ pr[b.of] # Unpriced /\ pr[b.of].rows = SettleStragglers(b.rows)
<1>1. b.of \in Parses /\ b.of # None /\ TableOf(b.rows, b.of) /\ b.rows # NoRows
  BY NoneIs, TablesHaveRows DEF BenchOK, TableOf
<1> DEFINE s == [rows |-> SettleStragglers(b.rows), capped |-> b.capped,
                 stopped |-> b.stopped \/ Waiting(b.rows)]
<1>2. Remember(mem.priced, b) = [mem.priced EXCEPT ![b.of] = s]
  BY <1>1 DEF Remember
<1>3. s \in Snapshot /\ s.rows = SettleStragglers(b.rows)
  <2>1. b.capped \in BOOLEAN /\ b.stopped \in BOOLEAN
    BY DEF BenchOK, Bench
  <2>2. (b.stopped \/ Waiting(b.rows)) \in BOOLEAN
    OBVIOUS
  <2>3. SettleStragglers(b.rows) \in Table
    BY <1>1, SettledIs DEF TableOf
  <2> QED BY <2>1, <2>2, <2>3 DEF Snapshot
<1>4. mem.priced \in [Parses -> Snapshot \cup {Unpriced}]
  BY DEF MemoryOK, Store
<1> HIDE DEF s
<1> QED BY <1>1, <1>2, <1>3, <1>4, UnpricedIs

LEMMA WithoutIs ==
  ASSUME NEW t \in Told, NEW p \in Parses \cup {None}
  PROVE  /\ Without(t, p) \in Told
         /\ \A q \in Parses : IF q = p
              THEN q \notin Without(t, p).answered
                   /\ \A l \in Lines : Without(t, p).picks[q][l] = None
              ELSE (q \in Without(t, p).answered <=> q \in t.answered)
                   /\ Without(t, p).picks[q] = t.picks[q]
<1>1. CASE p = None
  BY <1>1, NoneIs DEF Without
<1>2. CASE p # None
  <2> DEFINE nothing == [l \in Lines |-> None]
             ps == [t.picks EXCEPT ![p] = nothing]
  <2>1. Without(t, p) = [answered |-> t.answered \ {p}, picks |-> ps]
    BY <1>2 DEF Without
  <2>2. nothing \in [Lines -> Skus \cup {None}] /\ \A l \in Lines : nothing[l] = None
    OBVIOUS
  <2>3. t.picks \in [Parses -> [Lines -> Skus \cup {None}]] /\ t.answered \subseteq Parses
    BY DEF Told
  <2>4. p \in Parses
    BY <1>2
  <2> HIDE DEF nothing
  <2>5. /\ ps \in [Parses -> [Lines -> Skus \cup {None}]] /\ ps[p] = nothing
        /\ \A q \in Parses : q # p => ps[q] = t.picks[q]
    BY <2>2, <2>3, <2>4
  <2> HIDE DEF ps
  <2> QED BY <2>1, <2>2, <2>3, <2>5 DEF Told
<1> QED BY <1>1, <1>2

(* What the phase-1 effect makes of a parse.                               *)
LEMMA PricedIs ==
  ASSUME NEW b, BenchOK(b), NEW mem, MemoryOK(mem), NEW p \in Parses \cup {None}
  PROVE  LET c == Priced(b, p, mem.priced) IN
         /\ BenchOK(c) /\ c.of = p /\ ~Waiting(c.rows)
         /\ c.matching => p \in Parses
         /\ IF c.landed THEN p \in Parses /\ mem.priced[p] # Unpriced /\ c.rows = mem.priced[p].rows
            ELSE p # None => mem.priced[p] = Unpriced
<1> DEFINE L == [Lines -> 0..MaxPicks]
           c == Priced(b, p, mem.priced)
<1>1. b \in [of: Parses \cup {None}, rows: Table \cup {NoRows}, matching: BOOLEAN,
             failed: BOOLEAN, landed: BOOLEAN, capped: BOOLEAN, stopped: BOOLEAN,
             includeDnp: BOOLEAN, pickSeq: L]
  BY DEF BenchOK, Bench
<1>2. Bench = [of: Parses \cup {None}, rows: Table \cup {NoRows}, matching: BOOLEAN,
               failed: BOOLEAN, landed: BOOLEAN, capped: BOOLEAN, stopped: BOOLEAN,
               includeDnp: BOOLEAN, pickSeq: L]
  BY DEF Bench
<1> HIDE DEF L
<1>3. CASE ~HasLinesToPrice(p)
  <2>1. c = [b EXCEPT !.of = p, !.rows = NoRows, !.landed = FALSE, !.failed = FALSE,
                      !.matching = FALSE, !.capped = FALSE, !.stopped = FALSE]
    BY <1>1, <1>3 DEF Priced
  <2>2. c \in Bench /\ c.of = p /\ c.rows = NoRows /\ ~c.landed /\ ~c.matching
    BY <1>1, <1>2, <2>1
  <2>3. p # None => mem.priced[p] = Unpriced
    BY <1>3 DEF HasLinesToPrice, MemoryOK
  <2> QED BY <2>2, <2>3, NoRowsWait DEF BenchOK
<1>4. CASE HasLinesToPrice(p) /\ mem.priced[p] # Unpriced
  <2>1. p \in Parses \ Unpriceable
    BY <1>4 DEF HasLinesToPrice
  <2>2. mem.priced[p] \in Snapshot /\ TableOf(mem.priced[p].rows, p) /\ ~Waiting(mem.priced[p].rows)
    BY <1>4, <2>1 DEF MemoryOK, Store
  <2> DEFINE s == mem.priced[p]
  <2>3. c = [b EXCEPT !.of = p, !.rows = s.rows, !.landed = TRUE, !.failed = FALSE,
                      !.matching = FALSE, !.capped = s.capped, !.stopped = s.stopped]
    BY <1>1, <1>4 DEF Priced
  <2>4. s.rows \in Table /\ s.capped \in BOOLEAN /\ s.stopped \in BOOLEAN
    BY <2>2 DEF Snapshot
  <2>5. c \in Bench /\ c.of = p /\ c.rows = s.rows /\ c.landed /\ ~c.matching
    <3> HIDE DEF s
    <3> QED BY <1>1, <1>2, <2>3, <2>4
  <2> QED BY <1>4, <2>1, <2>2, <2>5 DEF BenchOK
<1>5. CASE HasLinesToPrice(p) /\ mem.priced[p] = Unpriced
  <2>1. p \in Parses \ Unpriceable
    BY <1>5 DEF HasLinesToPrice
  <2>2. c = [b EXCEPT !.of = p, !.rows = NoRows, !.landed = FALSE, !.failed = FALSE,
                      !.matching = TRUE]
    BY <1>1, <1>5 DEF Priced
  <2>3. c \in Bench /\ c.of = p /\ c.rows = NoRows /\ ~c.landed /\ c.matching
    BY <1>1, <1>2, <2>2
  <2> QED BY <1>5, <2>1, <2>3, NoRowsWait DEF BenchOK
<1> QED BY <1>3, <1>4, <1>5

(***************************************************************************)
(* A commit: the phase-1 effect, the snapshot, what is held.               *)
(***************************************************************************)

(* Something waits only in a table on screen.                              *)
LEMMA WaitingIsLanded ==
  ASSUME NEW b, BenchOK(b), Waiting(b.rows) PROVE b.landed /\ b.of \in Parses
BY NoRowsWait DEF BenchOK

(* The hook is handed another parse.                                       *)
LEMMA AnewKeeps ==
  ASSUME NEW b, NEW mem, NEW cs, NEW t, NEW p \in Parses \cup {None}, p # b.of,
         BenchOK(b), MemoryOK(mem), AskedOK(b, mem), FiledOK(b, mem), CallsOK(b, cs),
         ToldOK(b, mem, t)
  PROVE  LET c == Priced(b, p, mem.priced)
             asks == IF c.matching THEN {[kind |-> "match", of |-> c.of]} ELSE {}
         IN  /\ AskedOK(c, mem) /\ CallsOK(c, Abandoned(cs) \cup asks)
             /\ SpinOK(c, Abandoned(cs) \cup asks) /\ ToldOK(c, mem, Binned(t, b))
<1> DEFINE c == Priced(b, p, mem.priced)
           asks == IF c.matching THEN {[kind |-> "match", of |-> c.of]} ELSE {}
           t1 == Binned(t, b)
<1>1. /\ BenchOK(c) /\ c.of = p /\ ~Waiting(c.rows)
      /\ c.matching => p \in Parses
      /\ IF c.landed THEN p \in Parses /\ mem.priced[p] # Unpriced /\ c.rows = mem.priced[p].rows
         ELSE p # None => mem.priced[p] = Unpriced
  BY PricedIs
<1> HIDE DEF c
<1>2. AskedOK(c, mem)
  BY <1>1 DEF AskedOK
<1>3. asks \subseteq Call /\ \A a \in asks : a.kind = "match" /\ a.of = c.of /\ c.matching
  BY <1>1 DEF Call
<1>4. Abandoned(cs) \subseteq Call /\ \A a \in Abandoned(cs) : a.kind = "read"
  BY DEF Abandoned, CallsOK
<1> HIDE DEF asks
<1>5. CallsOK(c, Abandoned(cs) \cup asks)
  BY <1>3, <1>4 DEF CallsOK
<1>6. SpinOK(c, Abandoned(cs) \cup asks)
  BY <1>1 DEF SpinOK, Waiting
<1>7. /\ t1 \in Told
      /\ \A q \in Parses :
           /\ q \in t1.answered <=> mem.priced[q] # Unpriced
           /\ \A l \in Lines : t1.picks[q][l] # None =>
                q \in t1.answered /\ mem.priced[q].rows[l].answer = t1.picks[q][l]
  <2>1. t \in Told /\ b.of \in Parses \cup {None}
    BY DEF ToldOK, BenchOK, Bench
  <2>2. CASE Waiting(b.rows)
    <3>1. b.landed /\ b.of \in Parses /\ mem.priced[b.of] = Unpriced
      BY <2>2, WaitingIsLanded, NoneIs DEF AskedOK
    <3>2. t1 = Without(t, b.of)
      BY <2>2 DEF Binned
    <3> HIDE DEF t1
    <3>3. t1 \in Told
      BY <2>1, <3>2, WithoutIs
    <3>4. ASSUME NEW q \in Parses
          PROVE  /\ q \in t1.answered <=> mem.priced[q] # Unpriced
                 /\ \A l \in Lines : t1.picks[q][l] # None =>
                      q \in t1.answered /\ mem.priced[q].rows[l].answer = t1.picks[q][l]
      <4>1. CASE q = b.of
        BY <2>1, <3>1, <3>2, <4>1, WithoutIs
      <4>2. CASE q # b.of
        <5>1. (q \in t1.answered <=> q \in t.answered) /\ t1.picks[q] = t.picks[q]
          BY <2>1, <3>2, <4>2, WithoutIs
        <5> QED BY <4>2, <5>1 DEF ToldOK, Shown
      <4> QED BY <4>1, <4>2
    <3> QED BY <3>3, <3>4
  <2>3. CASE ~Waiting(b.rows)
    <3>1. t1 = t
      BY <2>3 DEF Binned
    <3> HIDE DEF t1
    <3>2. b.landed => mem.priced[b.of] # Unpriced /\ mem.priced[b.of].rows = b.rows
      BY <2>3 DEF FiledOK
    <3> QED BY <2>1, <3>1, <3>2 DEF ToldOK, Shown
  <2> QED BY <2>2, <2>3
<1> HIDE DEF t1
<1>8. ToldOK(c, mem, t1)
  BY <1>1, <1>7 DEF ToldOK, Shown
<1> QED BY <1>2, <1>5, <1>6, <1>8 DEF asks, t1, c

(* The snapshot effect.                                                    *)
LEMMA RecordKeeps ==
  ASSUME NEW b, NEW mem, NEW t, BenchOK(b), MemoryOK(mem), AskedOK(b, mem), ToldOK(b, mem, t)
  PROVE  LET m == [mem EXCEPT !.priced = Recorded(mem.priced, b)] IN
         /\ MemoryOK(m) /\ AskedOK(b, m) /\ FiledOK(b, m) /\ ToldOK(b, m, t)
         /\ m.session = mem.session
<1> DEFINE pr == Recorded(mem.priced, b)
           m == [mem EXCEPT !.priced = pr]
<1>1. mem \in Store /\ mem.priced \in [Parses -> Snapshot \cup {Unpriced}]
  BY DEF MemoryOK, Store
<1>2. CASE ~b.landed \/ Waiting(b.rows)
  <2>1. pr = mem.priced
    BY <1>2 DEF Recorded
  <2> HIDE DEF pr
  <2>2. m = mem
    BY <1>1, <2>1 DEF Store
  <2> HIDE DEF m
  <2>3. FiledOK(b, m)
    BY <1>2 DEF FiledOK
  <2> QED BY <2>2, <2>3 DEF m, pr
<1>3. CASE b.landed /\ ~Waiting(b.rows)
  <2>1. /\ pr = Remember(mem.priced, b) /\ b.of \in Parses \ Unpriceable
        /\ TableOf(b.rows, b.of)
    BY <1>3 DEF Recorded, BenchOK
  <2>2. SettleStragglers(b.rows) = b.rows
    BY <1>3, <2>1, SettledIs
  <2>3. /\ pr \in [Parses -> Snapshot \cup {Unpriced}] /\ pr[b.of] # Unpriced /\ pr[b.of].rows = b.rows
        /\ \A p \in Parses : p # b.of => pr[p] = mem.priced[p]
    BY <1>3, <2>1, <2>2, RememberedIs
  <2> HIDE DEF pr
  <2>4. m \in Store /\ m.priced = pr /\ m.session = mem.session
    BY <1>1, <2>3 DEF Store
  <2> HIDE DEF m
  <2>5. MemoryOK(m)
    BY <1>3, <2>1, <2>3, <2>4 DEF MemoryOK
  <2>6. AskedOK(b, m)
    BY <1>3 DEF AskedOK, BenchOK
  <2>7. FiledOK(b, m)
    BY <2>3, <2>4 DEF FiledOK
  <2>8. ToldOK(b, m, t)
    BY <1>3, <2>3, <2>4 DEF ToldOK, Shown
  <2> QED BY <2>4, <2>5, <2>6, <2>7, <2>8 DEF m, pr
<1> QED BY <1>2, <1>3

(* What nobody holds is gone; the parse of the bench is held by its page.  *)
LEMMA KeepKeeps ==
  ASSUME NEW b, NEW mem, NEW t, NEW pg, b.of = Handed(pg),
         BenchOK(b), MemoryOK(mem), AskedOK(b, mem), FiledOK(b, mem), ToldOK(b, mem, t)
  PROVE  LET m == Kept(mem, pg)
             k == KeptTold(t, mem, pg)
         IN  MemoryOK(m) /\ AskedOK(b, m) /\ FiledOK(b, m) /\ ToldOK(b, m, k)
<1> DEFINE pr == [p \in Parses |-> IF Held(p, pg, mem) THEN mem.priced[p] ELSE Unpriced]
           m == [mem EXCEPT !.priced = pr]
           ps == [p \in Parses |-> IF Held(p, pg, mem) THEN t.picks[p] ELSE [l \in Lines |-> None]]
           k == [answered |-> {p \in t.answered : Held(p, pg, mem)}, picks |-> ps]
<1>0. Kept(mem, pg) = m /\ KeptTold(t, mem, pg) = k
  BY DEF Kept, KeptTold
<1>1. mem \in Store /\ mem.priced \in [Parses -> Snapshot \cup {Unpriced}]
  BY DEF MemoryOK, Store
<1>2. t \in Told /\ t.answered \subseteq Parses /\ t.picks \in [Parses -> [Lines -> Skus \cup {None}]]
  BY DEF ToldOK, Told
<1>3. b.of \in Parses => Held(b.of, pg, mem)
  BY NoneIs DEF Handed, Held
<1>4. /\ pr \in [Parses -> Snapshot \cup {Unpriced}]
      /\ \A p \in Parses : pr[p] = IF Held(p, pg, mem) THEN mem.priced[p] ELSE Unpriced
  BY <1>1
<1>5. /\ ps \in [Parses -> [Lines -> Skus \cup {None}]]
      /\ \A p \in Parses : IF Held(p, pg, mem) THEN ps[p] = t.picks[p]
                           ELSE \A l \in Lines : ps[p][l] = None
  BY <1>2
<1> HIDE DEF pr, ps
<1>6. m \in Store /\ m.priced = pr
  BY <1>1, <1>4 DEF Store
<1>7. k \in Told /\ k.picks = ps
  BY <1>2, <1>5 DEF Told
<1>8. \A p \in Parses : p \in k.answered <=> p \in t.answered /\ Held(p, pg, mem)
  OBVIOUS
<1> HIDE DEF m, k
<1>9. MemoryOK(m)
  BY <1>4, <1>6 DEF MemoryOK
<1>10. AskedOK(b, m)
  <2>1. b.of # None => b.of \in Parses
    BY DEF BenchOK, Bench
  <2> QED BY <1>4, <1>6, <2>1 DEF AskedOK
<1>11. FiledOK(b, m)
  BY <1>3, <1>4, <1>6 DEF FiledOK, BenchOK
<1>12. ToldOK(b, m, k)
  <2>1. ASSUME NEW p \in Parses
        PROVE  /\ p \in k.answered <=> m.priced[p] # Unpriced \/ (b.of = p /\ b.landed)
               /\ \A l \in Lines : k.picks[p][l] # None =>
                    p \in k.answered /\ Shown(b, m, p)[l].answer = k.picks[p][l]
    <3>1. CASE Held(p, pg, mem)
      <4>1. m.priced[p] = mem.priced[p] /\ k.picks[p] = t.picks[p]
            /\ (p \in k.answered <=> p \in t.answered)
        BY <1>4, <1>5, <1>6, <1>7, <1>8, <3>1
      <4> QED BY <4>1 DEF ToldOK, Shown
    <3>2. CASE ~Held(p, pg, mem)
      <4>1. m.priced[p] = Unpriced /\ p \notin k.answered /\ b.of # p
            /\ \A l \in Lines : k.picks[p][l] = None
        BY <1>3, <1>4, <1>5, <1>6, <1>7, <1>8, <3>2
      <4> QED BY <4>1
    <3> QED BY <3>1, <3>2
  <2> QED BY <1>7, <2>1 DEF ToldOK
<1> QED BY <1>0, <1>9, <1>10, <1>11, <1>12

LEMMA CommitKeeps ==
  ASSUME NEW pg \in Page, NEW b, NEW mem, NEW cs, NEW t, Commit(pg, b, mem, cs, t),
         BenchOK(b), MemoryOK(mem), AskedOK(b, mem), CallsOK(b, cs), SpinOK(b, cs),
         ToldOK(b, mem, t), Handed(pg) # b.of => FiledOK(b, mem), fresh' \subseteq Parses
  PROVE  WorkInv'
<1>0. Handed(pg) \in Parses \cup {None}
  BY DEF Handed, Page
<1> DEFINE anew == Handed(pg) # b.of
           b2 == IF anew THEN Priced(b, Handed(pg), mem.priced) ELSE b
           asks == IF anew /\ b2.matching THEN {[kind |-> "match", of |-> b2.of]} ELSE {}
           cs2 == (IF anew THEN Abandoned(cs) ELSE cs) \cup asks
           t2 == IF anew THEN Binned(t, b) ELSE t
           m2 == [mem EXCEPT !.priced = Recorded(mem.priced, b2)]
<1>1. /\ page' = Rendered(pg, mem) /\ bench' = b2 /\ memory' = Kept(m2, pg) /\ calls' = cs2
      /\ told' = KeptTold(t2, mem, pg)
  BY DEF Commit
<1>2. /\ BenchOK(b2) /\ b2.of = Handed(pg) /\ AskedOK(b2, mem) /\ CallsOK(b2, cs2)
      /\ SpinOK(b2, cs2) /\ ToldOK(b2, mem, t2)
  <2>1. CASE anew
    <3> DEFINE p == Handed(pg)
               c == Priced(b, p, mem.priced)
               a == IF c.matching THEN {[kind |-> "match", of |-> c.of]} ELSE {}
    <3>1. b2 = c /\ cs2 = Abandoned(cs) \cup a /\ t2 = Binned(t, b)
      BY <2>1
    <3>2. p \in Parses \cup {None} /\ p # b.of /\ FiledOK(b, mem)
      BY <1>0, <2>1
    <3> HIDE DEF b2, cs2, t2, p
    <3>3. /\ AskedOK(c, mem) /\ CallsOK(c, Abandoned(cs) \cup a)
          /\ SpinOK(c, Abandoned(cs) \cup a) /\ ToldOK(c, mem, Binned(t, b))
      BY <3>2, AnewKeeps
    <3>4. BenchOK(c) /\ c.of = p
      BY <3>2, PricedIs
    <3> HIDE DEF c, a
    <3> QED BY <3>1, <3>3, <3>4 DEF p
  <2>2. CASE ~anew
    <3>1. b2 = b /\ cs2 = cs /\ t2 = t /\ b2.of = Handed(pg)
      BY <2>2
    <3> HIDE DEF b2, cs2, t2
    <3> QED BY <3>1
  <2> QED BY <2>1, <2>2
<1> HIDE DEF b2, cs2, t2
<1>3. /\ MemoryOK(m2) /\ AskedOK(b2, m2) /\ FiledOK(b2, m2) /\ ToldOK(b2, m2, t2)
      /\ m2.session = mem.session
  BY <1>2, RecordKeeps
<1> HIDE DEF m2
<1>4. KeptTold(t2, mem, pg) = KeptTold(t2, m2, pg)
  BY <1>3 DEF KeptTold, Held
<1>5. /\ MemoryOK(memory') /\ AskedOK(bench', memory') /\ FiledOK(bench', memory')
      /\ ToldOK(bench', memory', told')
  BY <1>1, <1>2, <1>3, <1>4, KeepKeeps
<1>6. /\ page' \in Page /\ Handed(page') = Handed(pg)
  <2>1. (pg.at = "bom" /\ pg.parsed # None /\ pg.parsed = mem.session) \in BOOLEAN
    OBVIOUS
  <2> QED BY <1>1, <2>1 DEF Rendered, Page, Handed
<1>7. BenchOK(bench') /\ CallsOK(bench', calls') /\ SpinOK(bench', calls') /\ bench'.of = Handed(page')
  BY <1>1, <1>2, <1>6
<1> QED BY <1>5, <1>6, <1>7 DEF WorkInv

(***************************************************************************)
(* Pages: reads, another parse, closing a BOM.                             *)
(***************************************************************************)
LEMMA SessionIs ==
  ASSUME NEW mem, MemoryOK(mem), NEW s \in Designs \cup {None}
  PROVE  LET m == [mem EXCEPT !.session = s] IN
         MemoryOK(m) /\ m.priced = mem.priced /\ m.session = s
BY DEF MemoryOK, Store

(* All but types depends on the filed answers alone.                       *)
LEMMA PricedOnly ==
  ASSUME NEW mem, NEW m, m.priced = mem.priced, NEW b, NEW t
  PROVE  /\ AskedOK(b, mem) => AskedOK(b, m)
         /\ FiledOK(b, mem) => FiledOK(b, m)
         /\ ToldOK(b, mem, t) => ToldOK(b, m, t)
BY DEF AskedOK, FiledOK, ToldOK, Shown

(* Calls that differ by reads only.                                        *)
SameWork(cs, cs0) == cs \subseteq Call /\ \A c : c.kind # "read" => (c \in cs <=> c \in cs0)

LEMMA SameWorkKeeps ==
  ASSUME NEW b, NEW cs, NEW cs0, SameWork(cs, cs0), CallsOK(b, cs0), SpinOK(b, cs0)
  PROVE  CallsOK(b, cs) /\ SpinOK(b, cs)
<1>1. CallsOK(b, cs)
  BY DEF SameWork, CallsOK
<1>2. SpinOK(b, cs)
  BY DEF SameWork, SpinOK
<1> QED BY <1>1, <1>2

LEMMA SameCalls ==
  ASSUME NEW cs, cs \subseteq Call PROVE SameWork(cs, cs)
BY DEF SameWork

LEMMA ReadGone ==
  ASSUME NEW cs, cs \subseteq Call, NEW c, c.kind = "read" PROVE SameWork(cs \ {c}, cs)
BY DEF SameWork

LEMMA ReadIs ==
  ASSUME NEW c \in Call, c.kind = "read", NEW to \in {"intake", "page", "nobody"}
  PROVE  [c EXCEPT !.to = to] \in Call /\ [c EXCEPT !.to = to].kind = "read"
<1>1. c \in [kind: {"read"}, n: 1..MaxReads, what: {"sheet", "project"}, of: {"bom", "viewer"},
             to: {"intake", "page", "nobody"}]
  BY DEF Call
<1>2. [c EXCEPT !.to = to] \in
        [kind: {"read"}, n: 1..MaxReads, what: {"sheet", "project"}, of: {"bom", "viewer"},
         to: {"intake", "page", "nobody"}]
  BY <1>1
<1>3. [c EXCEPT !.to = to] \in Call
  BY <1>2 DEF Call
<1> QED BY <1>1, <1>3

LEMMA IntakeGoneIs ==
  ASSUME NEW cs, NEW cs0, SameWork(cs, cs0) PROVE SameWork(IntakeGone(cs), cs0)
<1> DEFINE f(c) == IF c.kind = "read" /\ c.to = "intake" THEN [c EXCEPT !.to = "page"] ELSE c
<1>1. IntakeGone(cs) = {f(c) : c \in cs}
  BY DEF IntakeGone
<1>2. ASSUME NEW c \in cs
      PROVE  f(c) \in Call /\ (f(c) = c \/ (f(c).kind = "read" /\ c.kind = "read"))
  BY ReadIs DEF SameWork
<1> HIDE DEF f
<1>3. IntakeGone(cs) \subseteq Call
  BY <1>1, <1>2
<1>4. ASSUME NEW c, c.kind # "read" PROVE c \in IntakeGone(cs) <=> c \in cs
  <2>1. ASSUME c \in cs PROVE c \in IntakeGone(cs)
    BY <1>1, <1>2, <1>4, <2>1
  <2>2. ASSUME c \in IntakeGone(cs) PROVE c \in cs
    BY <1>1, <1>2, <1>4, <2>2
  <2> QED BY <2>1, <2>2
<1> QED BY <1>3, <1>4 DEF SameWork

LEMMA OrphanedIs ==
  ASSUME NEW cs, NEW b, CallsOK(b, cs)
  PROVE  /\ ReadsOrphaned(Abandoned(cs)) \subseteq Call
         /\ \A c \in ReadsOrphaned(Abandoned(cs)) : c.kind = "read"
BY ReadIs DEF CallsOK, Abandoned, ReadsOrphaned

(* The page is handed another parse, or none, and the hook is not reset.   *)
LEMMA TurnKeeps ==
  ASSUME WorkInv, NEW pg \in Page, NEW mem, MemoryOK(mem), mem.priced = memory.priced,
         NEW cs, SameWork(cs, calls), Commit(pg, bench, mem, cs, told), fresh' \subseteq Parses
  PROVE  WorkInv'
<1>1. CallsOK(bench, cs) /\ SpinOK(bench, cs)
  BY SameWorkKeeps DEF WorkInv
<1>2. AskedOK(bench, mem) /\ FiledOK(bench, mem) /\ ToldOK(bench, mem, told)
  BY PricedOnly DEF WorkInv
<1>3. BenchOK(bench)
  BY DEF WorkInv
<1> QED BY <1>1, <1>2, <1>3, CommitKeeps

LEMMA HandleParsedKeeps ==
  ASSUME WorkInv, NEW pg \in Page, NEW mem, MemoryOK(mem), mem.priced = memory.priced,
         NEW cs, SameWork(cs, calls), NEW p \in Parses, HandleParsed(p, pg, mem, cs),
         fresh' \subseteq Parses
  PROVE  WorkInv'
<1>1. PICK phase \in {"intake", "mapping", "table"} : Take(p, phase, pg, mem, cs)
  <2>1. CASE p \in Unpriceable
    BY <2>1 DEF HandleParsed
  <2>2. CASE p \notin Unpriceable /\ p \in Unmapped
    BY <2>2 DEF HandleParsed
  <2>3. CASE p \notin Unpriceable /\ p \notin Unmapped
    BY <2>3 DEF HandleParsed
  <2> QED BY <2>1, <2>2, <2>3
<1> DEFINE pg2 == [pg EXCEPT !.parsed = p, !.phase = phase, !.busy = @ /\ phase = "intake"]
           cs2 == IF phase = "intake" THEN cs ELSE IntakeGone(cs)
<1>2. Commit(pg2, bench, mem, cs2, told)
  BY <1>1 DEF Take
<1>3. pg2 \in Page
  <2>1. (pg.busy /\ phase = "intake") \in BOOLEAN
    OBVIOUS
  <2> QED BY <2>1 DEF Page
<1>4. SameWork(cs2, calls)
  BY IntakeGoneIs
<1> HIDE DEF pg2, cs2
<1> QED BY <1>2, <1>3, <1>4, TurnKeeps

LEMMA MappedKeeps ==
  ASSUME WorkInv, NEW pg \in Page, NEW cs, SameWork(cs, calls), NEW left \in SUBSET Parses,
         Mapped(pg, cs, left)
  PROVE  WorkInv'
<1>1. PICK q \in (Sheets \cap left) \ Unmapped :
        HandleParsed(q, pg, memory, cs) /\ fresh' = left \ {q}
  BY DEF Mapped
<1>2. q \in Parses /\ fresh' \subseteq Parses /\ MemoryOK(memory)
  BY <1>1 DEF WorkInv
<1> QED BY <1>1, <1>2, HandleParsedKeeps

LEMMA HandleSheetKeeps ==
  ASSUME WorkInv, NEW pg \in Page, NEW cs, SameWork(cs, calls), NEW p \in Parses,
         HandleSheet(p, pg, cs)
  PROVE  WorkInv'
<1>1. CASE HandleParsed(p, pg, memory, cs) /\ fresh' = fresh \ {p}
  <2>1. fresh' \subseteq Parses /\ MemoryOK(memory)
    BY <1>1 DEF WorkInv
  <2> QED BY <1>1, <2>1, HandleParsedKeeps
<1>2. CASE Mapped(pg, cs, fresh \ {p})
  <2>1. PICK left \in SUBSET Parses : left = fresh \ {p}
    BY DEF WorkInv
  <2> QED BY <1>2, <2>1, MappedKeeps
<1> QED BY <1>1, <1>2 DEF HandleSheet

LEMMA EndedIs ==
  ASSUME NEW pg \in Page, NEW c
  PROVE  Ended(c, pg) \in Page /\ Handed(Ended(c, pg)) = Handed(pg)
<1>1. (IF c.to = "intake" THEN FALSE ELSE pg.busy) \in BOOLEAN
  BY DEF Page
<1> QED BY <1>1 DEF Ended, Page, Handed

LEMMA PublishIs ==
  ASSUME WorkInv, NEW p \in Designs
  PROVE  MemoryOK(Publish(p)) /\ Publish(p).priced = memory.priced
BY SessionIs DEF WorkInv, Publish

(* The page is drawn anew and nothing else changes but reads.              *)
LEMMA PageTurns ==
  ASSUME WorkInv, page' \in Page, Handed(page') = Handed(page), SameWork(calls', calls),
         UNCHANGED <<bench, memory, told>>, fresh' \subseteq Parses
  PROVE  WorkInv'
<1>1. CallsOK(bench, calls') /\ SpinOK(bench, calls')
  BY SameWorkKeeps DEF WorkInv
<1> QED BY <1>1 DEF WorkInv

LEMMA DropKeeps ==
  ASSUME WorkInv, NEW what \in {"sheet", "project"}, Drop(what) PROVE WorkInv'
<1>1. page.at \in {"bom", "viewer"} /\ calls \subseteq Call /\ page \in Page /\ fresh \subseteq Parses
  BY DEF Drop, IntakeShown, WorkInv, CallsOK
<1>2. PICK n \in 1..MaxReads :
        calls' = calls \cup {[kind |-> "read", n |-> n, what |-> what, of |-> page.at,
                              to |-> "intake"]}
  BY DEF Drop
<1> DEFINE c == [kind |-> "read", n |-> n, what |-> what, of |-> page.at, to |-> "intake"]
<1>3. c \in Call /\ c.kind = "read"
  BY <1>1 DEF Call
<1> HIDE DEF c
<1>4. SameWork(calls', calls)
  BY <1>1, <1>2, <1>3 DEF SameWork, c
<1>5. page' \in Page /\ Handed(page') = Handed(page) /\ UNCHANGED <<bench, memory, fresh, told>>
  BY <1>1 DEF Drop, Page, Handed
<1> QED BY <1>1, <1>4, <1>5, PageTurns

LEMMA ReadFailsKeeps ==
  ASSUME WorkInv, NEW c \in calls, ReadFails(c) PROVE WorkInv'
<1>1. SameWork(calls', calls)
  BY ReadGone DEF ReadFails, WorkInv, CallsOK
<1>2. page' \in Page /\ Handed(page') = Handed(page) /\ fresh' \subseteq Parses
      /\ UNCHANGED <<bench, memory, told>>
  BY EndedIs DEF ReadFails, WorkInv
<1> QED BY <1>1, <1>2, PageTurns

LEMMA ReadSheetKeeps ==
  ASSUME WorkInv, NEW c \in calls, NEW p, ReadSheet(c, p) PROVE WorkInv'
<1>1. /\ p \in Parses /\ c.kind = "read" /\ calls \subseteq Call /\ page \in Page
      /\ HandleSheet(p, Ended(c, page), calls \ {c})
  BY DEF ReadSheet, Parses, WorkInv, CallsOK
<1> DEFINE pg == Ended(c, page)
           cs == calls \ {c}
<1>2. pg \in Page /\ SameWork(cs, calls)
  BY <1>1, EndedIs, ReadGone
<1> HIDE DEF pg, cs
<1>3. HandleSheet(p, pg, cs)
  BY <1>1 DEF pg, cs
<1> QED BY <1>1, <1>2, <1>3, HandleSheetKeeps

LEMMA PublishOnlyKeeps ==
  ASSUME WorkInv, NEW c \in calls, c.kind = "read", NEW p \in Designs, PublishOnly(c, p),
         fresh' \subseteq Parses
  PROVE  WorkInv'
<1> DEFINE m == Publish(p)
<1>1. MemoryOK(m) /\ m.priced = memory.priced
  BY PublishIs
<1>2. AskedOK(bench, m) /\ FiledOK(bench, m) /\ ToldOK(bench, m, told) /\ BenchOK(bench)
  BY <1>1, PricedOnly DEF WorkInv
<1>3. memory' = Kept(m, page) /\ told' = KeptTold(told, memory', page)
      /\ calls' = calls \ {c} /\ UNCHANGED <<page, bench>>
  BY DEF PublishOnly
<1> HIDE DEF m
<1>4. memory'.session = m.session
  BY <1>1, <1>3 DEF Kept, MemoryOK, Store
<1>5. told' = KeptTold(told, m, page)
  BY <1>3, <1>4 DEF KeptTold, Held
<1>6. MemoryOK(memory') /\ AskedOK(bench, memory') /\ FiledOK(bench, memory')
      /\ ToldOK(bench, memory', told')
  BY <1>1, <1>2, <1>3, <1>5, KeepKeeps DEF WorkInv
<1>7. SameWork(calls', calls)
  BY <1>3, ReadGone DEF WorkInv, CallsOK
<1>8. CallsOK(bench, calls') /\ SpinOK(bench, calls')
  BY <1>7, SameWorkKeeps DEF WorkInv
<1> QED BY <1>3, <1>6, <1>8 DEF WorkInv

LEMMA ReadForBomKeeps ==
  ASSUME WorkInv, NEW c \in calls, NEW p, ReadForBom(c, p) PROVE WorkInv'
<1>1. /\ c.kind = "read" /\ p \in Designs /\ p \in Parses /\ fresh' \subseteq Parses
      /\ calls \subseteq Call /\ page \in Page
  BY DEF ReadForBom, Parses, WorkInv, CallsOK
<1> DEFINE pg == Ended(c, page)
           cs == calls \ {c}
<1>2. pg \in Page /\ Handed(pg) = Handed(page) /\ SameWork(cs, calls)
  BY <1>1, EndedIs, ReadGone
<1>3. CASE p \in Unpriceable
  <2>1. calls' = cs /\ page' = pg /\ UNCHANGED <<bench, memory, told>>
    BY <1>3 DEF ReadForBom
  <2> HIDE DEF pg, cs
  <2> QED BY <1>1, <1>2, <2>1, PageTurns
<1>4. CASE p \notin Unpriceable /\ c.to = "nobody"
  <2>1. PublishOnly(c, p)
    BY <1>4 DEF ReadForBom
  <2> QED BY <1>1, <2>1, PublishOnlyKeeps
<1>5. CASE p \notin Unpriceable /\ c.to # "nobody"
  <2>1. HandleParsed(p, pg, Publish(p), cs)
    BY <1>5 DEF ReadForBom
  <2> DEFINE m == Publish(p)
  <2>2. MemoryOK(m) /\ m.priced = memory.priced
    BY <1>1, PublishIs
  <2> HIDE DEF pg, cs
  <2> QED BY <1>1, <1>2, <2>1, <2>2, HandleParsedKeeps
<1> QED BY <1>3, <1>4, <1>5

LEMMA ReadForViewerKeeps ==
  ASSUME WorkInv, NEW c \in calls, NEW p, ReadForViewer(c, p) PROVE WorkInv'
<1>1. /\ c.kind = "read" /\ p \in Designs /\ p \in Parses /\ fresh' \subseteq Parses
      /\ calls \subseteq Call /\ page \in Page
  BY DEF ReadForViewer, Parses, WorkInv, CallsOK
<1>2. CASE c.to = "nobody"
  <2>1. PublishOnly(c, p)
    BY <1>2 DEF ReadForViewer
  <2> QED BY <1>1, <2>1, PublishOnlyKeeps
<1>3. CASE c.to # "nobody"
  <2> DEFINE pg == [page EXCEPT !.parsed = p, !.bomSeen = FALSE, !.busy = FALSE]
             cs == IntakeGone(calls \ {c})
             m == Publish(p)
  <2>1. Commit(pg, bench, m, cs, told)
    BY <1>3 DEF ReadForViewer
  <2>2. pg \in Page
    BY <1>1 DEF Page
  <2>3. SameWork(calls \ {c}, calls)
    BY <1>1, ReadGone
  <2>4. SameWork(cs, calls)
    BY <2>3, IntakeGoneIs
  <2>5. MemoryOK(m) /\ m.priced = memory.priced
    BY <1>1, PublishIs
  <2> HIDE DEF pg, cs
  <2> QED BY <1>1, <2>1, <2>2, <2>4, <2>5, TurnKeeps
<1> QED BY <1>2, <1>3

LEMMA IntakeKeeps ==
  ASSUME WorkInv, (\E p \in fresh : Paste(p)) \/ MapContinue \/ ContinueFromViewer \/ OpenBomTab
  PROVE  WorkInv'
<1>1. page \in Page /\ SameWork(calls, calls) /\ fresh \in SUBSET Parses /\ MemoryOK(memory)
  BY SameCalls DEF WorkInv, CallsOK
<1>2. ASSUME NEW p \in fresh, Paste(p) PROVE WorkInv'
  <2>1. p \in Parses /\ HandleSheet(p, page, calls)
    BY <1>2 DEF Paste, Parses
  <2> QED BY <1>1, <2>1, HandleSheetKeeps
<1>3. CASE MapContinue
  BY <1>1, <1>3, MappedKeeps DEF MapContinue
<1>4. CASE ContinueFromViewer
  <2>1. memory.session \in Parses
    BY <1>1, <1>4 DEF ContinueFromViewer, MemoryOK, Store, Parses
  <2>2. PICK p \in Parses : p = memory.session
    BY <2>1
  <2>3. HandleParsed(p, page, memory, calls) /\ fresh' \subseteq Parses
    BY <1>1, <1>4, <2>2 DEF ContinueFromViewer
  <2> QED BY <1>1, <2>3, HandleParsedKeeps
<1>5. CASE OpenBomTab
  <2> DEFINE pg == [page EXCEPT !.bomSeen = TRUE]
  <2>1. pg \in Page /\ Commit(pg, bench, memory, calls, told) /\ fresh' \subseteq Parses
    BY <1>1, <1>5 DEF OpenBomTab, Page
  <2> HIDE DEF pg
  <2> QED BY <1>1, <2>1, TurnKeeps
<1> QED BY <1>2, <1>3, <1>4, <1>5

(***************************************************************************)
(* The page is left, or its BOM closed.                                    *)
(***************************************************************************)
LEMMA NoBenchIs == BenchOK(NoBench) /\ NoBench.of = None /\ NoBench.rows = NoRows
                   /\ ~NoBench.landed /\ ~NoBench.matching
<1>1. [l \in Lines |-> 0] \in [Lines -> 0..MaxPicks]
  BY WorkbenchAssumption
<1> QED BY <1>1 DEF BenchOK, NoBench, Bench

(* A bench without rows keeps whatever is filed.                           *)
LEMMA IdleKeeps ==
  ASSUME NEW b, NEW mem, b.rows = NoRows, ~b.landed, b.of # None => mem.priced[b.of] = Unpriced
  PROVE  AskedOK(b, mem) /\ FiledOK(b, mem)
BY NoRowsWait DEF AskedOK, FiledOK

LEMMA TornDownIs ==
  ASSUME WorkInv
  PROVE  LET m == TornDown(memory, bench) IN
         MemoryOK(m) /\ ToldOK(NoBench, m, told) /\ m.session = memory.session
<1> DEFINE pr == IF bench.landed THEN Remember(memory.priced, bench) ELSE memory.priced
           m == [memory EXCEPT !.priced = pr]
<1>1. TornDown(memory, bench) = m
  BY DEF TornDown
<1>2. BenchOK(bench) /\ MemoryOK(memory) /\ ToldOK(bench, memory, told) /\ memory \in Store
      /\ memory.priced \in [Parses -> Snapshot \cup {Unpriced}]
  BY DEF WorkInv, MemoryOK, Store
<1>3. CASE ~bench.landed
  <2>1. m = memory
    BY <1>2, <1>3 DEF Store
  <2> HIDE DEF m
  <2>2. ToldOK(NoBench, memory, told)
    BY <1>2, <1>3, NoBenchIs DEF ToldOK, Shown
  <2> QED BY <1>1, <1>2, <2>1, <2>2
<1>4. CASE bench.landed
  <2>1. bench.of \in Parses \ Unpriceable /\ TableOf(bench.rows, bench.of)
    BY <1>2, <1>4 DEF BenchOK
  <2>2. pr = Remember(memory.priced, bench)
    BY <1>4
  <2> HIDE DEF pr
  <2>3. /\ pr \in [Parses -> Snapshot \cup {Unpriced}]
        /\ \A p \in Parses : p # bench.of => pr[p] = memory.priced[p]
        /\ pr[bench.of] # Unpriced /\ pr[bench.of].rows = SettleStragglers(bench.rows)
    BY <1>2, <1>4, <2>2, RememberedIs
  <2>4. /\ TableOf(pr[bench.of].rows, bench.of) /\ ~Waiting(pr[bench.of].rows)
        /\ \A l \in Lines : pr[bench.of].rows[l].answer = bench.rows[l].answer
    BY <2>1, <2>3, SettledIs
  <2>5. m \in Store /\ m.priced = pr /\ m.session = memory.session
    BY <1>2, <2>3 DEF Store
  <2> HIDE DEF m
  <2>6. MemoryOK(m)
    <3>1. ASSUME NEW p \in Parses, m.priced[p] # Unpriced
          PROVE  p \notin Unpriceable /\ TableOf(m.priced[p].rows, p) /\ ~Waiting(m.priced[p].rows)
      <4>1. CASE p = bench.of
        BY <2>1, <2>4, <2>5, <4>1
      <4>2. CASE p # bench.of
        BY <1>2, <2>3, <2>5, <3>1, <4>2 DEF MemoryOK
      <4> QED BY <4>1, <4>2
    <3> QED BY <2>5, <3>1 DEF MemoryOK
  <2>7. ASSUME NEW p \in Parses
        PROVE  /\ p \in told.answered <=> m.priced[p] # Unpriced \/ (NoBench.of = p /\ NoBench.landed)
               /\ \A l \in Lines : told.picks[p][l] # None =>
                    p \in told.answered /\ Shown(NoBench, m, p)[l].answer = told.picks[p][l]
    <3>1. CASE p = bench.of
      BY <1>2, <1>4, <2>3, <2>4, <2>5, <3>1, NoBenchIs DEF ToldOK, Shown
    <3>2. CASE p # bench.of
      BY <1>2, <2>3, <2>5, <3>2, NoBenchIs DEF ToldOK, Shown
    <3> QED BY <3>1, <3>2
  <2>8. ToldOK(NoBench, m, told)
    BY <1>2, <2>7 DEF ToldOK
  <2> QED BY <1>1, <2>5, <2>6, <2>8
<1> QED BY <1>3, <1>4

LEMMA MountedIs ==
  ASSUME NEW at \in {"bom", "viewer", "other"}, NEW mem, mem.session \in Parses \cup {None}
  PROVE  Mounted(at, mem) \in Page /\ Handed(Mounted(at, mem)) = None
BY DEF Mounted, Page, Handed

LEMMA NavigateKeeps ==
  ASSUME WorkInv, NEW to \in {"bom", "viewer", "other"}, Navigate(to) PROVE WorkInv'
<1> DEFINE m == TornDown(memory, bench)
           pg == Mounted(to, m)
<1>1. MemoryOK(m) /\ ToldOK(NoBench, m, told) /\ m.session \in Parses \cup {None}
  BY TornDownIs DEF WorkInv, MemoryOK, Store, Parses
<1>2. pg \in Page /\ Handed(pg) = None
  BY <1>1, MountedIs
<1>3. /\ page' = pg /\ bench' = NoBench /\ memory' = Kept(m, pg) /\ told' = KeptTold(told, m, pg)
      /\ calls' = ReadsOrphaned(Abandoned(calls)) /\ fresh' = fresh
  BY DEF Navigate
<1> HIDE DEF m, pg
<1>4. AskedOK(NoBench, m) /\ FiledOK(NoBench, m)
  BY NoBenchIs, IdleKeeps
<1>5. MemoryOK(memory') /\ AskedOK(bench', memory') /\ FiledOK(bench', memory')
      /\ ToldOK(bench', memory', told')
  BY <1>1, <1>2, <1>3, <1>4, NoBenchIs, KeepKeeps
<1>6. calls' \subseteq Call /\ \A c \in calls' : c.kind = "read"
  BY <1>3, OrphanedIs DEF WorkInv
<1>7. CallsOK(NoBench, calls') /\ SpinOK(NoBench, calls')
  BY <1>6, NoBenchIs, NoRowsWait DEF CallsOK, SpinOK
<1> QED BY <1>2, <1>3, <1>5, <1>7, NoBenchIs DEF WorkInv

(* reset(): the bench is empty, and the answer forgotten.                  *)
LEMMA ResetIs ==
  ASSUME WorkInv
  PROVE  LET b == Reset(bench)
             m == Forgotten(memory, bench)
         IN  /\ BenchOK(b) /\ b.rows = NoRows /\ ~b.landed /\ ~b.matching
             /\ MemoryOK(m) /\ m.session = memory.session /\ AskedOK(b, m) /\ FiledOK(b, m)
             /\ ToldOK(b, m, Without(told, bench.of))
             /\ CallsOK(b, Abandoned(calls)) /\ SpinOK(b, Abandoned(calls))
<1> DEFINE b == Reset(bench)
           m == Forgotten(memory, bench)
           t == Without(told, bench.of)
<1>1. /\ BenchOK(bench) /\ MemoryOK(memory) /\ ToldOK(bench, memory, told) /\ memory \in Store
      /\ memory.priced \in [Parses -> Snapshot \cup {Unpriced}] /\ told \in Told
      /\ bench.of \in Parses \cup {None}
  BY DEF WorkInv, MemoryOK, Store, ToldOK, BenchOK, Bench
<1>2. b \in Bench /\ b.rows = NoRows /\ ~b.landed /\ ~b.matching
  BY <1>1, NoBenchIs DEF Reset, Bench, BenchOK, NoBench
<1>3. BenchOK(b)
  BY <1>2 DEF BenchOK
<1>4. /\ MemoryOK(m) /\ m.session = memory.session
      /\ \A p \in Parses : m.priced[p] = IF p = bench.of THEN Unpriced ELSE memory.priced[p]
  <2>1. CASE bench.of = None
    BY <1>1, <2>1, NoneIs DEF Forgotten
  <2>2. CASE bench.of # None
    <3> DEFINE pr == [memory.priced EXCEPT ![bench.of] = Unpriced]
    <3>1. m = [memory EXCEPT !.priced = pr]
      BY <1>1, <2>2 DEF Forgotten, Store
    <3>2. /\ pr \in [Parses -> Snapshot \cup {Unpriced}]
          /\ \A p \in Parses : pr[p] = IF p = bench.of THEN Unpriced ELSE memory.priced[p]
      BY <1>1
    <3> HIDE DEF pr, m
    <3>3. m \in Store /\ m.priced = pr /\ m.session = memory.session
      BY <1>1, <3>1, <3>2 DEF Store
    <3> QED BY <1>1, <3>2, <3>3 DEF MemoryOK
  <2> QED BY <2>1, <2>2
<1>5. /\ t \in Told
      /\ \A p \in Parses : IF p = bench.of
           THEN p \notin t.answered /\ \A l \in Lines : t.picks[p][l] = None
           ELSE (p \in t.answered <=> p \in told.answered) /\ t.picks[p] = told.picks[p]
  BY <1>1, WithoutIs
<1>6. Abandoned(calls) \subseteq Call /\ \A c \in Abandoned(calls) : c.kind = "read"
  BY DEF Abandoned, WorkInv, CallsOK
<1> HIDE DEF b, m, t
<1>7. ToldOK(b, m, t)
  <2>1. ASSUME NEW p \in Parses
        PROVE  /\ p \in t.answered <=> m.priced[p] # Unpriced \/ (b.of = p /\ b.landed)
               /\ \A l \in Lines : t.picks[p][l] # None =>
                    p \in t.answered /\ Shown(b, m, p)[l].answer = t.picks[p][l]
    <3>1. CASE p = bench.of
      BY <1>2, <1>4, <1>5, <3>1
    <3>2. CASE p # bench.of
      BY <1>1, <1>2, <1>4, <1>5, <3>2 DEF ToldOK, Shown
    <3> QED BY <3>1, <3>2
  <2> QED BY <1>5, <2>1 DEF ToldOK
<1>8. CallsOK(b, Abandoned(calls)) /\ SpinOK(b, Abandoned(calls))
  BY <1>2, <1>6, NoRowsWait DEF CallsOK, SpinOK
<1>9. AskedOK(b, m) /\ FiledOK(b, m)
  <2>1. b.of = bench.of
    BY <1>1, NoBenchIs DEF b, Reset, NoBench
  <2> QED BY <1>1, <1>2, <1>4, <2>1, IdleKeeps
<1> QED BY <1>2, <1>3, <1>4, <1>7, <1>8, <1>9 DEF b, m, t

LEMMA CloseKeeps ==
  ASSUME WorkInv, NEW pg \in Page, NEW s \in Designs \cup {None}, UNCHANGED fresh,
         Commit(pg, Reset(bench), [Forgotten(memory, bench) EXCEPT !.session = s],
                Abandoned(calls), Without(told, bench.of))
  PROVE  WorkInv'
<1> DEFINE b == Reset(bench)
           m0 == Forgotten(memory, bench)
           m == [m0 EXCEPT !.session = s]
           cs == Abandoned(calls)
           t == Without(told, bench.of)
<1>1. /\ BenchOK(b) /\ b.rows = NoRows /\ ~b.landed /\ ~b.matching
      /\ AskedOK(b, m0) /\ FiledOK(b, m0) /\ MemoryOK(m0) /\ ToldOK(b, m0, t) /\ CallsOK(b, cs) /\ SpinOK(b, cs)
  BY ResetIs
<1>2. Commit(pg, b, m, cs, t) /\ fresh' \subseteq Parses
  BY DEF WorkInv
<1> HIDE DEF b, m0, cs, t
<1>3. MemoryOK(m) /\ m.priced = m0.priced
  BY <1>1, SessionIs
<1> HIDE DEF m
<1>4. ToldOK(b, m, t) /\ AskedOK(b, m) /\ FiledOK(b, m)
  BY <1>1, <1>3, PricedOnly
<1> QED BY <1>1, <1>2, <1>3, <1>4, CommitKeeps

LEMMA ClosingKeeps ==
  ASSUME WorkInv, StartOver \/ OpenAnother PROVE WorkInv'
<1> DEFINE m == Forgotten(memory, bench)
<1>1. m.session \in Designs \cup {None} /\ m.session \in Parses \cup {None}
  BY ResetIs DEF WorkInv, MemoryOK, Store, Parses
<1>2. CASE StartOver
  <2>1. PICK s \in Designs \cup {None} : s = IF page.linked THEN None ELSE m.session
    BY <1>1
  <2>2. PICK pg \in Page : pg = Mounted("bom", m)
    BY <1>1, MountedIs
  <2>3. Commit(pg, Reset(bench), [m EXCEPT !.session = s], Abandoned(calls),
               Without(told, bench.of)) /\ UNCHANGED fresh
    BY <1>2, <2>1, <2>2 DEF StartOver
  <2> QED BY <2>3, CloseKeeps
<1>3. CASE OpenAnother
  <2>1. PICK pg \in Page : pg = [page EXCEPT !.parsed = None, !.bomSeen = FALSE]
    BY DEF WorkInv, Page
  <2>2. PICK s \in Designs \cup {None} : s = None
    OBVIOUS
  <2>3. Commit(pg, Reset(bench), [m EXCEPT !.session = s], Abandoned(calls),
               Without(told, bench.of)) /\ UNCHANGED fresh
    BY <1>3, <2>1, <2>2 DEF OpenAnother
  <2> QED BY <2>3, CloseKeeps
<1> QED BY <1>2, <1>3

(***************************************************************************)
(* What the hook asked for comes back.                                     *)
(***************************************************************************)
LEMMA BackKeeps ==
  ASSUME WorkInv, NEW b, b.of = bench.of, BenchOK(b), AskedOK(b, memory), NEW cs, CallsOK(b, cs),
         SpinOK(b, cs), NEW t, ToldOK(b, memory, t), Back(b, cs, t)
  PROVE  WorkInv'
<1>1. /\ page \in Page /\ MemoryOK(memory) /\ Handed(page) = b.of /\ fresh' \subseteq Parses
      /\ Commit(page, b, memory, cs, t)
  BY DEF WorkInv, Back
<1> QED BY <1>1, CommitKeeps

(* Flags of the bench no part of the invariant speaks of.                  *)
LEMMA FlagsOnly ==
  ASSUME BenchOK(bench), NEW b \in Bench, b.of = bench.of, b.rows = bench.rows,
         b.landed = bench.landed, b.matching = bench.matching, NEW cs, NEW mem, NEW t
  PROVE  /\ BenchOK(b) /\ (AskedOK(bench, mem) => AskedOK(b, mem))
         /\ (FiledOK(bench, mem) => FiledOK(b, mem)) /\ (CallsOK(bench, cs) => CallsOK(b, cs))
         /\ (SpinOK(bench, cs) => SpinOK(b, cs)) /\ (ToldOK(bench, mem, t) => ToldOK(b, mem, t))
BY DEF BenchOK, AskedOK, FiledOK, CallsOK, SpinOK, ToldOK, Shown

LEMMA BuiltIs ==
  ASSUME NEW p \in Parses, NEW asking \in SUBSET Unknown
  PROVE  LET rows == BuildRows(p, asking) IN
         /\ TableOf(rows, p)
         /\ \A l \in Lines : rows[l].state = "resolving" <=> l \in asking
         /\ \A l \in asking : l \in Lines /\ rows[l].answer \notin Skus
<1> DEFINE row(l) == [of |-> p, state |-> IF l \in asking THEN "resolving" ELSE "matched",
                      answer |-> IF l \in Unknown THEN "resolve" ELSE Best]
<1>1. BuildRows(p, asking) = [l \in Lines |-> row(l)]
  BY DEF BuildRows
<1>2. ASSUME NEW l
      PROVE  /\ row(l) \in TableRow /\ row(l).of = p
             /\ row(l).state = "resolving" <=> l \in asking
             /\ l \in Unknown => row(l).answer = "resolve"
  BY WorkbenchAssumption DEF TableRow, RowState
<1> HIDE DEF row
<1>3. BuildRows(p, asking) \in Table
  BY <1>1, <1>2 DEF Table
<1> QED BY <1>1, <1>2, <1>3, WorkbenchAssumption DEF TableOf

LEMMA MatchLandsKeeps ==
  ASSUME WorkInv, NEW c \in calls, MatchLands(c) PROVE WorkInv'
<1>1. /\ c \in Call /\ c.kind = "match" /\ c.of = bench.of /\ bench.of \in Parses \ Unpriceable
      /\ bench.matching /\ ~bench.landed /\ memory.priced[bench.of] = Unpriced
      /\ bench \in Bench /\ told \in Told
  BY NoneIs DEF MatchLands, WorkInv, CallsOK, BenchOK, AskedOK, ToldOK
<1>2. PICK asking \in Asked(bench) :
        Back([bench EXCEPT !.landed = TRUE, !.matching = FALSE,
                           !.capped = Cardinality(asking) < Cardinality(Misses(bench)),
                           !.stopped = FALSE, !.rows = BuildRows(c.of, asking)],
             (calls \ {c}) \cup
               IF asking = {} THEN {}
               ELSE {[kind |-> "stream", of |-> c.of, left |-> asking]},
             [told EXCEPT !.answered = @ \cup {c.of}])
  BY DEF MatchLands
<1>3. asking \in SUBSET Unknown
  BY DEF Asked, Misses
<1> DEFINE p == c.of
           rows == BuildRows(p, asking)
           cap == Cardinality(asking) < Cardinality(Misses(bench))
           b == [bench EXCEPT !.landed = TRUE, !.matching = FALSE, !.capped = cap,
                              !.stopped = FALSE, !.rows = rows]
           s == [kind |-> "stream", of |-> p, left |-> asking]
           cs == (calls \ {c}) \cup IF asking = {} THEN {} ELSE {s}
           t == [told EXCEPT !.answered = @ \cup {p}]
<1>4. Back(b, cs, t)
  BY <1>2
<1>5. /\ TableOf(rows, p) /\ \A l \in Lines : rows[l].state = "resolving" <=> l \in asking
      /\ \A l \in asking : l \in Lines /\ rows[l].answer \notin Skus
  BY <1>1, <1>3, BuiltIs
<1>6. cap \in BOOLEAN
  OBVIOUS
<1> HIDE DEF rows, cap
<1>7. /\ b \in Bench /\ b.of = bench.of /\ b.landed /\ ~b.matching /\ b.rows = rows
  BY <1>1, <1>5, <1>6 DEF Bench, TableOf
<1>8. s \in Call /\ s.kind = "stream" /\ s.of = p /\ s.left = asking
  BY <1>1, <1>5 DEF Call
<1> HIDE DEF b, s
<1>9. BenchOK(b)
  BY <1>1, <1>5, <1>7 DEF BenchOK
<1>10. AskedOK(b, memory)
  BY <1>1, <1>7 DEF AskedOK
<1>11. \A a \in calls \ {c} : a \in Call /\ a.kind = "read"
  <2>1. ASSUME NEW a \in calls, a.kind # "read" PROVE a = c
    <3>1. a \in Call /\ a.of = bench.of /\ a.kind = "match"
      BY <1>1, <2>1 DEF WorkInv, CallsOK, Call
    <3>2. a \in [kind : {"match"}, of : Parses] /\ c \in [kind : {"match"}, of : Parses]
      BY <1>1, <3>1 DEF Call
    <3> QED BY <1>1, <3>1, <3>2
  <2> QED BY <2>1 DEF WorkInv, CallsOK
<1>12. CallsOK(b, cs)
  BY <1>1, <1>5, <1>7, <1>8, <1>11 DEF CallsOK
<1>13. SpinOK(b, cs)
  <2>1. DOMAIN rows = Lines
    BY <1>5 DEF TableOf, Table
  <2> QED BY <1>5, <1>7, <1>8, <2>1 DEF SpinOK
<1>14. t \in Told /\ t.answered = told.answered \cup {p} /\ t.picks = told.picks
  BY <1>1 DEF Told
<1> HIDE DEF cs, t
<1>15. ToldOK(b, memory, t)
  <2>1. p \notin told.answered
    BY <1>1 DEF WorkInv, ToldOK
  <2>2. \A l \in Lines : told.picks[p][l] = None
    BY <1>1, <2>1 DEF WorkInv, ToldOK
  <2>3. ASSUME NEW q \in Parses
        PROVE  /\ q \in t.answered <=> memory.priced[q] # Unpriced \/ (b.of = q /\ b.landed)
               /\ \A l \in Lines : t.picks[q][l] # None =>
                    q \in t.answered /\ Shown(b, memory, q)[l].answer = t.picks[q][l]
    BY <1>1, <1>7, <1>14, <2>2 DEF WorkInv, ToldOK, Shown
  <2> QED BY <1>14, <2>3 DEF ToldOK
<1> HIDE DEF p
<1> QED BY <1>4, <1>7, <1>9, <1>10, <1>12, <1>13, <1>15, BackKeeps

LEMMA MatchFailsKeeps ==
  ASSUME WorkInv, NEW c \in calls, MatchFails(c) PROVE WorkInv'
<1>1. /\ c \in Call /\ c.kind = "match" /\ c.of = bench.of /\ bench.matching /\ ~bench.landed
      /\ bench \in Bench /\ bench.rows = NoRows /\ memory.priced[bench.of] = Unpriced
  BY NoneIs DEF MatchFails, WorkInv, CallsOK, BenchOK, AskedOK
<1> DEFINE b == [bench EXCEPT !.matching = FALSE, !.failed = TRUE]
           cs == calls \ {c}
<1>2. /\ b \in Bench /\ b.of = bench.of /\ b.rows = NoRows /\ ~b.landed /\ ~b.matching
  BY <1>1 DEF Bench
<1>3. Back(b, cs, told)
  BY DEF MatchFails
<1> HIDE DEF b
<1>4. BenchOK(b) /\ AskedOK(b, memory)
  BY <1>1, <1>2, IdleKeeps DEF BenchOK
<1>5. \A a \in cs : a \in Call /\ a.kind = "read"
  <2>1. ASSUME NEW a \in calls, a.kind # "read" PROVE a = c
    <3>1. a \in Call /\ a.of = bench.of /\ a.kind = "match"
      BY <1>1, <2>1 DEF WorkInv, CallsOK, Call
    <3>2. a \in [kind : {"match"}, of : Parses] /\ c \in [kind : {"match"}, of : Parses]
      BY <1>1, <3>1 DEF Call
    <3> QED BY <1>1, <3>1, <3>2
  <2> QED BY <2>1 DEF WorkInv, CallsOK
<1>6. CallsOK(b, cs) /\ SpinOK(b, cs)
  BY <1>2, <1>5, NoRowsWait DEF CallsOK, SpinOK
<1>7. ToldOK(b, memory, told)
  BY <1>1, <1>2 DEF WorkInv, ToldOK, Shown
<1> HIDE DEF cs
<1> QED BY <1>2, <1>3, <1>4, <1>6, <1>7, BackKeeps

(* An event of the stream changes its line alone.                          *)
LEMMA EventIs ==
  ASSUME NEW p \in Parses, NEW rows, TableOf(rows, p), NEW l \in Lines,
         NEW what \in RowState \ {"resolving"}
  PROVE  LET new == ApplyResolveEvent(rows, p, l, what) IN
         /\ TableOf(new, p) /\ new[l].state # "resolving"
         /\ new[l].answer \in {"live", rows[l].answer}
         /\ \A k \in Lines : k # l => new[k] = rows[k]
<1> DEFINE row == IF what = "resolved_live" THEN [of |-> p, state |-> what, answer |-> "live"]
                  ELSE [rows[l] EXCEPT !.state = what]
<1>1. rows \in Table /\ DOMAIN rows = Lines /\ rows[l] \in TableRow
  BY DEF TableOf, Table
<1>2. ApplyResolveEvent(rows, p, l, what) = [rows EXCEPT ![l] = row]
  BY <1>1 DEF ApplyResolveEvent
<1>3. row \in TableRow /\ row.of = p /\ row.state = what /\ row.answer \in {"live", rows[l].answer}
  BY <1>1 DEF TableRow, TableOf
<1> HIDE DEF row
<1>4. [rows EXCEPT ![l] = row] \in Table
  BY <1>1, <1>3 DEF Table
<1> QED BY <1>1, <1>2, <1>3, <1>4 DEF TableOf, Table

(* The bench gets rows with the same parts, and no more of them waiting.   *)
LEMMA RowsOnly ==
  ASSUME WorkInv, bench.landed, NEW b \in Bench, b.of = bench.of, b.landed, ~b.matching,
         TableOf(b.rows, b.of),
         \A l \in Lines : b.rows[l].state = "resolving" => bench.rows[l].state = "resolving"
  PROVE  BenchOK(b) /\ AskedOK(b, memory)
<1>1. BenchOK(bench) /\ AskedOK(bench, memory) /\ bench.of \in Parses /\ TableOf(bench.rows, bench.of)
  BY DEF WorkInv, BenchOK
<1>2. DOMAIN b.rows = Lines /\ DOMAIN bench.rows = Lines
  BY <1>1 DEF TableOf, Table
<1>3. Waiting(b.rows) => Waiting(bench.rows)
  BY <1>2 DEF Waiting
<1> QED BY <1>1, <1>3 DEF BenchOK, AskedOK

LEMMA StreamEventKeeps ==
  ASSUME WorkInv, NEW c \in calls, NEW l \in Lines, NEW what \in RowState \ {"resolving"},
         StreamEvent(c, l, what)
  PROVE  WorkInv'
<1> DEFINE p == c.of
           rows == ApplyResolveEvent(bench.rows, p, l, what)
           b == [bench EXCEPT !.rows = rows]
           d == [c EXCEPT !.left = @ \ {l}]
           cs == (calls \ {c}) \cup {d}
<1>1. /\ c \in Call /\ c.kind = "stream" /\ l \in c.left /\ p = bench.of /\ bench.landed
      /\ bench \in Bench /\ p \in Parses /\ TableOf(bench.rows, p) /\ ~bench.matching
      /\ bench.rows[l].answer \notin Skus
  BY DEF StreamEvent, WorkInv, CallsOK, BenchOK
<1>2. Back(b, cs, told)
  BY DEF StreamEvent
<1>3. /\ TableOf(rows, p) /\ rows[l].state # "resolving"
      /\ rows[l].answer \in {"live", bench.rows[l].answer}
      /\ \A k \in Lines : k # l => rows[k] = bench.rows[k]
  BY <1>1, EventIs
<1> HIDE DEF rows
<1>4. b \in Bench /\ b.of = bench.of /\ b.landed /\ ~b.matching /\ b.rows = rows
  BY <1>1, <1>3 DEF Bench, TableOf
<1>5. d \in Call /\ d.kind = "stream" /\ d.of = c.of /\ d.left = c.left \ {l}
  <2>1. c \in [kind: {"stream"}, of: Parses, left: SUBSET Lines]
    BY <1>1 DEF Call
  <2>2. d \in [kind: {"stream"}, of: Parses, left: SUBSET Lines] /\ d.left = c.left \ {l}
        /\ d.of = c.of
    BY <2>1
  <2> HIDE DEF d
  <2> QED BY <2>2 DEF Call
<1>6. rows[l].answer \notin Skus
  BY <1>1, <1>3, WorkbenchAssumption
<1> HIDE DEF b, d
<1>7. BenchOK(b) /\ AskedOK(b, memory)
  BY <1>1, <1>3, <1>4, RowsOnly
<1>8. CallsOK(b, cs)
  <2>1. ASSUME NEW a \in cs
        PROVE  /\ a \in Call /\ (a.kind # "read" => a.of = b.of) /\ a.kind # "match"
               /\ a.kind = "stream" => \A k \in a.left : b.rows[k].answer \notin Skus
               /\ a.kind = "pick" => b.rows[a.line].answer \in Skus
    <3>1. CASE a = d
      <4>1. c.left \subseteq Lines /\ \A k \in c.left : bench.rows[k].answer \notin Skus
        BY <1>1 DEF WorkInv, CallsOK, Call
      <4> QED BY <1>1, <1>3, <1>4, <1>5, <1>6, <3>1, <4>1
    <3>2. CASE a \in calls
      <4>1. /\ a \in Call /\ (a.kind # "read" => a.of = bench.of) /\ a.kind # "match"
            /\ a.kind = "stream" => \A k \in a.left : bench.rows[k].answer \notin Skus
            /\ a.kind = "pick" => bench.rows[a.line].answer \in Skus
        BY <1>1, <3>2 DEF WorkInv, CallsOK
      <4>2. a.kind = "stream" => a.left \subseteq Lines
        BY <4>1 DEF Call
      <4>3. a.kind = "pick" => a.line \in Lines
        BY <4>1 DEF Call
      <4> QED BY <1>1, <1>3, <1>4, <1>6, <4>1, <4>2, <4>3
    <3> QED BY <3>1, <3>2
  <2> QED BY <1>4, <2>1 DEF CallsOK
<1>9. SpinOK(b, cs)
  <2>1. DOMAIN rows = Lines /\ DOMAIN bench.rows = Lines
    BY <1>1, <1>3 DEF TableOf, Table
  <2>2. ASSUME NEW k \in Lines, rows[k].state = "resolving"
        PROVE  \E a \in cs : a.kind = "stream" /\ k \in a.left
    <3>1. k # l /\ bench.rows[k].state = "resolving"
      BY <1>3, <2>2
    <3>2. PICK a \in calls : a.kind = "stream" /\ k \in a.left
      BY <2>1, <3>1 DEF WorkInv, SpinOK
    <3> QED BY <1>5, <3>1, <3>2
  <2> QED BY <1>4, <2>1, <2>2 DEF SpinOK
<1>10. ToldOK(b, memory, told)
  <2>1. ToldOK(bench, memory, told) /\ told \in Told
    BY DEF WorkInv, ToldOK
  <2>2. ASSUME NEW q \in Parses, NEW k \in Lines, told.picks[q][k] # None
        PROVE  q \in told.answered /\ Shown(b, memory, q)[k].answer = told.picks[q][k]
    <3>1. /\ q \in told.answered /\ Shown(bench, memory, q)[k].answer = told.picks[q][k]
          /\ told.picks[q][k] \in Skus
      BY <2>1, <2>2 DEF ToldOK, Told
    <3> QED BY <1>1, <1>3, <1>4, <3>1 DEF Shown
  <2> QED BY <1>1, <1>4, <2>1, <2>2 DEF ToldOK
<1> HIDE DEF cs
<1> QED BY <1>2, <1>4, <1>7, <1>8, <1>9, <1>10, BackKeeps

LEMMA StreamEndsKeeps ==
  ASSUME WorkInv, NEW c \in calls, NEW died \in BOOLEAN, StreamEnds(c, died) PROVE WorkInv'
<1> DEFINE p == bench.of
           rows == SettleStragglers(bench.rows)
           st == bench.stopped \/ died
           b == [bench EXCEPT !.rows = rows, !.stopped = st]
           cs == calls \ {c}
<1>1. /\ c.kind = "stream" /\ bench.landed /\ bench \in Bench /\ p \in Parses
      /\ TableOf(bench.rows, p) /\ ~bench.matching
  BY DEF StreamEnds, WorkInv, CallsOK, BenchOK
<1>2. Back(b, cs, told)
  BY <1>1 DEF StreamEnds, StreamOver, Bench
<1>3. /\ TableOf(rows, p) /\ ~Waiting(rows) /\ DOMAIN rows = Lines
      /\ \A l \in Lines : rows[l].answer = bench.rows[l].answer
  BY <1>1, SettledIs DEF TableOf, Table
<1>4. st \in BOOLEAN
  OBVIOUS
<1> HIDE DEF rows, st
<1>5. b \in Bench /\ b.of = bench.of /\ b.landed /\ ~b.matching /\ b.rows = rows
  BY <1>1, <1>3, <1>4 DEF Bench, TableOf
<1> HIDE DEF b
<1>6. \A l \in Lines : rows[l].state # "resolving"
  BY <1>3 DEF Waiting
<1>7. BenchOK(b) /\ AskedOK(b, memory)
  BY <1>1, <1>3, <1>5, <1>6, RowsOnly
<1>8. CallsOK(b, cs)
  <2>1. ASSUME NEW a \in cs
        PROVE  /\ a \in Call /\ (a.kind # "read" => a.of = b.of) /\ a.kind # "match"
               /\ a.kind = "stream" => \A k \in a.left : b.rows[k].answer \notin Skus
               /\ a.kind = "pick" => b.rows[a.line].answer \in Skus
    <3>1. /\ a \in Call /\ (a.kind # "read" => a.of = bench.of) /\ a.kind # "match"
          /\ a.kind = "stream" => \A k \in a.left : bench.rows[k].answer \notin Skus
          /\ a.kind = "pick" => bench.rows[a.line].answer \in Skus
      BY <1>1 DEF WorkInv, CallsOK
    <3>2. (a.kind = "stream" => a.left \subseteq Lines) /\ (a.kind = "pick" => a.line \in Lines)
      BY <3>1 DEF Call
    <3> QED BY <1>3, <1>5, <3>1, <3>2
  <2> QED BY <1>5, <2>1 DEF CallsOK
<1>9. SpinOK(b, cs)
  BY <1>3, <1>5, <1>6 DEF SpinOK
<1>10. ToldOK(b, memory, told)
  BY <1>1, <1>3, <1>5 DEF WorkInv, ToldOK, Shown
<1> HIDE DEF cs
<1> QED BY <1>2, <1>5, <1>7, <1>8, <1>9, <1>10, BackKeeps

(***************************************************************************)
(* The table.                                                              *)
(***************************************************************************)
LEMMA ToggleDnpKeeps ==
  ASSUME WorkInv, ToggleDnp PROVE WorkInv'
<1> DEFINE b == [bench EXCEPT !.includeDnp = ~@]
<1>1. page \in Page /\ bench \in Bench /\ BenchOK(bench)
  BY DEF WorkInv, BenchOK
<1>2. /\ b \in Bench /\ b.of = bench.of /\ b.rows = bench.rows /\ b.landed = bench.landed
      /\ b.matching = bench.matching
  BY <1>1 DEF Bench
<1>3. bench' = b /\ page' = Rendered(page, memory) /\ UNCHANGED <<memory, calls, fresh, told>>
  BY DEF ToggleDnp
<1> HIDE DEF b
<1>4. page' \in Page /\ Handed(page') = Handed(page)
  <2>1. (page.at = "bom" /\ page.parsed # None /\ page.parsed = memory.session) \in BOOLEAN
    OBVIOUS
  <2> QED BY <1>1, <1>3, <2>1 DEF Rendered, Page, Handed
<1>5. /\ BenchOK(b) /\ AskedOK(b, memory) /\ FiledOK(b, memory) /\ CallsOK(b, calls)
      /\ SpinOK(b, calls) /\ ToldOK(b, memory, told)
  BY <1>1, <1>2, FlagsOnly DEF WorkInv
<1> QED BY <1>2, <1>3, <1>4, <1>5 DEF WorkInv

LEMMA PickSimilarKeeps ==
  ASSUME WorkInv, NEW l \in Lines, NEW s \in Skus, PickSimilar(l, s) PROVE WorkInv'
<1> DEFINE n == bench.pickSeq[l] + 1
           b == [bench EXCEPT !.pickSeq[l] = @ + 1]
           c == [kind |-> "pick", of |-> bench.of, line |-> l, sku |-> s, seq |-> n]
<1>1. /\ bench \in Bench /\ BenchOK(bench) /\ bench.landed /\ bench.of \in Parses
      /\ bench.rows[l].answer \in Skus
  BY DEF PickSimilar, WorkInv, BenchOK
<1>2. bench.pickSeq \in [Lines -> 0..MaxPicks] /\ n \in 1..MaxPicks
  BY <1>1, WorkbenchAssumption DEF PickSimilar, Bench
<1>3. /\ b \in Bench /\ b.of = bench.of /\ b.rows = bench.rows /\ b.landed = bench.landed
      /\ b.matching = bench.matching
  <2>1. [bench.pickSeq EXCEPT ![l] = n] \in [Lines -> 0..MaxPicks]
    BY <1>2
  <2>2. b = [bench EXCEPT !.pickSeq = [bench.pickSeq EXCEPT ![l] = n]]
    BY <1>1 DEF Bench
  <2> QED BY <1>1, <2>1, <2>2 DEF Bench
<1>4. c \in Call /\ c.kind = "pick" /\ c.of = bench.of /\ c.line = l
  BY <1>1, <1>2 DEF Call
<1>5. bench' = b /\ calls' = calls \cup {c} /\ UNCHANGED <<page, memory, fresh, told>>
  BY DEF PickSimilar
<1> HIDE DEF b, c
<1>6. /\ BenchOK(b) /\ AskedOK(b, memory) /\ FiledOK(b, memory) /\ CallsOK(b, calls)
      /\ SpinOK(b, calls) /\ ToldOK(b, memory, told)
  BY <1>1, <1>3, FlagsOnly DEF WorkInv
<1>7. CallsOK(b, calls \cup {c})
  BY <1>1, <1>3, <1>4, <1>6 DEF CallsOK
<1>8. SpinOK(b, calls \cup {c})
  BY <1>6 DEF SpinOK
<1> QED BY <1>3, <1>5, <1>6, <1>7, <1>8 DEF WorkInv

(* A pick changes the part of its line alone.                              *)
LEMMA FoldIs ==
  ASSUME NEW p \in Parses, NEW rows, TableOf(rows, p),
         NEW c, c.line \in Lines, c.sku \in Skus, c.of = p
  PROVE  LET new == FoldSimilarPick(rows, c) IN
         /\ TableOf(new, p) /\ new[c.line].answer = c.sku
         /\ \A l \in Lines : new[l].state = rows[l].state
         /\ \A l \in Lines : l # c.line => new[l] = rows[l]
<1> DEFINE row == [rows[c.line] EXCEPT !.answer = c.sku, !.of = p]
<1>1. rows \in Table /\ DOMAIN rows = Lines /\ rows[c.line] \in TableRow
  BY DEF TableOf, Table
<1>2. FoldSimilarPick(rows, c) = [rows EXCEPT ![c.line] = row]
  BY <1>1 DEF FoldSimilarPick
<1>3. /\ row \in TableRow /\ row.of = p /\ row.answer = c.sku
      /\ row.state = rows[c.line].state
  BY <1>1 DEF TableRow
<1> HIDE DEF row
<1>4. [rows EXCEPT ![c.line] = row] \in Table
  BY <1>1, <1>3 DEF Table
<1> QED BY <1>1, <1>2, <1>3, <1>4 DEF TableOf, Table

LEMMA PickLandsKeeps ==
  ASSUME WorkInv, NEW c \in calls, PickLands(c) PROVE WorkInv'
<1> DEFINE p == c.of
           k == c.line
           rows == FoldSimilarPick(bench.rows, c)
           b == [bench EXCEPT !.rows = rows]
           cs == calls \ {c}
           row == [told.picks[p] EXCEPT ![k] = c.sku]
           t == [told EXCEPT !.picks = [told.picks EXCEPT ![p] = row]]
<1>1. /\ c \in Call /\ c.kind = "pick" /\ p = bench.of /\ bench.landed /\ p \in Parses
      /\ bench \in Bench /\ BenchOK(bench) /\ TableOf(bench.rows, p) /\ ~bench.matching
      /\ bench.rows[k].answer \in Skus /\ CallsOK(bench, calls)
  BY DEF PickLands, WorkInv, CallsOK, BenchOK
<1>2. k \in Lines /\ c.sku \in Skus
  BY <1>1 DEF Call
<1>3. CASE ~Latest(c)
  <2>1. calls' = cs /\ UNCHANGED <<page, bench, memory, told, fresh>>
    BY <1>3 DEF PickLands
  <2>2. CallsOK(bench, cs) /\ SpinOK(bench, cs)
    BY <1>1 DEF WorkInv, CallsOK, SpinOK
  <2> QED BY <2>1, <2>2 DEF WorkInv
<1>4. CASE Latest(c)
  <2>1. told \in Told /\ ToldOK(bench, memory, told)
    BY DEF WorkInv, ToldOK
  <2>2. Back(b, cs, t)
    <3>1. t = [told EXCEPT !.picks[c.of][c.line] = c.sku]
      BY <1>1, <1>2, <2>1 DEF Told
    <3>2. Back(b, cs, [told EXCEPT !.picks[c.of][c.line] = c.sku])
      BY <1>4 DEF PickLands
    <3> HIDE DEF t
    <3> QED BY <3>1, <3>2
  <2>3. /\ TableOf(rows, p) /\ rows[k].answer = c.sku
        /\ \A l \in Lines : rows[l].state = bench.rows[l].state
        /\ \A l \in Lines : l # k => rows[l] = bench.rows[l]
    BY <1>1, <1>2, FoldIs
  <2> HIDE DEF rows
  <2>4. b \in Bench /\ b.of = bench.of /\ b.landed /\ ~b.matching /\ b.rows = rows
    BY <1>1, <2>3 DEF Bench, TableOf
  <2>5. /\ t \in Told /\ t.answered = told.answered
        /\ \A q \in Parses, l \in Lines :
             t.picks[q][l] = IF q = p /\ l = k THEN c.sku ELSE told.picks[q][l]
    <3>1. row \in [Lines -> Skus \cup {None}] /\ \A l \in Lines :
             row[l] = IF l = k THEN c.sku ELSE told.picks[p][l]
      BY <1>1, <1>2, <2>1 DEF Told
    <3> HIDE DEF row
    <3>2. [told.picks EXCEPT ![p] = row] \in [Parses -> [Lines -> Skus \cup {None}]]
      BY <1>1, <2>1, <3>1 DEF Told
    <3> QED BY <1>1, <2>1, <3>1, <3>2 DEF Told
  <2> HIDE DEF b, t
  <2>6. BenchOK(b) /\ AskedOK(b, memory)
    BY <1>1, <2>3, <2>4, RowsOnly
  <2>7. CallsOK(b, cs)
    <3>1. ASSUME NEW a \in cs
          PROVE  /\ a \in Call /\ (a.kind # "read" => a.of = b.of) /\ a.kind # "match"
                 /\ a.kind = "stream" => \A l \in a.left : b.rows[l].answer \notin Skus
                 /\ a.kind = "pick" => b.rows[a.line].answer \in Skus
      <4>1. /\ a \in Call /\ (a.kind # "read" => a.of = bench.of) /\ a.kind # "match"
            /\ a.kind = "stream" => \A l \in a.left : bench.rows[l].answer \notin Skus
            /\ a.kind = "pick" => bench.rows[a.line].answer \in Skus
        BY <1>1 DEF CallsOK
      <4>2. (a.kind = "stream" => a.left \subseteq Lines) /\ (a.kind = "pick" => a.line \in Lines)
        BY <4>1 DEF Call
      <4> QED BY <1>1, <1>2, <2>3, <2>4, <4>1, <4>2
    <3> QED BY <2>4, <3>1 DEF CallsOK
  <2>8. SpinOK(b, cs)
    <3>1. DOMAIN rows = Lines /\ DOMAIN bench.rows = Lines
      BY <1>1, <2>3 DEF TableOf, Table
    <3> QED BY <1>1, <2>3, <2>4, <3>1 DEF WorkInv, SpinOK
  <2>9. ToldOK(b, memory, t)
    <3>1. ASSUME NEW q \in Parses, NEW l \in Lines, t.picks[q][l] # None
          PROVE  q \in t.answered /\ Shown(b, memory, q)[l].answer = t.picks[q][l]
      <4>1. CASE q = p
        <5>1. q \in told.answered
          BY <1>1, <2>1, <4>1 DEF ToldOK
        <5>2. Shown(b, memory, q) = rows /\ Shown(bench, memory, q) = bench.rows
          BY <1>1, <2>4, <4>1 DEF Shown
        <5>3. l # k => rows[l].answer = told.picks[q][l]
          BY <2>1, <2>3, <2>5, <3>1, <5>2 DEF ToldOK
        <5> QED BY <2>3, <2>5, <4>1, <5>1, <5>2, <5>3
      <4>2. CASE q # p
        <5>1. Shown(b, memory, q) = Shown(bench, memory, q)
          BY <1>1, <2>4, <4>2 DEF Shown
        <5> QED BY <2>1, <2>5, <3>1, <4>2, <5>1 DEF ToldOK
      <4> QED BY <4>1, <4>2
    <3> QED BY <1>1, <2>1, <2>4, <2>5, <3>1 DEF ToldOK
  <2> HIDE DEF cs
  <2> QED BY <2>2, <2>4, <2>6, <2>7, <2>8, <2>9, BackKeeps
<1> QED BY <1>3, <1>4

LEMMA PickFailsKeeps ==
  ASSUME WorkInv, NEW c \in calls, NEW said \in BOOLEAN, PickFails(c, said) PROVE WorkInv'
<1> DEFINE st == bench.stopped \/ (said /\ Latest(c))
           b == [bench EXCEPT !.stopped = st]
           cs == calls \ {c}
<1>1. bench \in Bench /\ BenchOK(bench) /\ c.kind = "pick"
  BY DEF PickFails, WorkInv, BenchOK
<1>2. Back(b, cs, told)
  BY <1>1 DEF PickFails, Bench
<1>3. st \in BOOLEAN
  BY <1>1 DEF Bench
<1> HIDE DEF st
<1>4. /\ b \in Bench /\ b.of = bench.of /\ b.rows = bench.rows /\ b.landed = bench.landed
      /\ b.matching = bench.matching
  BY <1>1, <1>3 DEF Bench
<1> HIDE DEF b
<1>5. CallsOK(bench, cs) /\ SpinOK(bench, cs)
  BY <1>1 DEF WorkInv, CallsOK, SpinOK
<1>6. BenchOK(b) /\ AskedOK(b, memory) /\ CallsOK(b, cs) /\ SpinOK(b, cs) /\ ToldOK(b, memory, told)
  BY <1>1, <1>4, <1>5, FlagsOnly DEF WorkInv
<1> HIDE DEF cs
<1> QED BY <1>2, <1>4, <1>6, BackKeeps

(***************************************************************************)
(* The invariant holds throughout.                                         *)
(***************************************************************************)
LEMMA InitKeeps ==
  ASSUME Init PROVE WorkInv
<1> DEFINE pr == [p \in Parses |-> Unpriced]
           ps == [p \in Parses |-> [l \in Lines |-> None]]
<1>1. page \in Page /\ Handed(page) = None
  BY DEF Init, Mounted, Page, Handed
<1>2. BenchOK(bench) /\ bench.of = None /\ bench.rows = NoRows /\ ~bench.landed /\ ~bench.matching
  BY NoBenchIs DEF Init
<1>3. pr \in [Parses -> Snapshot \cup {Unpriced}] /\ ps \in [Parses -> [Lines -> Skus \cup {None}]]
  OBVIOUS
<1>4. MemoryOK(memory) /\ \A p \in Parses : memory.priced[p] = Unpriced
  BY <1>3 DEF Init, MemoryOK, Store
<1>5. AskedOK(bench, memory) /\ FiledOK(bench, memory)
  BY <1>2, IdleKeeps
<1>6. CallsOK(bench, calls) /\ SpinOK(bench, calls)
  BY <1>2, NoRowsWait DEF Init, CallsOK, SpinOK
<1>7. ToldOK(bench, memory, told)
  <2>1. told \in Told /\ \A p \in Parses : p \notin told.answered /\ \A l \in Lines : told.picks[p][l] = None
    BY <1>3 DEF Init, Told
  <2> QED BY <1>2, <1>4, <2>1 DEF ToldOK
<1> QED BY <1>1, <1>2, <1>4, <1>5, <1>6, <1>7 DEF Init, WorkInv

LEMMA StutterKeeps ==
  ASSUME WorkInv, UNCHANGED vars PROVE WorkInv'
BY DEF WorkInv, vars

(* A request or a file read that comes back.                               *)
LEMMA ReturnKeeps ==
  ASSUME WorkInv, NEW c \in calls,
         \/ ReadFails(c)
         \/ \E p \in fresh : ReadSheet(c, p) \/ ReadForBom(c, p) \/ ReadForViewer(c, p)
         \/ MatchLands(c) \/ MatchFails(c) \/ PickLands(c)
         \/ \E said \in BOOLEAN : PickFails(c, said) \/ StreamEnds(c, said)
         \/ \E l \in Lines, what \in RowState \ {"resolving"} : StreamEvent(c, l, what)
  PROVE  WorkInv'
BY ReadFailsKeeps, ReadSheetKeeps, ReadForBomKeeps, ReadForViewerKeeps, MatchLandsKeeps,
   MatchFailsKeeps, PickLandsKeeps, PickFailsKeeps, StreamEndsKeeps, StreamEventKeeps

LEMMA NextKeeps ==
  ASSUME WorkInv, [Next]_vars PROVE WorkInv'
<1>1. CASE UNCHANGED vars
  BY <1>1, StutterKeeps
<1>2. ASSUME NEW to \in {"bom", "viewer", "other"}, Navigate(to) PROVE WorkInv'
  BY <1>2, NavigateKeeps
<1>3. ASSUME NEW what \in {"sheet", "project"}, Drop(what) PROVE WorkInv'
  BY <1>3, DropKeeps
<1>4. CASE (\E p \in fresh : Paste(p)) \/ MapContinue \/ ContinueFromViewer \/ OpenBomTab
  BY <1>4, IntakeKeeps
<1>5. CASE StartOver \/ OpenAnother
  BY <1>5, ClosingKeeps
<1>6. CASE ToggleDnp
  BY <1>6, ToggleDnpKeeps
<1>7. ASSUME NEW l \in Lines, NEW s \in Skus, PickSimilar(l, s) PROVE WorkInv'
  BY <1>7, PickSimilarKeeps
<1>8. ASSUME NEW c \in calls,
             \/ ReadFails(c)
             \/ \E p \in fresh : ReadSheet(c, p) \/ ReadForBom(c, p) \/ ReadForViewer(c, p)
             \/ MatchLands(c) \/ MatchFails(c) \/ PickLands(c)
             \/ \E said \in BOOLEAN : PickFails(c, said) \/ StreamEnds(c, said)
             \/ \E l \in Lines, what \in RowState \ {"resolving"} : StreamEvent(c, l, what)
      PROVE  WorkInv'
  BY <1>8, ReturnKeeps
<1> QED BY <1>1, <1>2, <1>3, <1>4, <1>5, <1>6, <1>7, <1>8 DEF Next

LEMMA WorkHolds == Spec => []WorkInv
<1>1. Init => WorkInv
  BY InitKeeps
<1>2. WorkInv /\ [Next]_vars => WorkInv'
  BY NextKeeps
<1> QED BY <1>1, <1>2, PTL DEF Spec

(***************************************************************************)
(* What it means for the reader.                                           *)
(***************************************************************************)

(* Types of the workbench; a filed answer never holds a line still being   *)
(* looked up (useBomWorkbench.ts, settleStragglers in remember).           *)
THEOREM WorkbenchTypes == Spec => []TypeOK
<1>1. ASSUME WorkInv PROVE TypeOK
  <2>1. \A p \in Parses : memory.priced[p] \in Snapshot \cup {Unpriced}
                          /\ ~Waiting(memory.priced[p].rows)
    BY <1>1, UnpricedIs, NoRowsWait DEF WorkInv, MemoryOK, Store
  <2> QED BY <1>1, <2>1 DEF WorkInv, TypeOK, BenchOK, MemoryOK, Store, CallsOK
<1> QED BY <1>1, WorkHolds, PTL

(* The table answers for the BOM its page handed in, line by line: no      *)
(* landing of another BOM's request, however late, is shown.               *)
THEOREM RowsAreOwn == Spec => []RowsAreOfParse
<1>1. ASSUME WorkInv PROVE RowsAreOfParse
  BY <1>1 DEF WorkInv, BenchOK, TableOf, RowsAreOfParse
<1> QED BY <1>1, WorkHolds, PTL

(* A line that spins is owed an event by a stream that is still running.   *)
THEOREM SpinnersAreOwed == Spec => []NeverSpins
<1>1. ASSUME WorkInv PROVE NeverSpins
  BY <1>1 DEF WorkInv, SpinOK, NeverSpins
<1> QED BY <1>1, WorkHolds, PTL

(* A BOM whose answer landed is not asked about again before the reader    *)
(* closes it, or a parse that replaces it on its page bins it mid-stream.  *)
THEOREM AskedOnce == Spec => []AnsweredIsNotAskedAgain
<1>1. ASSUME WorkInv PROVE AnsweredIsNotAskedAgain
  <2>1. ASSUME NEW c \in calls, c.kind = "match" PROVE c.of \notin told.answered
    <3>1. c.of = bench.of /\ bench.matching /\ ~bench.landed /\ bench.of \in Parses
      BY <1>1, <2>1 DEF WorkInv, CallsOK, BenchOK
    <3> QED BY <1>1, <3>1, NoneIs DEF WorkInv, AskedOK, ToldOK
  <2> QED BY <2>1 DEF AnsweredIsNotAskedAgain
<1> QED BY <1>1, WorkHolds, PTL

(* A part the reader switched to stays on its line through late events,    *)
(* page changes and restored answers.                                      *)
THEOREM PicksStand == Spec => []PickStands
<1>1. ASSUME WorkInv PROVE PickStands
  <2>1. ASSUME NEW l \in Lines, bench.of \in told.answered, told.picks[bench.of][l] # None
        PROVE  bench.rows # NoRows /\ bench.rows[l].answer = told.picks[bench.of][l]
    <3>1. bench.of \in Parses /\ Shown(bench, memory, bench.of)[l].answer = told.picks[bench.of][l]
      BY <1>1, <2>1 DEF WorkInv, ToldOK, Told
    <3>2. bench.landed
      BY <1>1, <2>1, <3>1, NoneIs DEF WorkInv, ToldOK, AskedOK
    <3> QED BY <1>1, <3>1, <3>2, TablesHaveRows DEF WorkInv, BenchOK, TableOf, Shown
  <2> QED BY <2>1 DEF PickStands
<1> QED BY <1>1, WorkHolds, PTL

(***************************************************************************)
(* Picks in the order of their clicks.                                     *)
(***************************************************************************)

(* A bench that shows the same parse shows no part its line did not show.  *)
NoNewPart(b) ==
  b.of = bench.of =>
    \A l \in DOMAIN bench.rows \cap DOMAIN b.rows :
      b.rows[l].answer \in Skus => b.rows[l].answer = bench.rows[l].answer

LEMMA SameRowsShow ==
  ASSUME NEW b, b.rows = bench.rows \/ DOMAIN b.rows = {} \/ DOMAIN bench.rows = {}
  PROVE  NoNewPart(b)
BY DEF NoNewPart

(* A commit shows the bench it was given, or another parse.                *)
LEMMA CommitShows ==
  ASSUME NEW pg, NEW b, NEW mem, NEW cs, NEW t, Commit(pg, b, mem, cs, t),
         "of" \in DOMAIN b, b.of = bench.of
  PROVE  bench' = b \/ bench'.of # bench.of
<1> DEFINE p == Handed(pg)
<1>1. CASE p = b.of
  BY <1>1 DEF Commit
<1>2. CASE p # b.of
  <2>1. bench' = Priced(b, p, mem.priced)
    BY <1>2 DEF Commit
  <2> HIDE DEF p
  <2>2. Priced(b, p, mem.priced).of = p
    BY DEF Priced
  <2> QED BY <1>2, <2>1, <2>2
<1> QED BY <1>1, <1>2

LEMMA BackShows ==
  ASSUME NEW b, NEW cs, NEW t, Back(b, cs, t), "of" \in DOMAIN b, b.of = bench.of, NoNewPart(b)
  PROVE  NoNewPart(bench')
BY CommitShows DEF Back, NoNewPart

LEMMA TurnShows ==
  ASSUME WorkInv, NEW pg, NEW mem, NEW cs, Commit(pg, bench, mem, cs, told)
  PROVE  NoNewPart(bench')
<1>1. "of" \in DOMAIN bench
  BY DEF WorkInv, BenchOK, Bench
<1> QED BY <1>1, CommitShows DEF NoNewPart

LEMMA HandleParsedShows ==
  ASSUME WorkInv, NEW pg, NEW mem, NEW cs, NEW p, HandleParsed(p, pg, mem, cs)
  PROVE  NoNewPart(bench')
BY TurnShows DEF HandleParsed, Take

LEMMA HandleSheetShows ==
  ASSUME WorkInv, NEW pg, NEW cs, NEW p, HandleSheet(p, pg, cs)
  PROVE  NoNewPart(bench')
BY HandleParsedShows DEF HandleSheet, Mapped

LEMMA ReadShows ==
  ASSUME WorkInv, NEW c \in calls,
         \/ ReadFails(c)
         \/ \E p \in fresh : ReadSheet(c, p) \/ ReadForBom(c, p) \/ ReadForViewer(c, p)
  PROVE  NoNewPart(bench')
<1>1. CASE bench' = bench
  BY <1>1 DEF NoNewPart
<1>2. ASSUME NEW p \in fresh, ReadSheet(c, p) PROVE NoNewPart(bench')
  BY <1>2, HandleSheetShows DEF ReadSheet
<1>3. ASSUME NEW p \in fresh, ReadForBom(c, p), bench' # bench PROVE NoNewPart(bench')
  <2>1. HandleParsed(p, Ended(c, page), Publish(p), calls \ {c})
    BY <1>3 DEF ReadForBom, PublishOnly
  <2> QED BY <2>1, HandleParsedShows
<1>4. ASSUME NEW p \in fresh, ReadForViewer(c, p), bench' # bench PROVE NoNewPart(bench')
  <2>1. Commit([page EXCEPT !.parsed = p, !.bomSeen = FALSE, !.busy = FALSE],
               bench, Publish(p), IntakeGone(calls \ {c}), told)
    BY <1>4 DEF ReadForViewer, PublishOnly
  <2> QED BY <2>1, TurnShows
<1>5. ReadFails(c) => bench' = bench
  BY DEF ReadFails
<1> QED BY <1>1, <1>2, <1>3, <1>4, <1>5

LEMMA PagesShow ==
  ASSUME WorkInv,
         \/ \E to \in {"bom", "viewer", "other"} : Navigate(to)
         \/ \E what \in {"sheet", "project"} : Drop(what)
         \/ \E p \in fresh : Paste(p)
         \/ MapContinue \/ ContinueFromViewer \/ OpenBomTab \/ StartOver \/ OpenAnother \/ ToggleDnp
         \/ \E l \in Lines, s \in Skus : PickSimilar(l, s)
  PROVE  NoNewPart(bench')
<1>0. bench \in Bench
  BY DEF WorkInv, BenchOK
<1>1. ASSUME NEW to, Navigate(to) PROVE NoNewPart(bench')
  BY <1>1, NoBenchIs, NoRowsWait, SameRowsShow DEF Navigate
<1>2. ASSUME NEW what, Drop(what) PROVE NoNewPart(bench')
  BY <1>2, SameRowsShow DEF Drop
<1>3. ASSUME NEW p \in fresh, Paste(p) PROVE NoNewPart(bench')
  BY <1>3, HandleSheetShows DEF Paste
<1>4. CASE MapContinue \/ ContinueFromViewer \/ OpenBomTab
  BY <1>4, HandleParsedShows, TurnShows DEF MapContinue, Mapped, ContinueFromViewer, OpenBomTab
<1>5. CASE StartOver \/ OpenAnother
  <2> DEFINE b == Reset(bench)
  <2>1. "of" \in DOMAIN b /\ b.of = bench.of /\ DOMAIN b.rows = {}
    BY NoRowsWait DEF Reset, NoBench
  <2>2. PICK pg, mem, cs, t : Commit(pg, b, mem, cs, t)
    BY <1>5 DEF StartOver, OpenAnother
  <2> HIDE DEF b
  <2> QED BY <2>1, <2>2, CommitShows, SameRowsShow DEF NoNewPart
<1>6. CASE ToggleDnp \/ \E l \in Lines, s \in Skus : PickSimilar(l, s)
  <2>1. bench'.rows = bench.rows
    BY <1>0, <1>6 DEF ToggleDnp, PickSimilar, Bench
  <2> QED BY <2>1, SameRowsShow
<1> QED BY <1>1, <1>2, <1>3, <1>4, <1>5, <1>6

LEMMA AnswersShow ==
  ASSUME WorkInv, NEW c \in calls,
         \/ MatchLands(c) \/ MatchFails(c)
         \/ \E said \in BOOLEAN : PickFails(c, said) \/ StreamEnds(c, said)
         \/ \E l \in Lines, what \in RowState \ {"resolving"} : StreamEvent(c, l, what)
  PROVE  NoNewPart(bench')
<1>0. /\ bench \in Bench /\ c \in Call /\ "of" \in DOMAIN bench
      /\ c.kind # "read" => c.of = bench.of
      /\ c.kind \in {"stream", "pick"} => bench.of \in Parses /\ TableOf(bench.rows, bench.of)
      /\ c.kind = "match" => DOMAIN bench.rows = {}
      /\ c.kind = "stream" => \A l \in c.left : bench.rows[l].answer \notin Skus
  BY NoRowsWait DEF WorkInv, BenchOK, CallsOK, Bench
<1>1. CASE MatchLands(c)
  <2>1. PICK rows, cap, cs, t :
          Back([bench EXCEPT !.landed = TRUE, !.matching = FALSE, !.capped = cap,
                             !.stopped = FALSE, !.rows = rows], cs, t)
    BY <1>1 DEF MatchLands
  <2> DEFINE b == [bench EXCEPT !.landed = TRUE, !.matching = FALSE, !.capped = cap,
                                !.stopped = FALSE, !.rows = rows]
  <2>2. "of" \in DOMAIN b /\ b.of = bench.of
    BY <1>0 DEF Bench
  <2>3. NoNewPart(b)
    BY <1>0, <1>1, SameRowsShow DEF MatchLands
  <2> HIDE DEF b
  <2> QED BY <2>1, <2>2, <2>3, BackShows DEF b
<1>2. CASE MatchFails(c)
  <2> DEFINE b == [bench EXCEPT !.matching = FALSE, !.failed = TRUE]
  <2>1. "of" \in DOMAIN b /\ b.of = bench.of /\ b.rows = bench.rows
    BY <1>0 DEF Bench
  <2>2. Back(b, calls \ {c}, told)
    BY <1>2 DEF MatchFails
  <2> HIDE DEF b
  <2> QED BY <2>1, <2>2, SameRowsShow, BackShows
<1>3. ASSUME NEW said \in BOOLEAN, PickFails(c, said) PROVE NoNewPart(bench')
  <2> DEFINE b == [bench EXCEPT !.stopped = @ \/ (said /\ Latest(c))]
  <2>1. "of" \in DOMAIN b /\ b.of = bench.of /\ b.rows = bench.rows
    BY <1>0 DEF Bench
  <2>2. Back(b, calls \ {c}, told)
    BY <1>3 DEF PickFails
  <2> HIDE DEF b
  <2> QED BY <2>1, <2>2, SameRowsShow, BackShows
<1>4. ASSUME NEW died \in BOOLEAN, StreamEnds(c, died) PROVE NoNewPart(bench')
  <2> DEFINE b == StreamOver(bench, died)
  <2>1. /\ "of" \in DOMAIN b /\ b.of = bench.of /\ b.rows = SettleStragglers(bench.rows)
        /\ c.kind = "stream"
    BY <1>0, <1>4 DEF Bench, StreamOver, StreamEnds
  <2>2. Back(b, calls \ {c}, told)
    BY <1>4 DEF StreamEnds
  <2> HIDE DEF b
  <2>3. \A l \in DOMAIN bench.rows : b.rows[l].answer = bench.rows[l].answer
    BY <1>0, <2>1, SettledIs DEF TableOf, Table
  <2> QED BY <2>1, <2>2, <2>3, BackShows DEF NoNewPart
<1>5. ASSUME NEW l \in Lines, NEW what \in RowState \ {"resolving"}, StreamEvent(c, l, what)
      PROVE  NoNewPart(bench')
  <2> DEFINE rows == ApplyResolveEvent(bench.rows, c.of, l, what)
             b == [bench EXCEPT !.rows = rows]
  <2>1. /\ Back(b, (calls \ {c}) \cup {[c EXCEPT !.left = @ \ {l}]}, told)
        /\ c.kind = "stream" /\ l \in c.left
    BY <1>5 DEF StreamEvent
  <2>2. /\ rows[l].answer \in {"live", bench.rows[l].answer}
        /\ \A k \in Lines : k # l => rows[k] = bench.rows[k]
    BY <1>0, <2>1, EventIs
  <2> HIDE DEF rows
  <2>3. "of" \in DOMAIN b /\ b.of = bench.of /\ b.rows = rows
    BY <1>0 DEF Bench
  <2> HIDE DEF b
  <2>4. DOMAIN bench.rows = Lines
    BY <1>0, <2>1 DEF TableOf, Table
  <2>5. NoNewPart(b)
    BY <1>0, <2>1, <2>2, <2>3, <2>4, WorkbenchAssumption DEF NoNewPart
  <2> QED BY <2>1, <2>3, <2>5, BackShows
<1> QED BY <1>1, <1>2, <1>3, <1>4, <1>5

(* The step of PickIsLatest.                                               *)
OnlyLatest ==
  \A l \in DOMAIN bench.rows \cap DOMAIN bench'.rows :
    LET new == bench'.rows[l].answer IN
    bench'.of = bench.of /\ new # bench.rows[l].answer /\ new \in Skus
    => \E c \in calls : /\ c.kind = "pick" /\ c.line = l
                        /\ c.sku = new /\ c.seq = bench.pickSeq[l]

LEMMA NoNewPartIsLatest ==
  ASSUME NoNewPart(bench') PROVE OnlyLatest
BY DEF NoNewPart, OnlyLatest

LEMMA PickShows ==
  ASSUME WorkInv, NEW c \in calls, PickLands(c) PROVE OnlyLatest
<1>1. CASE ~Latest(c)
  <2>1. NoNewPart(bench')
    BY <1>1, SameRowsShow DEF PickLands
  <2> QED BY <2>1, NoNewPartIsLatest
<1>2. CASE Latest(c)
  <2> DEFINE rows == FoldSimilarPick(bench.rows, c)
             b == [bench EXCEPT !.rows = rows]
  <2>1. /\ c \in Call /\ c.kind = "pick" /\ c.of = bench.of /\ bench \in Bench
        /\ bench.of \in Parses /\ TableOf(bench.rows, bench.of)
    BY DEF PickLands, WorkInv, CallsOK, BenchOK
  <2>2. c.line \in Lines /\ c.sku \in Skus /\ c.seq = bench.pickSeq[c.line]
    BY <1>2, <2>1 DEF Call, Latest
  <2>3. rows[c.line].answer = c.sku /\ \A l \in Lines : l # c.line => rows[l] = bench.rows[l]
    BY <2>1, <2>2, FoldIs
  <2>4. DOMAIN bench.rows = Lines
    BY <2>1 DEF TableOf, Table
  <2>5. Back(b, calls \ {c}, [told EXCEPT !.picks[c.of][c.line] = c.sku])
    BY <1>2 DEF PickLands
  <2> HIDE DEF rows
  <2>6. "of" \in DOMAIN b /\ b.of = bench.of /\ b.rows = rows
    BY <2>1 DEF Bench
  <2> HIDE DEF b
  <2>7. bench' = b \/ bench'.of # bench.of
    BY <2>5, <2>6, CommitShows DEF Back
  <2> QED BY <2>1, <2>2, <2>3, <2>4, <2>6, <2>7 DEF OnlyLatest
<1> QED BY <1>1, <1>2

(* Of two picks for one line the newer click wins, whichever answer of the *)
(* catalog comes back first (useBomWorkbench.ts, pickSimilar's sequence).  *)
THEOREM PicksInOrder == Spec => PickIsLatest
<1>1. ASSUME WorkInv, Next PROVE OnlyLatest
  <2>1. ASSUME NEW c \in calls, PickLands(c) PROVE OnlyLatest
    BY <1>1, <2>1, PickShows
  <2>2. ASSUME NoNewPart(bench') PROVE OnlyLatest
    BY <2>2, NoNewPartIsLatest
  <2> QED BY <1>1, <2>1, <2>2, PagesShow, ReadShows, AnswersShow DEF Next
<1>2. WorkInv /\ [Next]_vars => [OnlyLatest]_vars
  BY <1>1
<1>3. [][OnlyLatest]_vars => PickIsLatest
  BY PTL DEF OnlyLatest, PickIsLatest
<1> QED BY <1>2, <1>3, WorkHolds, PTL DEF Spec
=============================================================================
