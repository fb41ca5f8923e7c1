------------------------- MODULE TradeJournalProofs -------------------------
(***************************************************************************)
(* Theorems about TradeJournal, for every set of requests, of syncs and of *)
(* instruments.                                                            *)
(*                                                                         *)
(* A commit marks a trade as raced only when it is made, long after the    *)
(* row was read, so that the properties of the rows are not inductive:     *)
(* the invariant says what a job in the middle of its awaits knows.  What  *)
(* it has read of a trade that is not stale is what the row holds; of a    *)
(* stale one nothing is known, but that executions are never taken back.   *)
(***************************************************************************)
EXTENDS TradeJournal, FiniteSetTheorems, TLAPS

-----------------------------------------------------------------------------
(* Induction, from the well-foundedness of the subsets of a finite set.    *)

\* A nonempty set of numbers has a least one.
LEMMA Smallest ==
    ASSUME NEW T \in SUBSET Nat, T # {}
    PROVE  \E x \in T : \A y \in T : x <= y
<1> DEFINE R == StrictSubsetOrdering(Nat)
           F == {0..x : x \in T}
<1>1. IsWellFoundedOn(R, FiniteSubsetsOf(Nat))
  BY FS_StrictSubsetOrderingWellFounded
<1>2. F \subseteq FiniteSubsetsOf(Nat)
  <2>1. \A x \in T : 0..x \in SUBSET Nat /\ IsFiniteSet(0..x)
    BY FS_Interval
  <2> QED
    BY <2>1 DEF FiniteSubsetsOf
<1>3. F # {}
  OBVIOUS
<1>4. PICK m \in F : \A g \in F : <<g, m>> \notin R
  <2> HIDE DEF R, F
  <2> QED
    BY <1>1, <1>2, <1>3, WFMin
<1>5. PICK x \in T : m = 0..x
  OBVIOUS
<1>6. ASSUME NEW y \in T, y < x
      PROVE  FALSE
  <2>1. 0..y \in F /\ 0..y \in SUBSET Nat /\ 0..x \in SUBSET Nat
    OBVIOUS
  <2>2. 0..y \subseteq 0..x /\ x \in 0..x /\ x \notin 0..y
    BY <1>6
  <2>3. <<0..y, 0..x>> \in R
    BY <2>1, <2>2 DEF StrictSubsetOrdering
  <2> QED
    BY <1>4, <1>5, <2>1, <2>3
<1> QED
  BY <1>6

\* A set that has 0 and every successor has every number.
LEMMA SetInduction ==
    ASSUME NEW S, 0 \in S, \A n \in Nat : n \in S => n + 1 \in S
    PROVE  Nat \subseteq S
<1> SUFFICES ASSUME Nat \ S # {}
             PROVE  FALSE
  OBVIOUS
<1>1. PICK x \in Nat \ S : \A y \in Nat \ S : x <= y
  BY Smallest
<1>2. x - 1 \in Nat \ S
  BY <1>1
<1> QED
  BY <1>1, <1>2

-----------------------------------------------------------------------------
(* The exchange's fills, added up (coindcx.py:249-317).                    *)

Counts(f, on, side, from) == f.on = on /\ f.side = side /\ f.day >= from

Part(f, on, side, from) == IF Counts(f, on, side, from) THEN f.qty ELSE 0

Totals(T, fs, on, side, from) ==
    T = [k \in 0..Len(fs) |->
            IF k = 0 THEN 0 ELSE T[k - 1] + Part(fs[k], on, side, from)]

\* The recursion of Filled defines a function.
LEMMA TotalsExist ==
    ASSUME NEW fs, Len(fs) \in Nat, NEW on, NEW side, NEW from
    PROVE  \E T : Totals(T, fs, on, side, from)
<1> DEFINE Body(T, k) ==
               IF k = 0 THEN 0 ELSE T[k - 1] + Part(fs[k], on, side, from)
           Upto(n) == \E T : T = [k \in 0..n |-> Body(T, k)]
           G == {n \in Nat : Upto(n)}
<1>1. 0 \in G
  <2> DEFINE T == [k \in 0..0 |-> 0]
  <2>1. T = [k \in 0..0 |-> Body(T, k)]
    OBVIOUS
  <2> QED
    BY <2>1
<1>2. ASSUME NEW n \in Nat, n \in G
      PROVE  n + 1 \in G
  <2>1. PICK T : T = [k \in 0..n |-> Body(T, k)]
    BY <1>2
  <2> DEFINE U == [k \in 0..(n + 1) |->
                      IF k = n + 1 THEN T[n] + Part(fs[n + 1], on, side, from)
                      ELSE T[k]]
  <2>2. ASSUME NEW k \in 0..(n + 1)
        PROVE  U[k] = Body(U, k)
    <3>1. CASE k = n + 1
      BY <3>1
    <3>2. CASE k # n + 1
      <4>1. k \in 0..n
        BY <3>2
      <4>2. U[k] = T[k] /\ (k # 0 => U[k - 1] = T[k - 1])
        BY <4>1
      <4>3. T[k] = Body(T, k)
        BY <2>1, <4>1
      <4> HIDE DEF U
      <4> QED
        BY <4>2, <4>3
    <3> QED
      BY <3>1, <3>2
  <2>3. U = [k \in 0..(n + 1) |-> U[k]]
    OBVIOUS
  <2> HIDE DEF U
  <2>4. U = [k \in 0..(n + 1) |-> Body(U, k)]
    BY <2>2, <2>3
  <2>5. Upto(n + 1)
    BY <2>4
  <2> HIDE DEF Upto
  <2> QED
    BY <2>5
<1> HIDE DEF G
<1>3. Nat \subseteq G
  BY <1>1, <1>2, SetInduction
<1>4. Upto(Len(fs))
  BY <1>3 DEF G
<1> QED
  BY <1>4 DEF Totals

\* Every partial total is a number.
LEMMA TotalsType ==
    ASSUME NEW fs \in Seq(Fill), NEW on, NEW side, NEW from,
           NEW T, Totals(T, fs, on, side, from)
    PROVE  T[Len(fs)] \in Nat
<1> DEFINE G == {k \in Nat : k <= Len(fs) => T[k] \in Nat}
<1>1. \A k \in 0..Len(fs) :
         T[k] = IF k = 0 THEN 0 ELSE T[k - 1] + Part(fs[k], on, side, from)
  BY DEF Totals
<1>2. \A k \in 1..Len(fs) : Part(fs[k], on, side, from) \in Nat
  <2>1. \A k \in 1..Len(fs) : fs[k] \in Fill
    OBVIOUS
  <2>2. Qty \in Nat
    BY JournalAssumption
  <2> QED
    BY <2>1, <2>2 DEF Part, Fill
<1>3. 0 \in G
  BY <1>1
<1>4. ASSUME NEW k \in Nat, k \in G
      PROVE  k + 1 \in G
  BY <1>1, <1>2, <1>4
<1> HIDE DEF G
<1>5. Nat \subseteq G
  BY <1>3, <1>4, SetInduction
<1> QED
  BY <1>5 DEF G

\* One more fill adds its part.
LEMMA TotalsGrow ==
    ASSUME NEW fs \in Seq(Fill), NEW x \in Fill, NEW on, NEW side, NEW from,
           NEW T, Totals(T, fs, on, side, from),
           NEW U, Totals(U, Append(fs, x), on, side, from)
    PROVE  U[Len(Append(fs, x))] = T[Len(fs)] + Part(x, on, side, from)
<1> DEFINE n == Len(fs)
           gs == Append(fs, x)
           G == {k \in Nat : k <= n => U[k] = T[k]}
<1>1. /\ n \in Nat /\ Len(gs) = n + 1 /\ gs[n + 1] = x
      /\ \A k \in 1..n : gs[k] = fs[k]
  OBVIOUS
<1> HIDE DEF gs
<1>2. \A k \in 0..n :
         T[k] = IF k = 0 THEN 0 ELSE T[k - 1] + Part(fs[k], on, side, from)
  BY DEF Totals
<1>3. \A k \in 0..(n + 1) :
         U[k] = IF k = 0 THEN 0 ELSE U[k - 1] + Part(gs[k], on, side, from)
  BY <1>1 DEF Totals, gs
<1> HIDE DEF n
<1>4. 0 \in G
  BY <1>1, <1>2, <1>3
<1>5. ASSUME NEW k \in Nat, k \in G
      PROVE  k + 1 \in G
  <2>1. SUFFICES ASSUME k + 1 <= n
                 PROVE  U[k + 1] = T[k + 1]
    OBVIOUS
  <2>2. /\ k + 1 \in 0..n /\ k + 1 \in 0..(n + 1) /\ k + 1 # 0 /\ (k + 1) - 1 = k
        /\ k + 1 \in 1..n
    BY <1>1, <2>1
  <2>3. T[k + 1] = T[k] + Part(fs[k + 1], on, side, from)
    BY <1>2, <2>2
  <2>4. U[k + 1] = U[k] + Part(gs[k + 1], on, side, from)
    BY <1>3, <2>2
  <2> QED
    BY <1>1, <1>5, <2>1, <2>2, <2>3, <2>4
<1> HIDE DEF G
<1>6. Nat \subseteq G
  BY <1>4, <1>5, SetInduction
<1>7. U[n] = T[n]
  BY <1>1, <1>6 DEF G
<1>8. U[n + 1] = U[n] + Part(x, on, side, from)
  <2>1. n + 1 \in 0..(n + 1) /\ n + 1 # 0 /\ (n + 1) - 1 = n
    BY <1>1
  <2> QED
    BY <1>1, <1>3, <2>1
<1> QED
  BY <1>1, <1>7, <1>8 DEF gs, n

\* So Filled is a number ...
LEMMA FilledType ==
    ASSUME fills \in Seq(Fill), NEW on, NEW side, NEW from
    PROVE  Filled(on, side, from) \in Nat
<1> DEFINE T == CHOOSE T : Totals(T, fills, on, side, from)
<1>1. Len(fills) \in Nat
  OBVIOUS
<1>2. Totals(T, fills, on, side, from)
  BY <1>1, TotalsExist
<1>3. Filled(on, side, from) = T[Len(fills)]
  BY DEF Filled, Totals, Part, Counts
<1> HIDE DEF T
<1> QED
  BY <1>2, <1>3, TotalsType

\* ... that one more fill makes larger by its part.
LEMMA FilledGrows ==
    ASSUME fills \in Seq(Fill), NEW x \in Fill, fills' = Append(fills, x),
           NEW on, NEW side, NEW from
    PROVE  Filled(on, side, from)'
              = Filled(on, side, from) + Part(x, on, side, from)
<1> DEFINE T == CHOOSE T : Totals(T, fills, on, side, from)
           U == CHOOSE U : Totals(U, fills', on, side, from)
<1>1. Len(fills) \in Nat /\ Len(fills') \in Nat
  OBVIOUS
<1>2. Totals(T, fills, on, side, from)
  BY <1>1, TotalsExist
<1>3. Totals(U, fills', on, side, from)
  BY <1>1, TotalsExist
<1>4. Filled(on, side, from) = T[Len(fills)]
  BY DEF Filled, Totals, Part, Counts
<1>5. Filled(on, side, from)' = U[Len(fills')]
  BY DEF Filled, Totals, Part, Counts
<1> HIDE DEF T, U
<1> QED
  BY <1>2, <1>3, <1>4, <1>5, TotalsGrow

-----------------------------------------------------------------------------
(* The inductive invariant.                                                *)

Fresh(j, t) == t \in job[j].reads \ job[j].stale

\* What a job is at.
At(j) ==
    /\ j \in Clients => job[j].pc \in {"idle", "sum", "write", "feed", "cancel"}
    /\ j \in Syncs => job[j].pc \in {"idle", "read", "close", "sum", "write"}
    /\ job[j].pc \in {"sum", "write", "feed", "cancel"} => job[j].t \in job[j].reads
    /\ job[j].pc \in {"sum", "write"} => job[j].qty >= 1
    /\ job[j].pc = "write" =>
          /\ job[j].closed <= trades[job[j].t].exited
          /\ job[j].qty <= trades[job[j].t].qty - job[j].closed

\* What it knows of a trade that nobody has written since it was read.
Knows(j) ==
    LET row == trades[job[j].t]
    IN  Fresh(j, job[j].t) =>
          /\ job[j].pc \in {"sum", "write"} =>
                row.status \in OpenStatuses /\ job[j].pnl = row.pnl
          /\ job[j].pc = "write" => job[j].closed = row.exited
          /\ job[j].pc = "cancel" => row.status = "OPEN"
          /\ job[j].pc = "feed" => (row.fed = 0 \/ job[j].t \in raced)

\* One request at most is to feed a trade it has not lost.
OneFeeds ==
    \A j, k \in Jobs :
        /\ j # k /\ job[j].pc = "feed" /\ job[k].pc = "feed"
        /\ job[j].t = job[k].t
        => ~Fresh(j, job[j].t) \/ ~Fresh(k, job[k].t)

\* A sync has read the trades it is still to close, and knows as much of them.
Remembers(s) ==
    /\ job[s].pc \in {"idle", "read"} =>
          sync[s].todo = {} /\ sync[s].new = {} /\ job[s].reads = {}
    /\ job[s].pc \in {"sum", "write"} => job[s].t \notin sync[s].todo
    /\ \A on \in sync[s].new : sync[s].seen[on] # 0
    /\ \A t \in sync[s].todo :
          /\ t \in job[s].reads
          /\ t \in DOMAIN sync[s].pnl
          /\ Fresh(s, t) =>
                trades[t].status \in OpenStatuses /\ sync[s].pnl[t] = trades[t].pnl

\* The books, and that only a closed trade was fed.
Sound(row) ==
    /\ row.exited <= row.qty
    /\ row.pnl = row.exited
    /\ row.fed <= 1
    /\ row.fed = 1 => row.status = "CLOSED"
    /\ CASE row.status = "CLOSED" -> row.exited = row.qty
         [] row.status = "PARTIALLY_CLOSED" -> row.exited \in 1..row.qty - 1
         [] OTHER -> row.exited = 0

HeldWithin == \A on \in Instruments : Held(on) \in -Qty..Qty

IInv ==
    /\ TypeOK
    /\ HeldWithin
    /\ ClosedIsSoldOut
    /\ \A j \in Jobs : At(j) /\ Knows(j)
    /\ OneFeeds
    /\ \A s \in Syncs : Remembers(s)
    /\ \A t \in DOMAIN trades \ raced : Sound(trades[t])

\* ... and what one sync is about to create has no open row yet, unless two of
\* them had found that.
Tracked ==
    raced = {} =>
        \A on \in Instruments \ crossed :
            /\ \A t, u \in OpenSynced(on) : t = u
            /\ \A s \in Syncs : on \in sync[s].new => OpenSynced(on) = {}

-----------------------------------------------------------------------------
(* What a commit of a sync's session does to the table.                    *)

\* A finite set is listed, each member once.
LEMMA Listed ==
    ASSUME NEW S, IsFiniteSet(S)
    PROVE  /\ SetToSeq(S) \in Seq(S)
           /\ \A i, k \in DOMAIN SetToSeq(S) :
                 SetToSeq(S)[i] = SetToSeq(S)[k] => i = k
<1> DEFINE n == Cardinality(S)
<1>1. n \in Nat /\ ExistsBijection(1..n, S)
  BY FS_CardinalityType
<1> HIDE DEF n
<1>2. \E f \in [1..n -> S] : IsInjective(f)
  BY <1>1 DEF ExistsBijection, Bijection, Injection
<1>3. SetToSeq(S) \in [1..n -> S] /\ IsInjective(SetToSeq(S))
  BY <1>2 DEF SetToSeq, n
<1>4. SetToSeq(S) \in Seq(S)
  BY <1>1, <1>3
<1> QED
  BY <1>3, <1>4 DEF IsInjective

Newborn(row) == row.status = "OPEN" /\ row.exited = 0 /\ row.pnl = 0 /\ row.fed = 0

\* A sync creates one open row for each position it did not find
\* (coindcx_sync.py:69-100).
LEMMA CreatedRows ==
    ASSUME TypeOK, NEW s \in Syncs, Remembers(s)
    PROVE  /\ Created(s) \in Seq(Trade)
           /\ \A i \in DOMAIN Created(s) :
                 /\ Newborn(Created(s)[i])
                 /\ Created(s)[i].src = "COINDCX_SYNC"
                 /\ Created(s)[i].on \in sync[s].new
           /\ \A i, k \in DOMAIN Created(s) :
                 Created(s)[i].on = Created(s)[k].on => i = k
<1> DEFINE new == sync[s].new
           seen == sync[s].seen
           Side(on) == IF seen[on] > 0 THEN "LONG" ELSE "SHORT"
           Size(on) == IF seen[on] > 0 THEN seen[on] ELSE - seen[on]
           New(on) == Row("COINDCX_SYNC", Denormalize(on), Side(on), Size(on))
           S == {New(on) : on \in new}
<1>1. sync[s] \in Session
  BY DEF TypeOK
<1>2. new \in SUBSET Instruments /\ seen \in [Instruments -> -Qty..Qty]
  BY <1>1 DEF Session
<1>3. \A on \in new : seen[on] # 0
  BY DEF Remembers
<1>4. Created(s) = SetToSeq(S)
  BY DEF Created
<1> HIDE DEF new, seen
<1>5. ASSUME NEW on \in new
      PROVE  /\ New(on) \in Trade
             /\ Newborn(New(on))
             /\ New(on).src = "COINDCX_SYNC"
             /\ New(on).on = on
  <2>1. on \in Instruments /\ seen[on] \in -Qty..Qty /\ seen[on] # 0 /\ Qty \in Nat
    BY <1>2, <1>3, JournalAssumption
  <2>2. Size(on) \in 1..Qty
    BY <2>1
  <2>3. Side(on) \in {"LONG", "SHORT"}
    OBVIOUS
  <2>4. day \in Days
    BY DEF TypeOK
  <2> HIDE DEF Side, Size
  <2> QED
    BY <2>1, <2>2, <2>3, <2>4 DEF Row, Denormalize, Trade, OpenStatuses, Newborn
<1> HIDE DEF New
<1>6. IsFiniteSet(S)
  <2>1. IsFiniteSet(new)
    BY <1>2, JournalAssumption, FS_Subset
  <2> DEFINE f == [on \in new |-> New(on)]
  <2>2. f \in Surjection(new, S)
    BY DEF Surjection
  <2> QED
    BY <2>1, <2>2, FS_Surjection
<1>7. /\ Created(s) \in Seq(S)
      /\ \A i, k \in DOMAIN Created(s) : Created(s)[i] = Created(s)[k] => i = k
  BY <1>4, <1>6, Listed
<1>8. \A i \in DOMAIN Created(s) : \E on \in new : Created(s)[i] = New(on)
  <2>1. \A i \in DOMAIN Created(s) : Created(s)[i] \in S
    BY <1>7
  <2> QED
    BY <2>1
<1>9. S \subseteq Trade
  BY <1>5
<1> HIDE DEF S
<1>10. Created(s) \in Seq(Trade)
  BY <1>7, <1>9
<1>11. \A i, k \in DOMAIN Created(s) : Created(s)[i].on = Created(s)[k].on => i = k
  BY <1>5, <1>7, <1>8
<1>12. \A i \in DOMAIN Created(s) :
         /\ Newborn(Created(s)[i])
         /\ Created(s)[i].src = "COINDCX_SYNC"
         /\ Created(s)[i].on \in new
  BY <1>5, <1>8
<1> QED
  BY <1>10, <1>11, <1>12 DEF new

Kept(a, b) ==
    /\ b.src = a.src /\ b.on = a.on /\ b.side = a.side /\ b.qty = a.qty
    /\ b.status = a.status /\ b.pnl = a.pnl /\ b.exited = a.exited /\ b.fed = a.fed

Extends(table, f) ==
    /\ f \in Seq(Trade)
    /\ DOMAIN table \subseteq DOMAIN f
    /\ \A t \in DOMAIN table : Kept(table[t], f[t])
    /\ \A t \in DOMAIN f \ DOMAIN table : Newborn(f[t])

\* A commit only dates the rows that are there, and adds its own after them
\* (coindcx_sync.py:155-163).
LEMMA FlushedExtends ==
    ASSUME TypeOK, NEW s \in Syncs, Remembers(s), NEW table \in Seq(Trade)
    PROVE  /\ Extends(table, Flushed(table, s))
           /\ \A t \in DOMAIN Flushed(table, s) \ DOMAIN table :
                 /\ Flushed(table, s)[t].src = "COINDCX_SYNC"
                 /\ Flushed(table, s)[t].on \in sync[s].new
           /\ \A t, u \in DOMAIN Flushed(table, s) \ DOMAIN table :
                 Flushed(table, s)[t].on = Flushed(table, s)[u].on => t = u
<1> DEFINE c == Created(s)
           dated == [t \in DOMAIN table |->
                        IF t \in sync[s].touch THEN [table[t] EXCEPT !.since = day]
                        ELSE table[t]]
           f == dated \o c
           n == Len(table)
<1>1. Flushed(table, s) = f
  BY DEF Flushed
<1>2. /\ c \in Seq(Trade)
      /\ \A i \in DOMAIN c : /\ Newborn(c[i])
                             /\ c[i].src = "COINDCX_SYNC"
                             /\ c[i].on \in sync[s].new
      /\ \A i, k \in DOMAIN c : c[i].on = c[k].on => i = k
  BY CreatedRows
<1> HIDE DEF c
<1>3. day \in Days
  BY DEF TypeOK
<1>4. \A t \in DOMAIN table : dated[t] \in Trade /\ Kept(table[t], dated[t])
  <2>1. \A t \in DOMAIN table : table[t] \in Trade
    OBVIOUS
  <2>2. SUFFICES ASSUME NEW t \in DOMAIN table
                 PROVE  dated[t] \in Trade /\ Kept(table[t], dated[t])
    OBVIOUS
  <2>3. table[t] \in Trade
    BY <2>1
  <2>4. CASE t \in sync[s].touch
    <3>1. dated[t] = [table[t] EXCEPT !.since = day]
      BY <2>4
    <3> QED
      BY <1>3, <2>3, <3>1 DEF Trade, Kept
  <2>5. CASE t \notin sync[s].touch
    <3>1. dated[t] = table[t]
      BY <2>5
    <3> QED
      BY <2>3, <3>1 DEF Kept
  <2> QED
    BY <2>4, <2>5
<1>5. dated \in Seq(Trade) /\ Len(dated) = n /\ n \in Nat /\ DOMAIN table = 1..n
  <2>1. DOMAIN table = 1..n /\ n \in Nat
    OBVIOUS
  <2>2. dated \in [1..n -> Trade]
    <3>1. DOMAIN dated = 1..n /\ dated = [t \in 1..n |-> dated[t]]
      BY <2>1
    <3> HIDE DEF dated
    <3> QED
      BY <1>4, <2>1, <3>1
  <2> HIDE DEF dated, n
  <2> QED
    BY <2>1, <2>2
<1> HIDE DEF dated, n
<1>6. /\ f \in Seq(Trade) /\ DOMAIN f = 1..(n + Len(c)) /\ Len(c) \in Nat
      /\ \A t \in 1..n : f[t] = dated[t]
      /\ \A t \in DOMAIN f \ 1..n : t - n \in DOMAIN c /\ f[t] = c[t - n] /\ t \in Nat
  <2>1. /\ c \in Seq(Trade) /\ dated \in Seq(Trade) /\ Len(dated) = n
        /\ n \in Nat /\ Len(c) \in Nat
    BY <1>2, <1>5
  <2>2. f \in Seq(Trade) /\ Len(f) = n + Len(c) /\ DOMAIN f = 1..(n + Len(c))
    BY <2>1
  <2>3. \A t \in 1..(n + Len(c)) : f[t] = IF t <= n THEN dated[t] ELSE c[t - n]
    BY <2>1
  <2>4. \A t \in 1..n : t \in 1..(n + Len(c)) /\ t <= n
    BY <2>1
  <2>5. \A t \in 1..(n + Len(c)) \ 1..n :
           ~(t <= n) /\ t - n \in 1..Len(c) /\ t \in Nat
    BY <2>1
  <2>6. DOMAIN c = 1..Len(c)
    BY <2>1
  <2> QED
    BY <2>1, <2>2, <2>3, <2>4, <2>5, <2>6
<1> HIDE DEF f
<1>7. Extends(table, f)
  BY <1>2, <1>4, <1>5, <1>6 DEF Extends
<1>8. \A t \in DOMAIN f \ DOMAIN table :
         f[t].src = "COINDCX_SYNC" /\ f[t].on \in sync[s].new
  BY <1>2, <1>5, <1>6
<1>9. \A t, u \in DOMAIN f \ DOMAIN table : f[t].on = f[u].on => t = u
  <2>1. SUFFICES ASSUME NEW t \in DOMAIN f \ DOMAIN table,
                        NEW u \in DOMAIN f \ DOMAIN table, f[t].on = f[u].on
                 PROVE  t = u
    OBVIOUS
  <2>2. t - n = u - n /\ t \in Nat /\ u \in Nat
    BY <1>2, <1>5, <1>6, <2>1
  <2> QED
    BY <1>5, <2>2
<1> QED
  BY <1>1, <1>7, <1>8, <1>9

-----------------------------------------------------------------------------
(* What a job carries over a step of another one.                          *)

Carried(k) ==
    /\ job'[k].pc = job[k].pc /\ job'[k].t = job[k].t /\ job'[k].qty = job[k].qty
    /\ job'[k].pnl = job[k].pnl /\ job'[k].closed = job[k].closed
    /\ job'[k].reads = job[k].reads /\ job[k].stale \subseteq job'[k].stale

\* Of a trade it has read, the executions only grow, and the row is the same
\* unless the trade is stale.
RowsCarried(k) ==
    /\ raced \subseteq raced'
    /\ \A t \in job[k].reads :
          /\ trades'[t].qty = trades[t].qty
          /\ trades'[t].exited >= trades[t].exited
          /\ t \notin job'[k].stale =>
                /\ trades'[t].status = trades[t].status
                /\ trades'[t].pnl = trades[t].pnl
                /\ trades'[t].exited = trades[t].exited
                /\ \/ trades'[t].fed = trades[t].fed
                   \/ t \in raced'
                   \/ ~(job[k].pc = "feed" /\ job[k].t = t)

\* A row that a job has read is a row.
LEMMA ReadRows ==
    ASSUME TypeOK, NEW j \in Jobs, NEW t \in job[j].reads
    PROVE  t \in DOMAIN trades /\ trades[t] \in Trade
<1>1. t \in DOMAIN trades
  BY DEF TypeOK
<1> QED
  BY <1>1 DEF TypeOK

\* What a job knows outlasts the steps of the others (journal.py:112-170).
LEMMA Undisturbed ==
    ASSUME TypeOK, TypeOK', NEW k \in Jobs, At(k), Knows(k), Carried(k), RowsCarried(k)
    PROVE  At(k)' /\ Knows(k)'
<1> DEFINE t == job[k].t
<1>1. job[k] \in Work
  BY DEF TypeOK
<1>2. job'[k].t = t /\ job'[k].pc = job[k].pc
  BY DEF Carried
<1>3. At(k)'
  <2>1. ASSUME job[k].pc = "write"
        PROVE  /\ job[k].closed <= trades'[t].exited
               /\ job[k].qty <= trades'[t].qty - job[k].closed
    <3>1. t \in job[k].reads /\ t \in job'[k].reads
      BY <2>1 DEF At, Carried
    <3>2. trades[t] \in Trade
      BY <3>1, ReadRows
    <3>3. trades'[t] \in Trade
      <4>1. t \in DOMAIN trades'
        BY <3>1 DEF TypeOK
      <4> QED
        BY <4>1 DEF TypeOK
    <3>4. trades'[t].qty = trades[t].qty /\ trades'[t].exited >= trades[t].exited
      BY <3>1 DEF RowsCarried
    <3> HIDE DEF t
    <3>5. job[k].closed \in Nat /\ trades[t].exited \in Nat /\ trades'[t].exited \in Nat
      BY <1>1, <3>2, <3>3 DEF Work, Trade
    <3>6. job[k].closed <= trades[t].exited /\ job[k].qty <= trades[t].qty - job[k].closed
      BY <2>1 DEF At, t
    <3> QED
      BY <3>4, <3>5, <3>6
  <2> QED
    BY <1>2, <2>1 DEF At, Carried
<1>4. Knows(k)'
  <2>1. SUFFICES ASSUME Fresh(k, t)'
                 PROVE  /\ job[k].pc \in {"sum", "write"} =>
                              /\ trades'[t].status \in OpenStatuses
                              /\ job[k].pnl = trades'[t].pnl
                        /\ job[k].pc = "write" => job[k].closed = trades'[t].exited
                        /\ job[k].pc = "cancel" => trades'[t].status = "OPEN"
                        /\ job[k].pc = "feed" =>
                              (trades'[t].fed = 0 \/ t \in raced')
    BY <1>2 DEF Knows, Carried, Fresh
  <2>2. t \in job[k].reads /\ t \notin job'[k].stale /\ Fresh(k, t)
    BY <2>1 DEF Carried, Fresh
  <2>3. /\ trades'[t].status = trades[t].status /\ trades'[t].pnl = trades[t].pnl
        /\ trades'[t].exited = trades[t].exited
        /\ job[k].pc = "feed" => (trades'[t].fed = trades[t].fed \/ t \in raced')
        /\ raced \subseteq raced'
    BY <2>2 DEF RowsCarried
  <2> QED
    BY <2>2, <2>3 DEF Knows
<1> QED
  BY <1>3, <1>4

\* So does what a sync is still to close (coindcx_sync.py:166).
LEMMA StillRemembers ==
    ASSUME NEW s \in Syncs, Remembers(s), Carried(s), RowsCarried(s),
           sync'[s] = sync[s]
    PROVE  Remembers(s)'
<1>1. \A t \in sync[s].todo :
         /\ t \in job'[s].reads
         /\ Fresh(s, t)' =>
               trades'[t].status \in OpenStatuses /\ sync[s].pnl[t] = trades'[t].pnl
  BY DEF Remembers, Carried, RowsCarried, Fresh
<1> QED
  BY <1>1 DEF Remembers, Carried

\* No other request gets to feed the same trade (routers/journal.py:152).
LEMMA StillOneFeeds ==
    ASSUME OneFeeds, NEW j \in Jobs, job'[j].pc # "feed",
           \A k \in Jobs \ {j} : Carried(k)
    PROVE  OneFeeds'
<1>1. SUFFICES ASSUME NEW i \in Jobs, NEW k \in Jobs, i # k,
                      job'[i].pc = "feed", job'[k].pc = "feed", job'[i].t = job'[k].t
               PROVE  ~Fresh(i, job[i].t)' \/ ~Fresh(k, job[k].t)'
  BY DEF OneFeeds
<1>2. i \in Jobs \ {j} /\ k \in Jobs \ {j}
  BY <1>1
<1>3. Carried(i) /\ Carried(k)
  BY <1>2
<1>4. /\ job[i].pc = "feed" /\ job[k].pc = "feed" /\ job[i].t = job[k].t
      /\ job'[i].t = job[i].t /\ job'[k].t = job[k].t
  BY <1>1, <1>3 DEF Carried
<1>5. ~Fresh(i, job[i].t) \/ ~Fresh(k, job[k].t)
  BY <1>1, <1>4 DEF OneFeeds
<1>6. /\ Fresh(i, job[i].t)' => Fresh(i, job[i].t)
      /\ Fresh(k, job[k].t)' => Fresh(k, job[k].t)
  BY <1>3, <1>4 DEF Carried, Fresh
<1> QED
  BY <1>5, <1>6

\* A step of one job has to be looked at for that job, and for the rows.
LEMMA OneJob ==
    ASSUME IInv, TypeOK', NEW j \in Jobs,
           \A k \in Jobs \ {j} :
              Carried(k) /\ RowsCarried(k) /\ (k \in Syncs => sync'[k] = sync[k]),
           At(j)', Knows(j)', j \in Syncs => Remembers(j)',
           HeldWithin', ClosedIsSoldOut', OneFeeds',
           \A t \in DOMAIN trades' \ raced' : Sound(trades'[t])
    PROVE  IInv'
<1>1. \A k \in Jobs : At(k)' /\ Knows(k)'
  <2>1. ASSUME NEW k \in Jobs \ {j}
        PROVE  At(k)' /\ Knows(k)'
    BY Undisturbed DEF IInv
  <2> QED
    BY <2>1
<1>2. \A s \in Syncs : Remembers(s)'
  <2>1. ASSUME NEW s \in Syncs \ {j}
        PROVE  Remembers(s)'
    <3>1. s \in Jobs
      BY DEF Jobs
    <3> QED
      BY <3>1, StillRemembers DEF IInv
  <2> QED
    BY <2>1
<1> QED
  BY <1>1, <1>2 DEF IInv

\* As long as nothing is filled, what is held is what it was.
LEMMA HeldKept ==
    ASSUME HeldWithin, UNCHANGED fills
    PROVE  HeldWithin'
BY DEF HeldWithin, Held, Filled

\* A step that only reads changes what its own job knows.
LEMMA OnlyReads ==
    ASSUME IInv, TypeOK', NEW j \in Jobs, UNCHANGED <<fills, trades, raced, crossed>>,
           \A k \in Jobs \ {j} : job'[k] = job[k] /\ (k \in Syncs => sync'[k] = sync[k]),
           At(j)', Knows(j)', j \in Syncs => Remembers(j)', job'[j].pc # "feed"
    PROVE  IInv'
<1>1. ASSUME NEW k \in Jobs \ {j}
      PROVE  Carried(k) /\ RowsCarried(k) /\ (k \in Syncs => sync'[k] = sync[k])
  <2>1. Carried(k)
    BY DEF Carried
  <2>2. RowsCarried(k)
    <3>1. ASSUME NEW t \in job[k].reads
          PROVE  trades'[t].exited >= trades[t].exited
      <4>1. trades[t] \in Trade
        BY ReadRows DEF IInv
      <4> QED
        BY <4>1 DEF Trade
    <3> QED
      BY <3>1 DEF RowsCarried
  <2> QED
    BY <2>1, <2>2
<1>2. OneFeeds'
  BY <1>1, StillOneFeeds DEF IInv
<1>3. HeldWithin'
  BY HeldKept DEF IInv
<1>4. ClosedIsSoldOut'
  BY DEF IInv, ClosedIsSoldOut
<1>5. \A t \in DOMAIN trades' \ raced' : Sound(trades'[t])
  BY DEF IInv, Sound
<1> QED
  BY <1>1, <1>2, <1>3, <1>4, <1>5, OneJob

-----------------------------------------------------------------------------
(* The steps that write no row.                                            *)

\* Their types are those of their job and of their session.
LEMMA ReadsType ==
    ASSUME TypeOK, NEW j \in Jobs, UNCHANGED <<fills, day, trades, raced, crossed>>,
           job' \in [Jobs -> Work], sync' \in [Syncs -> Session],
           moves' \in 0..MaxMoves,
           \A k \in Jobs \ {j} : job'[k] = job[k],
           job'[j].reads \subseteq DOMAIN trades,
           job'[j].stale \subseteq job'[j].reads
    PROVE  TypeOK'
<1>1. ASSUME NEW k \in Jobs
      PROVE  job'[k].reads \subseteq DOMAIN trades /\ job'[k].stale \subseteq job'[k].reads
  BY DEF TypeOK
<1> QED
  BY <1>1 DEF TypeOK

\* A move is one less.
LEMMA Spent ==
    ASSUME TypeOK, Spend \/ UNCHANGED moves
    PROVE  moves' \in 0..MaxMoves
BY JournalAssumption DEF TypeOK, Spend

\* A job that begins.
LEMMA IdleType == Idle \in Work
BY JournalAssumption DEF Idle, Work

\* A sync that goes on.
LEMMA ReturnedType ==
    ASSUME NEW j \in Jobs, job[j] \in Work, NEW stale \in SUBSET Nat
    PROVE  /\ Returned(j, stale) \in Work
           /\ Returned(j, stale).pc = "close" /\ Returned(j, stale).t = 0
           /\ Returned(j, stale).reads = job[j].reads /\ Returned(j, stale).stale = stale
<1>1. job[j].reads \in SUBSET Nat /\ stale \in SUBSET Nat
  BY DEF Work
<1> QED
  BY <1>1, IdleType DEF Returned, Idle, Work

\* A session that has done nothing.
LEMMA NoSyncType == NoSync \in Session
<1>1. [on \in Instruments |-> 0] \in [Instruments -> -Qty..Qty]
  BY JournalAssumption
<1>2. <<>> \in [{} -> Int] /\ {} \in SUBSET Nat
  OBVIOUS
<1> QED
  BY <1>1, <1>2 DEF NoSync, Session

\* Reading a trade to exit it (journal.py:112).
LEMMA ExitReadStep ==
    ASSUME IInv, NEW c \in Clients, NEW t \in DOMAIN trades, NEW q \in 1..Qty,
           ExitRead(c, t, q)
    PROVE  IInv'
<1> DEFINE w == [Idle EXCEPT !.pc = "sum", !.t = t, !.qty = q,
                             !.pnl = trades[t].pnl, !.reads = {t}]
<1>0. TypeOK /\ c \in Jobs /\ c \notin Syncs /\ q \in 1..Qty /\ t \in DOMAIN trades
  BY JournalAssumption DEF IInv, Jobs
<1>1. trades[t] \in Trade /\ t \in Nat
  BY <1>0 DEF TypeOK
<1>2. /\ w \in Work /\ w.pc = "sum" /\ w.t = t /\ w.qty = q /\ w.pnl = trades[t].pnl
      /\ w.reads = {t} /\ w.stale = {}
  <2>1. trades[t].pnl \in Int /\ q \in 0..Qty
    BY <1>0, <1>1, JournalAssumption DEF Trade
  <2> QED
    BY <1>0, <1>1, <2>1, IdleType DEF Idle, Work
<1>3. /\ job' = [job EXCEPT ![c] = w] /\ Spend /\ UNCHANGED <<fills, day, trades, sync, raced, crossed>>
      /\ trades[t].status \in OpenStatuses
  BY DEF ExitRead
<1> HIDE DEF w
<1>4. /\ job' \in [Jobs -> Work] /\ job'[c] = w
      /\ \A k \in Jobs \ {c} : job'[k] = job[k]
  BY <1>0, <1>2, <1>3 DEF TypeOK
<1>5. TypeOK'
  <2>1. moves' \in 0..MaxMoves
    BY <1>0, <1>3, Spent
  <2>2. sync' \in [Syncs -> Session]
    BY <1>0, <1>3 DEF TypeOK
  <2> QED
    BY <1>0, <1>2, <1>3, <1>4, <2>1, <2>2, ReadsType
<1>6. At(c)' /\ Knows(c)'
  BY <1>0, <1>2, <1>3, <1>4 DEF At, Knows, Fresh
<1> QED
  BY <1>0, <1>2, <1>3, <1>4, <1>5, <1>6, OnlyReads

\* Reading a trade to cancel it (journal.py:166).
LEMMA CancelReadStep ==
    ASSUME IInv, NEW c \in Clients, NEW t \in DOMAIN trades, CancelRead(c, t)
    PROVE  IInv'
<1> DEFINE w == [Idle EXCEPT !.pc = "cancel", !.t = t, !.reads = {t}]
<1>0. TypeOK /\ c \in Jobs /\ c \notin Syncs /\ t \in DOMAIN trades
  BY JournalAssumption DEF IInv, Jobs
<1>1. t \in Nat
  BY <1>0 DEF TypeOK
<1>2. /\ w \in Work /\ w.pc = "cancel" /\ w.t = t
      /\ w.reads = {t} /\ w.stale = {}
  BY <1>0, <1>1, IdleType DEF Idle, Work
<1>3. /\ job' = [job EXCEPT ![c] = w] /\ Spend /\ UNCHANGED <<fills, day, trades, sync, raced, crossed>>
      /\ trades[t].status = "OPEN"
  BY DEF CancelRead
<1> HIDE DEF w
<1>4. /\ job' \in [Jobs -> Work] /\ job'[c] = w
      /\ \A k \in Jobs \ {c} : job'[k] = job[k]
  BY <1>0, <1>2, <1>3 DEF TypeOK
<1>5. TypeOK'
  <2>1. moves' \in 0..MaxMoves
    BY <1>0, <1>3, Spent
  <2>2. sync' \in [Syncs -> Session]
    BY <1>0, <1>3 DEF TypeOK
  <2> QED
    BY <1>0, <1>2, <1>3, <1>4, <2>1, <2>2, ReadsType
<1>6. At(c)' /\ Knows(c)'
  BY <1>0, <1>2, <1>3, <1>4 DEF At, Knows, Fresh
<1> QED
  BY <1>0, <1>2, <1>3, <1>4, <1>5, <1>6, OnlyReads

\* Adding up the executions (journal.py:120): more than is left is refused.
LEMMA ExitSumStep ==
    ASSUME IInv, NEW j \in Jobs, ExitSum(j)
    PROVE  IInv'
<1> DEFINE t == job[j].t
           closed == trades[t].exited
           w == IF job[j].qty <= trades[t].qty - closed
                THEN [job[j] EXCEPT !.pc = "write", !.closed = closed]
                ELSE IF j \in Syncs THEN Returned(j, job[j].stale) ELSE Idle
<1>0. /\ TypeOK /\ job[j].pc = "sum" /\ job[j] \in Work /\ At(j) /\ Knows(j)
      /\ job' = [job EXCEPT ![j] = w]
      /\ UNCHANGED <<fills, day, trades, sync, raced, crossed, moves>>
  BY DEF IInv, TypeOK, ExitSum
<1>1. t \in job[j].reads /\ t \in DOMAIN trades /\ trades[t] \in Trade /\ closed \in Nat
  <2>1. t \in job[j].reads
    BY <1>0 DEF At
  <2> QED
    BY <1>0, <2>1, ReadRows DEF Trade
<1> HIDE DEF closed
<1>2. w \in Work /\ w.pc # "feed"
  <2>1. /\ Returned(j, job[j].stale) \in Work
        /\ Returned(j, job[j].stale).pc = "close"
        /\ Returned(j, job[j].stale).reads = job[j].reads
        /\ Returned(j, job[j].stale).stale = job[j].stale
    BY <1>0, ReturnedType DEF Work
  <2> QED
    BY <1>0, <1>1, <2>1, IdleType DEF Work, Idle
<1>3. \/ /\ job[j].qty <= trades[t].qty - closed
         /\ w.pc = "write" /\ w.closed = closed
         /\ w.t = t /\ w.qty = job[j].qty /\ w.pnl = job[j].pnl
         /\ w.reads = job[j].reads /\ w.stale = job[j].stale
      \/ /\ j \in Syncs /\ w.pc = "close"
         /\ w.reads = job[j].reads /\ w.stale = job[j].stale
      \/ /\ j \notin Syncs /\ w.pc = "idle" /\ w.reads = {} /\ w.stale = {}
  <2>1. /\ Returned(j, job[j].stale).pc = "close"
        /\ Returned(j, job[j].stale).reads = job[j].reads
        /\ Returned(j, job[j].stale).stale = job[j].stale
    BY <1>0, ReturnedType DEF Work
  <2> QED
    BY <1>0, <2>1 DEF Idle, Work
<1> HIDE DEF w, t
<1>4. /\ job' \in [Jobs -> Work] /\ job'[j] = w
      /\ \A k \in Jobs \ {j} : job'[k] = job[k]
  BY <1>0, <1>2 DEF TypeOK
<1>5. TypeOK'
  <2>1. w.reads \subseteq DOMAIN trades /\ w.stale \subseteq w.reads
    BY <1>0, <1>3 DEF TypeOK
  <2>2. moves' \in 0..MaxMoves /\ sync' \in [Syncs -> Session]
    BY <1>0 DEF TypeOK
  <2> QED
    BY <1>0, <1>4, <2>1, <2>2, ReadsType
<1>6. At(j)'
  <2>1. closed <= closed
    BY <1>1
  <2> QED
    BY <1>0, <1>1, <1>3, <1>4, <2>1, JournalAssumption DEF At, closed, t, Jobs
<1>7. Knows(j)'
  BY <1>0, <1>1, <1>3, <1>4 DEF Knows, Fresh, closed, t
<1>8. ASSUME j \in Syncs
      PROVE  Remembers(j)'
  <2>1. Remembers(j)
    BY <1>8 DEF IInv
  <2>2. /\ w.reads = job[j].reads /\ w.stale = job[j].stale
        /\ w.pc \in {"write", "close"} /\ (w.pc = "write" => w.t = job[j].t)
    BY <1>3, <1>8 DEF t
  <2> QED
    BY <1>0, <1>4, <2>1, <2>2 DEF Remembers, Fresh
<1> QED
  BY <1>0, <1>2, <1>4, <1>5, <1>6, <1>7, <1>8, OnlyReads

\* The positions the account shows, or none (coindcx_sync.py:124).
LEMMA SyncFetchStep ==
    ASSUME IInv, NEW s \in Syncs, SyncFetch(s)
    PROVE  IInv'
<1> DEFINE w == [job[s] EXCEPT !.pc = "read"]
<1>0. /\ TypeOK /\ s \in Jobs /\ s \notin Clients /\ s \in Syncs
      /\ job[s] \in Work /\ sync[s] \in Session
      /\ job[s].pc = "idle" /\ At(s) /\ Knows(s) /\ Remembers(s)
  BY JournalAssumption DEF IInv, TypeOK, SyncFetch, SyncIs, Jobs
<1>1. /\ job' = [job EXCEPT ![s] = w]
      /\ UNCHANGED <<fills, day, trades, raced, crossed>>
      /\ Spend \/ UNCHANGED moves
  BY <1>0 DEF SyncFetch, SyncTo, TypeOK
<1>2. /\ w \in Work /\ w.pc = "read" /\ w.t = job[s].t
      /\ w.reads = job[s].reads /\ w.stale = job[s].stale
  BY <1>0 DEF Work
<1> HIDE DEF w
<1>3. /\ job' \in [Jobs -> Work] /\ job'[s] = w
      /\ \A k \in Jobs \ {s} : job'[k] = job[k]
  BY <1>0, <1>1, <1>2 DEF TypeOK
<1>4. /\ sync' \in [Syncs -> Session]
      /\ sync'[s].todo = sync[s].todo /\ sync'[s].new = sync[s].new
      /\ \A r \in Syncs \ {s} : sync'[r] = sync[r]
  <2>1. PICK seen : /\ sync' = [sync EXCEPT ![s].seen = seen]
                    /\ seen = [on \in Instruments |-> Held(on)] \/ seen = NoSync.seen
    BY DEF SyncFetch
  <2>2. seen \in [Instruments -> -Qty..Qty]
    <3>1. CASE seen = [on \in Instruments |-> Held(on)]
      <4>1. \A on \in Instruments : Held(on) \in -Qty..Qty
        BY DEF IInv, HeldWithin
      <4> QED
        BY <3>1, <4>1
    <3>2. CASE seen = NoSync.seen
      <4>1. NoSync \in Session
        BY NoSyncType
      <4> QED
        BY <3>2, <4>1 DEF Session
    <3> QED
      BY <2>1, <3>1, <3>2
  <2> DEFINE x == [sync[s] EXCEPT !.seen = seen]
  <2>3. /\ x \in Session /\ x.todo = sync[s].todo /\ x.new = sync[s].new
    BY <1>0, <2>2 DEF Session
  <2>4. sync' = [sync EXCEPT ![s] = x]
    BY <2>1
  <2> HIDE DEF x
  <2> QED
    BY <1>0, <2>3, <2>4 DEF TypeOK
<1>5. TypeOK'
  <2>1. w.reads \subseteq DOMAIN trades /\ w.stale \subseteq w.reads
    BY <1>0, <1>2 DEF TypeOK
  <2>2. moves' \in 0..MaxMoves
    BY <1>0, <1>1, Spent
  <2> QED
    BY <1>0, <1>1, <1>3, <1>4, <2>1, <2>2, ReadsType
<1>6. At(s)' /\ Knows(s)'
  BY <1>0, <1>2, <1>3 DEF At, Knows
<1>7. Remembers(s)'
  BY <1>0, <1>2, <1>3, <1>4 DEF Remembers
<1> QED
  BY <1>0, <1>1, <1>2, <1>3, <1>4, <1>5, <1>6, <1>7, OnlyReads

\* The open rows of the positions, and what is to become of each
\* (coindcx_sync.py:142-166).
LEMMA SyncReadStep ==
    ASSUME IInv, NEW s \in Syncs, SyncRead(s)
    PROVE  IInv'
<1>0. /\ TypeOK /\ s \in Jobs /\ s \notin Clients /\ s \in Syncs
      /\ job[s] \in Work /\ sync[s] \in Session
      /\ job[s].pc = "read" /\ At(s) /\ Knows(s) /\ Remembers(s)
  BY JournalAssumption DEF IInv, TypeOK, SyncRead, SyncIs, Jobs
<1>1. PICK tracked \in [Instruments -> {0} \cup DOMAIN trades] :
         /\ \A on \in Instruments :
               IF OpenSynced(on) = {} THEN tracked[on] = 0 ELSE tracked[on] \in OpenSynced(on)
         /\ LET live == {on \in Instruments : sync[s].seen[on] # 0}
                gone == {tracked[on] : on \in Instruments \ live} \ {0}
            IN  /\ sync' = [sync EXCEPT ![s] =
                     [@ EXCEPT !.new = {on \in live : tracked[on] = 0},
                               !.touch = {tracked[on] : on \in live} \ {0},
                               !.todo = gone, !.pnl = [t \in gone |-> trades[t].pnl]]]
                /\ job' = [job EXCEPT ![s].pc = "close", ![s].reads = gone]
  BY DEF SyncRead
<1>2. UNCHANGED <<fills, day, trades, raced, crossed, moves>>
  BY DEF SyncRead
<1> DEFINE live == {on \in Instruments : sync[s].seen[on] # 0}
           new == {on \in live : tracked[on] = 0}
           touch == {tracked[on] : on \in live} \ {0}
           todo == {tracked[on] : on \in Instruments \ live} \ {0}
           pnl == [t \in todo |-> trades[t].pnl]
           w == [job[s] EXCEPT !.pc = "close", !.reads = todo]
           x == [sync[s] EXCEPT !.new = new, !.touch = touch, !.todo = todo, !.pnl = pnl]
<1>3. job' = [job EXCEPT ![s] = w] /\ sync' = [sync EXCEPT ![s] = x]
  <2>1. job' = [job EXCEPT ![s] = w]
    BY <1>0, <1>1 DEF TypeOK
  <2>2. sync' = [sync EXCEPT ![s] = x]
    BY <1>1
  <2> QED
    BY <2>1, <2>2
<1>4. /\ new \in SUBSET Instruments /\ touch \in SUBSET Nat /\ todo \in SUBSET Nat
      /\ todo \subseteq DOMAIN trades
      /\ \A t \in todo : trades[t].status \in OpenStatuses
      /\ \A on \in new : sync[s].seen[on] # 0
  <2>1. DOMAIN trades \subseteq Nat
    BY <1>0 DEF TypeOK
  <2>2. todo \subseteq UNION {OpenSynced(on) : on \in Instruments}
    BY <1>1
  <2>3. todo \subseteq DOMAIN trades /\ \A t \in todo : trades[t].status \in OpenStatuses
    BY <2>2 DEF OpenSynced
  <2>4. touch \subseteq DOMAIN trades
    BY <1>1
  <2> QED
    BY <2>1, <2>3, <2>4
<1>5. /\ pnl \in UNION {[T -> Int] : T \in SUBSET Nat}
      /\ \A t \in todo : t \in DOMAIN pnl /\ pnl[t] = trades[t].pnl
  <2>1. \A t \in DOMAIN trades : trades[t].pnl \in Int
    <3>1. \A t \in DOMAIN trades : trades[t] \in Trade
      BY <1>0 DEF TypeOK
    <3> QED
      BY <3>1 DEF Trade
  <2>2. pnl \in [todo -> Int]
    <3> HIDE DEF todo
    <3> QED
      BY <1>4, <2>1
  <2> QED
    BY <1>4, <2>2
<1> HIDE DEF new, touch, todo, pnl
<1>6. /\ w \in Work /\ w.pc = "close" /\ w.t = job[s].t /\ w.reads = todo
      /\ w.stale = job[s].stale
  BY <1>0, <1>4 DEF Work
<1>7. /\ x \in Session /\ x.seen = sync[s].seen /\ x.new = new /\ x.todo = todo
      /\ x.pnl = pnl
  BY <1>0, <1>4, <1>5 DEF Session
<1> HIDE DEF w, x
<1>8. /\ job' \in [Jobs -> Work] /\ job'[s] = w
      /\ \A k \in Jobs \ {s} : job'[k] = job[k]
      /\ sync' \in [Syncs -> Session] /\ sync'[s] = x
      /\ \A r \in Syncs \ {s} : sync'[r] = sync[r]
  BY <1>0, <1>3, <1>6, <1>7 DEF TypeOK
<1>9. job[s].stale = {}
  <2>1. job[s].reads = {}
    BY <1>0 DEF Remembers
  <2> QED
    BY <1>0, <2>1 DEF TypeOK
<1>10. TypeOK'
  <2>1. w.reads \subseteq DOMAIN trades /\ w.stale \subseteq w.reads
    BY <1>4, <1>6, <1>9
  <2>2. moves' \in 0..MaxMoves
    BY <1>0, <1>2 DEF TypeOK
  <2> QED
    BY <1>0, <1>2, <1>8, <2>1, <2>2, ReadsType
<1>11. At(s)' /\ Knows(s)'
  BY <1>0, <1>6, <1>8 DEF At, Knows
<1>12. Remembers(s)'
  BY <1>2, <1>4, <1>5, <1>6, <1>7, <1>8 DEF Remembers, Fresh
<1> QED
  BY <1>0, <1>2, <1>6, <1>8, <1>10, <1>11, <1>12, OnlyReads

\* A position that is gone: its fills, or none (coindcx_sync.py:166-182).
LEMMA SyncLookupStep ==
    ASSUME IInv, NEW s \in Syncs, NEW t \in DOMAIN trades, SyncLookup(s, t)
    PROVE  IInv'
<1> DEFINE total == Filled(Normalize(trades[t].on), ClosingSide(trades[t].side), trades[t].since)
           qty == IF total < trades[t].qty THEN total ELSE trades[t].qty
           w == [job[s] EXCEPT !.pc = "sum", !.t = t, !.qty = qty, !.pnl = sync[s].pnl[t]]
           x == [sync[s] EXCEPT !.todo = @ \ {t}]
<1>0. /\ TypeOK /\ s \in Jobs /\ s \notin Clients /\ s \in Syncs /\ t \in DOMAIN trades
      /\ job[s] \in Work /\ sync[s] \in Session /\ trades[t] \in Trade
      /\ job[s].pc = "close" /\ t \in sync[s].todo /\ At(s) /\ Knows(s) /\ Remembers(s)
  BY JournalAssumption DEF IInv, TypeOK, SyncLookup, SyncIs, Jobs
<1>1. /\ sync' = [sync EXCEPT ![s] = x]
      /\ \/ total > 0 /\ job' = [job EXCEPT ![s] = w]
         \/ UNCHANGED job
      /\ Spend \/ UNCHANGED moves
      /\ UNCHANGED <<fills, day, trades, raced, crossed>>
  BY DEF SyncLookup
<1>2. /\ x \in Session /\ x.seen = sync[s].seen /\ x.new = sync[s].new
      /\ x.todo = sync[s].todo \ {t} /\ x.pnl = sync[s].pnl
  BY <1>0 DEF Session
<1>3. total \in Nat
  BY <1>0, FilledType DEF TypeOK
<1>4. t \in job[s].reads /\ t \in DOMAIN sync[s].pnl /\ sync[s].pnl[t] \in Int /\ t \in Nat
  <2>1. t \in job[s].reads /\ t \in DOMAIN sync[s].pnl
    BY <1>0 DEF Remembers
  <2>2. sync[s].pnl \in UNION {[T -> Int] : T \in SUBSET Nat} /\ job[s].reads \subseteq Nat
    BY <1>0 DEF Session, Work
  <2>3. PICK T \in SUBSET Nat : sync[s].pnl \in [T -> Int]
    BY <2>2
  <2> QED
    BY <2>1, <2>2, <2>3
<1>5. ASSUME total > 0
      PROVE  qty \in 0..Qty /\ qty >= 1
  <2>1. trades[t].qty \in 1..Qty /\ Qty \in Nat
    BY <1>0, JournalAssumption DEF Trade
  <2> HIDE DEF total
  <2> QED
    BY <1>3, <1>5, <2>1
<1> HIDE DEF total, qty, x
<1>6. ASSUME total > 0
      PROVE  /\ w \in Work /\ w.pc = "sum" /\ w.t = t /\ w.qty = qty /\ w.pnl = sync[s].pnl[t]
             /\ w.reads = job[s].reads /\ w.stale = job[s].stale
  BY <1>0, <1>4, <1>5, <1>6 DEF Work
<1> HIDE DEF w
<1>7. /\ job' \in [Jobs -> Work]
      /\ \A k \in Jobs \ {s} : job'[k] = job[k]
      /\ job'[s].reads = job[s].reads /\ job'[s].stale = job[s].stale
      /\ job'[s].pc \in {"sum", "close"}
      /\ job'[s].pc = "sum" =>
            job'[s].t = t /\ job'[s].qty >= 1 /\ job'[s].pnl = sync[s].pnl[t]
      /\ sync' \in [Syncs -> Session] /\ sync'[s] = x
      /\ \A r \in Syncs \ {s} : sync'[r] = sync[r]
  <2>1. /\ sync' \in [Syncs -> Session] /\ sync'[s] = x
        /\ \A r \in Syncs \ {s} : sync'[r] = sync[r]
    BY <1>0, <1>1, <1>2 DEF TypeOK
  <2>2. CASE total > 0 /\ job' = [job EXCEPT ![s] = w]
    <3>1. job'[s] = w /\ job' \in [Jobs -> Work] /\ \A k \in Jobs \ {s} : job'[k] = job[k]
      BY <1>0, <1>6, <2>2 DEF TypeOK
    <3> QED
      BY <1>5, <1>6, <2>1, <2>2, <3>1
  <2>3. CASE UNCHANGED job
    BY <1>0, <2>1, <2>3 DEF TypeOK
  <2> QED
    BY <1>1, <2>2, <2>3
<1>8. TypeOK'
  <2>1. job'[s].reads \subseteq DOMAIN trades /\ job'[s].stale \subseteq job'[s].reads
    BY <1>0, <1>7 DEF TypeOK
  <2>2. moves' \in 0..MaxMoves
    BY <1>0, <1>1, Spent
  <2> QED
    BY <1>0, <1>1, <1>7, <2>1, <2>2, ReadsType
<1>9. At(s)'
  BY <1>0, <1>4, <1>7 DEF At
<1>10. Knows(s)'
  <2>1. t \notin job[s].stale =>
           trades[t].status \in OpenStatuses /\ sync[s].pnl[t] = trades[t].pnl
    BY <1>0, <1>4 DEF Remembers, Fresh
  <2> QED
    BY <1>1, <1>7, <2>1 DEF Knows, Fresh
<1>11. Remembers(s)'
  <2>1. \A u \in x.todo : /\ u \in job[s].reads /\ u \in DOMAIN x.pnl
                          /\ Fresh(s, u) => /\ trades[u].status \in OpenStatuses
                                            /\ x.pnl[u] = trades[u].pnl
    BY <1>0, <1>2 DEF Remembers
  <2> QED
    BY <1>0, <1>1, <1>2, <1>7, <2>1 DEF Remembers, Fresh
<1> QED
  BY <1>0, <1>1, <1>7, <1>8, <1>9, <1>10, <1>11, OnlyReads

\* A sync that ends: nothing of it is left (coindcx_sync.py:121).
LEMMA SyncAbortStep ==
    ASSUME IInv, NEW s \in Syncs, SyncAbort(s)
    PROVE  IInv'
<1>0. TypeOK /\ s \in Jobs /\ s \notin Clients /\ s \in Syncs
  BY JournalAssumption DEF IInv, Jobs
<1>1. /\ job' = [job EXCEPT ![s] = Idle] /\ sync' = [sync EXCEPT ![s] = NoSync]
      /\ Spend /\ UNCHANGED <<fills, day, trades, raced, crossed>>
  BY DEF SyncAbort
<1>2. /\ Idle \in Work /\ Idle.pc = "idle" /\ Idle.reads = {} /\ Idle.stale = {}
      /\ NoSync \in Session /\ NoSync.todo = {} /\ NoSync.new = {}
  BY IdleType, NoSyncType DEF Idle, NoSync
<1>3. /\ job' \in [Jobs -> Work] /\ job'[s] = Idle
      /\ \A k \in Jobs \ {s} : job'[k] = job[k]
      /\ sync' \in [Syncs -> Session] /\ sync'[s] = NoSync
      /\ \A r \in Syncs \ {s} : sync'[r] = sync[r]
  BY <1>0, <1>1, <1>2 DEF TypeOK
<1>4. TypeOK'
  <2>1. moves' \in 0..MaxMoves
    BY <1>0, <1>1, Spent
  <2> QED
    BY <1>0, <1>1, <1>2, <1>3, <2>1, ReadsType
<1>5. At(s)' /\ Knows(s)' /\ Remembers(s)'
  BY <1>0, <1>2, <1>3 DEF At, Knows, Remembers
<1> QED
  BY <1>0, <1>1, <1>2, <1>3, <1>4, <1>5, OnlyReads

-----------------------------------------------------------------------------
(* The steps that write rows.                                              *)

\* A new row is in order.
LEMMA NewbornSound ==
    ASSUME NEW row \in Trade, Newborn(row)
    PROVE  Sound(row) /\ row.status # "CLOSED"
<1>1. row \in Trade
  OBVIOUS
<1>2. row.qty \in 1..Qty /\ Qty \in Nat
  BY <1>1, JournalAssumption DEF Trade
<1> QED
  BY <1>2 DEF Newborn, Sound

\* Rows that are only dated, and rows that are added, disturb nobody.
LEMMA Appended ==
    ASSUME IInv, TypeOK', Extends(trades, trades'), UNCHANGED raced
    PROVE  /\ ClosedIsSoldOut'
           /\ \A t \in DOMAIN trades' \ raced' : Sound(trades'[t])
           /\ \A k \in Jobs : RowsCarried(k)
<1>0. TypeOK /\ \A t \in DOMAIN trades : trades[t] \in Trade
  BY DEF IInv, TypeOK
<1>1. \A t \in DOMAIN trades' : trades'[t] \in Trade
  BY DEF TypeOK
<1>2. \A t \in DOMAIN trades' : t \in DOMAIN trades => Kept(trades[t], trades'[t])
  BY DEF Extends
<1>3. \A t \in DOMAIN trades' :
         t \notin DOMAIN trades => Sound(trades'[t]) /\ trades'[t].status # "CLOSED"
  BY <1>1, NewbornSound DEF Extends
<1>4. ClosedIsSoldOut'
  BY <1>2, <1>3 DEF IInv, ClosedIsSoldOut, Kept
<1>5. \A t \in DOMAIN trades' \ raced' : Sound(trades'[t])
  BY <1>2, <1>3 DEF IInv, Sound, Kept
<1>6. ASSUME NEW k \in Jobs
      PROVE  RowsCarried(k)
  <2>1. \A t \in job[k].reads : t \in DOMAIN trades /\ t \in DOMAIN trades'
    BY <1>0 DEF TypeOK, Extends
  <2>2. \A t \in DOMAIN trades : trades[t].exited \in Nat
    BY <1>0 DEF Trade
  <2>3. \A t \in job[k].reads : trades'[t].exited >= trades[t].exited
    BY <1>2, <2>1, <2>2 DEF Kept
  <2> QED
    BY <1>2, <2>1, <2>3 DEF RowsCarried, Kept
<1> QED
  BY <1>4, <1>5, <1>6

\* A row that is written disturbs the jobs that have read it.
LEMMA RowWritten ==
    ASSUME IInv, TypeOK', NEW t \in DOMAIN trades, NEW row \in Trade,
           Extends([trades EXCEPT ![t] = row], trades'), raced \subseteq raced',
           row.qty = trades[t].qty, row.exited >= trades[t].exited,
           row.status = "CLOSED" => row.exited >= row.qty,
           t \notin raced' => Sound(row)
    PROVE  /\ ClosedIsSoldOut'
           /\ \A u \in DOMAIN trades' \ raced' : Sound(trades'[u])
           /\ \A k \in Jobs :
                 (\/ t \notin job[k].reads \/ t \in job'[k].stale
                  \/ /\ row.status = trades[t].status /\ row.pnl = trades[t].pnl
                     /\ row.exited = trades[t].exited
                     /\ (t \in raced' \/ ~(job[k].pc = "feed" /\ job[k].t = t)))
                 => RowsCarried(k)
<1> DEFINE table == [trades EXCEPT ![t] = row]
<1>0. /\ TypeOK /\ \A u \in DOMAIN trades : trades[u] \in Trade
      /\ \A u \in DOMAIN trades' : trades'[u] \in Trade
  BY DEF IInv, TypeOK
<1>1. /\ DOMAIN table = DOMAIN trades /\ table[t] = row
      /\ \A u \in DOMAIN trades : u # t => table[u] = trades[u]
      /\ Extends(table, trades')
  OBVIOUS
<1> HIDE DEF table
<1>2. /\ Kept(row, trades'[t])
      /\ \A u \in DOMAIN trades : u # t => Kept(trades[u], trades'[u])
      /\ DOMAIN trades \subseteq DOMAIN trades'
      /\ \A u \in DOMAIN trades' : u \notin DOMAIN trades => Newborn(trades'[u])
  BY <1>1 DEF Extends
<1>3. \A u \in DOMAIN trades' :
         u \notin DOMAIN trades => Sound(trades'[u]) /\ trades'[u].status # "CLOSED"
  BY <1>0, <1>2, NewbornSound
<1>4. ClosedIsSoldOut'
  BY <1>2, <1>3 DEF IInv, ClosedIsSoldOut, Kept
<1>5. ASSUME NEW u \in DOMAIN trades' \ raced'
      PROVE  Sound(trades'[u])
  <2>1. CASE u = t
    BY <1>2, <2>1 DEF Sound, Kept
  <2>2. CASE u # t /\ u \in DOMAIN trades
    <3>1. Sound(trades[u]) /\ Kept(trades[u], trades'[u])
      BY <1>2, <2>2 DEF IInv
    <3> QED
      BY <3>1 DEF Sound, Kept
  <2> QED
    BY <1>3, <2>1, <2>2
<1>6. ASSUME NEW k \in Jobs,
             \/ t \notin job[k].reads \/ t \in job'[k].stale
             \/ /\ row.status = trades[t].status /\ row.pnl = trades[t].pnl
                /\ row.exited = trades[t].exited
                /\ (t \in raced' \/ ~(job[k].pc = "feed" /\ job[k].t = t))
      PROVE  RowsCarried(k)
  <2>1. \A u \in job[k].reads : u \in DOMAIN trades
    BY <1>0 DEF TypeOK
  <2>2. \A u \in DOMAIN trades : trades[u].exited \in Nat
    BY <1>0 DEF Trade
  <2>3. \A u \in job[k].reads :
           /\ trades'[u].qty = trades[u].qty
           /\ trades'[u].exited >= trades[u].exited
    BY <1>2, <2>1, <2>2 DEF Kept
  <2>4. ASSUME NEW u \in job[k].reads, u \notin job'[k].stale
        PROVE  /\ trades'[u].status = trades[u].status
               /\ trades'[u].pnl = trades[u].pnl
               /\ trades'[u].exited = trades[u].exited
               /\ \/ trades'[u].fed = trades[u].fed
                  \/ u \in raced'
                  \/ ~(job[k].pc = "feed" /\ job[k].t = u)
    <3>1. CASE u # t
      BY <1>2, <2>1, <3>1 DEF Kept
    <3>2. CASE u = t
      BY <1>2, <1>6, <2>4, <3>2 DEF Kept
    <3> QED
      BY <3>1, <3>2
  <2> QED
    BY <2>3, <2>4 DEF RowsCarried
<1> QED
  BY <1>4, <1>5, <1>6

\* Nothing changes for a job that nothing happens to.
LEMMA NobodyActs ==
    ASSUME IInv, TypeOK', UNCHANGED <<job, sync>>, \A k \in Jobs : RowsCarried(k),
           HeldWithin', ClosedIsSoldOut',
           \A t \in DOMAIN trades' \ raced' : Sound(trades'[t])
    PROVE  IInv'
<1>1. ASSUME NEW k \in Jobs
      PROVE  At(k)' /\ Knows(k)' /\ Carried(k)
  <2>1. Carried(k)
    BY DEF Carried
  <2> QED
    BY <2>1, Undisturbed DEF IInv
<1>2. OneFeeds'
  BY DEF IInv, OneFeeds, Fresh
<1>3. ASSUME NEW s \in Syncs
      PROVE  Remembers(s)'
  <2>1. s \in Jobs
    BY DEF Jobs
  <2> QED
    BY <1>1, <2>1, StillRemembers DEF IInv
<1> QED
  BY <1>1, <1>2, <1>3 DEF IInv

\* The user trades at the exchange, never beyond what a position may be.
LEMMA UserTradesStep ==
    ASSUME IInv, NEW on \in Instruments, NEW side \in {"buy", "sell"},
           NEW q \in 1..Qty, UserTrades(on, side, q)
    PROVE  IInv'
<1> DEFINE x == [on |-> on, side |-> side, qty |-> q, day |-> day]
<1>0. /\ TypeOK /\ on \in Instruments /\ side \in {"buy", "sell"} /\ q \in 1..Qty
      /\ Qty \in Nat /\ fills \in Seq(Fill) /\ day \in Days
  BY JournalAssumption DEF IInv, TypeOK
<1>1. /\ fills' = Append(fills, x) /\ Spend
      /\ UNCHANGED <<day, trades, job, sync, raced, crossed>>
  BY DEF UserTrades
<1>2. x \in Fill /\ x.on = on /\ x.side = side /\ x.qty = q /\ x.day = day
  BY <1>0 DEF Fill
<1>3. Held(on) + (IF side = "buy" THEN q ELSE - q) \in -Qty..Qty
  BY DEF UserTrades
<1> HIDE DEF x
<1>4. TypeOK'
  <2>1. fills' \in Seq(Fill)
    BY <1>0, <1>1, <1>2
  <2>2. moves' \in 0..MaxMoves
    BY <1>0, <1>1, Spent
  <2> QED
    BY <1>0, <1>1, <2>1, <2>2 DEF TypeOK
<1>5. ASSUME NEW i \in Instruments
      PROVE  Held(i)' \in -Qty..Qty
  <2>1. /\ Filled(i, "buy", 0)' = Filled(i, "buy", 0) + Part(x, i, "buy", 0)
        /\ Filled(i, "sell", 0)' = Filled(i, "sell", 0) + Part(x, i, "sell", 0)
    BY <1>0, <1>1, <1>2, FilledGrows
  <2>2. Filled(i, "buy", 0) \in Nat /\ Filled(i, "sell", 0) \in Nat
    BY <1>0, FilledType
  <2>3. day >= 0
    BY <1>0, JournalAssumption DEF Days
  <2>4. /\ Part(x, i, "buy", 0) = IF i = on /\ side = "buy" THEN q ELSE 0
        /\ Part(x, i, "sell", 0) = IF i = on /\ side = "sell" THEN q ELSE 0
    BY <1>2, <2>3 DEF Part, Counts
  <2>5. Held(i) \in -Qty..Qty
    BY DEF IInv, HeldWithin
  <2>6. Held(i)' = Filled(i, "buy", 0)' - Filled(i, "sell", 0)'
    BY DEF Held
  <2>7. Held(i) = Filled(i, "buy", 0) - Filled(i, "sell", 0)
    BY DEF Held
  <2>8. CASE i = on
    <3>1. Held(i)' = Held(on) + (IF side = "buy" THEN q ELSE - q)
      <4> HIDE DEF Held
      <4> QED
        BY <1>0, <2>1, <2>2, <2>4, <2>6, <2>7, <2>8
    <3> QED
      BY <1>3, <3>1
  <2>9. CASE i # on
    <3>1. Held(i)' = Held(i)
      BY <2>1, <2>2, <2>4, <2>6, <2>7, <2>9
    <3> QED
      BY <2>5, <3>1
  <2> QED
    BY <2>8, <2>9
<1>6. HeldWithin'
  BY <1>5 DEF HeldWithin
<1>7. Extends(trades, trades')
  <2>1. trades \in Seq(Trade)
    BY <1>0 DEF TypeOK
  <2> QED
    BY <1>1, <2>1 DEF Extends, Kept
<1> QED
  BY <1>1, <1>4, <1>6, <1>7, Appended, NobodyActs

\* A day passes.
LEMMA NextDayStep ==
    ASSUME IInv, NextDay
    PROVE  IInv'
<1>0. TypeOK /\ trades \in Seq(Trade)
  BY DEF IInv, TypeOK
<1>1. /\ Spend /\ day' \in Days /\ UNCHANGED <<fills, trades, job, sync, raced, crossed>>
  BY <1>0, JournalAssumption DEF NextDay, TypeOK, Days
<1>2. TypeOK'
  <2>1. moves' \in 0..MaxMoves
    BY <1>0, <1>1, Spent
  <2> QED
    BY <1>0, <1>1, <2>1 DEF TypeOK
<1>3. Extends(trades, trades')
  BY <1>0, <1>1 DEF Extends, Kept
<1>4. HeldWithin'
  BY <1>1, HeldKept DEF IInv
<1> QED
  BY <1>1, <1>2, <1>3, <1>4, Appended, NobodyActs

\* A trade is entered by hand (journal.py:73).
LEMMA OpenTradeStep ==
    ASSUME IInv, NEW on \in Instruments, NEW q \in 1..Qty, OpenTrade(on, "LONG", q)
    PROVE  IInv'
<1> DEFINE row == Row("MANUAL", on, "LONG", q)
<1>0. TypeOK /\ trades \in Seq(Trade) /\ on \in Instruments /\ q \in 1..Qty /\ day \in Days
  BY DEF IInv, TypeOK
<1>1. /\ Spend /\ trades' = Append(trades, row)
      /\ UNCHANGED <<fills, day, job, sync, raced, crossed>>
  BY DEF OpenTrade
<1>2. row \in Trade /\ Newborn(row)
  BY <1>0 DEF Row, Trade, OpenStatuses, Newborn
<1> HIDE DEF row
<1>3. /\ trades' \in Seq(Trade) /\ DOMAIN trades \subseteq DOMAIN trades'
      /\ \A t \in DOMAIN trades : trades'[t] = trades[t]
      /\ \A t \in DOMAIN trades' \ DOMAIN trades : trades'[t] = row
  BY <1>0, <1>1, <1>2
<1>4. TypeOK'
  <2>1. moves' \in 0..MaxMoves
    BY <1>0, <1>1, Spent
  <2> QED
    BY <1>0, <1>1, <1>3, <2>1 DEF TypeOK
<1>5. Extends(trades, trades')
  BY <1>2, <1>3 DEF Extends, Kept
<1>6. HeldWithin'
  BY <1>1, HeldKept DEF IInv
<1> QED
  BY <1>1, <1>4, <1>5, <1>6, Appended, NobodyActs

\* A commit makes every other job that has read the row out of date.
LEMMA OutdatesOthers ==
    ASSUME TypeOK, NEW j \in Jobs, NEW t \in Nat, NEW own \in Work,
           own.stale \subseteq own.reads, own.reads \subseteq job[j].reads,
           Outdates(j, t, own)
    PROVE  /\ job' \in [Jobs -> Work] /\ job'[j] = own
           /\ \A k \in Jobs \ {j} :
                 Carried(k) /\ (t \notin job[k].reads \/ t \in job'[k].stale)
           /\ \A k \in Jobs : /\ job'[k].reads \subseteq job[k].reads
                              /\ job'[k].stale \subseteq job'[k].reads
<1>0. /\ \A k \in Jobs : job[k] \in Work /\ job[k].stale \subseteq job[k].reads
      /\ t \in Nat /\ own \in Work
  BY DEF TypeOK
<1> DEFINE other(k) == [job[k] EXCEPT !.stale = @ \cup {t}]
<1>1. job' = [k \in Jobs |-> IF k = j THEN own
                             ELSE IF t \in job[k].reads THEN other(k) ELSE job[k]]
  BY DEF Outdates
<1>2. ASSUME NEW k \in Jobs
      PROVE  /\ other(k) \in Work /\ other(k).stale = job[k].stale \cup {t}
             /\ other(k).pc = job[k].pc /\ other(k).t = job[k].t
             /\ other(k).qty = job[k].qty /\ other(k).pnl = job[k].pnl
             /\ other(k).closed = job[k].closed /\ other(k).reads = job[k].reads
  BY <1>0 DEF Work
<1> HIDE DEF other
<1>3. job' \in [Jobs -> Work] /\ job'[j] = own
  BY <1>0, <1>1, <1>2
<1>4. ASSUME NEW k \in Jobs \ {j}
      PROVE  /\ Carried(k) /\ (t \notin job[k].reads \/ t \in job'[k].stale)
             /\ job'[k].reads = job[k].reads /\ job'[k].stale \subseteq job'[k].reads
  <2>1. CASE t \in job[k].reads
    <3>1. job'[k] = other(k)
      BY <1>1, <2>1
    <3> QED
      BY <1>0, <1>2, <2>1, <3>1 DEF Carried
  <2>2. CASE t \notin job[k].reads
    <3>1. job'[k] = job[k]
      BY <1>1, <2>2
    <3> QED
      BY <1>0, <2>2, <3>1 DEF Carried
  <2> QED
    BY <2>1, <2>2
<1> QED
  BY <1>3, <1>4

\* The row a job has in hand, which is in order unless it was raced.
LEMMA InHand ==
    ASSUME IInv, NEW j \in Jobs, job[j].pc \in {"sum", "write", "feed", "cancel"},
           ActsOn(j, job[j].t)
    PROVE  /\ job[j].t \in job[j].reads /\ job[j].t \in DOMAIN trades
           /\ job[j].t \in Nat /\ trades[job[j].t] \in Trade
           /\ raced \subseteq raced' /\ raced' \subseteq raced \cup {job[j].t}
           /\ job[j].t \notin raced' =>
                 Fresh(j, job[j].t) /\ Sound(trades[job[j].t])
<1>1. TypeOK /\ At(j) /\ job[j].t \in job[j].reads
  BY DEF IInv, At
<1>2. job[j].t \in DOMAIN trades /\ trades[job[j].t] \in Trade /\ job[j].t \in Nat
  <2>1. job[j].t \in DOMAIN trades /\ trades[job[j].t] \in Trade
    BY <1>1, ReadRows
  <2> QED
    BY <1>1, <2>1 DEF TypeOK
<1>3. /\ raced \subseteq raced' /\ raced' \subseteq raced \cup {job[j].t}
      /\ job[j].t \notin raced' => job[j].t \notin job[j].stale /\ job[j].t \notin raced
  BY DEF ActsOn
<1> QED
  BY <1>1, <1>2, <1>3 DEF IInv, Fresh

\* The table itself is a table that extends it.
LEMMA ExtendsItself ==
    ASSUME NEW table \in Seq(Trade)
    PROVE  Extends(table, table)
<1>1. table \in Seq(Trade)
  OBVIOUS
<1> QED
  BY <1>1 DEF Extends, Kept

\* A cancellation (journal.py:166-172) discards no execution of a trade that
\* was still as it was read.
LEMMA CancelWriteStep ==
    ASSUME IInv, NEW c \in Clients, CancelWrite(c)
    PROVE  IInv'
<1> DEFINE t == job[c].t
           row == [trades[t] EXCEPT !.status = "CANCELLED", !.exitDay = day]
<1>0. /\ TypeOK /\ c \in Jobs /\ c \notin Syncs /\ job[c].pc = "cancel"
      /\ At(c) /\ Knows(c) /\ trades \in Seq(Trade) /\ day \in Days
      /\ ActsOn(c, t) /\ Outdates(c, t, Idle)
      /\ UNCHANGED <<fills, day, sync, crossed, moves>>
  BY JournalAssumption DEF IInv, TypeOK, CancelWrite, Jobs
<1>1. /\ t \in job[c].reads /\ t \in DOMAIN trades /\ t \in Nat /\ trades[t] \in Trade
      /\ raced \subseteq raced' /\ raced' \subseteq raced \cup {t}
      /\ t \notin raced' => Fresh(c, t) /\ Sound(trades[t])
  BY <1>0, InHand
<1>2. trades' = [trades EXCEPT ![t] = row]
  <2>1. trades' = [trades EXCEPT ![t].status = "CANCELLED", ![t].exitDay = day]
    BY DEF CancelWrite
  <2> QED
    BY <2>1
<1>3. /\ row \in Trade /\ row.qty = trades[t].qty /\ row.status = "CANCELLED"
      /\ row.exited = trades[t].exited /\ row.pnl = trades[t].pnl /\ row.fed = trades[t].fed
  BY <1>0, <1>1 DEF Trade
<1>4. t \notin raced' => trades[t].status = "OPEN"
  BY <1>0, <1>1 DEF Knows
<1> HIDE DEF row
<1>5. t \notin raced' => Sound(row)
  BY <1>1, <1>3, <1>4 DEF Sound, Trade
<1>6. /\ job' \in [Jobs -> Work] /\ job'[c].pc = "idle"
      /\ \A k \in Jobs \ {c} :
            Carried(k) /\ (t \notin job[k].reads \/ t \in job'[k].stale)
      /\ \A k \in Jobs : /\ job'[k].reads \subseteq job[k].reads
                         /\ job'[k].stale \subseteq job'[k].reads
  <2>1. Idle \in Work /\ Idle.pc = "idle" /\ Idle.reads = {} /\ Idle.stale = {}
    BY IdleType DEF Idle
  <2> QED
    BY <1>0, <1>1, <2>1, OutdatesOthers
<1> HIDE DEF t
<1>7. trades' \in Seq(Trade) /\ DOMAIN trades' = DOMAIN trades
  BY <1>0, <1>1, <1>2, <1>3
<1>8. TypeOK'
  <2>1. \A k \in Jobs : job'[k].reads \subseteq DOMAIN trades'
    BY <1>0, <1>6, <1>7 DEF TypeOK
  <2> QED
    BY <1>0, <1>1, <1>6, <1>7, <2>1 DEF TypeOK
<1>9. Extends([trades EXCEPT ![t] = row], trades')
  BY <1>2, <1>7, ExtendsItself
<1>10. row.exited >= trades[t].exited
  BY <1>1, <1>3 DEF Trade
<1>11. /\ ClosedIsSoldOut'
       /\ \A u \in DOMAIN trades' \ raced' : Sound(trades'[u])
       /\ \A k \in Jobs : (t \notin job[k].reads \/ t \in job'[k].stale) => RowsCarried(k)
  BY <1>1, <1>3, <1>5, <1>8, <1>9, <1>10, RowWritten
<1>12. OneFeeds'
  <2>1. job'[c].pc # "feed"
    BY <1>6
  <2> QED
    BY <1>0, <1>6, <2>1, StillOneFeeds DEF IInv
<1>13. At(c)' /\ Knows(c)'
  BY <1>0, <1>6 DEF At, Knows
<1>14. HeldWithin'
  BY <1>0, HeldKept DEF IInv
<1> QED
  BY <1>0, <1>6, <1>8, <1>11, <1>12, <1>13, <1>14, OneJob

\* Feeding the risk engine (routers/journal.py:152): the request that is still
\* up to date is the first one to.
LEMMA ExitFeedStep ==
    ASSUME IInv, NEW c \in Clients, ExitFeed(c)
    PROVE  IInv'
<1> DEFINE t == job[c].t
           fed == IF trades[t].status = "CLOSED" THEN trades[t].fed + 1 ELSE trades[t].fed
           row == [trades[t] EXCEPT !.fed = fed]
<1>0. /\ TypeOK /\ c \in Jobs /\ c \notin Syncs /\ job[c].pc = "feed"
      /\ At(c) /\ Knows(c) /\ trades \in Seq(Trade) /\ day \in Days
      /\ ActsOn(c, t) /\ job' = [job EXCEPT ![c] = Idle]
      /\ UNCHANGED <<fills, day, sync, crossed, moves>>
  BY JournalAssumption DEF IInv, TypeOK, ExitFeed, Jobs
<1>1. /\ t \in job[c].reads /\ t \in DOMAIN trades /\ t \in Nat /\ trades[t] \in Trade
      /\ raced \subseteq raced' /\ raced' \subseteq raced \cup {t}
      /\ t \notin raced' => Fresh(c, t) /\ Sound(trades[t])
  BY <1>0, InHand
<1>2. trades' = [trades EXCEPT ![t] = row]
  <2>1. trades' = [trades EXCEPT ![t].fed = fed]
    BY DEF ExitFeed
  <2> QED
    BY <2>1
<1>3. fed \in Nat
  BY <1>1 DEF Trade
<1>4. t \notin raced' => trades[t].fed = 0
  BY <1>0, <1>1 DEF Knows
<1>5. t \notin raced' => fed <= 1 /\ (fed = 1 => trades[t].status = "CLOSED")
  BY <1>4
<1> HIDE DEF fed
<1>6. /\ row \in Trade /\ row.qty = trades[t].qty /\ row.status = trades[t].status
      /\ row.exited = trades[t].exited /\ row.pnl = trades[t].pnl /\ row.fed = fed
  BY <1>0, <1>1, <1>3 DEF Trade
<1> HIDE DEF row
<1>7. t \notin raced' => Sound(row)
  BY <1>1, <1>5, <1>6 DEF Sound
<1>8. /\ job' \in [Jobs -> Work] /\ job'[c] = Idle
      /\ \A k \in Jobs \ {c} : job'[k] = job[k] /\ Carried(k)
  BY <1>0, IdleType DEF TypeOK, Carried
<1>9. trades' \in Seq(Trade) /\ DOMAIN trades' = DOMAIN trades
  BY <1>0, <1>1, <1>2, <1>6
<1>10. TypeOK'
  <2>1. ASSUME NEW k \in Jobs
        PROVE  job'[k].reads \subseteq DOMAIN trades' /\ job'[k].stale \subseteq job'[k].reads
    BY <1>0, <1>8, <1>9 DEF TypeOK, Idle
  <2> QED
    BY <1>0, <1>1, <1>8, <1>9, <2>1 DEF TypeOK
<1>11. Extends([trades EXCEPT ![t] = row], trades')
  BY <1>2, <1>9, ExtendsItself
<1>12. row.exited >= trades[t].exited /\ (row.status = "CLOSED" => row.exited >= row.qty)
  BY <1>1, <1>6 DEF Trade, IInv, ClosedIsSoldOut
<1>13. /\ ClosedIsSoldOut'
       /\ \A u \in DOMAIN trades' \ raced' : Sound(trades'[u])
       /\ \A k \in Jobs :
             (\/ t \notin job[k].reads \/ t \in job'[k].stale
              \/ /\ row.status = trades[t].status /\ row.pnl = trades[t].pnl
                 /\ row.exited = trades[t].exited
                 /\ (t \in raced' \/ ~(job[k].pc = "feed" /\ job[k].t = t)))
             => RowsCarried(k)
  BY <1>1, <1>6, <1>7, <1>10, <1>11, <1>12, RowWritten
<1>14. ASSUME NEW k \in Jobs \ {c}
       PROVE  RowsCarried(k)
  <2>1. CASE job[k].pc = "feed" /\ job[k].t = t
    <3>1. ~Fresh(c, t) \/ ~Fresh(k, t)
      BY <1>0, <2>1 DEF IInv, OneFeeds
    <3>2. CASE ~Fresh(c, t)
      <4>1. t \in raced'
        BY <1>1, <3>2
      <4> QED
        BY <1>6, <1>13, <4>1
    <3>3. CASE ~Fresh(k, t)
      <4>1. t \notin job[k].reads \/ t \in job'[k].stale
        BY <1>8, <3>3 DEF Fresh
      <4> QED
        BY <1>13, <4>1
    <3> QED
      BY <3>1, <3>2, <3>3
  <2>2. CASE ~(job[k].pc = "feed" /\ job[k].t = t)
    BY <1>6, <1>13, <2>2
  <2> QED
    BY <2>1, <2>2
<1>15. job'[c].pc = "idle" /\ job'[c].reads = {}
  BY <1>8 DEF Idle
<1>16. OneFeeds'
  BY <1>0, <1>8, <1>15, StillOneFeeds DEF IInv
<1>17. At(c)' /\ Knows(c)'
  BY <1>0, <1>15 DEF At, Knows
<1>18. HeldWithin'
  BY <1>0, HeldKept DEF IInv
<1> QED
  BY <1>0, <1>8, <1>10, <1>13, <1>14, <1>16, <1>17, <1>18, OneJob

\* Only instruments are crossed.
LEMMA CrossesType ==
    ASSUME TypeOK, NEW s \in Syncs, Crosses(s)
    PROVE  crossed' \subseteq Instruments
<1>1. sync[s] \in Session
  BY DEF TypeOK
<1> QED
  BY <1>1 DEF Crosses, TypeOK, Session

\* The rows after an exit: the trade's, and those of a sync's session.
LEMMA ExitTable ==
    ASSUME IInv, NEW j \in Jobs, ExitWrite(j), NEW t \in DOMAIN trades, t = job[j].t,
           NEW row \in Trade, row = Exited(trades[t], job[j])
    PROVE  /\ Extends([trades EXCEPT ![t] = row], trades')
           /\ sync' \in [Syncs -> Session]
           /\ \A s \in Syncs \ {j} : sync'[s] = sync[s]
           /\ j \in Syncs => /\ sync'[j].new = {} /\ sync'[j].todo = sync[j].todo
                             /\ sync'[j].pnl = sync[j].pnl
           /\ crossed' \subseteq Instruments
<1> DEFINE written == [trades EXCEPT ![t] = row]
<1>0. TypeOK /\ trades \in Seq(Trade) /\ sync \in [Syncs -> Session]
  BY DEF IInv, TypeOK
<1>1. written \in Seq(Trade)
  BY <1>0
<1>2. written = [trades EXCEPT ![job[j].t] = Exited(@, job[j])]
  OBVIOUS
<1> HIDE DEF written
<1>3. \/ /\ j \in Syncs /\ trades' = Flushed(written, j)
         /\ sync' = [sync EXCEPT ![j].new = {}, ![j].touch = {}] /\ Crosses(j)
      \/ j \notin Syncs /\ trades' = written /\ UNCHANGED <<sync, crossed>>
  BY <1>2 DEF ExitWrite
<1>4. CASE j \in Syncs
  <2> DEFINE x == [sync[j] EXCEPT !.new = {}, !.touch = {}]
  <2>1. sync[j] \in Session /\ Remembers(j)
    BY <1>0, <1>4 DEF IInv
  <2>2. x \in Session /\ x.new = {} /\ x.todo = sync[j].todo /\ x.pnl = sync[j].pnl
    BY <2>1 DEF Session
  <2>3. sync' = [sync EXCEPT ![j] = x]
    BY <1>3, <1>4
  <2> HIDE DEF x
  <2>4. Extends(written, trades')
    BY <1>0, <1>1, <1>3, <1>4, <2>1, FlushedExtends
  <2>5. crossed' \subseteq Instruments
    BY <1>0, <1>3, <1>4, CrossesType
  <2> QED
    BY <1>0, <1>4, <2>2, <2>3, <2>4, <2>5 DEF written
<1>5. CASE j \notin Syncs
  <2>1. trades' = written /\ UNCHANGED <<sync, crossed>>
    BY <1>3, <1>5
  <2>2. Extends(written, trades')
    BY <1>1, <2>1, ExtendsItself
  <2>3. crossed' \subseteq Instruments
    BY <1>0, <2>1 DEF TypeOK
  <2> QED
    BY <1>0, <1>5, <2>1, <2>2, <2>3 DEF written
<1> QED
  BY <1>4, <1>5

\* An exit (journal.py:120-150) that was made from what the row still holds
\* leaves its books in order, and any exit that closes it has sold it out.
LEMMA ExitWriteStep ==
    ASSUME IInv, NEW j \in Jobs, ExitWrite(j)
    PROVE  IInv'
<1> DEFINE t == job[j].t
           w == job[j]
           row == Exited(trades[t], w)
           back == Returned(j, job[j].stale \ {t})
           own == IF j \in Syncs THEN back ELSE [back EXCEPT !.pc = "feed", !.t = t]
<1>0. /\ TypeOK /\ j \in Jobs /\ job[j].pc = "write" /\ w \in Work
      /\ At(j) /\ Knows(j) /\ trades \in Seq(Trade) /\ day \in Days
      /\ ActsOn(j, t) /\ Outdates(j, t, own)
      /\ UNCHANGED <<fills, day, moves>>
  BY DEF IInv, TypeOK, ExitWrite
<1>1. /\ t \in job[j].reads /\ t \in DOMAIN trades /\ t \in Nat /\ trades[t] \in Trade
      /\ raced \subseteq raced' /\ raced' \subseteq raced \cup {t}
      /\ t \notin raced' => Fresh(j, t) /\ Sound(trades[t])
  BY <1>0, InHand
<1>2. /\ w.qty >= 1 /\ w.qty \in 0..Qty /\ w.closed \in Nat /\ w.pnl \in Int /\ Qty \in Nat
      /\ w.closed <= trades[t].exited /\ w.qty <= trades[t].qty - w.closed
  BY <1>0, JournalAssumption DEF At, Work
<1>3. /\ trades[t].exited \in Nat /\ trades[t].qty \in 1..Qty /\ trades[t].fed \in Nat
      /\ trades[t].pnl \in Int
  BY <1>1 DEF Trade
<1>4. /\ row \in Trade /\ row.qty = trades[t].qty /\ row.fed = trades[t].fed
      /\ row.exited = trades[t].exited + w.qty /\ row.pnl = w.pnl + w.qty
      /\ row.status = IF w.qty >= trades[t].qty - w.closed THEN "CLOSED"
                      ELSE "PARTIALLY_CLOSED"
  <2> DEFINE full == w.qty >= trades[t].qty - w.closed
             exited == trades[t].exited + w.qty
             pnl == w.pnl + w.qty
             status == IF full THEN "CLOSED" ELSE "PARTIALLY_CLOSED"
             exitDay == IF full THEN day ELSE trades[t].exitDay
  <2>1. row = [trades[t] EXCEPT !.exited = exited, !.pnl = pnl, !.status = status,
                                !.exitDay = exitDay]
    BY DEF Exited
  <2>2. /\ exited \in Nat /\ pnl \in Int /\ exitDay \in Days \cup {-1}
        /\ status \in {"CLOSED", "PARTIALLY_CLOSED"}
    <3>1. exited \in Nat /\ pnl \in Int
      <4> HIDE DEF t, w
      <4> QED
        BY <1>2, <1>3
    <3>2. trades[t].exitDay \in Days \cup {-1}
      BY <1>1 DEF Trade
    <3>3. exitDay \in Days \cup {-1}
      BY <1>0, <3>2
    <3> QED
      BY <3>1, <3>3
  <2>3. SUFFICES /\ row \in Trade /\ row.qty = trades[t].qty /\ row.fed = trades[t].fed
                 /\ row.exited = exited /\ row.pnl = pnl /\ row.status = status
    OBVIOUS
  <2> HIDE DEF exited, pnl, exitDay, status, row
  <2> QED
    BY <1>1, <2>1, <2>2 DEF Trade, OpenStatuses
<1> HIDE DEF row
<1>5. row.exited >= trades[t].exited /\ (row.status = "CLOSED" => row.exited >= row.qty)
  BY <1>2, <1>3, <1>4
<1>6. t \notin raced' => /\ trades[t].status \in OpenStatuses /\ w.pnl = trades[t].pnl
                         /\ w.closed = trades[t].exited /\ trades[t].fed = 0
                         /\ trades[t].pnl = trades[t].exited
  <2>1. SUFFICES ASSUME t \notin raced'
                 PROVE  /\ trades[t].status \in OpenStatuses /\ w.pnl = trades[t].pnl
                        /\ w.closed = trades[t].exited /\ trades[t].fed = 0
                        /\ trades[t].pnl = trades[t].exited
    OBVIOUS
  <2>2. /\ trades[t].status \in OpenStatuses /\ w.pnl = trades[t].pnl
        /\ w.closed = trades[t].exited
    BY <1>0, <1>1, <2>1 DEF Knows
  <2>3. Sound(trades[t])
    BY <1>1, <2>1
  <2>4. trades[t].fed # 1 /\ trades[t].fed <= 1
    BY <2>2, <2>3 DEF Sound, OpenStatuses
  <2> QED
    BY <1>3, <2>2, <2>3, <2>4 DEF Sound
<1>7. t \notin raced' => Sound(row)
  <2>1. SUFFICES ASSUME t \notin raced'
                 PROVE  Sound(row)
    OBVIOUS
  <2> DEFINE e == trades[t].exited
             q == w.qty
             n == trades[t].qty
  <2>2. /\ row.exited = e + q /\ row.pnl = e + q /\ row.fed = 0 /\ row.qty = n
        /\ row.status = IF q >= n - e THEN "CLOSED" ELSE "PARTIALLY_CLOSED"
    BY <1>4, <1>6, <2>1
  <2>3. e \in Nat /\ q \in Nat /\ q >= 1 /\ n \in Nat /\ q <= n - e
    BY <1>2, <1>3, <1>6, <2>1
  <2> HIDE DEF e, q, n
  <2> QED
    BY <2>2, <2>3 DEF Sound
<1>8. /\ job' \in [Jobs -> Work]
      /\ job'[j].pc = (IF j \in Syncs THEN "close" ELSE "feed")
      /\ j \notin Syncs => job'[j].t = t
      /\ job'[j].reads = job[j].reads /\ job'[j].stale = job[j].stale \ {t}
      /\ \A k \in Jobs \ {j} :
            Carried(k) /\ (t \notin job[k].reads \/ t \in job'[k].stale)
      /\ \A k \in Jobs : /\ job'[k].reads \subseteq job[k].reads
                         /\ job'[k].stale \subseteq job'[k].reads
  <2>1. job[j].stale \ {t} \in SUBSET Nat /\ job[j].stale \subseteq job[j].reads
    BY <1>0 DEF TypeOK, Work
  <2>2. /\ back \in Work /\ back.pc = "close"
        /\ back.reads = job[j].reads /\ back.stale = job[j].stale \ {t}
    BY <1>0, <2>1, ReturnedType
  <2> HIDE DEF back
  <2>3. /\ own \in Work /\ own.pc = (IF j \in Syncs THEN "close" ELSE "feed")
        /\ j \notin Syncs => own.t = t
        /\ own.reads = job[j].reads /\ own.stale = job[j].stale \ {t}
    BY <1>1, <2>2 DEF Work
  <2> HIDE DEF own
  <2>4. own.stale \subseteq own.reads /\ own.reads \subseteq job[j].reads
    BY <2>1, <2>3
  <2>5. /\ job' \in [Jobs -> Work] /\ job'[j] = own
        /\ \A k \in Jobs \ {j} :
              Carried(k) /\ (t \notin job[k].reads \/ t \in job'[k].stale)
        /\ \A k \in Jobs : /\ job'[k].reads \subseteq job[k].reads
                           /\ job'[k].stale \subseteq job'[k].reads
    BY <1>0, <1>1, <2>3, <2>4, OutdatesOthers
  <2> QED
    BY <2>3, <2>5
<1>9. /\ Extends([trades EXCEPT ![t] = row], trades')
      /\ sync' \in [Syncs -> Session]
      /\ \A s \in Syncs \ {j} : sync'[s] = sync[s]
      /\ j \in Syncs => /\ sync'[j].new = {} /\ sync'[j].todo = sync[j].todo
                        /\ sync'[j].pnl = sync[j].pnl
      /\ crossed' \subseteq Instruments
  BY <1>1, <1>4, ExitTable DEF row
<1> HIDE DEF t, w, own
<1>10. /\ trades' \in Seq(Trade) /\ DOMAIN trades \subseteq DOMAIN trades'
       /\ Kept(row, trades'[t])
       /\ \A u \in DOMAIN trades : u # t => Kept(trades[u], trades'[u])
  <2> DEFINE table == [trades EXCEPT ![t] = row]
  <2>1. /\ DOMAIN table = DOMAIN trades /\ table[t] = row
        /\ \A u \in DOMAIN trades : u # t => table[u] = trades[u]
    BY <1>1
  <2>2. Extends(table, trades')
    BY <1>9
  <2> HIDE DEF table
  <2> QED
    BY <1>1, <2>1, <2>2 DEF Extends
<1>11. TypeOK'
  <2>1. \A k \in Jobs : job'[k].reads \subseteq DOMAIN trades'
    BY <1>0, <1>8, <1>10 DEF TypeOK
  <2>2. raced' \subseteq DOMAIN trades' /\ crossed' \subseteq Instruments
    BY <1>0, <1>1, <1>9, <1>10 DEF TypeOK
  <2> QED
    BY <1>0, <1>8, <1>9, <1>10, <2>1, <2>2 DEF TypeOK
<1>12. /\ ClosedIsSoldOut'
       /\ \A u \in DOMAIN trades' \ raced' : Sound(trades'[u])
       /\ \A k \in Jobs : (t \notin job[k].reads \/ t \in job'[k].stale) => RowsCarried(k)
  BY <1>1, <1>4, <1>5, <1>7, <1>9, <1>11, RowWritten
<1>13. OneFeeds'
  <2>1. CASE j \in Syncs
    <3>1. job'[j].pc # "feed"
      BY <1>8, <2>1
    <3> QED
      BY <1>0, <1>8, <3>1, StillOneFeeds DEF IInv
  <2>2. CASE j \notin Syncs
    <3>1. SUFFICES ASSUME NEW i \in Jobs, NEW k \in Jobs, i # k,
                          job'[i].pc = "feed", job'[k].pc = "feed", job'[i].t = job'[k].t
                   PROVE  ~Fresh(i, job[i].t)' \/ ~Fresh(k, job[k].t)'
      BY DEF OneFeeds
    <3>2. ASSUME NEW l \in Jobs \ {j}, job'[l].pc = "feed", job'[l].t = t
          PROVE  ~Fresh(l, job[l].t)'
      <4>1. job[l].pc = "feed" /\ job[l].t = t
        BY <1>8, <3>2 DEF Carried
      <4>2. t \in job[l].reads
        BY <4>1 DEF IInv, At
      <4> QED
        BY <1>8, <3>2, <4>2 DEF Fresh
    <3>3. CASE i = j
      BY <1>8, <3>1, <3>2, <3>3
    <3>4. CASE k = j
      BY <1>8, <3>1, <3>2, <3>4
    <3>5. CASE i # j /\ k # j
      <4>1. Carried(i) /\ Carried(k)
        BY <1>8, <3>5
      <4> QED
        BY <3>1, <4>1 DEF IInv, OneFeeds, Carried, Fresh
    <3> QED
      BY <3>3, <3>4, <3>5
  <2> QED
    BY <2>1, <2>2
<1>14. At(j)'
  BY <1>0, <1>1, <1>8, JournalAssumption DEF At, Jobs
<1>15. Knows(j)'
  <2>1. CASE j \in Syncs
    BY <1>8, <2>1 DEF Knows
  <2>2. CASE j \notin Syncs
    <3>1. trades'[t].fed = 0 \/ t \in raced'
      BY <1>4, <1>6, <1>10 DEF Kept
    <3> QED
      BY <1>8, <2>2, <3>1 DEF Knows
  <2> QED
    BY <2>1, <2>2
<1>16. ASSUME j \in Syncs
       PROVE  Remembers(j)'
  <2>1. Remembers(j) /\ t \notin sync[j].todo
    BY <1>0, <1>16 DEF IInv, Remembers, t
  <2>2. \A u \in sync[j].todo : u # t /\ u \in job[j].reads /\ u \in DOMAIN trades
    BY <1>0, <2>1 DEF Remembers, TypeOK
  <2>3. \A u \in sync[j].todo : Kept(trades[u], trades'[u])
    BY <1>10, <2>2
  <2>4. \A u \in sync[j].todo :
           /\ u \in job'[j].reads /\ u \in DOMAIN sync[j].pnl
           /\ Fresh(j, u)' =>
                 trades'[u].status \in OpenStatuses /\ sync[j].pnl[u] = trades'[u].pnl
    BY <1>8, <2>1, <2>2, <2>3 DEF Remembers, Fresh, Kept
  <2> QED
    BY <1>8, <1>9, <1>16, <2>4 DEF Remembers
<1>17. HeldWithin'
  BY <1>0, HeldKept DEF IInv
<1> QED
  BY <1>0, <1>8, <1>9, <1>11, <1>12, <1>13, <1>14, <1>15, <1>16, <1>17, OneJob

\* The last commit of a sync (coindcx_sync.py:205): its session is in the table.
LEMMA SyncCommitStep ==
    ASSUME IInv, NEW s \in Syncs, SyncCommit(s)
    PROVE  IInv'
<1>0. /\ TypeOK /\ s \in Jobs /\ s \notin Clients /\ s \in Syncs
      /\ trades \in Seq(Trade) /\ Remembers(s)
  BY JournalAssumption DEF IInv, Jobs, TypeOK
<1>1. /\ trades' = Flushed(trades, s)
      /\ job' = [job EXCEPT ![s] = Idle] /\ sync' = [sync EXCEPT ![s] = NoSync]
      /\ UNCHANGED <<fills, day, raced, moves>> /\ Crosses(s)
  BY DEF SyncCommit
<1>2. /\ Idle \in Work /\ Idle.pc = "idle" /\ Idle.reads = {} /\ Idle.stale = {}
      /\ NoSync \in Session /\ NoSync.todo = {} /\ NoSync.new = {}
  BY IdleType, NoSyncType DEF Idle, NoSync
<1>3. /\ job' \in [Jobs -> Work] /\ job'[s] = Idle
      /\ \A k \in Jobs \ {s} : job'[k] = job[k] /\ Carried(k)
      /\ sync' \in [Syncs -> Session] /\ sync'[s] = NoSync
      /\ \A r \in Syncs \ {s} : sync'[r] = sync[r]
  BY <1>0, <1>1, <1>2 DEF TypeOK, Carried
<1>4. Extends(trades, trades')
  BY <1>0, <1>1, FlushedExtends
<1>5. TypeOK'
  <2>1. trades' \in Seq(Trade) /\ DOMAIN trades \subseteq DOMAIN trades'
    BY <1>4 DEF Extends
  <2>2. ASSUME NEW k \in Jobs
        PROVE  job'[k].reads \subseteq DOMAIN trades' /\ job'[k].stale \subseteq job'[k].reads
    <3>1. CASE k = s
      BY <1>2, <1>3, <3>1
    <3>2. CASE k # s
      BY <1>0, <1>3, <2>1, <3>2 DEF TypeOK
    <3> QED
      BY <3>1, <3>2
  <2>3. crossed' \subseteq Instruments
    BY <1>0, <1>1, CrossesType
  <2> QED
    BY <1>0, <1>1, <1>3, <2>1, <2>2, <2>3 DEF TypeOK
<1>6. /\ ClosedIsSoldOut'
      /\ \A t \in DOMAIN trades' \ raced' : Sound(trades'[t])
      /\ \A k \in Jobs : RowsCarried(k)
  BY <1>1, <1>4, <1>5, Appended
<1>7. OneFeeds'
  <2>1. job'[s].pc # "feed"
    BY <1>2, <1>3
  <2> QED
    BY <1>0, <1>3, <2>1, StillOneFeeds DEF IInv
<1>8. At(s)' /\ Knows(s)' /\ Remembers(s)'
  BY <1>0, <1>2, <1>3 DEF At, Knows, Remembers
<1>9. HeldWithin'
  BY <1>1, HeldKept DEF IInv
<1> QED
  BY <1>0, <1>3, <1>5, <1>6, <1>7, <1>8, <1>9, OneJob

-----------------------------------------------------------------------------
(* The invariant.                                                          *)

\* At first nothing is filled, and nothing was read.
LEMMA InitIInv == Init => IInv
<1> SUFFICES ASSUME Init
             PROVE  IInv
  OBVIOUS
<1>0. /\ fills = <<>> /\ day = 0 /\ trades = <<>> /\ raced = {} /\ crossed = {} /\ moves = MaxMoves
      /\ job = [j \in Jobs |-> Idle] /\ sync = [s \in Syncs |-> NoSync]
  BY DEF Init
<1>1. /\ Idle \in Work /\ Idle.pc = "idle" /\ Idle.reads = {} /\ Idle.stale = {}
      /\ NoSync \in Session /\ NoSync.todo = {} /\ NoSync.new = {}
  BY IdleType, NoSyncType DEF Idle, NoSync
<1>2. TypeOK
  <2>1. fills \in Seq(Fill) /\ trades \in Seq(Trade) /\ day \in Days /\ moves \in 0..MaxMoves
    BY <1>0, JournalAssumption DEF Days
  <2> QED
    BY <1>0, <1>1, <2>1 DEF TypeOK
<1>3. HeldWithin
  <2>1. ASSUME NEW on, NEW side
        PROVE  Filled(on, side, 0) = 0
    <3> DEFINE T == CHOOSE T : Totals(T, fills, on, side, 0)
    <3>1. Len(fills) = 0
      BY <1>0
    <3>2. Totals(T, fills, on, side, 0)
      BY <3>1, TotalsExist
    <3>3. Filled(on, side, 0) = T[Len(fills)]
      BY DEF Filled, Totals, Part, Counts
    <3> HIDE DEF T
    <3> QED
      BY <3>1, <3>2, <3>3 DEF Totals
  <2> QED
    BY <2>1, JournalAssumption DEF HeldWithin, Held
<1>4. DOMAIN trades = {}
  BY <1>0
<1>5. ClosedIsSoldOut /\ \A t \in DOMAIN trades \ raced : Sound(trades[t])
  BY <1>4 DEF ClosedIsSoldOut
<1>6. \A j \in Jobs : job[j].pc = "idle" /\ job[j].reads = {}
  BY <1>0, <1>1
<1>7. \A j \in Jobs : At(j) /\ Knows(j)
  BY <1>6 DEF At, Knows
<1>8. OneFeeds
  BY <1>6 DEF OneFeeds
<1>9. \A s \in Syncs : Remembers(s)
  <2>1. \A s \in Syncs : s \in Jobs /\ sync[s] = NoSync
    BY <1>0 DEF Jobs
  <2> QED
    BY <1>1, <1>6, <2>1 DEF Remembers
<1> QED
  BY <1>2, <1>3, <1>5, <1>7, <1>8, <1>9 DEF IInv

\* Every step of the program keeps it.
LEMMA NextIInv == IInv /\ [Next]_vars => IInv'
<1> SUFFICES ASSUME IInv, [Next]_vars
             PROVE  IInv'
  OBVIOUS
<1>1. CASE UNCHANGED vars
  <2>1. UNCHANGED <<fills, day, trades, job, sync, raced, crossed, moves>>
    BY <1>1 DEF vars
  <2>2. TypeOK'
    BY <2>1 DEF IInv, TypeOK
  <2>3. trades \in Seq(Trade)
    BY DEF IInv, TypeOK
  <2>4. Extends(trades, trades')
    BY <2>1, <2>3, ExtendsItself
  <2>5. HeldWithin'
    BY <2>1, HeldKept DEF IInv
  <2> QED
    BY <2>1, <2>2, <2>4, <2>5, Appended, NobodyActs
<1>2. CASE Environment
  <2>1. ASSUME NEW on \in Instruments, NEW q \in 1..Qty, NEW side \in {"buy", "sell"},
               UserTrades(on, side, q)
        PROVE  IInv'
    BY <2>1, UserTradesStep
  <2>2. ASSUME NEW on \in Instruments, NEW q \in 1..Qty, OpenTrade(on, "LONG", q)
        PROVE  IInv'
    BY <2>2, OpenTradeStep
  <2>3. ASSUME NEW c \in Clients, NEW t \in DOMAIN trades, CancelRead(c, t)
        PROVE  IInv'
    BY <2>3, CancelReadStep
  <2>4. ASSUME NEW c \in Clients, NEW t \in DOMAIN trades, NEW q \in 1..Qty,
               ExitRead(c, t, q)
        PROVE  IInv'
    BY <2>4, ExitReadStep
  <2> QED
    BY <1>2, <2>1, <2>2, <2>3, <2>4, NextDayStep, SyncAbortStep DEF Environment
<1>3. ASSUME NEW c \in Clients, ClientStep(c)
      PROVE  IInv'
  <2>1. c \in Jobs
    BY DEF Jobs
  <2> QED
    BY <1>3, <2>1, ExitSumStep, ExitWriteStep, ExitFeedStep, CancelWriteStep DEF ClientStep
<1>4. ASSUME NEW s \in Syncs, SyncStep(s)
      PROVE  IInv'
  <2>1. s \in Jobs
    BY DEF Jobs
  <2> QED
    BY <1>4, <2>1, SyncFetchStep, SyncReadStep, SyncCommitStep, SyncLookupStep,
       ExitSumStep, ExitWriteStep DEF SyncStep
<1> QED
  BY <1>1, <1>2, <1>3, <1>4 DEF Next

\* What the jobs know, and the books, hold of every run of the journal
\* (trade_journal/journal.py, exchange/coindcx_sync.py).
THEOREM Invariance == Spec => []IInv
<1> QED
  BY InitIInv, NextIInv, PTL DEF Spec

\* The journal keeps its types, for every quantity and however many requests
\* and syncs overlap.
THEOREM TypeCorrect == Spec => []TypeOK
<1>1. IInv => TypeOK
  BY DEF IInv
<1> QED
  BY <1>1, Invariance, PTL

\* A row the journal reports as CLOSED has executions for its whole quantity,
\* whatever was raced (journal.py:125).
THEOREM ClosedMeansSoldOut == Spec => []ClosedIsSoldOut
<1>1. IInv => ClosedIsSoldOut
  BY DEF IInv
<1> QED
  BY <1>1, Invariance, PTL

\* Only a lost race spoils the books (journal.py:120, 145, 170;
\* routers/journal.py:152).
THEOREM BooksAreRight == Spec => []BooksAgree
<1>1. IInv => BooksAgree
  BY DEF IInv, BooksAgree, Sound
<1> QED
  BY <1>1, Invariance, PTL

-----------------------------------------------------------------------------
(* One open row for a position, unless two syncs both planned one.         *)

\* What never adds an open row, nor plans one where there is one.
LEMMA TrackedShrinks ==
    ASSUME Tracked, raced \subseteq raced', crossed \subseteq crossed',
           raced' = {} => \A on \in Instruments : OpenSynced(on)' \subseteq OpenSynced(on),
           raced' = {} =>
              \A on \in Instruments : \A s \in Syncs :
                 on \in sync'[s].new => on \in sync[s].new \/ OpenSynced(on) = {}
    PROVE  Tracked'
<1>1. SUFFICES ASSUME raced' = {}, NEW on \in Instruments \ crossed'
               PROVE  /\ \A t, u \in OpenSynced(on)' : t = u
                      /\ \A s \in Syncs : on \in sync'[s].new => OpenSynced(on)' = {}
  BY DEF Tracked
<1>2. /\ \A t, u \in OpenSynced(on) : t = u
      /\ \A s \in Syncs : on \in sync[s].new => OpenSynced(on) = {}
  BY <1>1 DEF Tracked
<1>3. OpenSynced(on)' \subseteq OpenSynced(on)
  BY <1>1
<1> QED
  BY <1>1, <1>2, <1>3

\* A commit of a sync creates what it planned, and plans no more; what another
\* one has planned too is crossed.
LEMMA TrackedFlush ==
    ASSUME TypeOK, Tracked, raced \subseteq raced', NEW s \in Syncs, Remembers(s),
           Crosses(s), sync'[s].new = {}, \A r \in Syncs \ {s} : sync'[r] = sync[r],
           NEW table \in Seq(Trade), DOMAIN table = DOMAIN trades,
           trades' = Flushed(table, s),
           raced' = {} =>
              \A t \in DOMAIN trades :
                 /\ table[t].src = trades[t].src /\ table[t].on = trades[t].on
                 /\ table[t].status \in OpenStatuses => trades[t].status \in OpenStatuses
    PROVE  Tracked'
<1>1. SUFFICES ASSUME raced' = {}, NEW on \in Instruments \ crossed'
               PROVE  /\ \A t, u \in OpenSynced(on)' : t = u
                      /\ \A r \in Syncs : on \in sync'[r].new => OpenSynced(on)' = {}
  BY DEF Tracked
<1>2. /\ \A t, u \in OpenSynced(on) : t = u
      /\ \A r \in Syncs : on \in sync[r].new => OpenSynced(on) = {}
  BY <1>1 DEF Tracked, Crosses
<1>3. /\ \A t \in DOMAIN trades : Kept(table[t], trades'[t])
      /\ \A t \in DOMAIN trades' \ DOMAIN trades : trades'[t].on \in sync[s].new
      /\ \A t, u \in DOMAIN trades' \ DOMAIN trades :
            trades'[t].on = trades'[u].on => t = u
  BY FlushedExtends DEF Extends
<1>4. ASSUME NEW t \in OpenSynced(on)'
      PROVE  \/ t \in OpenSynced(on)
             \/ t \in DOMAIN trades' \ DOMAIN trades /\ on \in sync[s].new
  <2>1. /\ t \in DOMAIN trades' /\ trades'[t].src = "COINDCX_SYNC" /\ trades'[t].on = on
        /\ trades'[t].status \in OpenStatuses
    BY DEF OpenSynced
  <2>2. CASE t \in DOMAIN trades
    BY <1>1, <1>3, <2>1, <2>2 DEF OpenSynced, Kept
  <2>3. CASE t \notin DOMAIN trades
    BY <1>3, <2>1, <2>3
  <2> QED
    BY <2>2, <2>3
<1>5. ASSUME NEW t \in OpenSynced(on)', NEW u \in OpenSynced(on)'
      PROVE  t = u
  <2>1. trades'[t].on = on /\ trades'[u].on = on
    BY DEF OpenSynced
  <2> QED
    BY <1>2, <1>3, <1>4, <2>1
<1>6. ASSUME NEW r \in Syncs, on \in sync'[r].new
      PROVE  OpenSynced(on)' = {}
  <2>1. r # s /\ on \in sync[r].new
    BY <1>6
  <2>2. on \notin sync[s].new
    BY <1>1, <2>1 DEF Crosses
  <2> QED
    BY <1>2, <1>4, <2>1, <2>2
<1> QED
  BY <1>5, <1>6

\* An exit leaves open only what was open, unless it was raced.
LEMMA TrackedExit ==
    ASSUME IInv, Tracked, NEW j \in Jobs, ExitWrite(j)
    PROVE  Tracked'
<1> DEFINE t == job[j].t
           row == Exited(trades[t], job[j])
           table == [trades EXCEPT ![t] = row]
<1>0. /\ TypeOK /\ trades \in Seq(Trade) /\ job[j].pc = "write" /\ Knows(j)
      /\ ActsOn(j, t)
  BY DEF IInv, TypeOK, ExitWrite
<1>1. /\ t \in DOMAIN trades /\ trades[t] \in Trade /\ raced \subseteq raced'
      /\ t \notin raced' => Fresh(j, t)
  BY <1>0, InHand
<1>2. raced' = {} => trades[t].status \in OpenStatuses
  BY <1>0, <1>1 DEF Knows
<1>3. row.src = trades[t].src /\ row.on = trades[t].on
  BY <1>1 DEF Exited, Trade
<1>4. row \in Trade
  <2> DEFINE w == job[j]
             full == w.qty >= trades[t].qty - w.closed
             exited == trades[t].exited + w.qty
             pnl == w.pnl + w.qty
             status == IF full THEN "CLOSED" ELSE "PARTIALLY_CLOSED"
             exitDay == IF full THEN day ELSE trades[t].exitDay
  <2>1. row = [trades[t] EXCEPT !.exited = exited, !.pnl = pnl, !.status = status,
                                !.exitDay = exitDay]
    BY DEF Exited
  <2>2. w \in Work /\ day \in Days /\ Qty \in Nat
    BY <1>0, JournalAssumption DEF TypeOK
  <2>3. exited \in Nat /\ pnl \in Int
    <3>1. /\ w.qty \in Nat /\ w.pnl \in Int /\ trades[t].exited \in Nat
      BY <1>1, <2>2 DEF Work, Trade
    <3> HIDE DEF t, w
    <3> QED
      BY <3>1
  <2>4. trades[t].exitDay \in Days \cup {-1}
    BY <1>1 DEF Trade
  <2>5. exitDay \in Days \cup {-1} /\ status \in {"CLOSED", "PARTIALLY_CLOSED"}
    BY <2>2, <2>4
  <2> HIDE DEF exited, pnl, exitDay, status, row
  <2> QED
    BY <1>1, <2>1, <2>3, <2>5 DEF Trade, OpenStatuses
<1>5. /\ table \in Seq(Trade) /\ DOMAIN table = DOMAIN trades
      /\ raced' = {} =>
            \A u \in DOMAIN trades :
               /\ table[u].src = trades[u].src /\ table[u].on = trades[u].on
               /\ table[u].status \in OpenStatuses => trades[u].status \in OpenStatuses
  <2> HIDE DEF row, t
  <2>1. table \in Seq(Trade) /\ DOMAIN table = DOMAIN trades
    BY <1>0, <1>1, <1>4
  <2>2. \A u \in DOMAIN trades : table[u] = IF u = t THEN row ELSE trades[u]
    BY <1>1
  <2> HIDE DEF table
  <2> QED
    BY <1>2, <1>3, <2>1, <2>2
<1>6. \/ /\ j \in Syncs /\ trades' = Flushed(table, j)
         /\ sync' = [sync EXCEPT ![j].new = {}, ![j].touch = {}] /\ Crosses(j)
      \/ j \notin Syncs /\ trades' = table /\ UNCHANGED <<sync, crossed>>
  <2>1. table = [trades EXCEPT ![job[j].t] = Exited(@, job[j])]
    OBVIOUS
  <2> HIDE DEF table
  <2> QED
    BY <2>1 DEF ExitWrite
<1> HIDE DEF table
<1>7. CASE j \in Syncs
  <2>1. Remembers(j) /\ sync[j] \in Session /\ sync \in [Syncs -> Session]
    BY <1>0, <1>7 DEF IInv, TypeOK
  <2>2. sync'[j].new = {} /\ \A r \in Syncs \ {j} : sync'[r] = sync[r]
    BY <1>6, <1>7, <2>1 DEF Session
  <2> QED
    BY <1>0, <1>1, <1>5, <1>6, <1>7, <2>1, <2>2, TrackedFlush
<1>8. CASE j \notin Syncs
  <2>1. raced' = {} => \A on \in Instruments : OpenSynced(on)' \subseteq OpenSynced(on)
    BY <1>5, <1>6, <1>8 DEF OpenSynced
  <2>2. (\A s \in Syncs : sync'[s].new = sync[s].new) /\ UNCHANGED crossed
    BY <1>6, <1>8
  <2> QED
    BY <1>1, <2>1, <2>2, TrackedShrinks
<1> QED
  BY <1>7, <1>8

\* A step of a request, or of the environment, adds no open row of a sync.
LEMMA TrackedOthers ==
    ASSUME IInv, Tracked, UNCHANGED <<sync, crossed>>, raced \subseteq raced',
           \/ UNCHANGED trades
           \/ \E row : /\ trades' = Append(trades, row) /\ row.src # "COINDCX_SYNC"
           \/ \E t \in DOMAIN trades : \E row :
                 /\ trades' = [trades EXCEPT ![t] = row]
                 /\ row.src = trades[t].src /\ row.on = trades[t].on
                 /\ row.status \in OpenStatuses => trades[t].status \in OpenStatuses
    PROVE  Tracked'
<1>1. trades \in Seq(Trade)
  BY DEF IInv, TypeOK
<1>2. \A on \in Instruments : OpenSynced(on)' \subseteq OpenSynced(on)
  <2>1. CASE UNCHANGED trades
    BY <2>1 DEF OpenSynced
  <2>2. ASSUME NEW row, trades' = Append(trades, row), row.src # "COINDCX_SYNC"
        PROVE  \A on \in Instruments : OpenSynced(on)' \subseteq OpenSynced(on)
    <3>1. \A t \in DOMAIN trades' :
             \/ t \in DOMAIN trades /\ trades'[t] = trades[t]
             \/ trades'[t] = row
      BY <1>1, <2>2
    <3> QED
      BY <2>2, <3>1 DEF OpenSynced
  <2>3. ASSUME NEW t \in DOMAIN trades, NEW row,
               trades' = [trades EXCEPT ![t] = row],
               row.src = trades[t].src, row.on = trades[t].on,
               row.status \in OpenStatuses => trades[t].status \in OpenStatuses
        PROVE  \A on \in Instruments : OpenSynced(on)' \subseteq OpenSynced(on)
    <3>1. /\ DOMAIN trades' = DOMAIN trades
          /\ \A u \in DOMAIN trades : trades'[u] = IF u = t THEN row ELSE trades[u]
      BY <1>1, <2>3
    <3> QED
      BY <2>3, <3>1 DEF OpenSynced
  <2> QED
    BY <2>1, <2>2, <2>3
<1> QED
  BY <1>2, TrackedShrinks

\* Every step keeps a position to one open row.
LEMMA NextTracked == IInv /\ Tracked /\ [Next]_vars => Tracked'
<1> SUFFICES ASSUME IInv, Tracked, [Next]_vars
             PROVE  Tracked'
  OBVIOUS
<1>0. TypeOK /\ trades \in Seq(Trade) /\ sync \in [Syncs -> Session] /\ \A s \in Syncs : s \in Jobs
  BY DEF IInv, TypeOK, Jobs
<1>1. CASE UNCHANGED vars
  BY <1>1, TrackedOthers DEF vars
<1>2. ASSUME NEW on \in Instruments, NEW q \in 1..Qty, NEW side \in {"buy", "sell"},
             UserTrades(on, side, q)
      PROVE  Tracked'
  BY <1>2, TrackedOthers DEF UserTrades
<1>3. ASSUME NEW on \in Instruments, NEW q \in 1..Qty, OpenTrade(on, "LONG", q)
      PROVE  Tracked'
  <2>1. Row("MANUAL", on, "LONG", q).src # "COINDCX_SYNC"
    BY DEF Row
  <2> QED
    BY <1>3, <2>1, TrackedOthers DEF OpenTrade
<1>4. CASE NextDay
  BY <1>4, TrackedOthers DEF NextDay
<1>5. ASSUME NEW c \in Clients, NEW t \in DOMAIN trades,
             CancelRead(c, t) \/ \E q \in 1..Qty : ExitRead(c, t, q)
      PROVE  Tracked'
  BY <1>5, TrackedOthers DEF CancelRead, ExitRead
<1>6. ASSUME NEW j \in Jobs, ExitSum(j)
      PROVE  Tracked'
  BY <1>6, TrackedOthers DEF ExitSum
<1>7. ASSUME NEW j \in Jobs, ExitWrite(j)
      PROVE  Tracked'
  BY <1>7, TrackedExit
<1>8. ASSUME NEW c \in Clients, ExitFeed(c)
      PROVE  Tracked'
  <2> DEFINE t == job[c].t
             fed == IF trades[t].status = "CLOSED" THEN trades[t].fed + 1 ELSE trades[t].fed
             row == [trades[t] EXCEPT !.fed = fed]
  <2>1. c \in Jobs /\ job[c].pc = "feed" /\ ActsOn(c, t)
    BY <1>8 DEF Jobs, ExitFeed
  <2>2. t \in DOMAIN trades /\ trades[t] \in Trade /\ raced \subseteq raced'
    BY <2>1, InHand
  <2>3. trades' = [trades EXCEPT ![t] = row] /\ UNCHANGED <<sync, crossed>>
    BY <1>8 DEF ExitFeed
  <2>4. row.src = trades[t].src /\ row.on = trades[t].on /\ row.status = trades[t].status
    BY <2>2 DEF Trade
  <2> HIDE DEF row, t
  <2> QED
    BY <2>2, <2>3, <2>4, TrackedOthers
<1>9. ASSUME NEW c \in Clients, CancelWrite(c)
      PROVE  Tracked'
  <2> DEFINE t == job[c].t
             row == [trades[t] EXCEPT !.status = "CANCELLED", !.exitDay = day]
  <2>1. c \in Jobs /\ job[c].pc = "cancel" /\ ActsOn(c, t)
    BY <1>9 DEF Jobs, CancelWrite
  <2>2. t \in DOMAIN trades /\ trades[t] \in Trade /\ raced \subseteq raced'
    BY <2>1, InHand
  <2>3. trades' = [trades EXCEPT ![t] = row] /\ UNCHANGED <<sync, crossed>>
    <3>1. /\ trades' = [trades EXCEPT ![t].status = "CANCELLED", ![t].exitDay = day]
          /\ UNCHANGED <<sync, crossed>>
      BY <1>9 DEF CancelWrite
    <3> QED
      BY <3>1
  <2>4. row.src = trades[t].src /\ row.on = trades[t].on /\ row.status = "CANCELLED"
    BY <2>2 DEF Trade
  <2> HIDE DEF row, t
  <2> QED
    BY <2>2, <2>3, <2>4, TrackedOthers DEF OpenStatuses
<1>10. ASSUME NEW s \in Syncs, SyncFetch(s)
       PROVE  Tracked'
  <2>1. PICK seen : sync' = [sync EXCEPT ![s].seen = seen]
    BY <1>10 DEF SyncFetch
  <2>2. UNCHANGED <<trades, raced, crossed>>
    BY <1>10 DEF SyncFetch
  <2>3. \A r \in Syncs : sync'[r].new = sync[r].new
    <3>1. sync[s] \in Session
      BY <1>0
    <3> QED
      BY <1>0, <2>1, <3>1 DEF Session
  <2>4. \A on \in Instruments : OpenSynced(on)' = OpenSynced(on)
    BY <2>2 DEF OpenSynced
  <2> QED
    BY <2>2, <2>3, <2>4, TrackedShrinks
<1>11. ASSUME NEW s \in Syncs, SyncRead(s)
       PROVE  Tracked'
  <2>1. UNCHANGED <<trades, raced, crossed>>
    BY <1>11 DEF SyncRead
  <2>2. \A on \in Instruments : OpenSynced(on)' = OpenSynced(on)
    BY <2>1 DEF OpenSynced
  <2>3. PICK tracked \in [Instruments -> {0} \cup DOMAIN trades] :
           /\ \A on \in Instruments :
                 IF OpenSynced(on) = {} THEN tracked[on] = 0
                 ELSE tracked[on] \in OpenSynced(on)
           /\ LET live == {on \in Instruments : sync[s].seen[on] # 0}
                  gone == {tracked[on] : on \in Instruments \ live} \ {0}
              IN  sync' = [sync EXCEPT ![s] =
                    [@ EXCEPT !.new = {on \in live : tracked[on] = 0},
                              !.touch = {tracked[on] : on \in live} \ {0},
                              !.todo = gone, !.pnl = [t \in gone |-> trades[t].pnl]]]
    BY <1>11 DEF SyncRead
  <2> DEFINE live == {on \in Instruments : sync[s].seen[on] # 0}
             new == {on \in live : tracked[on] = 0}
             gone == {tracked[on] : on \in Instruments \ live} \ {0}
             x == [sync[s] EXCEPT !.new = new,
                      !.touch = {tracked[on] : on \in live} \ {0},
                      !.todo = gone, !.pnl = [t \in gone |-> trades[t].pnl]]
  <2>4. sync' = [sync EXCEPT ![s] = x]
    BY <2>3
  <2>5. x.new = new
    <3>1. sync[s] \in Session
      BY <1>0
    <3> HIDE DEF new, live
    <3> QED
      BY <3>1 DEF Session
  <2>6. \A on \in new : OpenSynced(on) = {}
    <3>1. 0 \notin DOMAIN trades
      BY <1>0
    <3>2. \A on \in Instruments : OpenSynced(on) \subseteq DOMAIN trades
      BY DEF OpenSynced
    <3> QED
      BY <2>3, <3>1, <3>2
  <2> HIDE DEF x, new
  <2>7. \A r \in Syncs : sync'[r].new = IF r = s THEN new ELSE sync[r].new
    BY <1>0, <2>4, <2>5
  <2> QED
    BY <2>1, <2>2, <2>6, <2>7, TrackedShrinks
<1>12. ASSUME NEW s \in Syncs, NEW t \in DOMAIN trades, SyncLookup(s, t)
       PROVE  Tracked'
  <2>1. UNCHANGED <<trades, raced, crossed>> /\ sync' = [sync EXCEPT ![s].todo = @ \ {t}]
    BY <1>12 DEF SyncLookup
  <2>2. \A r \in Syncs : sync'[r].new = sync[r].new
    <3>1. sync[s] \in Session
      BY <1>0
    <3> QED
      BY <1>0, <2>1, <3>1 DEF Session
  <2>3. \A on \in Instruments : OpenSynced(on)' = OpenSynced(on)
    BY <2>1 DEF OpenSynced
  <2> QED
    BY <2>1, <2>2, <2>3, TrackedShrinks
<1>13. ASSUME NEW s \in Syncs, SyncCommit(s)
       PROVE  Tracked'
  <2>1. /\ trades' = Flushed(trades, s) /\ sync' = [sync EXCEPT ![s] = NoSync]
        /\ UNCHANGED raced /\ Crosses(s)
    BY <1>13 DEF SyncCommit
  <2>2. /\ sync'[s].new = {} /\ Remembers(s)
        /\ \A r \in Syncs \ {s} : sync'[r] = sync[r]
    BY <1>0, <2>1 DEF NoSync, IInv
  <2> QED
    BY <1>0, <2>1, <2>2, TrackedFlush
<1>14. ASSUME NEW s \in Syncs, SyncAbort(s)
       PROVE  Tracked'
  <2>1. UNCHANGED <<trades, raced, crossed>> /\ sync' = [sync EXCEPT ![s] = NoSync]
    BY <1>14 DEF SyncAbort
  <2>2. \A r \in Syncs : sync'[r].new \subseteq sync[r].new
    BY <1>0, <2>1 DEF NoSync
  <2>3. \A on \in Instruments : OpenSynced(on)' = OpenSynced(on)
    BY <2>1 DEF OpenSynced
  <2> QED
    BY <2>1, <2>2, <2>3, TrackedShrinks
<1>15. CASE Environment
  BY <1>2, <1>3, <1>4, <1>5, <1>14, <1>15 DEF Environment
<1>16. ASSUME NEW c \in Clients, ClientStep(c)
       PROVE  Tracked'
  <2>1. c \in Jobs
    BY DEF Jobs
  <2> QED
    BY <1>6, <1>7, <1>8, <1>9, <1>16, <2>1 DEF ClientStep
<1>17. ASSUME NEW s \in Syncs, SyncStep(s)
       PROVE  Tracked'
  BY <1>0, <1>6, <1>7, <1>10, <1>11, <1>12, <1>13, <1>17 DEF SyncStep
<1> QED
  BY <1>1, <1>15, <1>16, <1>17 DEF Next

\* Rows that are all the same one are at most one.
LEMMA AtMostOne ==
    ASSUME NEW S, \A t, u \in S : t = u
    PROVE  Cardinality(S) <= 1
<1>1. CASE S = {}
  <2>1. Cardinality(S) = 0
    BY <1>1, FS_EmptySet
  <2> QED
    BY <2>1
<1>2. CASE S # {}
  <2>1. PICK t : t \in S
    BY <1>2
  <2>2. S = {t}
    BY <2>1
  <2>3. Cardinality({t}) = 1
    BY FS_Singleton
  <2>4. Cardinality(S) = 1
    BY <2>2, <2>3, Zenon
  <2> QED
    BY <2>4
<1> QED
  BY <1>1, <1>2

\* A position of the exchange has one open row at most, whichever syncs were
\* aborted between their commits and whatever the requests do meanwhile, unless
\* two syncs both found it without one (coindcx_sync.py:142-164,
\* accounts.py:118).
THEOREM OneRowPerPosition == Spec => []OneOpenRowPerPosition
<1>1. Init => Tracked
  <2>1. Init => \A on \in Instruments : OpenSynced(on) = {}
    BY DEF Init, OpenSynced
  <2>2. Init => \A s \in Syncs : sync[s].new = {}
    BY DEF Init, NoSync
  <2> QED
    BY <2>1, <2>2 DEF Tracked
<1>2. IInv /\ Tracked /\ [Next]_vars => Tracked'
  BY NextTracked
<1>3. Tracked => OneOpenRowPerPosition
  <2>1. SUFFICES ASSUME Tracked, raced = {}, NEW on \in Instruments \ crossed
                 PROVE  Cardinality({t \in DOMAIN trades :
                                        /\ trades[t].src = "COINDCX_SYNC" /\ trades[t].on = on
                                        /\ trades[t].status \in OpenStatuses}) <= 1
    BY DEF OneOpenRowPerPosition
  <2>2. \A t, u \in OpenSynced(on) : t = u
    BY <2>1 DEF Tracked
  <2>3. Cardinality(OpenSynced(on)) <= 1
    BY <2>2, AtMostOne
  <2> QED
    BY <2>3 DEF OpenSynced
<1> QED
  BY <1>1, <1>2, <1>3, Invariance, PTL DEF Spec
=============================================================================
