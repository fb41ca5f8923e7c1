---------------------------- MODULE SignalProofs ----------------------------
(***************************************************************************)
(* Theorems about the two sources of signals: SignalPipeline with its      *)
(* ingestion, and ExternalSignals, for every set of paths, strategies,     *)
(* candles, deliveries, messages and symbols and every limit.              *)
(*                                                                         *)
(* Ingestion.  A range in progress is a promise: what lies between the     *)
(* first stored candle and its start is stored or was left out by a plan   *)
(* (Passed), whoever stores what meanwhile.                                *)
(*                                                                         *)
(* Signals.  Every row is logged as sent, held by the one path that        *)
(* inserted it, or lost (Accounted); rows and paths about to insert one    *)
(* are one together unless two paths overlapped (Counted), and only the    *)
(* closed-candle path looks for another strategy than the baseline.        *)
(*                                                                         *)
(* External signals.  Neither bound on the trades is inductive: a check    *)
(* passed is a promise of a row some awaits later.  The invariant counts   *)
(* the promises with the rows (Bidders, Spenders, Runners), and all of     *)
(* them are deliveries that were in flight together when it was made.      *)
(***************************************************************************)
EXTENDS SignalPipeline, ExternalSignals, FiniteSetTheorems, SequenceTheorems, TLAPS

\* The smallest element of a set of naturals.
LEMMA Smallest ==
    ASSUME NEW T \in SUBSET Nat, T # {}
    PROVE  \E x \in T : \A y \in T : x <= y
<1> DEFINE R == StrictSubsetOrdering(Nat)
           F == {0..x : x \in T}
<1>1. IsWellFoundedOn(R, FiniteSubsetsOf(Nat))
  BY FS_StrictSubsetOrderingWellFounded
<1>2. F \subseteq FiniteSubsetsOf(Nat)
  <2>1. \A x \in T : 0..x \in SUBSET Nat /\ IsFiniteSet(0..x)
    BY FS_Interval
  <2> QED
    BY <2>1 DEF FiniteSubsetsOf
<1>3. F # {}
  OBVIOUS
<1>4. PICK m \in F : \A g \in F : <<g, m>> \notin R
  <2> HIDE DEF R, F
  <2> QED
    BY <1>1, <1>2, <1>3, WFMin
<1>5. PICK x \in T : m = 0..x
  OBVIOUS
<1>6. ASSUME NEW y \in T, y < x
      PROVE  FALSE
  <2>1. 0..y \in F /\ 0..y \in SUBSET Nat /\ 0..x \in SUBSET Nat
    OBVIOUS
  <2>2. 0..y \subseteq 0..x /\ x \in 0..x /\ x \notin 0..y
    BY <1>6
  <2>3. <<0..y, 0..x>> \in R
    BY <2>1, <2>2 DEF StrictSubsetOrdering
  <2> QED
    BY <1>4, <1>5, <2>1, <2>3
<1> QED
  BY <1>6

-----------------------------------------------------------------------------
(* Ingestion: what a range that is still to be filled has passed is stored *)
(* or left out by a plan.                                                  *)

Ranges == [since : Nat \ {0}, last : Int, stop : Int]

IngestTypes ==
    /\ clock \in 1..MaxCandle
    /\ stored \subseteq Nat \ {0} /\ \A c \in stored : c < clock
    /\ ingest \in [Ingesters -> Seq(Ranges)]

\* Nothing that an ingester has passed between stored candles is missing.
Passed(r) ==
    IF stored = {} THEN 1..r.since - 1 \subseteq excused
    ELSE /\ MinStored..r.since - 1 \subseteq stored \cup excused
         /\ r.since..MinStored - 1 \subseteq excused

NoHole == \A c \in Nat : \A a, b \in stored : a < c /\ c < b => c \in stored \cup excused

IngestInv ==
    /\ IngestTypes
    /\ NoHole
    /\ \A i \in Ingesters : \A n \in DOMAIN ingest[i] : Passed(ingest[i][n])

\* The first of the stored candles, and the last one.
LEMMA StoredFacts ==
    ASSUME IngestTypes, stored # {}
    PROVE  /\ MinStored \in stored /\ \A c \in stored : MinStored <= c
           /\ MaxStored \in stored /\ \A c \in stored : c <= MaxStored
<1> USE DEF IngestTypes
<1>1. PICK x \in stored : \A y \in stored : x <= y
  BY Smallest
<1>2. MinStored \in stored /\ \A c \in stored : MinStored <= c
  BY <1>1 DEF MinStored, Min
<1> DEFINE T == {clock - c : c \in stored}
<1>3. T \in SUBSET Nat /\ T # {}
  OBVIOUS
<1>4. PICK t \in T : \A y \in T : t <= y
  <2> HIDE DEF T
  <2> QED
    BY <1>3, Smallest
<1>5. PICK z \in stored : t = clock - z
  OBVIOUS
<1>6. ASSUME NEW y \in stored
      PROVE  z >= y
  <2>1. clock - y \in T
    OBVIOUS
  <2>2. clock - z <= clock - y
    BY <1>4, <1>5, <2>1
  <2> QED
    BY <2>2, IngestionAssumption
<1>7. MaxStored \in stored /\ \A c \in stored : MaxStored >= c
  BY <1>6 DEF MaxStored, Max
<1> QED
  BY <1>2, <1>7

\* No hole but what a plan has left out.
LEMMA NoHoleMeansExcused ==
    ASSUME IngestInv
    PROVE  HolesAreExcused
<1>1. ASSUME NEW c \in Holes
      PROVE  c \in excused
  <2>1. c \in Nat /\ stored # {} /\ c \in MinStored..MaxStored /\ c \notin stored
    BY IngestionAssumption DEF Holes, Candles, MinStored, MaxStored
  <2>2. MinStored \in stored /\ MaxStored \in stored
    BY <2>1, StoredFacts DEF IngestInv
  <2> QED
    BY <2>1, <2>2 DEF IngestInv, NoHole, IngestTypes
<1> QED
  BY <1>1 DEF HolesAreExcused, IngestInv, IngestTypes

\* No candle, no plan and no promise at the start (Candle).
LEMMA IngestInitially == IngestInit => IngestInv
<1> SUFFICES ASSUME IngestInit
             PROVE  IngestInv
  OBVIOUS
<1>1. IngestTypes
  BY IngestionAssumption DEF IngestInit, IngestTypes, NoPlan
<1> QED
  BY <1>1 DEF IngestInit, IngestInv, NoHole, NoPlan

-----------------------------------------------------------------------------
\* What a plan's ranges start behind is stored, or the plan leaves it out.
LEMMA PlanFacts ==
    ASSUME IngestInv, NEW start \in Nat \ {0}
    PROVE  /\ Plan(start) \in Seq(Ranges)
           /\ \A n \in DOMAIN Plan(start) :
                 LET r == Plan(start)[n]
                 IN  IF stored = {} THEN 1..r.since - 1 \subseteq Excuses(start)
                     ELSE /\ MinStored..r.since - 1 \subseteq stored \cup excused \cup Excuses(start)
                          /\ r.since..MinStored - 1 \subseteq Excuses(start)
<1> DEFINE from == ForwardFrom(start)
           h == Span(start, MinStored - 1, MinStored - 1)
           f == Span(from, clock, clock + 1)
           Good(r) == IF stored = {} THEN 1..r.since - 1 \subseteq Excuses(start)
                      ELSE /\ MinStored..r.since - 1 \subseteq stored \cup excused \cup Excuses(start)
                           /\ r.since..MinStored - 1 \subseteq Excuses(start)
<1>0. IngestTypes /\ clock \in Nat /\ stored \subseteq Nat \ {0}
  BY IngestionAssumption DEF IngestInv, IngestTypes
<1>1. stored # {} => /\ MinStored \in Nat \ {0} /\ MaxStored \in Nat \ {0} /\ MinStored <= MaxStored
                     /\ MinStored \in stored /\ MaxStored \in stored
  BY <1>0, StoredFacts
<1>2. from \in Nat \ {0} /\ f \in Ranges
  BY <1>0, <1>1 DEF ForwardFrom, Span, Ranges
<1>3. (stored # {} /\ start < MinStored) => h \in Ranges
  BY <1>1 DEF Span, Ranges
<1>4. Good(f)
  <2>1. CASE stored = {}
    BY <2>1 DEF ForwardFrom, Span, Excuses
  <2>2. CASE stored # {}
    <3>1. f.since = from /\ from > MaxStored
      BY <1>1, <2>2 DEF ForwardFrom, Span
    <3>2. ASSUME NEW c \in MinStored..from - 1
          PROVE  c \in stored \cup excused \cup Excuses(start)
      <4>1. CASE c <= MaxStored
        BY <1>1, <1>2, <2>2, <4>1 DEF IngestInv, NoHole
      <4>2. CASE c > MaxStored
        BY <1>1, <1>2, <2>2, <4>2 DEF ForwardFrom, Excuses
      <4> QED
        BY <1>1, <1>2, <2>2, <4>1, <4>2
    <3>3. from..MinStored - 1 = {}
      BY <1>1, <1>2, <2>2, <3>1
    <3> QED
      BY <2>2, <3>1, <3>2, <3>3
  <2> QED
    BY <2>1, <2>2
<1>5. (stored # {} /\ start < MinStored) => Good(h)
  BY <1>1 DEF Span, Excuses
<1> DEFINE history == stored # {} /\ start < MinStored
<1>6. Plan(start) = (IF history THEN <<h>> ELSE <<>>) \o (IF from <= clock THEN <<f>> ELSE <<>>)
  BY DEF Plan
<1>7. /\ history => h \in Ranges /\ Good(h)
      /\ f \in Ranges /\ Good(f)
  BY <1>2, <1>3, <1>4, <1>5
<1> HIDE DEF h, f, from, Good, history
<1> DEFINE GR == {r \in Ranges : Good(r)}
           A == IF history THEN <<h>> ELSE <<>>
           B == IF from <= clock THEN <<f>> ELSE <<>>
<1>8. A \in Seq(GR) /\ B \in Seq(GR)
  <2>1. (history => h \in GR) /\ f \in GR
    BY <1>7
  <2> HIDE DEF GR
  <2>2. \A x \in GR : <<x>> \in Seq(GR)
    OBVIOUS
  <2>3. <<>> \in Seq(GR)
    OBVIOUS
  <2> QED
    BY <2>1, <2>2, <2>3
<1>9. Plan(start) = A \o B
  BY <1>6
<1>10. Plan(start) \in Seq(GR)
  <2> HIDE DEF A, B, GR
  <2> QED
    BY <1>8, <1>9, ConcatProperties
<1>11. Plan(start) \in Seq(Ranges) /\ \A n \in DOMAIN Plan(start) : Good(Plan(start)[n])
  BY <1>10
<1> QED
  BY <1>11 DEF Good

\* A plan is made of good ranges and excuses what they leave out.
LEMMA BackfillKeeps ==
    ASSUME IngestInv, NEW i \in Ingesters, NEW start \in Nat \ {0}, Backfill(i, start)
    PROVE  IngestInv'
<1>1. IngestTypes'
  BY PlanFacts DEF Backfill, IngestInv, IngestTypes
<1>2. NoHole'
  BY DEF Backfill, IngestInv, NoHole
<1>3. ASSUME NEW j \in Ingesters, NEW n \in DOMAIN ingest'[j]
      PROVE  Passed(ingest[j][n])'
  <2>1. CASE j = i
    <3> DEFINE r == Plan(start)[n]
    <3>1. ingest'[j] = Plan(start) /\ stored' = stored /\ excused' = excused \cup Excuses(start)
      BY <2>1 DEF Backfill, IngestInv, IngestTypes
    <3>2. IF stored = {} THEN 1..r.since - 1 \subseteq Excuses(start)
          ELSE /\ MinStored..r.since - 1 \subseteq stored \cup excused \cup Excuses(start)
               /\ r.since..MinStored - 1 \subseteq Excuses(start)
      BY <1>3, <3>1, PlanFacts
    <3> QED
      BY <3>1, <3>2 DEF Passed, MinStored
  <2>2. CASE j # i
    <3>1. ingest'[j] = ingest[j] /\ stored' = stored /\ excused \subseteq excused'
      BY <2>2 DEF Backfill, IngestInv, IngestTypes
    <3>2. Passed(ingest[j][n])
      BY <1>3, <3>1 DEF IngestInv
    <3> QED
      BY <3>1, <3>2 DEF Passed, MinStored
  <2> QED
    BY <2>1, <2>2
<1> QED
  BY <1>1, <1>2, <1>3 DEF IngestInv

-----------------------------------------------------------------------------
\* The candles of a page that are stored follow each other from its first.
LEMMA PageFacts ==
    ASSUME IngestTypes, NEW r \in Ranges,
           NEW C, C = {c \in r.since..r.since + PageLimit - 1 : c <= r.last /\ c < clock},
           C # {}
    PROVE  Max(C) \in Nat /\ C = r.since..Max(C) /\ r.since <= Max(C) /\ Max(C) < clock
<1> DEFINE a == r.since
           m == CHOOSE x \in {a + PageLimit - 1, r.last, clock - 1} :
                    x <= a + PageLimit - 1 /\ x <= r.last /\ x <= clock - 1
<1>1. a \in Nat \ {0} /\ r.last \in Int /\ clock \in Nat /\ PageLimit \in Nat
  BY IngestionAssumption DEF IngestTypes, Ranges
<1>2. \E x \in {a + PageLimit - 1, r.last, clock - 1} :
         x <= a + PageLimit - 1 /\ x <= r.last /\ x <= clock - 1
  BY <1>1
<1>3. m \in Int /\ m <= a + PageLimit - 1 /\ m <= r.last /\ m <= clock - 1
      /\ m \in {a + PageLimit - 1, r.last, clock - 1}
  BY <1>1, <1>2
<1> HIDE DEF m
<1>4. m \in C /\ \A y \in C : m >= y
  BY <1>1, <1>3
<1>5. Max(C) \in C /\ \A y \in C : Max(C) >= y
  BY <1>4 DEF Max
<1> DEFINE b == Max(C)
<1> HIDE DEF b
<1>6. b \in C /\ \A y \in C : b >= y
  BY <1>5 DEF b
<1>7. b \in Nat /\ C = a..b /\ a <= b /\ b < clock
  BY <1>1, <1>6
<1> QED
  BY <1>7 DEF b

\* Storing what follows a range's start leaves every range with nothing behind it.
LEMMA StoringFills ==
    ASSUME IngestTypes, NoHole, NEW a \in Nat \ {0}, NEW b \in Nat, a <= b, b < clock,
           stored' = stored \cup a..b, excused' = excused, clock' = clock,
           NEW r \in Ranges, Passed(r), r.since = a
    PROVE  /\ NoHole'
           /\ \A q \in Ranges : Passed(q) => Passed(q)'
           /\ \A q \in Ranges : q.since = b + 1 => Passed(q)'
<1>1. clock \in Nat /\ stored \subseteq Nat \ {0} /\ a \in stored' /\ b \in stored'
  BY IngestionAssumption DEF IngestTypes
<1>3. (MinStored \in stored /\ \A c \in stored : MinStored <= c)'
  <2>1. \E x \in stored' : \A y \in stored' : x <= y
    <3>1. stored' \in SUBSET Nat /\ stored' # {}
      BY <1>1
    <3> QED
      BY <3>1, Smallest
  <2> QED
    BY <2>1 DEF MinStored, Min
<1> DEFINE new == MinStored'
           old == MinStored
<1>4. new \in stored' /\ new \in Nat \ {0} /\ new <= a /\ \A c \in stored' : new <= c
  BY <1>1, <1>3
<1>5. CASE stored = {}
  <2>1. new = a
    BY <1>1, <1>4, <1>5
  <2>2. 1..a - 1 \subseteq excused
    BY <1>5 DEF Passed
  <2>3. NoHole'
    BY <1>1, <1>5 DEF NoHole
  <2>4. ASSUME NEW q \in Ranges, Passed(q)
        PROVE  Passed(q)'
    BY <1>1, <1>5, <2>1, <2>2, <2>4 DEF Passed, Ranges
  <2>5. ASSUME NEW q \in Ranges, q.since = b + 1
        PROVE  Passed(q)'
    BY <1>1, <1>5, <2>1, <2>5 DEF Passed
  <2> QED
    BY <2>3, <2>4, <2>5
<1>6. CASE stored # {}
  <2>1. old \in stored /\ old \in Nat \ {0} /\ (\A c \in stored : old <= c) /\ new <= old
    BY <1>1, <1>4, <1>6, StoredFacts
  <2>2. old..a - 1 \subseteq stored \cup excused /\ a..old - 1 \subseteq excused
    BY <1>6 DEF Passed
  <2>3. ASSUME NEW c \in Nat, NEW x \in stored', NEW y \in stored', x < c, c < y
        PROVE  c \in stored' \cup excused
    <3>1. CASE c \in a..b
      BY <3>1
    <3>2. CASE c < a
      <4>1. x \in stored
        BY <1>1, <2>3, <3>2
      <4>2. c \in old..a - 1
        BY <1>1, <2>1, <2>3, <3>2, <4>1
      <4> QED
        BY <2>2, <4>2
    <3>3. CASE c > b
      <4>1. y \in stored
        BY <1>1, <2>3, <3>3
      <4>2. CASE \E z \in stored : z < c
        BY <1>1, <2>3, <4>1, <4>2 DEF NoHole
      <4>3. CASE ~\E z \in stored : z < c
        <5>1. c <= old
          BY <1>1, <2>1, <4>3
        <5> QED
          BY <1>1, <2>1, <2>2, <3>3, <5>1
      <4> QED
        BY <4>2, <4>3
    <3> QED
      BY <1>1, <3>1, <3>2, <3>3
  <2>4. ASSUME NEW q \in Ranges, Passed(q)
        PROVE  Passed(q)'
    <3>1. q.since \in Nat
      BY DEF Ranges
    <3>2. old..q.since - 1 \subseteq stored \cup excused /\ q.since..old - 1 \subseteq excused
      BY <1>6, <2>4 DEF Passed
    <3>3. ASSUME NEW c \in new..q.since - 1
          PROVE  c \in stored' \cup excused
      <4>1. CASE c >= old
        BY <1>4, <2>1, <3>1, <3>2, <4>1
      <4>2. CASE c < old
        <5>1. c >= a
          BY <1>1, <1>4, <2>1, <3>1, <4>2
        <5> QED
          BY <1>4, <2>1, <2>2, <3>1, <4>2, <5>1
      <4> QED
        BY <1>4, <2>1, <3>1, <4>1, <4>2
    <3>4. q.since..new - 1 \subseteq excused
      BY <1>4, <2>1, <3>1, <3>2
    <3> QED
      BY <1>1, <3>3, <3>4 DEF Passed
  <2>5. ASSUME NEW q \in Ranges, q.since = b + 1
        PROVE  Passed(q)'
    <3> HIDE DEF new, old
    <3>1. ASSUME NEW c \in new..b
          PROVE  c \in stored' \cup excused
      <4>1. CASE c >= a
        <5>1. c \in a..b
          BY <1>4, <4>1
        <5> QED
          BY <5>1
      <4>2. CASE c < a
        <5>1. new \in stored
          BY <1>1, <1>4, <4>2
        <5>2. old <= new
          BY <2>1, <5>1
        <5>3. c \in old..a - 1
          BY <1>4, <2>1, <4>2, <5>2
        <5> QED
          BY <2>2, <5>3
      <4>3. c \in Int /\ a \in Int
        BY <1>4
      <4> QED
        BY <4>1, <4>2, <4>3
    <3>2. b + 1..new - 1 = {}
      BY <1>4
    <3>3. q.since - 1 = b
      BY <2>5
    <3>4. new..q.since - 1 \subseteq stored' \cup excused
      BY <3>1, <3>3
    <3>5. q.since..new - 1 \subseteq excused
      BY <2>5, <3>2
    <3> QED
      BY <1>1, <3>4, <3>5 DEF Passed, new
  <2> QED
    BY <1>1, <2>3, <2>4, <2>5 DEF NoHole
<1> QED
  BY <1>5, <1>6

\* A page that ends its range, or has nothing closed, only drops the range.
LEMMA DropKeeps ==
    ASSUME IngestInv, NEW i \in Ingesters, ingest[i] # NoPlan,
           ingest' = [ingest EXCEPT ![i] = Tail(@)],
           UNCHANGED <<clock, stored, excused>>
    PROVE  IngestInv'
<1>1. ingest \in [Ingesters -> Seq(Ranges)] /\ ingest[i] \in Seq(Ranges) /\ ingest[i] # <<>>
  BY DEF IngestInv, IngestTypes, NoPlan
<1>2. /\ Tail(ingest[i]) \in Seq(Ranges)
      /\ \A n \in DOMAIN Tail(ingest[i]) : n + 1 \in DOMAIN ingest[i] /\ Tail(ingest[i])[n] = ingest[i][n + 1]
  BY <1>1, HeadTailProperties, LenProperties
<1>3. IngestTypes'
  BY <1>1, <1>2 DEF IngestInv, IngestTypes
<1>4. ASSUME NEW j \in Ingesters, NEW n \in DOMAIN ingest'[j]
      PROVE  Passed(ingest[j][n])'
  <2>1. \E m \in DOMAIN ingest[j] : ingest'[j][n] = ingest[j][m]
    BY <1>1, <1>2, <1>4
  <2>2. Passed(ingest'[j][n])
    BY <2>1 DEF IngestInv
  <2> QED
    BY <2>2 DEF Passed, MinStored
<1>5. NoHole'
  BY DEF IngestInv, NoHole
<1> QED
  BY <1>3, <1>4, <1>5 DEF IngestInv

\* A page that is stored moves its range past it.
LEMMA StoreKeeps ==
    ASSUME IngestInv, NEW i \in Ingesters, ingest[i] # NoPlan,
           NEW C, C # {},
           C = {c \in Head(ingest[i]).since..Head(ingest[i]).since + PageLimit - 1 :
                    c <= Head(ingest[i]).last /\ c < clock},
           ingest' = [ingest EXCEPT ![i] = <<[Head(ingest[i]) EXCEPT !.since = Max(C) + 1]>> \o Tail(@)],
           stored' = stored \cup C, UNCHANGED <<clock, excused>>
    PROVE  IngestInv'
<1> DEFINE r == Head(ingest[i])
           b == Max(C)
           q == [r EXCEPT !.since = b + 1]
           t == Tail(ingest[i])
<1>1. ingest \in [Ingesters -> Seq(Ranges)] /\ ingest[i] \in Seq(Ranges) /\ ingest[i] # <<>>
      /\ IngestTypes /\ NoHole
  BY DEF IngestInv, IngestTypes, NoPlan
<1>2. /\ r \in Ranges /\ 1 \in DOMAIN ingest[i] /\ r = ingest[i][1]
      /\ t \in Seq(Ranges)
      /\ \A n \in DOMAIN t : n + 1 \in DOMAIN ingest[i] /\ t[n] = ingest[i][n + 1]
  BY <1>1, HeadTailProperties, LenProperties, ElementOfSeq
<1>3. Passed(r)
  BY <1>2 DEF IngestInv
<1>4. b \in Nat /\ C = r.since..b /\ r.since <= b /\ b < clock
  BY <1>1, <1>2, PageFacts
<1> HIDE DEF b
<1>5. q \in Ranges /\ q.since = b + 1
  <2>1. r \in Ranges /\ b + 1 \in Nat \ {0}
    BY <1>2, <1>4
  <2> HIDE DEF r
  <2> QED
    BY <2>1 DEF Ranges
<1>6. r.since \in Nat \ {0}
  BY <1>2 DEF Ranges
<1>7. /\ NoHole'
      /\ \A x \in Ranges : Passed(x) => Passed(x)'
      /\ \A x \in Ranges : x.since = b + 1 => Passed(x)'
  <2> HIDE DEF r
  <2> QED
    BY <1>1, <1>2, <1>3, <1>4, <1>6, StoringFills
<1>8. ingest' = [ingest EXCEPT ![i] = <<q>> \o t]
  BY DEF b
<1> HIDE DEF q, t, r
<1>9. /\ <<q>> \o t \in Seq(Ranges)
      /\ \A n \in DOMAIN (<<q>> \o t) : (<<q>> \o t)[n] = q \/ \E m \in DOMAIN t : (<<q>> \o t)[n] = t[m]
  <2>1. <<q>> \in Seq(Ranges) /\ Len(<<q>>) = 1 /\ <<q>>[1] = q
    BY <1>5
  <2>2. /\ <<q>> \o t \in Seq(Ranges) /\ Len(<<q>> \o t) = 1 + Len(t)
        /\ \A n \in 1..1 + Len(t) : (<<q>> \o t)[n] = IF n <= 1 THEN <<q>>[n] ELSE t[n - 1]
    BY <1>2, <2>1, ConcatProperties
  <2>3. DOMAIN (<<q>> \o t) = 1..1 + Len(t) /\ DOMAIN t = 1..Len(t) /\ Len(t) \in Nat
    BY <1>2, <2>2, LenProperties
  <2>4. ASSUME NEW n \in 1..1 + Len(t)
        PROVE  (<<q>> \o t)[n] = q \/ \E m \in DOMAIN t : (<<q>> \o t)[n] = t[m]
    <3>1. CASE n = 1
      BY <2>1, <2>2, <3>1
    <3>2. CASE n # 1
      <4>1. n - 1 \in DOMAIN t /\ ~(n <= 1)
        BY <2>3, <3>2
      <4> QED
        BY <2>2, <4>1
    <3> QED
      BY <3>1, <3>2
  <2> QED
    BY <2>2, <2>3, <2>4
<1>10. IngestTypes'
  <2>1. ingest' \in [Ingesters -> Seq(Ranges)]
    BY <1>1, <1>8, <1>9
  <2>2. clock \in Nat /\ stored' \subseteq Nat \ {0} /\ \A c \in stored' : c < clock
    <3>1. clock \in Nat /\ stored \subseteq Nat \ {0} /\ \A c \in stored : c < clock
      BY <1>1, IngestionAssumption DEF IngestTypes
    <3>2. \A c \in C : c \in Nat \ {0} /\ c < clock
      BY <1>4, <1>6, <3>1
    <3> QED
      BY <3>1, <3>2
  <2> QED
    BY <1>1, <2>1, <2>2 DEF IngestTypes
<1>11. ASSUME NEW j \in Ingesters, NEW n \in DOMAIN ingest'[j]
       PROVE  Passed(ingest[j][n])'
  <2>1. ingest'[j][n] = q \/ \E m \in DOMAIN ingest[j] : ingest'[j][n] = ingest[j][m]
    <3>1. CASE j # i
      <4>1. ingest'[j] = ingest[j]
        BY <1>1, <1>8, <3>1
      <4> QED
        BY <1>11, <4>1
    <3>2. CASE j = i
      <4> DEFINE w == <<q>> \o t
      <4>1. ingest'[j] = w
        BY <1>1, <1>8, <3>2
      <4>2. w[n] = q \/ \E m \in DOMAIN t : w[n] = t[m]
        BY <1>9, <1>11, <4>1
      <4> QED
        BY <1>2, <3>2, <4>1, <4>2
    <3> QED
      BY <3>1, <3>2
  <2>2. \A m \in DOMAIN ingest[j] : ingest[j][m] \in Ranges /\ Passed(ingest[j][m])
    BY <1>1, ElementOfSeq, LenProperties DEF IngestInv
  <2> DEFINE x == ingest'[j][n]
  <2>3. x \in Ranges /\ (x.since = b + 1 \/ Passed(x))
    BY <1>5, <2>1, <2>2
  <2>4. \A y \in Ranges : y.since = b + 1 \/ Passed(y) => Passed(y)'
    BY <1>7
  <2>5. x = (ingest[j][n])'
    OBVIOUS
  <2> QED
    BY <2>3, <2>4, <2>5 DEF Passed
<1> QED
  BY <1>7, <1>10, <1>11 DEF IngestInv

\* A page stored, in part or whole, advances its range over nothing but
\* what it has stored (_backfill_range).
LEMMA PageKeeps ==
    ASSUME IngestInv, NEW i \in Ingesters, Page(i)
    PROVE  IngestInv'
<1> DEFINE r == Head(ingest[i])
           page == {c \in r.since..r.since + PageLimit - 1 : c <= r.last}
           C == Complete(page)
           done == r.since >= r.stop \/ C = {}
<1>1. CASE done
  <2>1. ingest' = [ingest EXCEPT ![i] = Tail(@)] /\ UNCHANGED <<clock, stored, excused>>
    BY <1>1 DEF Page
  <2> QED
    BY <2>1, DropKeeps DEF Page
<1>2. CASE ~done
  <2>1. C = {c \in r.since..r.since + PageLimit - 1 : c <= r.last /\ c < clock}
    BY DEF Complete
  <2>2. ingest' = [ingest EXCEPT ![i] = <<[r EXCEPT !.since = Max(C) + 1]>> \o Tail(@)]
    BY <1>2 DEF Page
  <2>3. stored' = stored \cup C /\ UNCHANGED <<clock, excused>>
    BY <1>2 DEF Page, Inserted, WithRows
  <2>4. C # {} /\ ingest[i] # NoPlan
    BY <1>2 DEF Page
  <2> HIDE DEF C
  <2> QED
    BY <2>1, <2>2, <2>3, <2>4, StoreKeeps
<1> QED
  BY <1>1, <1>2

\* The clock of a new candle, or an ingestion that is cut off.
LEMMA OthersKeep ==
    ASSUME IngestInv,
           CandleCloses \/ (\E i \in Ingesters : IngestFails(i)) \/ UNCHANGED <<clock, stored, ingest, excused>>
    PROVE  IngestInv'
<1>1. stored' = stored /\ excused' = excused
  BY DEF CandleCloses, IngestFails
<1>2. ingest' = ingest \/ \E i \in Ingesters : ingest' = [ingest EXCEPT ![i] = NoPlan]
  BY DEF CandleCloses, IngestFails
<1>3. clock' \in 1..MaxCandle /\ clock <= clock' /\ clock \in Nat /\ clock' \in Nat
  BY IngestionAssumption DEF CandleCloses, IngestFails, IngestInv, IngestTypes
<1>4. IngestTypes'
  <2>1. ingest' \in [Ingesters -> Seq(Ranges)]
    <3>1. ingest \in [Ingesters -> Seq(Ranges)] /\ NoPlan \in Seq(Ranges)
      BY DEF IngestInv, IngestTypes, NoPlan
    <3> QED
      BY <1>2, <3>1
  <2>2. stored \subseteq Nat \ {0} /\ \A c \in stored : c < clock
    BY DEF IngestInv, IngestTypes
  <2>3. stored' \subseteq Nat \ {0} /\ \A c \in stored' : c < clock'
    BY <1>1, <1>3, <2>2
  <2> QED
    BY <1>3, <2>1, <2>3 DEF IngestTypes
<1>5. ASSUME NEW j \in Ingesters, NEW n \in DOMAIN ingest'[j]
      PROVE  Passed(ingest[j][n])'
  <2>1. ingest'[j] = ingest[j]
    BY <1>2, <1>5 DEF IngestInv, IngestTypes, NoPlan
  <2> QED
    BY <1>1, <1>5, <2>1 DEF IngestInv, Passed, MinStored
<1> QED
  BY <1>1, <1>4, <1>5 DEF IngestInv, NoHole

\* Every step of the ingestion keeps its invariant.
LEMMA IngestStep ==
    ASSUME IngestInv, IngestNext \/ UNCHANGED <<clock, stored, ingest, excused>>
    PROVE  IngestInv'
<1>1. CASE CandleCloses \/ (\E i \in Ingesters : IngestFails(i)) \/ UNCHANGED <<clock, stored, ingest, excused>>
  BY <1>1, OthersKeep
<1>2. CASE JobTick
  <2> DEFINE s == Max({1, clock - Lookback})
  <2>1. clock \in Nat /\ Lookback \in Nat
    BY IngestionAssumption DEF IngestInv, IngestTypes
  <2>2. \E x \in {1, clock - Lookback} : \A y \in {1, clock - Lookback} : x >= y
    BY <2>1
  <2>3. s \in {1, clock - Lookback} /\ s >= 1
    BY <2>2 DEF Max
  <2>4. s \in Nat \ {0} /\ Job \in Ingesters /\ Backfill(Job, s)
    BY <1>2, <2>1, <2>3 DEF Ingesters, JobTick
  <2> HIDE DEF s
  <2> QED
    BY <2>4, BackfillKeeps
<1>3. CASE ScriptRuns
  <2>1. PICK start \in Scripts : Backfill(Script, start)
    BY <1>3 DEF ScriptRuns
  <2>2. start \in Nat \ {0} /\ Script \in Ingesters
    BY IngestionAssumption DEF Ingesters
  <2> QED
    BY <2>1, <2>2, BackfillKeeps
<1>4. CASE \E i \in Ingesters : Page(i)
  BY <1>4, PageKeeps
<1> QED
  BY <1>1, <1>2, <1>3, <1>4 DEF IngestNext

\* The invariant of the ingestion holds throughout the pipeline.
LEMMA IngestInvariance == PipelineSpec => []IngestInv
<1>1. PipelineInit => IngestInv
  BY IngestInitially DEF PipelineInit
<1>2. IngestInv /\ [PipelineNext]_pipelineVars => IngestInv'
  <2> SUFFICES ASSUME IngestInv, [PipelineNext]_pipelineVars
               PROVE  IngestInv'
    OBVIOUS
  <2>1. IngestNext \/ UNCHANGED <<clock, stored, ingest, excused>>
    BY DEF PipelineNext, Ingestion, PathStep, PathFails, Load, Ask, Insert, Notify, NotifyFails, Alert,
           pipelineVars, ingestVars
  <2> QED
    BY <2>1, IngestStep
<1> QED
  BY <1>1, <1>2, PTL DEF PipelineSpec

(* The candles that are missing between stored ones are those some plan has
   left out, and no forming candle is stored (ingestion.py:196). *)
THEOREM HolesAreLeftOut == PipelineSpec => []HolesAreExcused
<1>1. IngestInv => HolesAreExcused
  BY NoHoleMeansExcused
<1> QED
  BY <1>1, IngestInvariance, PTL

-----------------------------------------------------------------------------
(* Signals: what a path has asked and not inserted, or inserted and not    *)
(* alerted, is counted with the rows.                                      *)

Runs == [candle : Nat, todo : Seq(Strategies), asked : BOOLEAN, held : Seq(Strategies)]

SignalTypes ==
    /\ rows \in [Keys -> Nat]
    /\ logged \in [Keys -> Nat] /\ sent \in [Keys -> Nat] /\ missed \in [Keys -> Nat]
    /\ path \in [Paths -> Runs]
    /\ \A p \in Paths : path[p] # Idle => path[p].candle \in Candles

\* Only the closed-candle path looks for other strategies than the baseline.
Asked(p) ==
    /\ path[p].asked => path[p].todo # <<>> /\ Key(p) \notin Held(p)
    /\ p # "closed" => \A n \in DOMAIN path[p].todo : path[p].todo[n] = Baseline

\* What a path holds is a row of its own, once.
Holding(p) ==
    /\ \A m, n \in DOMAIN path[p].held : path[p].held[m] = path[p].held[n] => m = n
    /\ \A k \in Held(p) : rows[k] >= 1

Holders(k) == {p \in Paths : k \in Held(p)}

\* The rows there are and those about to be: one, unless two paths have asked
\* before either inserted, and never more than the paths.
Counted(k) ==
    /\ k \notin raced => rows[k] + Cardinality(Asking(k)) <= 1
    /\ rows[k] >= 1 => rows[k] + Cardinality(Asking(k)) <= Cardinality(Paths)
    /\ k[1] # Baseline => k \notin raced

\* Every row is logged, held by a path that will alert it, or lost; those held
\* have not been offered to Telegram.
Accounted(k) ==
    /\ sent[k] + missed[k] + Cardinality(Holders(k)) <= rows[k]
    /\ logged[k] <= sent[k] + missed[k]
    /\ k \notin lost => logged[k] + Cardinality(Holders(k)) = rows[k]

SignalInv ==
    /\ SignalTypes
    /\ \A p \in Paths : Asked(p) /\ Holding(p)
    /\ \A k \in Keys : Counted(k) /\ Accounted(k)

\* The candle and the first strategy of a path that has one.
LEMMA KeyFacts ==
    ASSUME SignalTypes, NEW p \in Paths, path[p].todo # <<>>
    PROVE  Key(p) \in Keys /\ Head(path[p].todo) \in Strategies /\ path[p].candle \in Candles
<1>1. path[p] \in Runs /\ path[p] # Idle
  BY DEF SignalTypes, Idle
<1>2. path[p].candle \in Candles
  BY <1>1 DEF SignalTypes
<1>3. Head(path[p].todo) \in Strategies
  BY <1>1, HeadTailProperties DEF Runs
<1> QED
  BY <1>2, <1>3 DEF Key, Keys

\* A row or two more or less in one path's hands.
LEMMA HoldersEffect ==
    ASSUME NEW p \in Paths, \A q \in Paths \ {p} : Held(q)' = Held(q), NEW k
    PROVE  /\ Cardinality(Holders(k)) \in Nat
           /\ (k \in Held(p)' <=> k \in Held(p)) => Cardinality(Holders(k)') = Cardinality(Holders(k))
           /\ k \in Held(p)' /\ k \notin Held(p) => Cardinality(Holders(k)') = Cardinality(Holders(k)) + 1
           /\ k \notin Held(p)' /\ k \in Held(p) => Cardinality(Holders(k)') = Cardinality(Holders(k)) - 1
<1> DEFINE H == Holders(k)
           G == Holders(k)'
<1>1. H \subseteq Paths /\ G \subseteq Paths
  BY DEF Holders
<1>2. IsFiniteSet(H) /\ IsFiniteSet(G) /\ Cardinality(H) \in Nat /\ Cardinality(G) \in Nat
  BY <1>1, PipelineAssumption, FS_Subset, FS_CardinalityType
<1>3. (p \in H <=> k \in Held(p)) /\ (p \in G <=> k \in Held(p)') /\ H \ {p} = G \ {p}
  BY DEF Holders
<1> HIDE DEF H, G
<1>4. (p \in H <=> p \in G) => G = H
  BY <1>3
<1>5. p \in G /\ p \notin H => G = H \cup {p}
  BY <1>3
<1>6. p \notin G /\ p \in H => G = H \ {p}
  BY <1>3
<1>7. p \in G /\ p \notin H => Cardinality(G) = Cardinality(H) + 1
  BY <1>2, <1>5, FS_AddElement
<1>8. p \notin G /\ p \in H => Cardinality(G) = Cardinality(H) - 1
  BY <1>2, <1>6, FS_RemoveElement
<1> QED
  BY <1>2, <1>3, <1>4, <1>7, <1>8 DEF H, G

\* One path more or less between its question and its insert.
LEMMA AskingEffect ==
    ASSUME NEW p \in Paths, \A q \in Paths \ {p} : path'[q] = path[q], NEW k
    PROVE  /\ Cardinality(Asking(k)) \in Nat /\ Cardinality(Asking(k)') \in Nat
           /\ (p \in Asking(k)' <=> p \in Asking(k)) => Asking(k)' = Asking(k)
           /\ p \in Asking(k)' /\ p \notin Asking(k) => Cardinality(Asking(k)') = Cardinality(Asking(k)) + 1
           /\ p \notin Asking(k)' /\ p \in Asking(k) => Cardinality(Asking(k)') = Cardinality(Asking(k)) - 1
<1> DEFINE A == Asking(k)
           B == Asking(k)'
<1>1. A \subseteq Paths /\ B \subseteq Paths
  BY DEF Asking
<1>2. IsFiniteSet(A) /\ IsFiniteSet(B) /\ Cardinality(A) \in Nat /\ Cardinality(B) \in Nat
  BY <1>1, PipelineAssumption, FS_Subset, FS_CardinalityType
<1>3. A \ {p} = B \ {p}
  <2>1. ASSUME NEW q \in Paths \ {p}
        PROVE  q \in A <=> q \in B
    <3>1. Key(q)' = Key(q) /\ path'[q] = path[q]
      BY DEF Key
    <3> QED
      BY <3>1 DEF Asking
  <2> QED
    BY <1>1, <2>1
<1> HIDE DEF A, B
<1>4. (p \in A <=> p \in B) => B = A
  BY <1>3
<1>5. p \in B /\ p \notin A => B = A \cup {p}
  BY <1>3
<1>6. p \notin B /\ p \in A => B = A \ {p}
  BY <1>3
<1>7. p \in B /\ p \notin A => Cardinality(B) = Cardinality(A) + 1
  BY <1>2, <1>5, FS_AddElement
<1>8. p \notin B /\ p \in A => Cardinality(B) = Cardinality(A) - 1
  BY <1>2, <1>6, FS_RemoveElement
<1> QED
  BY <1>2, <1>4, <1>7, <1>8 DEF A, B

\* A path that is not waiting to insert adds to no count.
LEMMA CountedStays ==
    ASSUME SignalInv, NEW p \in Paths, NEW x, path' = [path EXCEPT ![p] = x],
           rows' = rows, raced' = raced, x.asked = FALSE
    PROVE  \A k \in Keys : Counted(k)'
<1>1. path'[p] = x /\ \A q \in Paths \ {p} : path'[q] = path[q]
  BY DEF SignalInv, SignalTypes
<1>2. ASSUME NEW k \in Keys
      PROVE  Counted(k)'
  <2> DEFINE n == Cardinality(Asking(k))
             m == Cardinality(Asking(k)')
  <2>1. p \notin Asking(k)'
    BY <1>1 DEF Asking
  <2>2. n \in Nat /\ m \in Nat /\ m <= n
    <3>1. n \in Nat /\ m \in Nat
      BY <1>1, AskingEffect
    <3>2. CASE p \in Asking(k)
      <4>1. m = n - 1
        BY <1>1, <2>1, <3>2, AskingEffect
      <4> QED
        BY <3>1, <4>1
    <3>3. CASE p \notin Asking(k)
      <4>1. Asking(k)' = Asking(k)
        BY <1>1, <2>1, <3>3, AskingEffect
      <4> QED
        BY <3>1, <4>1
    <3> QED
      BY <3>1, <3>2, <3>3
  <2>3. rows[k] \in Nat /\ Cardinality(Paths) \in Nat /\ Counted(k)
    BY PipelineAssumption, FS_CardinalityType DEF SignalInv, SignalTypes
  <2>4. /\ k \notin raced => rows[k] + n <= 1
        /\ rows[k] >= 1 => rows[k] + n <= Cardinality(Paths)
        /\ k[1] # Baseline => k \notin raced
    BY <2>3 DEF Counted
  <2> HIDE DEF n, m
  <2>5. /\ k \notin raced => rows[k] + m <= 1
        /\ rows[k] >= 1 => rows[k] + m <= Cardinality(Paths)
    BY <2>2, <2>3, <2>4
  <2> QED
    BY <2>4, <2>5 DEF Counted, m
<1> QED
  BY <1>2

\* A step of one path leaves the others as they were.
LEMMA OthersStay ==
    ASSUME SignalInv, NEW p \in Paths, NEW x, path' = [path EXCEPT ![p] = x],
           rows' = rows, NEW q \in Paths, q # p
    PROVE  Asked(q)' /\ Holding(q)' /\ Held(q)' = Held(q)
<1>1. path'[q] = path[q]
  BY DEF SignalInv, SignalTypes
<1>2. Held(q)' = Held(q) /\ Key(q)' = Key(q)
  BY <1>1 DEF Held, Key
<1>3. Asked(q) /\ Holding(q)
  BY DEF SignalInv
<1>4. Asked(q)'
  BY <1>1, <1>2, <1>3 DEF Asked
<1>5. Holding(q)'
  BY <1>1, <1>2, <1>3 DEF Holding
<1> QED
  BY <1>2, <1>4, <1>5

\* A step that inserts and alerts nothing loses what it lets go.
LEMMA QuietKeeps ==
    ASSUME SignalInv, SignalTypes', NEW p \in Paths, NEW x, path' = [path EXCEPT ![p] = x],
           rows' = rows, logged' = logged, sent' = sent, missed' = missed, \A k \in Keys : Counted(k)',
           Asked(p)', Holding(p)', Held(p)' \subseteq Held(p), lost' = lost \cup (Held(p) \ Held(p)')
    PROVE  SignalInv'
<1>1. \A q \in Paths \ {p} : Asked(q)' /\ Holding(q)' /\ Held(q)' = Held(q)
  BY OthersStay
<1>3. ASSUME NEW k \in Keys
      PROVE  Accounted(k)'
  <2> DEFINE n == Cardinality(Holders(k))
             m == Cardinality(Holders(k)')
  <2>1. /\ n \in Nat
        /\ (k \in Held(p)' <=> k \in Held(p)) => m = n
        /\ k \notin Held(p)' /\ k \in Held(p) => m = n - 1
    BY <1>1, HoldersEffect
  <2>2. logged[k] \in Nat /\ sent[k] \in Nat /\ missed[k] \in Nat /\ rows[k] \in Nat /\ Accounted(k)
    BY DEF SignalInv, SignalTypes
  <2>3. CASE k \in Held(p)' <=> k \in Held(p)
    BY <2>1, <2>2, <2>3 DEF Accounted
  <2>4. CASE k \notin Held(p)' /\ k \in Held(p)
    BY <2>1, <2>2, <2>4 DEF Accounted
  <2> QED
    BY <2>3, <2>4
<1> QED
  BY <1>1, <1>3 DEF SignalInv

\* No row, no alert and no run at the start.
LEMMA SignalInitially == PipelineInit => SignalInv
<1> SUFFICES ASSUME PipelineInit
             PROVE  SignalInv
  OBVIOUS
<1>1. Idle \in Runs /\ Idle.todo = <<>> /\ Idle.held = <<>> /\ Idle.asked = FALSE
  BY DEF Idle, Runs
<1>2. \A p \in Paths : path[p] = Idle
  BY DEF PipelineInit
<1>3. SignalTypes
  BY <1>1, <1>2 DEF PipelineInit, SignalTypes
<1>4. \A p \in Paths : Held(p) = {} /\ Asked(p)
  BY <1>1, <1>2 DEF Held, Asked
<1>5. \A p \in Paths : Holding(p)
  BY <1>1, <1>2, <1>4 DEF Holding
<1>6. ASSUME NEW k \in Keys
      PROVE  Counted(k) /\ Accounted(k)
  <2>1. Holders(k) = {} /\ Asking(k) = {}
    BY <1>1, <1>2, <1>4 DEF Holders, Asking
  <2>2. Cardinality(Holders(k)) = 0 /\ Cardinality(Asking(k)) = 0
    BY <2>1, FS_EmptySet
  <2>3. rows[k] = 0 /\ logged[k] = 0 /\ sent[k] = 0 /\ missed[k] = 0 /\ raced = {} /\ lost = {}
    BY DEF PipelineInit
  <2>4. Counted(k)
    BY <2>2, <2>3 DEF Counted
  <2>5. Accounted(k)
    BY <2>2, <2>3 DEF Accounted
  <2> QED
    BY <2>4, <2>5
<1> QED
  BY <1>3, <1>4, <1>5, <1>6 DEF SignalInv

\* What has been found is a list of strategies.
LEMMA FindingsType == Findings \subseteq Seq(Strategies) \ {<<>>}
<1>1. ASSUME NEW n \in 1..Len(Registry), NEW f \in [1..n -> DOMAIN Registry]
      PROVE  [m \in DOMAIN f |-> Registry[f[m]]] \in Seq(Strategies) \ {<<>>}
  <2>1. n \in Nat \ {0} /\ DOMAIN f = 1..n
    BY <1>1, PipelineAssumption, LenProperties
  <2>2. \A m \in 1..n : Registry[f[m]] \in Strategies
    BY DEF Strategies
  <2> DEFINE t == [m \in DOMAIN f |-> Registry[f[m]]]
  <2>3. t \in [1..n -> Strategies]
    BY <2>1, <2>2
  <2>4. t \in Seq(Strategies) /\ Len(t) = n
    BY <2>1, <2>3
  <2> QED
    BY <2>1, <2>4
<1> QED
  BY <1>1 DEF Findings

\* A path that is idle again holds nothing.
LEMMA IdleFacts ==
    ASSUME NEW p \in Paths, path[p] = Idle
    PROVE  Held(p) = {} /\ Asked(p) /\ Holding(p)
<1>1. Held(p) = {} /\ path[p].held = <<>> /\ path[p].todo = <<>> /\ path[p].asked = FALSE
  BY DEF Held, Idle
<1> QED
  BY <1>1 DEF Asked, Holding

\* Nothing is put back: a path with an empty list of strategies and rows is Idle.
LEMMA EndKeeps ==
    ASSUME SignalInv, NEW p \in Paths, path' = [path EXCEPT ![p] = Idle],
           rows' = rows, alerts' = alerts, raced' = raced, lost' = lost \cup Held(p)
    PROVE  SignalInv'
<1>0. logged' = logged /\ sent' = sent /\ missed' = missed
  BY DEF alerts
<1>1. path'[p] = Idle /\ Idle \in Runs
  BY DEF SignalInv, SignalTypes, Idle, Runs
<1>2. Held(p)' = {} /\ Asked(p)' /\ Holding(p)'
  <2>1. Held(p)' = {} /\ path'[p].held = <<>> /\ path'[p].todo = <<>> /\ path'[p].asked = FALSE
    BY <1>1 DEF Held, Idle
  <2> QED
    BY <2>1 DEF Asked, Holding
<1>3. SignalTypes'
  BY <1>0, <1>1 DEF SignalInv, SignalTypes
<1>4. \A k \in Keys : Counted(k)'
  <2>1. Idle.asked = FALSE
    BY DEF Idle
  <2> QED
    BY <2>1, CountedStays
<1> QED
  BY <1>0, <1>2, <1>3, <1>4, QuietKeeps

\* A path keeps its type.
LEMMA TypesStay ==
    ASSUME SignalTypes, NEW p \in Paths, NEW x \in Runs, x.candle \in Candles,
           path' = [path EXCEPT ![p] = x], rows' \in [Keys -> Nat],
           logged' \in [Keys -> Nat], sent' \in [Keys -> Nat], missed' \in [Keys -> Nat]
    PROVE  SignalTypes' /\ path'[p] = x
<1>1. path' \in [Paths -> Runs] /\ path'[p] = x
  BY DEF SignalTypes
<1>2. ASSUME NEW q \in Paths, path'[q] # Idle
      PROVE  path'[q].candle \in Candles
  <2>1. CASE q = p
    BY <1>1, <2>1
  <2>2. CASE q # p
    BY <1>2, <2>2 DEF SignalTypes
  <2> QED
    BY <2>1, <2>2
<1> QED
  BY <1>1, <1>2 DEF SignalTypes

\* The updates of a path's record.
LEMMA RunAsked ==
    ASSUME NEW r \in Runs, NEW x, x = [r EXCEPT !.asked = TRUE]
    PROVE  x \in Runs /\ x.candle = r.candle /\ x.todo = r.todo /\ x.asked = TRUE /\ x.held = r.held
<1>1. r \in [candle : Nat, todo : Seq(Strategies), asked : BOOLEAN, held : Seq(Strategies)]
  BY DEF Runs
<1> QED
  BY <1>1 DEF Runs

\* A run that has found something (evaluate_all_strategies_for_timeframe).
LEMMA RunFound ==
    ASSUME NEW c \in Nat, NEW t \in Seq(Strategies), NEW x, x = Finding(c, t)
    PROVE  x \in Runs /\ x.candle = c /\ x.todo = t /\ x.asked = FALSE /\ x.held = <<>>
<1> DEFINE i == Idle
<1>1. i \in [candle : Nat, todo : Seq(Strategies), asked : BOOLEAN, held : Seq(Strategies)]
      /\ i.asked = FALSE /\ i.held = <<>>
  BY DEF Idle
<1> HIDE DEF i
<1>2. x = [i EXCEPT !.candle = c, !.todo = t]
  BY DEF i, Finding
<1> QED
  BY <1>1, <1>2 DEF Runs

\* A run that has done with a strategy.
LEMMA RunNext ==
    ASSUME NEW r \in Runs, r.todo # <<>>, NEW x, x = Skipped(r)
    PROVE  x \in Runs /\ x.candle = r.candle /\ x.todo = Tail(r.todo) /\ x.asked = r.asked /\ x.held = r.held
<1>1. r \in [candle : Nat, todo : Seq(Strategies), asked : BOOLEAN, held : Seq(Strategies)]
  BY DEF Runs
<1>2. Tail(r.todo) \in Seq(Strategies)
  BY <1>1, HeadTailProperties
<1> QED
  BY <1>1, <1>2 DEF Runs, Skipped

\* A run that has sent the alert of its oldest row (notify_new_signal).
LEMMA RunAlerted ==
    ASSUME NEW r \in Runs, r.held # <<>>, NEW x, x = Alerting(r)
    PROVE  x \in Runs /\ x.candle = r.candle /\ x.todo = r.todo /\ x.asked = r.asked /\ x.held = Tail(r.held)
<1>1. r \in [candle : Nat, todo : Seq(Strategies), asked : BOOLEAN, held : Seq(Strategies)]
  BY DEF Runs
<1>2. Tail(r.held) \in Seq(Strategies)
  BY <1>1, HeadTailProperties
<1> QED
  BY <1>1, <1>2 DEF Runs, Alerting

\* A run that has inserted a row (_persist_new_signal).
LEMMA RunInserted ==
    ASSUME NEW r \in Runs, r.todo # <<>>, NEW x, x = Inserting(r)
    PROVE  /\ x \in Runs /\ x.candle = r.candle /\ x.todo = Tail(r.todo)
           /\ x.asked = FALSE /\ x.held = Append(r.held, Head(r.todo))
<1> DEFINE y == Skipped(r)
<1>1. y \in Runs /\ y.candle = r.candle /\ y.todo = Tail(r.todo) /\ y.held = r.held
  BY RunNext
<1>2. Head(r.todo) \in Strategies
  BY HeadTailProperties DEF Runs
<1> HIDE DEF y
<1>3. y \in [candle : Nat, todo : Seq(Strategies), asked : BOOLEAN, held : Seq(Strategies)]
  BY <1>1 DEF Runs
<1>4. Append(r.held, Head(r.todo)) \in Seq(Strategies)
  BY <1>1, <1>2, <1>3, AppendProperties
<1>5. x = [y EXCEPT !.asked = FALSE, !.held = Append(@, Head(r.todo))]
  BY DEF Inserting, y
<1> QED
  BY <1>1, <1>3, <1>4, <1>5 DEF Runs

\* A run that starts has asked for nothing and holds nothing.
LEMMA LoadKeeps ==
    ASSUME IngestInv, SignalInv, NEW p \in Paths, Load(p)
    PROVE  SignalInv'
<1>1. PICK found \in Findings :
         /\ p # "closed" => \A n \in DOMAIN found : found[n] = Baseline
         /\ path' = [path EXCEPT ![p] = Finding(CandleOf(p), found)]
  BY DEF Load
<1> DEFINE x == Finding(CandleOf(p), found)
<1>2. path' = [path EXCEPT ![p] = x]
  BY <1>1
<1>3. CandleOf(p) \in Candles
  <2>1. clock \in Candles /\ Newest \in stored
    BY StoredFacts DEF IngestInv, IngestTypes, Load, Candles, Newest, MaxStored
  <2>2. stored \subseteq Candles
    BY IngestionAssumption DEF IngestInv, IngestTypes, Candles
  <2> QED
    BY <2>1, <2>2 DEF CandleOf
<1>4. found \in Seq(Strategies)
  BY FindingsType
<1>5. x \in Runs /\ x.candle = CandleOf(p) /\ x.todo = found /\ x.asked = FALSE /\ x.held = <<>>
  <2>1. CandleOf(p) \in Nat
    BY <1>3, IngestionAssumption DEF Candles
  <2>2. \A c \in Nat : \A t \in Seq(Strategies) : \A y : y = Finding(c, t) =>
           y \in Runs /\ y.candle = c /\ y.todo = t /\ y.asked = FALSE /\ y.held = <<>>
    BY RunFound
  <2>3. x = Finding(CandleOf(p), found)
    OBVIOUS
  <2> HIDE DEF x
  <2>4. \A t \in Seq(Strategies) : \A y : y = Finding(CandleOf(p), t) =>
           y \in Runs /\ y.candle = CandleOf(p) /\ y.todo = t /\ y.asked = FALSE /\ y.held = <<>>
    BY <2>1, <2>2
  <2>5. \A y : y = Finding(CandleOf(p), found) =>
           y \in Runs /\ y.candle = CandleOf(p) /\ y.todo = found /\ y.asked = FALSE /\ y.held = <<>>
    BY <1>4, <2>4
  <2> QED
    BY <2>3, <2>5
<1> HIDE DEF x
<1>6. path'[p] = x /\ path[p] = Idle
  BY <1>2 DEF SignalInv, SignalTypes, Load
<1>7. SignalTypes'
  <2>1. /\ x.candle \in Candles /\ SignalTypes /\ rows' \in [Keys -> Nat]
        /\ logged' \in [Keys -> Nat] /\ sent' \in [Keys -> Nat] /\ missed' \in [Keys -> Nat]
    BY <1>3, <1>5 DEF SignalInv, SignalTypes, Load, alerts
  <2> QED
    BY <1>2, <1>5, <2>1, TypesStay
<1>8. Held(p)' = {} /\ Held(p) = {}
  BY <1>5, <1>6 DEF Held, Idle
<1>9. Asked(p)'
  <2>1. path'[p].asked = FALSE /\ path'[p].todo = found
    BY <1>5, <1>6
  <2> QED
    BY <1>1, <2>1 DEF Asked
<1>10. Holding(p)'
  BY <1>5, <1>6, <1>8 DEF Holding
<1>11. /\ rows' = rows /\ logged' = logged /\ sent' = sent /\ missed' = missed
       /\ raced' = raced /\ lost' = lost \cup (Held(p) \ Held(p)')
  BY <1>8 DEF Load, alerts
<1>12. \A k \in Keys : Counted(k)'
  BY <1>2, <1>5, <1>11, CountedStays
<1> QED
  BY <1>2, <1>7, <1>8, <1>9, <1>10, <1>11, <1>12, QuietKeeps

\* A strategy that is not the baseline is asked for by the closed-candle path.
LEMMA OtherStrategies ==
    ASSUME SignalInv, NEW p \in Paths, path[p].todo # <<>>, Key(p)[1] # Baseline
    PROVE  p = "closed"
<1>1. path[p] \in Runs /\ Asked(p)
  BY DEF SignalInv, SignalTypes
<1>2. Key(p)[1] = path[p].todo[1] /\ 1 \in DOMAIN path[p].todo
  BY <1>1, HeadTailProperties, LenProperties DEF Key, Runs
<1> QED
  BY <1>1, <1>2 DEF Asked

\* The question leaves the run waiting to insert where there was no row, or
\* ends it, with what it holds lost (signal_already_exists_for_candle).
LEMMA AskKeeps ==
    ASSUME SignalInv, NEW p \in Paths, Ask(p)
    PROVE  SignalInv'
<1> DEFINE r == path[p]
<1>1. r \in Runs /\ Asked(p) /\ Holding(p) /\ r.todo # <<>> /\ SignalTypes
  BY DEF SignalInv, SignalTypes, Ask
<1>2. Key(p) \in Keys /\ r.candle \in Candles
  BY <1>1, KeyFacts
<1>3. rows[Key(p)] \in Nat
  BY <1>2 DEF SignalInv, SignalTypes
<1>4. CASE Existing(p) > 1
  <2>1. Existing(p) # 0 /\ Existing(p) # 1
    BY <1>3, <1>4 DEF Existing
  <2>2. path' = [path EXCEPT ![p] = Idle] /\ lost' = lost \cup Held(p)
    BY <1>4, <2>1 DEF Ask
  <2>3. rows' = rows /\ alerts' = alerts /\ raced' = raced
    BY <2>1 DEF Ask
  <2> QED
    BY <2>2, <2>3, EndKeeps
<1>5. CASE Existing(p) = 0
  <2> DEFINE x == [r EXCEPT !.asked = TRUE]
  <2>1. path' = [path EXCEPT ![p] = x]
    BY <1>5 DEF Ask
  <2> HIDE DEF x
  <2>2. x \in Runs /\ x.candle = r.candle /\ x.todo = r.todo /\ x.asked = TRUE /\ x.held = r.held
    BY <1>1, RunAsked DEF x
  <2>3. path'[p] = x
    BY <2>1 DEF SignalInv, SignalTypes
  <2>4. SignalTypes'
    <3>1. /\ x.candle \in Candles /\ rows' \in [Keys -> Nat]
          /\ logged' \in [Keys -> Nat] /\ sent' \in [Keys -> Nat] /\ missed' \in [Keys -> Nat]
      BY <1>1, <1>2, <2>2 DEF SignalTypes, Ask, alerts
    <3> QED
      BY <1>1, <2>1, <2>2, <3>1, TypesStay
  <2>5. Held(p)' = Held(p) /\ Key(p)' = Key(p) /\ rows' = rows
    BY <2>2, <2>3 DEF Held, Key, Ask
  <2>6. Key(p) \notin Held(p)
    BY <1>1, <1>3, <1>5 DEF Holding, Existing
  <2>7. Asked(p)'
    BY <1>1, <2>2, <2>3, <2>5, <2>6 DEF Asked
  <2>8. Holding(p)'
    BY <1>1, <2>2, <2>3, <2>5 DEF Holding
  <2>9. lost' = lost \cup (Held(p) \ Held(p)') /\ logged' = logged /\ sent' = sent /\ missed' = missed
    BY <1>5, <2>5 DEF Ask, alerts
  <2>10. ASSUME NEW k \in Keys
         PROVE  Counted(k)'
    <3> DEFINE n == Cardinality(Asking(k))
               m == Cardinality(Asking(k)')
    <3>1. path'[p] = x /\ \A q \in Paths \ {p} : path'[q] = path[q]
      BY <1>1, <2>1 DEF SignalTypes
    <3>2. n \in Nat /\ m \in Nat /\ rows[k] \in Nat /\ Counted(k)
      BY <3>1, AskingEffect DEF SignalInv, SignalTypes
    <3>3. raced' = IF Asking(Key(p)) # {} THEN raced \cup {Key(p)} ELSE raced
      BY <1>5 DEF Ask
    <3>4. p \notin Asking(k) /\ (p \in Asking(k)' <=> k = Key(p))
      BY <2>2, <2>3, <2>5 DEF Asking, Ask
    <3>5. CASE k # Key(p)
      <4>1. Asking(k)' = Asking(k)
        BY <3>1, <3>4, <3>5, AskingEffect
      <4>2. k \in raced' <=> k \in raced
        BY <3>3, <3>5
      <4> QED
        BY <2>5, <3>2, <4>1, <4>2 DEF Counted
    <3>6. CASE k = Key(p)
      <4>1. rows'[k] = 0
        BY <1>5, <2>5, <3>6 DEF Existing
      <4>2. m = n + 1
        BY <3>1, <3>4, <3>6, AskingEffect
      <4>3. k \notin raced' => Asking(k) = {}
        BY <3>3, <3>6
      <4>4. k \notin raced' => n = 0
        BY <4>3, FS_EmptySet
      <4>5. ASSUME k[1] # Baseline
            PROVE  k \notin raced'
        <5>1. p = "closed"
          BY <1>1, <3>6, <4>5, OtherStrategies
        <5>2. ASSUME NEW q \in Asking(k)
              PROVE  FALSE
          <6>1. q \in Paths /\ Key(q) = k /\ path[q].asked
            BY <5>2 DEF Asking
          <6>2. path[q].todo # <<>>
            BY <6>1 DEF SignalInv, Asked
          <6>3. q = "closed"
            BY <4>5, <6>1, <6>2, OtherStrategies
          <6> QED
            BY <3>4, <5>1, <5>2, <6>3
        <5>3. k \notin raced
          BY <3>2, <4>5 DEF Counted
        <5> QED
          BY <3>3, <3>6, <5>2, <5>3
      <4>6. (k \notin raced' => rows'[k] + m <= 1) /\ ~(rows'[k] >= 1)
        BY <3>2, <4>1, <4>2, <4>4
      <4> QED
        BY <4>5, <4>6 DEF Counted
    <3> QED
      BY <3>5, <3>6
  <2> QED
    BY <2>1, <2>4, <2>5, <2>7, <2>8, <2>9, <2>10, QuietKeeps
<1>6. CASE Existing(p) = 1
  <2> DEFINE y == Skipped(r)
  <2>0. Existing(p) # 0 /\ ~(Existing(p) > 1)
    BY <1>6
  <2>1. path' = [path EXCEPT ![p] = Over(y)] /\ lost' = lost
        /\ rows' = rows /\ alerts' = alerts /\ raced' = raced
    BY <1>6, <2>0 DEF Ask
  <2> HIDE DEF y
  <2>9. y \in Runs /\ y.candle = r.candle /\ y.todo = Tail(r.todo) /\ y.asked = r.asked /\ y.held = r.held
    BY <1>1, RunNext DEF y
  <2>2. CASE Over(y) = Idle /\ r.held = <<>>
    <3>1. Held(p) = {}
      BY <2>2 DEF Held
    <3>2. path' = [path EXCEPT ![p] = Idle] /\ lost' = lost \cup Held(p)
      BY <2>1, <2>2, <3>1
    <3> QED
      BY <2>1, <3>2, EndKeeps
  <2>3. CASE Over(y) = y
    <3>1. path'[p] = y /\ path' = [path EXCEPT ![p] = y]
      BY <2>1, <2>3 DEF SignalInv, SignalTypes
    <3>2. Tail(r.todo) \in Seq(Strategies) /\ \A n \in DOMAIN Tail(r.todo) : n + 1 \in DOMAIN r.todo /\ Tail(r.todo)[n] = r.todo[n + 1]
      BY <1>1, HeadTailProperties, LenProperties DEF Runs
    <3>4. SignalTypes'
      <4>1. /\ y.candle \in Candles /\ rows' \in [Keys -> Nat]
            /\ logged' \in [Keys -> Nat] /\ sent' \in [Keys -> Nat] /\ missed' \in [Keys -> Nat]
        BY <1>1, <1>2, <2>1, <2>9 DEF SignalTypes, alerts
      <4> QED
        BY <1>1, <2>9, <3>1, <4>1, TypesStay
    <3>5. Held(p)' = Held(p) /\ rows' = rows
      BY <2>9, <3>1 DEF Held, Ask
    <3>6. path'[p].asked = FALSE
      BY <1>1, <2>9, <3>1 DEF Ask, Runs
    <3>7. Asked(p)'
      BY <1>1, <2>9, <3>1, <3>2, <3>6 DEF Asked
    <3>8. Holding(p)'
      BY <1>1, <2>9, <3>1, <3>5 DEF Holding
    <3>9. lost' = lost \cup (Held(p) \ Held(p)') /\ logged' = logged /\ sent' = sent /\ missed' = missed
      BY <2>1, <3>5 DEF alerts
    <3>10. \A k \in Keys : Counted(k)'
      <4>1. y.asked = FALSE
        BY <3>1, <3>6
      <4> QED
        BY <2>1, <3>1, <4>1, CountedStays
    <3> QED
      BY <3>1, <3>4, <3>5, <3>7, <3>8, <3>9, <3>10, QuietKeeps
  <2> QED
    BY <2>2, <2>3, <2>9 DEF Over
<1> QED
  BY <1>3, <1>4, <1>5, <1>6 DEF Existing

\* The insert turns a row that was about to be into one there is.
LEMMA InsertKeeps ==
    ASSUME SignalInv, NEW p \in Paths, Insert(p)
    PROVE  SignalInv'
<1> DEFINE r == path[p]
           k0 == Key(p)
           x == Inserting(r)
<1>1. r \in Runs /\ Asked(p) /\ Holding(p) /\ SignalTypes /\ r.asked /\ r.todo # <<>> /\ k0 \notin Held(p)
  BY DEF SignalInv, SignalTypes, Insert, Asked
<1>2. k0 \in Keys /\ r.candle \in Candles /\ k0 = <<Head(r.todo), r.candle>>
  BY <1>1, KeyFacts DEF Key
<1>3. /\ x \in Runs /\ x.candle = r.candle /\ x.todo = Tail(r.todo)
      /\ x.asked = FALSE /\ x.held = Append(r.held, Head(r.todo))
  BY <1>1, RunInserted
<1>4. /\ path' = [path EXCEPT ![p] = x] /\ rows' = [rows EXCEPT ![k0] = @ + 1]
      /\ logged' = logged /\ sent' = sent /\ missed' = missed /\ lost' = lost /\ raced' = raced
  BY DEF Insert, alerts
<1> HIDE DEF x, k0
<1>5. rows' \in [Keys -> Nat] /\ rows'[k0] = rows[k0] + 1 /\ \A k \in Keys \ {k0} : rows'[k] = rows[k]
  <2>1. rows \in [Keys -> Nat] /\ k0 \in Keys
    BY <1>1, <1>2 DEF SignalTypes
  <2>2. rows' = [rows EXCEPT ![k0] = @ + 1]
    BY <1>4
  <2> QED
    BY <2>1, <2>2
<1>6. SignalTypes' /\ path'[p] = x
  <2>1. logged' \in [Keys -> Nat] /\ sent' \in [Keys -> Nat] /\ missed' \in [Keys -> Nat] /\ x.candle \in Candles
    BY <1>1, <1>2, <1>3, <1>4 DEF SignalTypes
  <2> QED
    BY <1>1, <1>3, <1>4, <1>5, <2>1, TypesStay
<1>7. /\ r.held \in Seq(Strategies) /\ Head(r.todo) \in Strategies /\ Tail(r.todo) \in Seq(Strategies)
      /\ \A n \in DOMAIN Tail(r.todo) : n + 1 \in DOMAIN r.todo /\ Tail(r.todo)[n] = r.todo[n + 1]
  BY <1>1, HeadTailProperties, LenProperties DEF Runs
<1> DEFINE h == Append(r.held, Head(r.todo))
<1>8. /\ DOMAIN r.held = 1..Len(r.held) /\ Len(r.held) \in Nat /\ DOMAIN h = 1..Len(r.held) + 1
      /\ h[Len(r.held) + 1] = Head(r.todo) /\ \A n \in 1..Len(r.held) : h[n] = r.held[n]
  BY <1>7, AppendProperties, LenProperties
<1> HIDE DEF h
<1>9. Held(p)' = Held(p) \cup {k0}
  <2>1. Held(p)' = {<<h[n], r.candle>> : n \in DOMAIN h}
    BY <1>3, <1>6 DEF Held, h
  <2>2. Held(p) = {<<r.held[n], r.candle>> : n \in DOMAIN r.held}
    BY DEF Held
  <2>3. ASSUME NEW k \in Held(p)'
        PROVE  k \in Held(p) \cup {k0}
    <3>1. PICK n \in DOMAIN h : k = <<h[n], r.candle>>
      BY <2>1, <2>3
    <3>2. n \in DOMAIN r.held \/ n = Len(r.held) + 1
      BY <1>8, <3>1
    <3> QED
      BY <1>2, <1>8, <2>2, <3>1, <3>2
  <2>4. ASSUME NEW k \in Held(p) \cup {k0}
        PROVE  k \in Held(p)'
    <3>1. CASE k = k0
      BY <1>2, <1>8, <2>1, <3>1
    <3>2. CASE k \in Held(p)
      <4>1. PICK n \in DOMAIN r.held : k = <<r.held[n], r.candle>>
        BY <2>2, <3>2
      <4>2. n \in DOMAIN h /\ h[n] = r.held[n]
        BY <1>8, <4>1
      <4> QED
        BY <2>1, <4>1, <4>2
    <3> QED
      BY <2>4, <3>1, <3>2
  <2> QED
    BY <2>3, <2>4
<1>10. Asked(p)'
  BY <1>1, <1>3, <1>6, <1>7 DEF Asked
<1>11. Holding(p)'
  <2>1. ASSUME NEW m \in DOMAIN h, NEW n \in DOMAIN h, h[m] = h[n]
        PROVE  m = n
    <3>1. \A i \in DOMAIN r.held : r.held[i] # Head(r.todo)
      BY <1>1, <1>2 DEF Held
    <3>2. (m \in DOMAIN r.held \/ m = Len(r.held) + 1) /\ (n \in DOMAIN r.held \/ n = Len(r.held) + 1)
      BY <1>8
    <3>3. \A i, j \in DOMAIN r.held : r.held[i] = r.held[j] => i = j
      BY <1>1 DEF Holding
    <3> QED
      BY <1>8, <2>1, <3>1, <3>2, <3>3
  <2>2. path'[p].held = h
    BY <1>3, <1>6 DEF h
  <2>3. ASSUME NEW k \in Held(p)'
        PROVE  rows'[k] >= 1
    <3>1. k \in Held(p) \/ k = k0
      BY <1>9, <2>3
    <3>2. Held(p) \subseteq Keys
      BY <1>1, <1>2, LenProperties, ElementOfSeq DEF Held, Keys, Runs
    <3>3. rows[k0] \in Nat
      BY <1>1, <1>2 DEF SignalTypes
    <3> QED
      BY <1>1, <1>5, <3>1, <3>2, <3>3 DEF Holding
  <2> QED
    BY <2>1, <2>2, <2>3 DEF Holding
<1>12. ASSUME NEW q \in Paths, q # p
       PROVE  Asked(q)' /\ Holding(q)' /\ Held(q)' = Held(q)
  <2>1. path'[q] = path[q] /\ Asked(q) /\ Holding(q) /\ path[q] \in Runs
    BY <1>4, <1>12 DEF SignalInv, SignalTypes
  <2>2. Held(q)' = Held(q) /\ Key(q)' = Key(q)
    BY <2>1 DEF Held, Key
  <2>4. Asked(q)'
    BY <2>1, <2>2 DEF Asked
  <2>5. Holding(q)'
    <3>1. Held(q) \subseteq Keys
      <4>1. ASSUME NEW n \in DOMAIN path[q].held
            PROVE  <<path[q].held[n], path[q].candle>> \in Keys
        <5>1. path[q].held[n] \in Strategies
          BY <2>1, LenProperties, ElementOfSeq DEF Runs
        <5>2. path[q] # Idle
          BY DEF Idle
        <5> QED
          BY <1>1, <5>1, <5>2 DEF Keys, SignalTypes
      <4> QED
        BY <4>1 DEF Held
    <3>2. \A k \in Held(q) : rows[k] >= 1 /\ rows[k] \in Nat
      BY <1>1, <2>1, <3>1 DEF Holding, SignalTypes
    <3>3. \A k \in Held(q) : rows'[k] >= 1
      BY <1>5, <3>1, <3>2
    <3> QED
      BY <2>1, <2>2, <3>3 DEF Holding
  <2> QED
    BY <2>2, <2>4, <2>5
<1>13. ASSUME NEW k \in Keys
       PROVE  Counted(k)'
  <2> DEFINE n == Cardinality(Asking(k))
             m == Cardinality(Asking(k)')
  <2>1. path'[p] = x /\ \A q \in Paths \ {p} : path'[q] = path[q]
    BY <1>1, <1>4 DEF SignalTypes
  <2>2. n \in Nat /\ m \in Nat /\ rows[k] \in Nat /\ Counted(k)
    BY <2>1, AskingEffect DEF SignalInv, SignalTypes
  <2>3. p \notin Asking(k)' /\ (p \in Asking(k) <=> k = k0)
    BY <1>1, <1>3, <2>1 DEF Asking, k0
  <2>4. CASE k # k0
    <3>1. Asking(k)' = Asking(k)
      BY <2>1, <2>3, <2>4, AskingEffect
    <3> QED
      BY <1>4, <1>5, <2>2, <2>4, <3>1 DEF Counted
  <2>5. CASE k = k0
    <3>1. m = n - 1 /\ rows'[k] = rows[k] + 1
      BY <1>5, <2>1, <2>3, <2>5, AskingEffect
    <3>2. n <= Cardinality(Paths) /\ Cardinality(Paths) \in Nat
      <4>1. Asking(k) \subseteq Paths
        BY DEF Asking
      <4> QED
        BY <4>1, PipelineAssumption, FS_Subset, FS_CardinalityType
    <3>3. /\ k \notin raced => rows[k] + n <= 1
          /\ rows[k] >= 1 => rows[k] + n <= Cardinality(Paths)
          /\ k[1] # Baseline => k \notin raced
      BY <2>2 DEF Counted
    <3> HIDE DEF n, m
    <3>4. /\ k \notin raced => rows'[k] + m <= 1
          /\ rows'[k] >= 1 => rows'[k] + m <= Cardinality(Paths)
      BY <2>2, <3>1, <3>2, <3>3
    <3> QED
      BY <1>4, <3>3, <3>4 DEF Counted, m
  <2> QED
    BY <2>4, <2>5
<1>14. ASSUME NEW k \in Keys
       PROVE  Accounted(k)'
  <2> DEFINE n == Cardinality(Holders(k))
             m == Cardinality(Holders(k)')
  <2>1. /\ n \in Nat
        /\ (k \in Held(p)' <=> k \in Held(p)) => m = n
        /\ k \in Held(p)' /\ k \notin Held(p) => m = n + 1
    BY <1>12, HoldersEffect
  <2>2. logged[k] \in Nat /\ sent[k] \in Nat /\ missed[k] \in Nat /\ rows[k] \in Nat /\ Accounted(k)
    BY DEF SignalInv, SignalTypes
  <2>3. CASE k # k0
    <3>1. m = n /\ rows'[k] = rows[k]
      BY <1>5, <1>9, <2>1, <2>3
    <3> QED
      BY <1>4, <2>1, <2>2, <3>1 DEF Accounted
  <2>4. CASE k = k0
    <3>1. m = n + 1 /\ rows'[k] = rows[k] + 1
      BY <1>1, <1>5, <1>9, <2>1, <2>4
    <3> QED
      BY <1>4, <2>1, <2>2, <3>1 DEF Accounted
  <2> QED
    BY <2>3, <2>4
<1> QED
  BY <1>6, <1>10, <1>11, <1>12, <1>13, <1>14 DEF SignalInv

\* The message of one row, taken by Telegram or not (bot.py:347).
LEMMA SendFacts ==
    ASSUME SignalTypes, NEW k0 \in Keys, NEW taken \in BOOLEAN, Send(k0, taken)
    PROVE  /\ sent' \in [Keys -> Nat] /\ missed' \in [Keys -> Nat]
           /\ sent'[k0] + missed'[k0] = sent[k0] + missed[k0] + 1
           /\ \A k \in Keys \ {k0} : sent'[k] = sent[k] /\ missed'[k] = missed[k]
<1>1. sent \in [Keys -> Nat] /\ missed \in [Keys -> Nat]
  BY DEF SignalTypes
<1>2. CASE taken
  <2>1. sent' = [sent EXCEPT ![k0] = @ + 1] /\ missed' = [missed EXCEPT ![k0] = @ + 0]
    BY <1>2 DEF Send
  <2> QED
    BY <1>1, <2>1
<1>3. CASE ~taken
  <2>1. sent' = [sent EXCEPT ![k0] = @ + 0] /\ missed' = [missed EXCEPT ![k0] = @ + 1]
    BY <1>3 DEF Send
  <2> QED
    BY <1>1, <2>1
<1> QED
  BY <1>2, <1>3

\* An alert takes its row from what the run holds.
LEMMA NotifyKeeps ==
    ASSUME SignalInv, NEW p \in Paths, Notify(p)
    PROVE  SignalInv'
<1> DEFINE r == path[p]
           k0 == Oldest(p)
           x == Alerting(r)
<1>1. r \in Runs /\ Asked(p) /\ Holding(p) /\ SignalTypes /\ r.todo = <<>> /\ r.held # <<>> /\ r # Idle
  BY DEF SignalInv, SignalTypes, Notify, Alert, Idle
<1>2. r.candle \in Candles /\ r.asked = FALSE
  BY <1>1 DEF SignalTypes, Asked, Runs
<1>3. x \in Runs /\ x.candle = r.candle /\ x.todo = r.todo /\ x.asked = r.asked /\ x.held = Tail(r.held)
  BY <1>1, RunAlerted
<1>4. /\ path' = [path EXCEPT ![p] = Over(x)] /\ logged' = [logged EXCEPT ![k0] = @ + 1]
      /\ rows' = rows /\ raced' = raced /\ lost' = lost
  BY DEF Notify, Alert
<1>5. /\ Head(r.held) = r.held[1] /\ Head(r.held) \in Strategies /\ 1 \in DOMAIN r.held
      /\ Tail(r.held) \in Seq(Strategies)
      /\ \A n \in DOMAIN Tail(r.held) : n + 1 \in DOMAIN r.held /\ n + 1 # 1 /\ Tail(r.held)[n] = r.held[n + 1]
      /\ \A n \in DOMAIN r.held : n # 1 => n - 1 \in DOMAIN Tail(r.held) /\ Tail(r.held)[n - 1] = r.held[n]
      /\ DOMAIN r.held \subseteq Nat /\ DOMAIN Tail(r.held) \subseteq Nat
  <2>1. r.held \in Seq(Strategies) /\ r.held # <<>>
    BY <1>1 DEF Runs
  <2> DEFINE s == r.held
  <2> HIDE DEF s
  <2>2. s \in Seq(Strategies) /\ s # <<>>
    BY <2>1 DEF s
  <2>3. /\ Head(s) = s[1] /\ Head(s) \in Strategies /\ Tail(s) \in Seq(Strategies) /\ Len(Tail(s)) = Len(s) - 1
        /\ \A i \in 1..Len(Tail(s)) : Tail(s)[i] = s[i + 1]
    BY <2>2, HeadTailProperties
  <2>4. /\ DOMAIN s = 1..Len(s) /\ Len(s) \in Nat \ {0} /\ DOMAIN Tail(s) = 1..Len(Tail(s))
    BY <2>2, <2>3, LenProperties, EmptySeq
  <2>5. \A n \in DOMAIN s : n # 1 => n - 1 \in 1..Len(Tail(s)) /\ n - 1 + 1 = n
    BY <2>3, <2>4
  <2> QED
    BY <2>3, <2>4, <2>5 DEF s
<1>6. k0 \in Keys
  BY <1>2, <1>5 DEF Keys, Oldest
<1> HIDE DEF x
<1>7. /\ logged' \in [Keys -> Nat] /\ sent' \in [Keys -> Nat] /\ missed' \in [Keys -> Nat]
      /\ logged'[k0] = logged[k0] + 1 /\ sent'[k0] + missed'[k0] = sent[k0] + missed[k0] + 1
      /\ \A k \in Keys \ {k0} : logged'[k] = logged[k] /\ sent'[k] = sent[k] /\ missed'[k] = missed[k]
  <2>1. logged \in [Keys -> Nat]
    BY <1>1 DEF SignalTypes
  <2>2. PICK taken \in BOOLEAN : Send(k0, taken)
    BY DEF Notify, Alert
  <2> HIDE DEF k0
  <2>3. logged' \in [Keys -> Nat] /\ logged'[k0] = logged[k0] + 1 /\ \A k \in Keys \ {k0} : logged'[k] = logged[k]
    BY <1>4, <1>6, <2>1
  <2> QED
    BY <1>1, <1>6, <2>2, <2>3, SendFacts
<1>8. Held(p) = {<<r.held[n], r.candle>> : n \in DOMAIN r.held}
  BY DEF Held
<1>9. \A m \in DOMAIN r.held, n \in DOMAIN r.held : r.held[m] = r.held[n] => m = n
  BY <1>1 DEF Holding
<1> DEFINE y == path'[p]
<1>10. /\ SignalTypes'
       /\ y.asked = FALSE /\ y.todo = <<>> /\ y.held = Tail(r.held)
       /\ Held(p)' = {<<Tail(r.held)[n], r.candle>> : n \in DOMAIN Tail(r.held)}
  <2>1. CASE Over(x) = x
    <3>1. rows' \in [Keys -> Nat] /\ x.candle \in Candles /\ path' = [path EXCEPT ![p] = x]
      BY <1>1, <1>2, <1>3, <1>4, <2>1 DEF SignalTypes
    <3>2. SignalTypes' /\ y = x
      BY <1>1, <1>3, <1>7, <3>1, TypesStay
    <3> QED
      BY <1>1, <1>2, <1>3, <3>2 DEF Held
  <2>2. CASE Over(x) = Idle /\ Tail(r.held) = <<>>
    <3>1. path' = [path EXCEPT ![p] = Idle] /\ y = Idle
      BY <1>1, <1>4, <2>2 DEF SignalTypes
    <3>2. Idle \in Runs /\ Idle.asked = FALSE /\ Idle.todo = <<>> /\ Idle.held = <<>>
      BY DEF Idle, Runs
    <3>3. rows' \in [Keys -> Nat] /\ path' \in [Paths -> Runs]
      BY <1>1, <1>4, <3>1, <3>2 DEF SignalTypes
    <3>4. \A q \in Paths : path'[q] # Idle => path'[q].candle \in Candles
      BY <1>1, <3>1 DEF SignalTypes
    <3>5. SignalTypes'
      BY <1>7, <3>3, <3>4 DEF SignalTypes
    <3>6. DOMAIN Tail(r.held) = {}
      BY <2>2
    <3>7. path'[p].held = <<>> /\ Held(p)' = {}
      BY <3>1, <3>2 DEF Held
    <3>8. {<<Tail(r.held)[n], r.candle>> : n \in DOMAIN Tail(r.held)} = {}
      BY <3>6
    <3> QED
      BY <2>2, <3>1, <3>2, <3>5, <3>7, <3>8
  <2> QED
    BY <1>3, <2>1, <2>2 DEF Over
<1> HIDE DEF y
<1>11. k0 \in Held(p) /\ Held(p)' = Held(p) \ {k0}
  <2>0. k0 = <<Head(r.held), r.candle>>
    BY DEF Oldest
  <2>1. k0 \in Held(p)
    BY <1>5, <1>8, <2>0
  <2>2. ASSUME NEW k \in Held(p)'
        PROVE  k \in Held(p) \ {k0}
    <3>1. PICK n \in DOMAIN Tail(r.held) : k = <<Tail(r.held)[n], r.candle>>
      BY <1>10, <2>2
    <3>2. r.held[n + 1] # r.held[1]
      BY <1>5, <1>9
    <3> QED
      BY <1>5, <1>8, <2>0, <3>1, <3>2
  <2>3. ASSUME NEW k \in Held(p) \ {k0}
        PROVE  k \in Held(p)'
    <3>1. PICK n \in DOMAIN r.held : k = <<r.held[n], r.candle>>
      BY <1>8, <2>3
    <3>2. n # 1
      BY <1>5, <2>0, <2>3, <3>1
    <3> QED
      BY <1>5, <1>10, <3>1, <3>2
  <2> QED
    BY <2>1, <2>2, <2>3
<1>12. Asked(p)'
  BY <1>10 DEF Asked, y
<1>13. Holding(p)'
  <2>1. ASSUME NEW m \in DOMAIN Tail(r.held), NEW n \in DOMAIN Tail(r.held), Tail(r.held)[m] = Tail(r.held)[n]
        PROVE  m = n
    <3>1. m + 1 \in DOMAIN r.held /\ n + 1 \in DOMAIN r.held /\ m \in Nat /\ n \in Nat
      BY <1>5
    <3>2. r.held[m + 1] = r.held[n + 1]
      BY <1>5, <2>1
    <3>3. m + 1 = n + 1
      BY <1>9, <3>1, <3>2
    <3> QED
      BY <3>1, <3>3
  <2>2. \A k \in Held(p)' : rows'[k] >= 1
    BY <1>1, <1>4, <1>11 DEF Holding
  <2> QED
    BY <1>10, <2>1, <2>2 DEF Holding, y
<1>14. \A q \in Paths \ {p} : Asked(q)' /\ Holding(q)' /\ Held(q)' = Held(q)
  BY <1>4, OthersStay
<1>15. \A k \in Keys : Counted(k)'
  <2>1. Over(x).asked = FALSE
    BY <1>2, <1>3 DEF Over, Idle
  <2> QED
    BY <1>4, <2>1, CountedStays
<1>16. ASSUME NEW k \in Keys
       PROVE  Accounted(k)'
  <2> DEFINE n == Cardinality(Holders(k))
             m == Cardinality(Holders(k)')
  <2>1. /\ n \in Nat
        /\ (k \in Held(p)' <=> k \in Held(p)) => m = n
        /\ k \notin Held(p)' /\ k \in Held(p) => m = n - 1
    BY <1>14, HoldersEffect
  <2>2. logged[k] \in Nat /\ sent[k] \in Nat /\ missed[k] \in Nat /\ rows[k] \in Nat /\ Accounted(k)
    BY DEF SignalInv, SignalTypes
  <2> HIDE DEF k0
  <2>3. CASE k # k0
    <3>1. m = n /\ logged'[k] = logged[k] /\ sent'[k] = sent[k] /\ missed'[k] = missed[k]
      BY <1>7, <1>11, <2>1, <2>3
    <3> QED
      BY <1>4, <2>1, <2>2, <3>1 DEF Accounted
  <2>4. CASE k = k0
    <3>1. m = n - 1 /\ logged'[k] = logged[k] + 1 /\ sent'[k] + missed'[k] = sent[k] + missed[k] + 1
      BY <1>7, <1>11, <2>1, <2>4
    <3>2. sent'[k] \in Nat /\ missed'[k] \in Nat /\ rows' = rows /\ lost' = lost
      BY <1>4, <1>7
    <3> QED
      BY <2>1, <2>2, <3>1, <3>2 DEF Accounted
  <2> QED
    BY <2>3, <2>4
<1> QED
  BY <1>10, <1>12, <1>13, <1>14, <1>15, <1>16 DEF SignalInv

\* A message whose log row is refused, or whose run ends before it is written,
\* is the run's last: the rows it holds are lost (notify.py:52).
LEMMA NotifyFailsKeeps ==
    ASSUME SignalInv, NEW p \in Paths, NotifyFails(p)
    PROVE  SignalInv'
<1> DEFINE r == path[p]
           k0 == Oldest(p)
<1>1. r \in Runs /\ SignalTypes /\ r.held # <<>> /\ r # Idle
  BY DEF SignalInv, SignalTypes, NotifyFails, Alert, Idle
<1>2. /\ path' = [path EXCEPT ![p] = Idle] /\ lost' = lost \cup Held(p)
      /\ rows' = rows /\ raced' = raced /\ logged' = logged
  BY DEF NotifyFails, Alert
<1>3. k0 \in Held(p) /\ k0 \in Keys
  <2>1. r.held \in Seq(Strategies) /\ r.held # <<>>
    BY <1>1 DEF Runs
  <2>2. Head(r.held) = r.held[1] /\ Head(r.held) \in Strategies /\ 1 \in DOMAIN r.held
    BY <2>1, HeadTailProperties, LenProperties, EmptySeq
  <2>3. r.candle \in Candles
    BY <1>1 DEF SignalTypes
  <2> QED
    BY <2>2, <2>3 DEF Oldest, Held, Keys
<1>4. /\ sent' \in [Keys -> Nat] /\ missed' \in [Keys -> Nat]
      /\ sent'[k0] + missed'[k0] = sent[k0] + missed[k0] + 1
      /\ \A k \in Keys \ {k0} : sent'[k] = sent[k] /\ missed'[k] = missed[k]
  <2>1. PICK taken \in BOOLEAN : Send(k0, taken)
    BY DEF NotifyFails, Alert
  <2> HIDE DEF k0
  <2> QED
    BY <1>1, <1>3, <2>1, SendFacts
<1>5. path'[p] = Idle /\ Idle \in Runs /\ Idle.asked = FALSE
  BY <1>1, <1>2 DEF SignalTypes, Idle, Runs
<1>6. Held(p)' = {} /\ Asked(p)' /\ Holding(p)'
  <2>1. Held(p)' = {} /\ path'[p].held = <<>> /\ path'[p].todo = <<>> /\ path'[p].asked = FALSE
    BY <1>5 DEF Held, Idle
  <2> QED
    BY <2>1 DEF Asked, Holding
<1>7. SignalTypes'
  <2>1. path' \in [Paths -> Runs] /\ \A q \in Paths : path'[q] # Idle => path'[q].candle \in Candles
    BY <1>1, <1>2, <1>5 DEF SignalTypes
  <2>2. rows' \in [Keys -> Nat] /\ logged' \in [Keys -> Nat]
    BY <1>1, <1>2 DEF SignalTypes
  <2> QED
    BY <1>4, <2>1, <2>2 DEF SignalTypes
<1>8. \A q \in Paths \ {p} : Asked(q)' /\ Holding(q)' /\ Held(q)' = Held(q)
  BY <1>2, OthersStay
<1>9. \A k \in Keys : Counted(k)'
  BY <1>2, <1>5, CountedStays
<1> HIDE DEF k0
<1>10. ASSUME NEW k \in Keys
       PROVE  Accounted(k)'
  <2> DEFINE n == Cardinality(Holders(k))
             m == Cardinality(Holders(k)')
  <2>1. /\ n \in Nat
        /\ (k \in Held(p)' <=> k \in Held(p)) => m = n
        /\ k \notin Held(p)' /\ k \in Held(p) => m = n - 1
    BY <1>8, HoldersEffect
  <2>2. logged[k] \in Nat /\ sent[k] \in Nat /\ missed[k] \in Nat /\ rows[k] \in Nat /\ Accounted(k)
    BY DEF SignalInv, SignalTypes
  <2>3. sent'[k] \in Nat /\ missed'[k] \in Nat
    BY <1>4
  <2>4. CASE k \notin Held(p)
    <3>1. m = n /\ sent'[k] = sent[k] /\ missed'[k] = missed[k] /\ (k \in lost' <=> k \in lost)
      BY <1>2, <1>3, <1>4, <1>6, <2>1, <2>4
    <3> QED
      BY <1>2, <2>1, <2>2, <3>1 DEF Accounted
  <2>5. CASE k \in Held(p) /\ k # k0
    <3>1. m = n - 1 /\ sent'[k] = sent[k] /\ missed'[k] = missed[k] /\ k \in lost'
      BY <1>2, <1>4, <1>6, <2>1, <2>5
    <3> QED
      BY <1>2, <2>1, <2>2, <3>1 DEF Accounted
  <2>6. CASE k = k0
    <3>1. m = n - 1 /\ sent'[k] + missed'[k] = sent[k] + missed[k] + 1 /\ k \in lost'
      BY <1>2, <1>3, <1>4, <1>6, <2>1, <2>6
    <3> QED
      BY <1>2, <2>1, <2>2, <2>3, <3>1 DEF Accounted
  <2> QED
    BY <2>4, <2>5, <2>6
<1> QED
  BY <1>6, <1>7, <1>8, <1>9, <1>10 DEF SignalInv

\* A run that fails loses what it holds and nothing else.
LEMMA PathFailsKeeps ==
    ASSUME SignalInv, NEW p \in Paths, PathFails(p)
    PROVE  SignalInv'
BY EndKeeps DEF PathFails

\* Steps of the ingestion leave the signals alone.
LEMMA SignalStutter ==
    ASSUME SignalInv, UNCHANGED signalVars
    PROVE  SignalInv'
<1>1. /\ rows' = rows /\ logged' = logged /\ sent' = sent /\ missed' = missed
      /\ path' = path /\ raced' = raced /\ lost' = lost
  BY DEF signalVars, alerts
<1>2. SignalTypes'
  BY <1>1 DEF SignalInv, SignalTypes
<1>3. \A p \in Paths : Held(p)' = Held(p) /\ Key(p)' = Key(p)
  BY <1>1 DEF Held, Key
<1>4. ASSUME NEW p \in Paths
      PROVE  Asked(p)' /\ Holding(p)'
  <2>1. Asked(p) /\ Holding(p)
    BY DEF SignalInv
  <2>2. Asked(p)'
    BY <1>1, <1>3, <2>1 DEF Asked
  <2>3. Holding(p)'
    BY <1>1, <1>3, <2>1 DEF Holding
  <2> QED
    BY <2>2, <2>3
<1>5. ASSUME NEW k \in Keys
      PROVE  Counted(k)' /\ Accounted(k)'
  <2>1. Holders(k)' = Holders(k) /\ Asking(k)' = Asking(k)
    BY <1>1, <1>3 DEF Holders, Asking
  <2>2. Counted(k) /\ Accounted(k)
    BY DEF SignalInv
  <2>3. Counted(k)'
    BY <1>1, <2>1, <2>2 DEF Counted
  <2>4. Accounted(k)'
    BY <1>1, <2>1, <2>2 DEF Accounted
  <2> QED
    BY <2>3, <2>4
<1> QED
  BY <1>2, <1>4, <1>5 DEF SignalInv

\* The invariant of the signals holds throughout the pipeline.
LEMMA SignalInvariance == PipelineSpec => []SignalInv
<1>1. PipelineInit => SignalInv
  BY SignalInitially
<1>2. IngestInv /\ SignalInv /\ [PipelineNext]_pipelineVars => SignalInv'
  <2> SUFFICES ASSUME IngestInv, SignalInv, [PipelineNext]_pipelineVars
               PROVE  SignalInv'
    OBVIOUS
  <2>1. CASE Ingestion \/ UNCHANGED pipelineVars
    BY <2>1, SignalStutter DEF Ingestion, pipelineVars
  <2>2. CASE \E p \in Paths : Load(p)
    BY <2>2, LoadKeeps
  <2>3. CASE \E p \in Paths : Ask(p)
    BY <2>3, AskKeeps
  <2>4. CASE \E p \in Paths : Insert(p)
    BY <2>4, InsertKeeps
  <2>5. CASE \E p \in Paths : Notify(p)
    BY <2>5, NotifyKeeps
  <2>6. CASE \E p \in Paths : NotifyFails(p)
    BY <2>6, NotifyFailsKeeps
  <2>7. CASE \E p \in Paths : PathFails(p)
    BY <2>7, PathFailsKeeps
  <2> QED
    BY <2>1, <2>2, <2>3, <2>4, <2>5, <2>6, <2>7 DEF PipelineNext, PathStep
<1> QED
  BY <1>1, <1>2, IngestInvariance, PTL DEF PipelineSpec

(* A strategy has one signal per candle unless two paths have both found none
   before either inserted, which happens to the baseline only; then there are
   at most as many as paths (live_signal.py:16). *)
THEOREM OneSignal == PipelineSpec => []OneSignalPerCandle
<1>1. SignalInv => OneSignalPerCandle
  <2> SUFFICES ASSUME SignalInv, NEW k \in Keys
               PROVE  /\ k \notin raced => rows[k] <= 1
                      /\ k[1] # Baseline => k \notin raced
                      /\ rows[k] <= Cardinality(Paths)
    BY DEF OneSignalPerCandle
  <2> DEFINE n == Cardinality(Asking(k))
  <2>1. Counted(k) /\ rows[k] \in Nat
    BY DEF SignalInv, SignalTypes
  <2>2. n \in Nat /\ Cardinality(Paths) \in Nat
    <3>1. Asking(k) \subseteq Paths
      BY DEF Asking
    <3> QED
      BY <3>1, PipelineAssumption, FS_Subset, FS_CardinalityType
  <2>3. /\ k \notin raced => rows[k] + n <= 1
        /\ rows[k] >= 1 => rows[k] + n <= Cardinality(Paths)
        /\ k[1] # Baseline => k \notin raced
    BY <2>1 DEF Counted
  <2> HIDE DEF n
  <2> QED
    BY <2>1, <2>2, <2>3
<1> QED
  BY <1>1, SignalInvariance, PTL

(* No row is offered to Telegram twice or logged as sent without having been
   offered, and a row nobody holds and no path has lost is logged, taken by
   Telegram or not (jobs.py:96, notify.py:52). *)
THEOREM SignalsAlertedOnce == PipelineSpec => []AlertedOnce
<1>1. SignalInv => AlertedOnce
  <2> SUFFICES ASSUME SignalInv, NEW k \in Keys
               PROVE  /\ sent[k] + missed[k] <= rows[k]
                      /\ logged[k] <= sent[k] + missed[k]
                      /\ (k \notin lost /\ \A p \in Paths : k \notin Held(p)) => logged[k] = rows[k]
    BY DEF AlertedOnce
  <2>1. Accounted(k) /\ logged[k] \in Nat /\ sent[k] \in Nat /\ missed[k] \in Nat /\ rows[k] \in Nat
    BY DEF SignalInv, SignalTypes
  <2>2. Cardinality(Holders(k)) \in Nat
    <3>1. Holders(k) \subseteq Paths
      BY DEF Holders
    <3> QED
      BY <3>1, PipelineAssumption, FS_Subset, FS_CardinalityType
  <2>3. (\A p \in Paths : k \notin Held(p)) => Cardinality(Holders(k)) = 0
    BY FS_EmptySet DEF Holders
  <2> QED
    BY <2>1, <2>2, <2>3 DEF Accounted
<1> QED
  BY <1>1, SignalInvariance, PTL

-----------------------------------------------------------------------------
(* External signals: rows, and promises of rows.                           *)

Late == {"live", "decide", "open", "budget", "persist"}

Started == {d \in Deliveries : pc[d] # "new"}

\* The open trades of a symbol, and the deliveries that found none.
Bidders(s) ==
    OpenTrades(s) \cup
    {d \in Deliveries : pc[d] \in {"budget", "persist"}
                        /\ signals[d].symbol = s}

\* The entries of a day, and the deliveries let past the budget.
Spenders(day) ==
    Entries(day) \cup
    {d \in Deliveries : pc[d] = "persist" /\ signals[d].day = day}

\* The entries of a day, and every delivery that holds a signal of it.
Runners(day) ==
    Entries(day) \cup
    {d \in Deliveries : pc[d] \in Late /\ signals[d].day = day}

CrowdCounts ==
    IsFiniteSet(Started) /\ Cardinality(InFlight) <= crowd

\* A trade is the last thing a delivery does, for a signal it has parsed.
TradeIsLast ==
    \A d \in Deliveries :
        /\ pc[d] \in Working \cup {"new"} => trades[d] = "none"
        /\ trades[d] # "none" => signals[d] \in Signal
        /\ pc[d] \in Late \/ trades[d] # "none" => signals[d].day <= today

BiddersBounded ==
    \A s \in Symbols : Cardinality(Bidders(s)) <= crowd

SpendersBounded ==
    Cardinality(Spenders(today)) < DailyTradeMax + crowd

\* Past days only lose runners: nobody parses a signal of yesterday.
RunnersBounded ==
    \A day \in 0..MaxDay : day < today =>
        Cardinality(Runners(day)) < DailyTradeMax + 2 * crowd

\* The one delivery in flight still knows what it compared itself with.
EditIsNewer ==
    /\ \A m \in Messages :
          messages[m] # NoMessage /\ messages[m].edit > 0
              => messages[m].text = messages[m].edit
    /\ crowd <= 1 => \A d \in Deliveries : pc[d] = "edit" =>
          /\ messages[update[d].message] # NoMessage
          /\ update[d].edit > messages[update[d].message].edit

IInv ==
    /\ TypeOK
    /\ CrowdCounts
    /\ TradeIsLast
    /\ BiddersBounded
    /\ SpendersBounded
    /\ RunnersBounded
    /\ EditIsNewer

-----------------------------------------------------------------------------
(* Types.                                                                  *)

\* A delivery can always start: types at the empty tables (pipeline.py:26).
LEMMA InitType == Init => TypeOK
BY ExternalAssumption DEF Init, TypeOK

\* Every await of a delivery leaves well-typed state (pipeline.py:37-68).
LEMMA StepType ==
    ASSUME TypeOK, NEW d \in Deliveries, Step(d)
    PROVE  TypeOK'
<1> USE ExternalAssumption
<1>1. CASE FindMessage(d)
  BY <1>1 DEF FindMessage, TypeOK, Goto, tables, executor, Message, Update,
              Working
<1>2. CASE EditMessage(d)
  <2> DEFINE edited == [text |-> update[d].edit, edit |-> update[d].edit]
  <2>1. edited \in Message /\ update[d].message \in Messages
    BY <1>2 DEF EditMessage, TypeOK, Message, Update
  <2>2. /\ messages' = [messages EXCEPT ![update[d].message] = edited]
        /\ row' = [row EXCEPT ![d] = edited]
    BY <1>2 DEF EditMessage
  <2> HIDE DEF edited
  <2> QED
    BY <1>2, <2>1, <2>2 DEF EditMessage, TypeOK, Goto, Working
<1>3. CASE InsertMessage(d)
  <2> DEFINE new == [text |-> update[d].edit, edit |-> 0]
  <2>1. new \in Message /\ update[d].message \in Messages
    BY <1>3 DEF InsertMessage, TypeOK, Message, Update, Edits
  <2>2. UNCHANGED <<today, signals, trades, aiTrades, crowd>>
    BY <1>3 DEF InsertMessage
  <2>3. CASE messages[update[d].message] = NoMessage
    <3>1. /\ messages' = [messages EXCEPT ![update[d].message] = new]
          /\ row' = [row EXCEPT ![d] = new]
          /\ pc' = [pc EXCEPT ![d] = "parse"]
          /\ update' = update
      BY <1>3, <2>3 DEF InsertMessage, Goto
    <3> HIDE DEF new
    <3> QED
      BY <1>3, <2>1, <2>2, <3>1 DEF InsertMessage, TypeOK, Working
  <2>4. CASE messages[update[d].message] # NoMessage
    <3>1. /\ messages' = messages
          /\ row' = [row EXCEPT ![d] = NoMessage]
          /\ pc' = [pc EXCEPT ![d] = "ended"]
          /\ update' = [update EXCEPT ![d] = NoUpdate]
      BY <1>3, <2>4 DEF InsertMessage, Goto, Forget
    <3> QED
      BY <2>2, <3>1 DEF TypeOK, Working
  <2> QED
    BY <2>3, <2>4
<1>4. CASE ParseMessage(d)
  <2>1. \A s \in Symbols :
            [message |-> update[d].message, text |-> row[d].text,
             symbol |-> s, day |-> today] \in Signal
    BY <1>4 DEF ParseMessage, TypeOK, Message, Update, Signal
  <2>2. /\ UNCHANGED <<today, messages, trades, aiTrades, crowd>>
        /\ row' = [row EXCEPT ![d] = NoMessage]
        /\ update' = [update EXCEPT ![d] = NoUpdate]
    BY <1>4 DEF ParseMessage, Forget
  <2>3. \/ \E sig \in Signal, stage \in {"live", "open"} :
              signals' = [signals EXCEPT ![d] = sig]
              /\ pc' = [pc EXCEPT ![d] = stage]
        \/ pc' = [pc EXCEPT ![d] = "ended"] /\ UNCHANGED signals
    BY <1>4, <2>1 DEF ParseMessage, Goto
  <2>4. CASE pc' = [pc EXCEPT ![d] = "ended"] /\ UNCHANGED signals
    BY <2>2, <2>4 DEF TypeOK, Working
  <2>5. ASSUME NEW sig \in Signal, NEW stage \in {"live", "open"},
               signals' = [signals EXCEPT ![d] = sig],
               pc' = [pc EXCEPT ![d] = stage]
        PROVE  TypeOK'
    BY <2>2, <2>5 DEF TypeOK, Working
  <2> QED
    BY <2>3, <2>4, <2>5
<1>5. CASE OfferLive(d)
  BY <1>5 DEF OfferLive, TypeOK, Goto, tables, Working
<1>6. CASE AttemptLive(d)
  BY <1>6 DEF AttemptLive, TypeOK, tables, delivery
<1>7. CASE RejectLive(d)
  BY <1>7 DEF RejectLive, TypeOK, Goto, tables, Working
<1>8. CASE FindOpen(d)
  BY <1>8 DEF FindOpen, TypeOK, Goto, tables, Working
<1>9. CASE CheckBudget(d)
  BY <1>9 DEF CheckBudget, TypeOK, Goto, tables, Working
<1>10. CASE Persist(d)
  <2>1. /\ UNCHANGED <<today, messages, signals, aiTrades, update, row, crowd>>
        /\ pc' = [pc EXCEPT ![d] = "ended"]
        /\ UNCHANGED trades \/ trades' = [trades EXCEPT ![d] = "OPEN"]
    BY <1>10 DEF Persist, Goto
  <2>2. trades' \in [Deliveries -> {"none", "OPEN", "CLOSED"}]
    BY <2>1 DEF TypeOK
  <2> QED
    BY <2>1, <2>2 DEF TypeOK, Working
<1> QED
  BY <1>1, <1>2, <1>3, <1>4, <1>5, <1>6, <1>7, <1>8, <1>9, <1>10 DEF Step

\* The number of deliveries in flight is a number.
LEMMA InFlightFinite ==
    ASSUME CrowdCounts
    PROVE  IsFiniteSet(InFlight) /\ Cardinality(InFlight) \in Nat
<1>1. InFlight \in SUBSET Started
  BY DEF InFlight, Started, Working
<1> QED
  BY <1>1, FS_Subset, FS_CardinalityType DEF CrowdCounts

\* So does every step of anyone else (pipeline.py:26, routers/journal.py:140,
\* scheduler/jobs.py:154).
LEMMA NextType == TypeOK /\ CrowdCounts /\ [Next]_vars => TypeOK'
<1> SUFFICES ASSUME TypeOK, CrowdCounts, [Next]_vars
             PROVE  TypeOK'
  OBVIOUS
<1> USE ExternalAssumption
<1>1. ASSUME NEW d \in Deliveries, Deliver(d)
      PROVE  TypeOK'
  <2>1. Larger(crowd, Cardinality(InFlight) + 1) \in 0..MaxInFlight
    BY <1>1, InFlightFinite DEF Deliver, Larger, TypeOK
  <2> QED
    BY <1>1, <2>1 DEF Deliver, TypeOK, Goto, tables, Update, Working
<1>2. ASSUME NEW d \in Deliveries, Step(d)
      PROVE  TypeOK'
  BY <1>2, StepType
<1>3. ASSUME NEW d \in Deliveries, Fail(d)
      PROVE  TypeOK'
  BY <1>3 DEF Fail, TypeOK, Goto, Forget, tables, Working
<1>4. ASSUME NEW d \in Deliveries, CloseTrade(d)
      PROVE  TypeOK'
  BY <1>4 DEF CloseTrade, TypeOK, delivery
<1>5. CASE AiTrade
  BY <1>5 DEF AiTrade, TypeOK, delivery
<1>6. CASE Midnight
  BY <1>6 DEF Midnight, TypeOK, delivery, tables
<1>7. CASE UNCHANGED vars
  BY <1>7 DEF vars, TypeOK
<1> QED
  BY <1>1, <1>2, <1>3, <1>4, <1>5, <1>6, <1>7 DEF Next

-----------------------------------------------------------------------------
(* What a delivery's step can do to the sets counted.                      *)

\* One await moves one delivery, and only these moves make a promise or a
\* row: the symbol had no open trade, the budget was not spent, the check was
\* passed (paper_execution.py:32, fixed_margin.py:110, paper_execution.py:57).
LEMMA Moves ==
    ASSUME TypeOK, NEW d \in Deliveries, Step(d) \/ Fail(d)
    PROVE  /\ pc[d] \in Working /\ pc'[d] \in Working \cup {"ended"}
           /\ \A e \in Deliveries \ {d} :
                 /\ pc'[e] = pc[e] /\ signals'[e] = signals[e]
                 /\ trades'[e] = trades[e]
           /\ today' = today /\ crowd' = crowd
           /\ pc[d] \in Late => signals'[d] = signals[d]
           /\ pc'[d] \in Late =>
                 \/ pc[d] \in Late
                 \/ pc'[d] \in {"live", "open"} /\ signals'[d] \in Signal
                    /\ signals'[d].day = today
           /\ pc'[d] \in {"budget", "persist"} =>
                 \/ pc[d] = "budget"
                 \/ pc[d] = "open" /\ OpenTrades(signals[d].symbol) = {}
           /\ pc'[d] = "persist" => pc[d] = "budget" /\ TradesToday < DailyTradeMax
           /\ \/ trades'[d] = trades[d]
              \/ pc[d] = "persist" /\ pc'[d] = "ended" /\ trades'[d] = "OPEN"
<1> USE DEF TypeOK, Goto, tables, executor, Working, Late
<1>1. CASE FindMessage(d)
  BY <1>1 DEF FindMessage
<1>2. CASE EditMessage(d)
  BY <1>2 DEF EditMessage
<1>3. CASE InsertMessage(d)
  BY <1>3 DEF InsertMessage
<1>4. CASE ParseMessage(d)
  <2>1. \A s \in Symbols :
            LET sig == [message |-> update[d].message, text |-> row[d].text,
                        symbol |-> s, day |-> today]
            IN  sig \in Signal /\ sig.day = today
    BY <1>4 DEF ParseMessage, Message, Update, Signal
  <2> QED
    BY <1>4, <2>1 DEF ParseMessage
<1>5. CASE OfferLive(d)
  BY <1>5 DEF OfferLive
<1>6. CASE AttemptLive(d)
  BY <1>6 DEF AttemptLive, delivery
<1>7. CASE RejectLive(d)
  BY <1>7 DEF RejectLive
<1>8. CASE FindOpen(d)
  BY <1>8 DEF FindOpen
<1>9. CASE CheckBudget(d)
  BY <1>9 DEF CheckBudget
<1>10. CASE Persist(d)
  BY <1>10 DEF Persist
<1>11. CASE Fail(d)
  BY <1>11 DEF Fail
<1> QED
  BY <1>1, <1>2, <1>3, <1>4, <1>5, <1>6, <1>7, <1>8, <1>9, <1>10, <1>11
     DEF Step

\* The others leave the promises alone: a delivery that starts has made none,
\* an exit closes a row, the AI job and midnight touch no delivery.
LEMMA OtherMoves ==
    ASSUME TypeOK, CrowdCounts,
           \/ \E d \in Deliveries : Deliver(d) \/ CloseTrade(d)
           \/ AiTrade \/ Midnight \/ UNCHANGED vars
    PROVE  /\ signals' = signals
           /\ crowd' \in Nat /\ crowd' >= crowd
           /\ \A e \in Deliveries :
                 /\ pc'[e] # pc[e] => pc[e] = "new" /\ pc'[e] = "find"
                 /\ trades'[e] # trades[e] => trades[e] = "OPEN" /\ trades'[e] = "CLOSED"
           /\ \/ today' = today
              \/ today' = today + 1 /\ pc' = pc /\ trades' = trades
<1>1. crowd \in Nat
  BY ExternalAssumption DEF TypeOK
<1>2. ASSUME NEW d \in Deliveries, Deliver(d)
      PROVE  crowd' \in Nat /\ crowd' >= crowd
  BY <1>1, <1>2, InFlightFinite DEF Deliver, Larger
<1>3. CASE \E d \in Deliveries : Deliver(d)
  <2>1. PICK d \in Deliveries : Deliver(d)
    BY <1>3
  <2>2. /\ signals' = signals /\ trades' = trades /\ today' = today
        /\ pc[d] = "new" /\ pc' = [pc EXCEPT ![d] = "find"]
    BY <2>1 DEF Deliver, Goto, tables
  <2>3. \A e \in Deliveries : pc'[e] = IF e = d THEN "find" ELSE pc[e]
    BY <2>2 DEF TypeOK
  <2> QED
    BY <1>2, <2>1, <2>2, <2>3
<1>4. CASE \E d \in Deliveries : CloseTrade(d)
  <2>1. PICK d \in Deliveries : CloseTrade(d)
    BY <1>4
  <2>2. /\ signals' = signals /\ today' = today /\ pc' = pc /\ crowd' = crowd
        /\ trades[d] = "OPEN" /\ trades' = [trades EXCEPT ![d] = "CLOSED"]
    BY <2>1 DEF CloseTrade, delivery
  <2>3. \A e \in Deliveries : trades'[e] = IF e = d THEN "CLOSED" ELSE trades[e]
    BY <2>2 DEF TypeOK
  <2> QED
    BY <1>1, <2>2, <2>3
<1>5. CASE AiTrade
  BY <1>1, <1>5 DEF AiTrade, delivery
<1>6. CASE Midnight
  BY <1>1, <1>6 DEF Midnight, tables, delivery
<1>7. CASE UNCHANGED vars
  BY <1>1, <1>7 DEF vars
<1> QED
  BY <1>3, <1>4, <1>5, <1>6, <1>7

\* Every step is a delivery's or another's.
LEMMA Steps ==
    ASSUME [Next]_vars
    PROVE  \/ \E d \in Deliveries : Step(d) \/ Fail(d)
           \/ \E d \in Deliveries : Deliver(d) \/ CloseTrade(d)
           \/ AiTrade \/ Midnight \/ UNCHANGED vars
BY DEF Next

\* The history variable covers every delivery in flight (pipeline.py:26).
LEMMA NextCrowd == TypeOK /\ CrowdCounts /\ [Next]_vars => CrowdCounts'
<1> SUFFICES ASSUME TypeOK, CrowdCounts, [Next]_vars
             PROVE  CrowdCounts'
  OBVIOUS
<1>0. crowd \in Nat
  BY ExternalAssumption DEF TypeOK
<1>1. ASSUME NEW d \in Deliveries, Step(d) \/ Fail(d)
      PROVE  CrowdCounts'
  <2>1. Started' = Started /\ InFlight' \in SUBSET InFlight
    BY <1>1, Moves DEF Started, InFlight, Working
  <2> QED
    BY <1>0, <1>1, <2>1, Moves, InFlightFinite, FS_Subset, FS_CardinalityType
       DEF CrowdCounts
<1>2. ASSUME NEW d \in Deliveries, Deliver(d)
      PROVE  CrowdCounts'
  <2>1. Started' = Started \cup {d} /\ InFlight' = InFlight \cup {d}
        /\ d \notin InFlight
    BY <1>2 DEF Deliver, Started, InFlight, Goto, Working, TypeOK
  <2>2. IsFiniteSet(Started') /\ Cardinality(InFlight') = Cardinality(InFlight) + 1
    BY <2>1, InFlightFinite, FS_AddElement DEF CrowdCounts
  <2> QED
    BY <1>0, <1>2, <2>2, InFlightFinite DEF Deliver, Larger, CrowdCounts
<1>3. CASE \/ \E d \in Deliveries : CloseTrade(d)
           \/ AiTrade \/ Midnight \/ UNCHANGED vars
  <2>1. pc' = pc /\ crowd' = crowd
    BY <1>3 DEF CloseTrade, AiTrade, Midnight, vars, delivery
  <2> QED
    BY <2>1 DEF CrowdCounts, Started, InFlight
<1> QED
  BY <1>1, <1>2, <1>3, Steps

\* Trades come last (pipeline.py:65), of signals dated no later than today.
LEMMA NextTradeIsLast ==
    TypeOK /\ CrowdCounts /\ TradeIsLast /\ [Next]_vars => TradeIsLast'
<1> SUFFICES ASSUME TypeOK, CrowdCounts, TradeIsLast, [Next]_vars,
                    NEW e \in Deliveries
             PROVE  /\ pc'[e] \in Working \cup {"new"} => trades'[e] = "none"
                    /\ trades'[e] # "none" => signals'[e] \in Signal
                    /\ pc'[e] \in Late \/ trades'[e] # "none"
                          => signals'[e].day <= today'
  BY DEF TradeIsLast
<1>0. today \in Nat /\ (signals[e] \in Signal => signals[e].day \in Nat)
  BY ExternalAssumption DEF TypeOK, Signal
<1>t. /\ pc[e] \in Late => signals[e] \in Signal
      /\ pc[e] \in Working \cup {"new"} => trades[e] = "none"
      /\ trades[e] # "none" => signals[e] \in Signal
      /\ pc[e] \in Late \/ trades[e] # "none" => signals[e].day <= today
  BY DEF TypeOK, Late, TradeIsLast
<1>1. ASSUME NEW d \in Deliveries, Step(d) \/ Fail(d)
      PROVE  /\ pc'[e] \in Working \cup {"new"} => trades'[e] = "none"
             /\ trades'[e] # "none" => signals'[e] \in Signal
             /\ pc'[e] \in Late \/ trades'[e] # "none"
                   => signals'[e].day <= today'
  <2>1. CASE e # d
    BY <1>1, <1>0, <1>t, <2>1, Moves
  <2>2. CASE e = d
    BY <1>1, <1>0, <1>t, <2>2, Moves DEF Working, Late
  <2> QED
    BY <2>1, <2>2
<1>2. CASE \/ \E d \in Deliveries : Deliver(d) \/ CloseTrade(d)
           \/ AiTrade \/ Midnight \/ UNCHANGED vars
  BY <1>2, <1>0, <1>t, OtherMoves DEF Working, Late
<1> QED
  BY <1>1, <1>2, Steps

-----------------------------------------------------------------------------
(* The counts.                                                             *)

\* Everything counted has started, so there are finitely many of each.
LEMMA CountsFinite ==
    ASSUME CrowdCounts, TradeIsLast, TypeOK
    PROVE  /\ \A s : Bidders(s) \in SUBSET Started
           /\ \A day : /\ Spenders(day) \in SUBSET Started
                       /\ Runners(day) \in SUBSET Started
                       /\ Entries(day) \in SUBSET Started
           /\ \A T \in SUBSET Started :
                 IsFiniteSet(T) /\ Cardinality(T) \in Nat
           /\ \A T \in SUBSET Started : \A U \in SUBSET T :
                 Cardinality(U) <= Cardinality(T)
<1>1. /\ \A s : Bidders(s) \in SUBSET Started
      /\ \A day : /\ Spenders(day) \in SUBSET Started
                  /\ Runners(day) \in SUBSET Started
                  /\ Entries(day) \in SUBSET Started
  BY DEF Bidders, OpenTrades, Spenders, Runners, Entries, Started, TradeIsLast,
         Late
<1>2. \A T \in SUBSET Started : IsFiniteSet(T) /\ Cardinality(T) \in Nat
  BY FS_Subset, FS_CardinalityType DEF CrowdCounts
<1>3. \A T \in SUBSET Started : \A U \in SUBSET T :
          Cardinality(U) <= Cardinality(T)
  BY <1>2, FS_Subset
<1> QED
  BY <1>1, <1>2, <1>3

\* A set within two others is no larger than both together.
LEMMA UnionBound ==
    ASSUME NEW T, NEW B, IsFiniteSet(T), IsFiniteSet(B),
           NEW U \in SUBSET (T \cup B)
    PROVE  /\ IsFiniteSet(U) /\ Cardinality(U) \in Nat
           /\ Cardinality(T) \in Nat /\ Cardinality(B) \in Nat
           /\ Cardinality(U) <= Cardinality(T) + Cardinality(B)
<1>1. /\ IsFiniteSet(T \cup B)
      /\ Cardinality(T \cup B)
           = Cardinality(T) + Cardinality(B) - Cardinality(T \cap B)
  BY FS_Union
<1>2. /\ Cardinality(T) \in Nat /\ Cardinality(B) \in Nat
      /\ Cardinality(T \cap B) \in Nat /\ Cardinality(T \cup B) \in Nat
  BY <1>1, FS_Intersection, FS_CardinalityType
<1>3. IsFiniteSet(U) /\ Cardinality(U) <= Cardinality(T \cup B)
  BY <1>1, FS_Subset
<1>4. Cardinality(U) \in Nat
  BY <1>3, FS_CardinalityType
<1> QED
  BY <1>1, <1>2, <1>3, <1>4

\* The next state's sets are counted in the next state.
LEMMA NextCounts ==
    ASSUME TypeOK, CrowdCounts, TradeIsLast, [Next]_vars
    PROVE  /\ TypeOK' /\ CrowdCounts' /\ TradeIsLast'
           /\ crowd \in Nat /\ crowd' \in Nat /\ crowd' >= crowd
           /\ Started \subseteq Started'
           /\ IsFiniteSet(InFlight') /\ Cardinality(InFlight') \in Nat
           /\ Cardinality(InFlight') <= crowd'
<1>1. TypeOK' /\ CrowdCounts' /\ TradeIsLast'
  BY NextType, NextCrowd, NextTradeIsLast
<1>2. crowd \in Nat
  BY ExternalAssumption DEF TypeOK
<1>3. ASSUME NEW d \in Deliveries, Step(d) \/ Fail(d)
      PROVE  crowd' \in Nat /\ crowd' >= crowd /\ Started \subseteq Started'
  BY <1>2, <1>3, Moves DEF Started, Working
<1>4. ASSUME \/ \E d \in Deliveries : Deliver(d) \/ CloseTrade(d)
             \/ AiTrade \/ Midnight \/ UNCHANGED vars
      PROVE  crowd' \in Nat /\ crowd' >= crowd /\ Started \subseteq Started'
  BY <1>4, OtherMoves DEF Started
<1>5. /\ IsFiniteSet(InFlight') /\ Cardinality(InFlight') \in Nat
      /\ Cardinality(InFlight') <= crowd'
  <2>1. InFlight' \in SUBSET Started'
    BY DEF InFlight, Started, Working
  <2> QED
    BY <1>1, <2>1, FS_Subset, FS_CardinalityType DEF CrowdCounts
<1> QED
  BY <1>1, <1>2, <1>3, <1>4, <1>5, Steps

\* A delivery that found no open trade joins the bidders when none of them
\* has a row: those left were in flight with it (paper_execution.py:32).
LEMMA NextBidders ==
    TypeOK /\ CrowdCounts /\ TradeIsLast /\ BiddersBounded /\ [Next]_vars
        => BiddersBounded'
<1> SUFFICES ASSUME TypeOK, CrowdCounts, TradeIsLast, BiddersBounded,
                    [Next]_vars, NEW s \in Symbols
             PROVE  Cardinality(Bidders(s)') <= crowd'
  BY DEF BiddersBounded
<1>n. /\ TypeOK' /\ CrowdCounts' /\ TradeIsLast'
      /\ crowd \in Nat /\ crowd' \in Nat /\ crowd' >= crowd
      /\ IsFiniteSet(InFlight')
      /\ Cardinality(InFlight') \in Nat /\ Cardinality(InFlight') <= crowd'
  BY NextCounts
<1>0. Bidders(s) \in SUBSET Started
  BY CountsFinite
<1>b. Cardinality(Bidders(s)) <= crowd /\ Cardinality(Bidders(s)) \in Nat
  BY <1>0, CountsFinite DEF BiddersBounded
<1>1. CASE Bidders(s)' \subseteq Bidders(s)
  <2>1. Cardinality(Bidders(s)') <= Cardinality(Bidders(s))
    BY <1>0, <1>1, CountsFinite
  <2>2. Cardinality(Bidders(s)') \in Nat
    BY <1>0, <1>1, CountsFinite
  <2> QED
    BY <1>n, <1>b, <2>1, <2>2
<1>2. ASSUME NEW d \in Deliveries, Step(d) \/ Fail(d)
      PROVE  \/ Bidders(s)' \subseteq Bidders(s)
             \/ Bidders(s)' \subseteq InFlight'
  <2>1. CASE d \in Bidders(s)' \ Bidders(s)
    <3>1. pc[d] = "open" /\ OpenTrades(s) = {} /\ d \in InFlight'
      BY <1>2, <2>1, Moves
         DEF Bidders, OpenTrades, Late, InFlight, Working, TradeIsLast
    <3>2. \A e \in Bidders(s)' \ {d} : e \in InFlight'
      BY <1>2, <3>1, Moves DEF Bidders, OpenTrades, InFlight, Working
    <3> QED
      BY <3>1, <3>2
  <2>2. CASE d \notin Bidders(s)' \ Bidders(s)
    BY <1>2, <2>2, Moves DEF Bidders, OpenTrades
  <2> QED
    BY <2>1, <2>2
<1>3. CASE Bidders(s)' \subseteq InFlight'
  <2>1. /\ Cardinality(Bidders(s)') <= Cardinality(InFlight')
        /\ Cardinality(Bidders(s)') \in Nat
    BY <1>n, <1>3, FS_Subset, FS_CardinalityType
  <2> QED
    BY <1>n, <2>1
<1>4. CASE \/ \E d \in Deliveries : Deliver(d) \/ CloseTrade(d)
           \/ AiTrade \/ Midnight \/ UNCHANGED vars
  <2>1. Bidders(s)' \subseteq Bidders(s)
    BY <1>4, OtherMoves DEF Bidders, OpenTrades
  <2> QED
    BY <1>1, <2>1
<1> QED
  BY <1>1, <1>2, <1>3, <1>4, Steps

\* A delivery that passes the budget check joins the spenders when the day's
\* rows are fewer than the budget; the others were in flight with it
\* (fixed_margin.py:92-110).
LEMMA NextSpenders ==
    TypeOK /\ CrowdCounts /\ TradeIsLast /\ SpendersBounded /\ [Next]_vars
        => SpendersBounded'
<1> SUFFICES ASSUME TypeOK, CrowdCounts, TradeIsLast, SpendersBounded,
                    [Next]_vars
             PROVE  Cardinality(Spenders(today)') < DailyTradeMax + crowd'
  BY DEF SpendersBounded
<1>n. /\ TypeOK' /\ CrowdCounts' /\ TradeIsLast'
      /\ crowd \in Nat /\ crowd' \in Nat /\ crowd' >= crowd
      /\ IsFiniteSet(InFlight')
      /\ Cardinality(InFlight') \in Nat /\ Cardinality(InFlight') <= crowd'
      /\ DailyTradeMax \in Nat \ {0} /\ today \in Nat /\ aiTrades[today] \in Nat
  BY NextCounts, ExternalAssumption DEF TypeOK
<1>b. /\ Spenders(today) \in SUBSET Started
      /\ IsFiniteSet(Entries(today)) /\ Cardinality(Entries(today)) \in Nat
      /\ Cardinality(Spenders(today)) \in Nat
      /\ Cardinality(Spenders(today)) < DailyTradeMax + crowd
  BY CountsFinite DEF SpendersBounded
<1>1. CASE Spenders(today)' \subseteq Spenders(today)
  <2>1. /\ Cardinality(Spenders(today)') <= Cardinality(Spenders(today))
        /\ Cardinality(Spenders(today)') \in Nat
    BY <1>b, <1>1, CountsFinite
  <2> QED
    BY <1>n, <1>b, <2>1
<1>2. CASE /\ Spenders(today)' \subseteq Entries(today) \cup InFlight'
           /\ TradesToday < DailyTradeMax
  <2>1. Cardinality(Entries(today)) < DailyTradeMax
    BY <1>n, <1>b, <1>2 DEF TradesToday
  <2>2. /\ Cardinality(Spenders(today)')
             <= Cardinality(Entries(today)) + Cardinality(InFlight')
        /\ Cardinality(Spenders(today)') \in Nat
    BY <1>n, <1>b, <1>2, UnionBound
  <2> QED
    BY <1>n, <1>b, <2>1, <2>2
<1>3. ASSUME NEW d \in Deliveries, Step(d) \/ Fail(d)
      PROVE  \/ Spenders(today)' \subseteq Spenders(today)
             \/ /\ Spenders(today)' \subseteq Entries(today) \cup InFlight'
                /\ TradesToday < DailyTradeMax
  <2>1. CASE d \in Spenders(today)' \ Spenders(today)
    <3>1. pc[d] = "budget" /\ pc'[d] = "persist" /\ TradesToday < DailyTradeMax
      BY <1>3, <2>1, Moves DEF Spenders, Entries, Late, TradeIsLast, Working
    <3>2. \A e \in Spenders(today)' : e \in Entries(today) \cup InFlight'
      BY <1>3, <3>1, Moves
         DEF Spenders, Entries, InFlight, Working, TradeIsLast, Late
    <3> QED
      BY <3>1, <3>2
  <2>2. CASE d \notin Spenders(today)' \ Spenders(today)
    BY <1>3, <2>2, Moves DEF Spenders, Entries
  <2> QED
    BY <2>1, <2>2
<1>4. ASSUME \/ \E d \in Deliveries : Deliver(d) \/ CloseTrade(d)
             \/ AiTrade \/ Midnight \/ UNCHANGED vars,
             today' = today
      PROVE  Spenders(today)' \subseteq Spenders(today)
  BY <1>4, OtherMoves DEF Spenders, Entries
\* At midnight nothing is dated the new day.
<1>5. CASE today' = today + 1 /\ signals' = signals /\ pc' = pc /\ trades' = trades
  <2>1. ASSUME NEW e \in Deliveries, pc[e] \in Late \/ trades[e] # "none"
        PROVE  signals[e].day # today + 1
    <3>1. signals[e].day \in Nat /\ signals[e].day <= today
      BY <2>1, ExternalAssumption DEF TradeIsLast, TypeOK, Late, Signal
    <3> QED
      BY <1>n, <3>1
  <2>2. Spenders(today)' = {}
    BY <1>5, <2>1 DEF Spenders, Entries, Late
  <2> QED
    BY <1>n, <2>2, FS_EmptySet
<1> QED
  BY <1>1, <1>2, <1>3, <1>4, <1>5, Steps, OtherMoves

\* After midnight the deliveries of the day before that are still in flight
\* run on; nobody joins them (pipeline.py:49, paper_execution.py:57).
LEMMA NextRunners ==
    TypeOK /\ CrowdCounts /\ TradeIsLast /\ SpendersBounded /\ RunnersBounded
    /\ [Next]_vars => RunnersBounded'
<1> SUFFICES ASSUME TypeOK, CrowdCounts, TradeIsLast, SpendersBounded,
                    RunnersBounded, [Next]_vars,
                    NEW day \in 0..MaxDay, day < today'
             PROVE  Cardinality(Runners(day)') < DailyTradeMax + 2 * crowd'
  BY DEF RunnersBounded
<1>n. /\ crowd \in Nat /\ crowd' \in Nat /\ crowd' >= crowd
      /\ IsFiniteSet(InFlight) /\ Cardinality(InFlight) <= crowd
      /\ Cardinality(InFlight) \in Nat
      /\ DailyTradeMax \in Nat \ {0} /\ today \in Nat /\ day \in Nat
  BY NextCounts, InFlightFinite, ExternalAssumption DEF TypeOK, CrowdCounts
<1>b. /\ Runners(day) \in SUBSET Started /\ Spenders(day) \in SUBSET Started
      /\ IsFiniteSet(Spenders(day))
      /\ Cardinality(Runners(day)) \in Nat /\ Cardinality(Spenders(day)) \in Nat
      /\ day < today => Cardinality(Runners(day)) < DailyTradeMax + 2 * crowd
      /\ day = today => Cardinality(Spenders(day)) < DailyTradeMax + crowd
  BY CountsFinite DEF RunnersBounded, SpendersBounded
<1>1. CASE Runners(day)' \subseteq Runners(day) /\ day < today
  <2>1. /\ Cardinality(Runners(day)') <= Cardinality(Runners(day))
        /\ Cardinality(Runners(day)') \in Nat
    BY <1>b, <1>1, CountsFinite
  <2> QED
    BY <1>n, <1>b, <1>1, <2>1
<1>2. ASSUME NEW d \in Deliveries, Step(d) \/ Fail(d)
      PROVE  Runners(day)' \subseteq Runners(day) /\ day < today
  <2>1. today' = today
    BY <1>2, Moves
  <2>2. d \in Runners(day)' => d \in Runners(day)
    BY <1>2, <1>n, <2>1, Moves DEF Runners, Entries, Late, TradeIsLast
  <2> QED
    BY <1>2, <2>1, <2>2, Moves DEF Runners, Entries
<1>3. CASE \/ \E d \in Deliveries : Deliver(d) \/ CloseTrade(d)
           \/ AiTrade \/ Midnight \/ UNCHANGED vars
  <2>1. Runners(day)' \subseteq Runners(day)
    BY <1>3, OtherMoves DEF Runners, Entries, Late
  <2>2. CASE day < today
    BY <1>1, <2>1, <2>2
  <2>3. CASE day = today
    <3>1. Runners(day)' \subseteq Spenders(day) \cup InFlight
      BY <2>1 DEF Runners, Spenders, InFlight, Late, Working
    <3>2. /\ Cardinality(Runners(day)')
               <= Cardinality(Spenders(day)) + Cardinality(InFlight)
          /\ Cardinality(Runners(day)') \in Nat
      BY <1>n, <1>b, <3>1, UnionBound
    <3> QED
      BY <1>n, <1>b, <2>3, <3>2
  <2>4. day < today \/ day = today
    BY <1>n, <1>3, OtherMoves
  <2> QED
    BY <2>2, <2>3, <2>4
<1> QED
  BY <1>1, <1>2, <1>3, Steps

-----------------------------------------------------------------------------
(* The edits.                                                              *)

\* The messages table is written by an edit newer than the stored one and by
\* the first delivery (ingestion.py:69, 76).
LEMMA MessageMoves ==
    ASSUME TypeOK, NEW d \in Deliveries, NEW m \in Messages,
           Step(d) \/ Fail(d), messages'[m] # messages[m]
    PROVE  /\ update[d] \in Update /\ update[d].message = m
           /\ messages'[m] \in Message
           /\ \/ /\ pc[d] = "edit"
                 /\ messages'[m].edit = update[d].edit
                 /\ messages'[m].text = update[d].edit
              \/ /\ pc[d] = "insert" /\ messages[m] = NoMessage
                 /\ messages'[m].edit = 0
<1>1. CASE EditMessage(d)
  <2> DEFINE edited == [text |-> update[d].edit, edit |-> update[d].edit]
  <2>1. /\ update[d] \in Update /\ pc[d] = "edit"
        /\ messages' = [messages EXCEPT ![update[d].message] = edited]
    BY <1>1 DEF EditMessage, TypeOK
  <2>2. /\ edited \in Message
        /\ edited.edit = update[d].edit /\ edited.text = update[d].edit
    BY <2>1 DEF Update, Message
  <2> HIDE DEF edited
  <2> QED
    BY <2>1, <2>2 DEF TypeOK
<1>2. CASE InsertMessage(d)
  <2> DEFINE new == [text |-> update[d].edit, edit |-> 0]
  <2>1. /\ update[d] \in Update /\ pc[d] = "insert"
        /\ messages[update[d].message] = NoMessage
        /\ messages' = [messages EXCEPT ![update[d].message] = new]
    BY <1>2 DEF InsertMessage, TypeOK
  <2>2. new \in Message /\ new.edit = 0
    BY <2>1, ExternalAssumption DEF Update, Message, Edits
  <2> HIDE DEF new
  <2> QED
    BY <2>1, <2>2 DEF TypeOK
<1>3. ASSUME ~EditMessage(d), ~InsertMessage(d)
      PROVE  messages' = messages
  BY <1>3 DEF Step, Fail, FindMessage, ParseMessage, OfferLive, AttemptLive,
              RejectLive, FindOpen, CheckBudget, Persist, tables
<1> QED
  BY <1>1, <1>2, <1>3

\* With one delivery in flight at most, nobody else is at work.
LEMMA Alone ==
    ASSUME CrowdCounts, crowd \in Nat, crowd <= 1,
           NEW d \in InFlight, NEW e \in InFlight
    PROVE  d = e
<1> SUFFICES ASSUME d # e
             PROVE  FALSE
  OBVIOUS
<1>1. {d, e} \in SUBSET InFlight /\ {d, e} = {d} \cup {e}
  OBVIOUS
<1>2. Cardinality({d, e}) = 2
  <2>1. IsFiniteSet({d}) /\ Cardinality({d}) = 1
    BY FS_Singleton
  <2> QED
    BY <1>1, <2>1, FS_AddElement
<1>3. Cardinality({d, e}) <= Cardinality(InFlight)
  BY <1>1, InFlightFinite, FS_Subset
<1> QED
  BY <1>2, <1>3, InFlightFinite DEF CrowdCounts

\* What ingest_message compared is still so when it writes (ingestion.py:69).
LEMMA NextEdit ==
    TypeOK /\ CrowdCounts /\ EditIsNewer /\ [Next]_vars => EditIsNewer'
<1> SUFFICES ASSUME TypeOK, CrowdCounts, EditIsNewer, [Next]_vars
             PROVE  EditIsNewer'
  OBVIOUS
<1>0. crowd \in Nat /\ NoMessage \notin Message
  BY ExternalAssumption DEF TypeOK, Message, Edits
<1>1. ASSUME NEW d \in Deliveries, Step(d) \/ Fail(d)
      PROVE  EditIsNewer'
  <2>1. ASSUME NEW m \in Messages,
               messages'[m] # NoMessage, messages'[m].edit > 0
        PROVE  messages'[m].text = messages'[m].edit
    BY <1>1, <2>1, MessageMoves DEF EditIsNewer
  <2>2. ASSUME crowd' <= 1, NEW e \in Deliveries, pc'[e] = "edit"
        PROVE  /\ messages'[update'[e].message] # NoMessage
               /\ update'[e].edit > messages'[update'[e].message].edit
    <3>1. e = d
      BY <1>0, <1>1, <2>2, Moves, Alone DEF InFlight, Working
    <3>2. FindMessage(d)
      BY <1>1, <2>2, <3>1
         DEF Step, Fail, EditMessage, InsertMessage, ParseMessage, OfferLive,
             AttemptLive, RejectLive, FindOpen, CheckBudget, Persist, Goto,
             TypeOK, delivery
    <3> QED
      BY <2>2, <3>1, <3>2 DEF FindMessage, Goto, TypeOK, tables
  <2> QED
    BY <2>1, <2>2 DEF EditIsNewer
<1>2. ASSUME NEW d \in Deliveries, Deliver(d)
      PROVE  EditIsNewer'
  <2>1. messages' = messages /\ (crowd' <= 1 => crowd <= 1)
    BY <1>0, <1>2, InFlightFinite DEF Deliver, tables, Larger
  <2>2. ASSUME NEW e \in Deliveries, pc'[e] = "edit"
        PROVE  pc[e] = "edit" /\ update'[e] = update[e]
    BY <1>2, <2>2 DEF Deliver, Goto, TypeOK
  <2> QED
    BY <2>1, <2>2 DEF EditIsNewer
<1>3. CASE \/ \E d \in Deliveries : CloseTrade(d)
           \/ AiTrade \/ Midnight \/ UNCHANGED vars
  <2>1. messages' = messages /\ pc' = pc /\ update' = update /\ crowd' = crowd
    BY <1>3 DEF CloseTrade, AiTrade, Midnight, vars, delivery, tables
  <2> QED
    BY <2>1 DEF EditIsNewer
<1> QED
  BY <1>1, <1>2, <1>3, Steps

-----------------------------------------------------------------------------
(* The theorems.                                                           *)

\* Empty tables satisfy the invariant.
LEMMA InitInv == Init => IInv
<1> SUFFICES ASSUME Init PROVE IInv
  OBVIOUS
<1>1. TypeOK
  BY InitType
<1>2. Started = {} /\ InFlight = {} /\ crowd = 0 /\ today = 0
  BY DEF Init, Started, InFlight, Working
<1>3. /\ \A s \in Symbols : Bidders(s) = {}
      /\ \A day : Spenders(day) = {} /\ Runners(day) = {}
  BY DEF Init, Bidders, Spenders, Runners, OpenTrades, Entries, Late
<1>4. IsFiniteSet({}) /\ Cardinality({}) = 0 /\ DailyTradeMax \in Nat \ {0}
  BY FS_EmptySet, ExternalAssumption
<1>5. CrowdCounts /\ BiddersBounded
  BY <1>2, <1>3, <1>4 DEF CrowdCounts, BiddersBounded
<1>6. SpendersBounded /\ RunnersBounded
  BY <1>2, <1>3, <1>4 DEF SpendersBounded, RunnersBounded
<1>7. TradeIsLast /\ EditIsNewer
  BY DEF Init, TradeIsLast, EditIsNewer, Late, Working
<1> QED
  BY <1>1, <1>5, <1>6, <1>7 DEF IInv

\* Every step preserves it.
LEMMA NextInv == IInv /\ [Next]_vars => IInv'
BY NextType, NextCrowd, NextTradeIsLast, NextBidders, NextSpenders,
   NextRunners, NextEdit DEF IInv

\* IInv is an inductive invariant of the pipeline.
THEOREM Invariance == Spec => []IInv
BY InitInv, NextInv, PTL DEF Spec

\* Every delivery is always in a well-typed state, and a delivery that is to
\* read its message, its row or its signal has one (pipeline.py:37-68).
THEOREM TypeCorrect == Spec => []TypeOK
BY Invariance, PTL DEF IInv

\* However deliveries of a symbol's signals overlap, repeat and fail, and
\* whenever the operator closes a trade, the symbol has no more open trades
\* than deliveries were ever in flight together (paper_execution.py:32).
THEOREM OpenTradesAreBounded == Spec => []OpenTradesBounded
<1>1. IInv => OpenTradesBounded
  <2> SUFFICES ASSUME IInv, NEW s \in Symbols
               PROVE  Cardinality(OpenTrades(s)) <= crowd
    BY DEF OpenTradesBounded
  <2>1. crowd \in Nat
    BY ExternalAssumption DEF IInv, TypeOK
  <2>2. /\ Bidders(s) \in SUBSET Started
        /\ OpenTrades(s) \in SUBSET Bidders(s)
    BY CountsFinite DEF IInv, Bidders
  <2>3. /\ Cardinality(OpenTrades(s)) <= Cardinality(Bidders(s))
        /\ Cardinality(OpenTrades(s)) \in Nat /\ Cardinality(Bidders(s)) \in Nat
    BY <2>2, CountsFinite DEF IInv
  <2> QED
    BY <2>1, <2>3 DEF IInv, BiddersBounded
<1> QED
  BY <1>1, Invariance, PTL

\* Whatever the deliveries and midnight do between the budget's count and the
\* row, a day's Telegram entries stay under DAILY_TRADE_MAX plus twice the
\* largest crowd (fixed_margin.py:79-110).
THEOREM DailyEntriesAreBounded == Spec => []DailyEntriesBounded
<1>1. IInv => DailyEntriesBounded
  <2> SUFFICES ASSUME IInv, NEW day \in 0..MaxDay
               PROVE  Cardinality(Entries(day)) < DailyTradeMax + 2 * Larger(crowd, 1)
    BY DEF DailyEntriesBounded
  <2>1. /\ crowd \in Nat /\ DailyTradeMax \in Nat \ {0}
        /\ day \in Nat /\ today \in Nat
    BY ExternalAssumption DEF IInv, TypeOK
  <2>2. /\ Entries(day) \in SUBSET Runners(day)
        /\ Entries(day) \in SUBSET Spenders(day)
    BY DEF Runners, Spenders
  <2>3. /\ Cardinality(Entries(day)) \in Nat
        /\ Cardinality(Runners(day)) \in Nat /\ Cardinality(Spenders(day)) \in Nat
        /\ Cardinality(Entries(day)) <= Cardinality(Runners(day))
        /\ Cardinality(Entries(day)) <= Cardinality(Spenders(day))
    BY <2>2, CountsFinite DEF IInv
  <2>4. 2 * crowd <= 2 * Larger(crowd, 1) /\ crowd <= 2 * Larger(crowd, 1)
        /\ Larger(crowd, 1) \in Nat \ {0}
    BY <2>1 DEF Larger
  <2>5. CASE day < today
    <3>1. Cardinality(Runners(day)) < DailyTradeMax + 2 * crowd
      BY <2>5 DEF IInv, RunnersBounded
    <3> QED
      BY <2>1, <2>3, <2>4, <3>1
  <2>6. CASE day = today
    <3>1. Cardinality(Spenders(day)) < DailyTradeMax + crowd
      BY <2>6 DEF IInv, SpendersBounded
    <3> QED
      BY <2>1, <2>3, <2>4, <3>1
  <2>7. CASE day > today
    <3>1. ASSUME NEW d \in Entries(day)
          PROVE  FALSE
      <4>1. signals[d].day = day /\ signals[d].day <= today
        BY DEF IInv, Entries, TradeIsLast
      <4> QED
        BY <2>1, <2>7, <4>1
    <3>2. Entries(day) = {}
      BY <3>1
    <3> QED
      BY <2>1, <2>4, <3>2, FS_EmptySet
  <2> QED
    BY <2>1, <2>5, <2>6, <2>7
<1> QED
  BY <1>1, Invariance, PTL

\* Deliveries that come one at a time, in any order, never put an older text
\* in the place of a newer one, except where an edit was stored as though it
\* were the post (ingestion.py:76-82), and never make a message such a one
\* again (ingestion.py:68-74).
THEOREM EditsOnlyMoveForward == Spec => EditsMoveForward
<1> DEFINE Forward ==
      crowd <= 1 => \A m \in Messages : messages[m] # NoMessage =>
          /\ messages'[m] # NoMessage
          /\ messages'[m].text >= messages[m].text \/ Unstamped(messages[m])
          /\ Unstamped(messages'[m]) => messages'[m] = messages[m]
<1>1. IInv /\ [Next]_vars => [Forward]_vars
  <2> SUFFICES ASSUME IInv, [Next]_vars, crowd <= 1,
                      NEW m \in Messages, messages[m] # NoMessage
               PROVE  /\ messages'[m] # NoMessage
                      /\ \/ messages'[m].text >= messages[m].text
                         \/ Unstamped(messages[m])
                      /\ Unstamped(messages'[m]) => messages'[m] = messages[m]
    OBVIOUS
  <2>0. /\ TypeOK /\ NoMessage \notin Message /\ messages[m] \in Message
        /\ messages[m].edit \in Nat /\ messages[m].text \in Nat
    BY ExternalAssumption DEF IInv, TypeOK, Message, Edits
  <2>1. CASE messages'[m] = messages[m]
    BY <2>0, <2>1
  <2>2. ASSUME NEW d \in Deliveries, Step(d) \/ Fail(d),
               messages'[m] # messages[m]
        PROVE  /\ messages'[m] \in Message
               /\ messages'[m].edit > messages[m].edit
               /\ messages'[m].text = messages'[m].edit
    BY <2>0, <2>2, MessageMoves DEF IInv, EditIsNewer
  <2>3. ASSUME \/ \E d \in Deliveries : Deliver(d) \/ CloseTrade(d)
               \/ AiTrade \/ Midnight \/ UNCHANGED vars
        PROVE  messages' = messages
    BY <2>3 DEF Deliver, CloseTrade, AiTrade, Midnight, vars, tables
  <2>4. CASE messages'[m] # messages[m]
    <3>1. PICK d \in Deliveries : Step(d) \/ Fail(d)
      BY <2>3, <2>4, Steps
    <3>2. /\ messages'[m] \in Message
          /\ messages'[m].edit > messages[m].edit
          /\ messages'[m].text = messages'[m].edit
      BY <2>2, <2>4, <3>1
    <3>3. messages'[m].edit \in Nat
      BY <3>2, ExternalAssumption DEF Message, Edits
    <3>4. ~Unstamped(messages'[m])
      BY <3>2, <3>3 DEF Unstamped
    <3>5. messages'[m].text >= messages[m].text \/ Unstamped(messages[m])
      BY <2>0, <3>2, <3>3 DEF Unstamped
    <3> QED
      BY <2>0, <3>2, <3>4, <3>5
  <2> QED
    BY <2>1, <2>4
<1> QED
  BY <1>1, Invariance, PTL DEF Spec, EditsMoveForward

\* The pipeline uses the live executor as its ledger promises: each signal is
\* received once, attempted by way of the ledger only and rejected for good
\* (wiring.py:45-109, pipeline.py:55-63).
THEOREM UsesLedger == Spec => Executor!Spec
<1>1. Init => Executor!Init
  BY DEF Init
<1>2. [Next]_vars => [Executor!Next]_(Executor!vars)
  <2> SUFFICES ASSUME [Next]_vars
               PROVE  Executor!Next \/ UNCHANGED Executor!vars
    OBVIOUS
  <2>1. ASSUME NEW d \in Deliveries, Step(d)
        PROVE  Executor!Next \/ UNCHANGED Executor!vars
    <3>1. CASE OfferLive(d)
      BY <3>1 DEF OfferLive, Executor!Next
    <3>2. CASE AttemptLive(d)
      BY <3>2 DEF AttemptLive, Executor!Next
    <3>3. CASE RejectLive(d)
      BY <3>3 DEF RejectLive, Executor!Next
    <3>4. CASE \/ FindMessage(d) \/ EditMessage(d) \/ InsertMessage(d)
               \/ ParseMessage(d) \/ FindOpen(d) \/ CheckBudget(d)
               \/ Persist(d)
      BY <3>4 DEF FindMessage, EditMessage, InsertMessage, ParseMessage,
                  FindOpen, CheckBudget, Persist, executor, Executor!vars
    <3> QED
      BY <2>1, <3>1, <3>2, <3>3, <3>4 DEF Step
  <2>2. CASE \/ \E d \in Deliveries : Deliver(d) \/ CloseTrade(d) \/ Fail(d)
             \/ AiTrade \/ Midnight \/ UNCHANGED vars
    BY <2>2 DEF Deliver, CloseTrade, Fail, AiTrade, Midnight, vars, executor,
                Executor!vars
  <2> QED
    BY <2>1, <2>2 DEF Next
<1> QED
  BY <1>1, <1>2, PTL DEF Spec, Executor!Spec
=============================================================================
