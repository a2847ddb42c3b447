------------------------- MODULE IngestCycleProofs -------------------------
(***************************************************************************)
(* What holds of IngestCycle for any rows, event times, tickers, reference *)
(* instant and number of failures.                                         *)
(***************************************************************************)
EXTENDS IngestCycle, WellFoundedInduction, TLAPS

(* Some captured row is the newest.                                        *)
HasNewest ==
  captured # {} => \E r \in captured : \A q \in captured : At[q] <= At[r]

----------------------------------------------------------------------------
(* Lemmas about the operators the actions share.                           *)

LEMMA LaterIsGreatest ==
  ASSUME NEW s \in Nat, NEW t \in Nat
  PROVE  /\ Later(s, t) \in Nat /\ Later(s, t) >= s /\ Later(s, t) >= t
         /\ Later(s, t) \in {s, t}
BY DEF Later

LEMMA AtPositive == ASSUME NEW r \in Row PROVE At[r] \in Nat /\ At[r] > 0
BY AtAssumption

LEMMA LeastNat ==
  ASSUME NEW T, T \subseteq Nat, T # {}
  PROVE  \E x \in T : \A y \in T : x <= y
<1>1. PICK x \in T : \A y \in T : ~(<<y, x>> \in OpToRel(<, Nat))
  BY NatLessThanWellFounded, WFMin
<1>2. \A y \in T : <<y, x>> \in OpToRel(<, Nat) <=> y < x
  BY DEF OpToRel
<1>3. \A y \in T : ~(y < x)
  BY <1>1, <1>2
<1>4. \A y \in T : x \in Nat /\ y \in Nat
  OBVIOUS
<1>5. \A y \in T : x <= y
  BY <1>3, <1>4
<1> QED
  BY <1>5

(* The fixtures, which end by the reference instant, have a newest row.    *)
LEMMA SeedHasNewest ==
  ASSUME Seed # {}
  PROVE  \E r \in Seed : \A q \in Seed : At[q] <= At[r]
<1> DEFINE T == {Reference - At[q] : q \in Seed}
<1>1. \A q \in Seed : At[q] \in Nat /\ Reference \in Nat /\ Reference - At[q] \in Nat
  BY RowAssumption, AtPositive, ReferenceAssumption
<1>2. T \subseteq Nat /\ T # {}
  BY <1>1
<1>3. PICK x \in T : \A y \in T : x <= y
  <2> HIDE DEF T
  <2> QED
    BY <1>2, LeastNat
<1>4. PICK r \in Seed : x = Reference - At[r]
  BY <1>3
<1>5. \A q \in Seed : Reference - At[r] <= Reference - At[q]
  BY <1>3, <1>4
<1>6. \A q \in Seed : At[q] <= At[r]
  BY <1>1, <1>5
<1> QED
  BY <1>6

(* The newest of some rows is the time of one of them, and of no older.    *)
LEMMA NewestIsNewest ==
  ASSUME NEW S, S \subseteq Row,
         S # {} => \E r \in S : \A q \in S : At[q] <= At[r]
  PROVE  /\ Newest(S) \in Nat
         /\ \A r \in S : At[r] <= Newest(S)
<1>1. CASE S = {}
  BY <1>1 DEF Newest, Never
<1>2. CASE S # {}
  <2>1. PICK r \in S : \A q \in S : At[q] <= At[r]
    BY <1>2
  <2> DEFINE T == {At[q] : q \in S}
  <2>3. At[r] \in T /\ \A t \in T : At[r] >= t
    BY <2>1, AtPositive
  <2>4. Max(T) \in T /\ \A t \in T : Max(T) >= t
    BY <2>3 DEF Max
  <2>5. Newest(S) = Max(T)
    BY <1>2 DEF Newest
  <2> QED
    BY <2>4, <2>5, AtPositive
<1> QED
  BY <1>1, <1>2

LEMMA FrontierIsNewest == ASSUME TypeOK, HasNewest PROVE Frontier \in Nat
BY NewestIsNewest DEF Frontier, HasNewest, TypeOK

(* A tick that is reset has its shape.                                     *)
LEMMA NoTickTyped == NoTick \in Tick
BY DEF NoTick, Tick, Never, Stream, Lane

(* What a tick sees of the window of a stream is captured.                 *)
LEMMA WindowCaptured ==
  ASSUME NEW t, NEW s
  PROVE  Window(t, s) \subseteq captured
BY DEF Window

LEMMA AffectedCaptured ==
  ASSUME NEW t, NEW l, tick[t].built \subseteq captured
  PROVE  Affected(t, l) \subseteq captured
BY WindowCaptured DEF Affected

LEMMA BuiltLinks == ASSUME NEW S PROVE Built(S) \subseteq S
BY DEF Built

(* How each step of a tick moves it, field by field.                       *)

Pc == {"idle", "frontier", "marks", "commit"} \cup Stream

Others(t) == \A u \in Ticker \ {t} : tick'[u] = tick[u]

LEMMA TakeLockMoves ==
  ASSUME tick \in [Ticker -> Tick], NEW t \in Ticker, TakeLock(t)
  PROVE  /\ tick' \in [Ticker -> Tick] /\ Others(t)
         /\ tick'[t].pc = "frontier"
         /\ tick'[t].asOf = tick[t].asOf /\ tick'[t].since = tick[t].since
         /\ tick'[t].featured = tick[t].featured /\ tick'[t].decided = tick[t].decided
         /\ tick'[t].built = tick[t].built
<1>1. tick' = [tick EXCEPT ![t].pc = "frontier"]
  BY DEF TakeLock
<1> QED
  BY <1>1 DEF Tick, Others

LEMMA CloseMoves ==
  ASSUME tick \in [Ticker -> Tick], NEW t \in Ticker, Close(t)
  PROVE  /\ tick' \in [Ticker -> Tick] /\ Others(t)
         /\ tick'[t] = NoTick /\ lock' = NoTicker
BY NoTickTyped DEF Close, Others

LEMMA FrontierMoves ==
  ASSUME tick \in [Ticker -> Tick], NEW t \in Ticker, NEW a \in Nat,
         tick' = [tick EXCEPT ![t].pc = "marks", ![t].asOf = a]
  PROVE  /\ tick' \in [Ticker -> Tick] /\ Others(t)
         /\ tick'[t].pc = "marks"
         /\ tick'[t].asOf = a /\ tick'[t].since = tick[t].since
         /\ tick'[t].featured = tick[t].featured /\ tick'[t].decided = tick[t].decided
         /\ tick'[t].built = tick[t].built
<1>1. tick' = [tick EXCEPT ![t] = [tick[t] EXCEPT !.pc = "marks", !.asOf = a]]
  OBVIOUS
<1>2. [tick[t] EXCEPT !.pc = "marks", !.asOf = a] \in Tick
  BY DEF Tick, Stream
<1> QED
  BY <1>1, <1>2 DEF Tick, Others

LEMMA MarksMoves ==
  ASSUME tick \in [Ticker -> Tick], NEW t \in Ticker, NEW m \in [Stream -> Nat],
         tick' = [tick EXCEPT ![t].pc = "graph", ![t].since = m]
  PROVE  /\ tick' \in [Ticker -> Tick] /\ Others(t)
         /\ tick'[t].pc = "graph"
         /\ tick'[t].asOf = tick[t].asOf /\ tick'[t].since = m
         /\ tick'[t].featured = tick[t].featured /\ tick'[t].decided = tick[t].decided
         /\ tick'[t].built = tick[t].built
<1>1. tick' = [tick EXCEPT ![t] = [tick[t] EXCEPT !.pc = "graph", !.since = m]]
  OBVIOUS
<1>2. [tick[t] EXCEPT !.pc = "graph", !.since = m] \in Tick
  BY DEF Tick, Stream
<1> QED
  BY <1>1, <1>2 DEF Tick, Others

LEMMA GraphMoves ==
  ASSUME tick \in [Ticker -> Tick], NEW t \in Ticker, RunGraph(t)
  PROVE  /\ tick' \in [Ticker -> Tick] /\ Others(t)
         /\ tick'[t].pc = "features"
         /\ tick'[t].asOf = tick[t].asOf /\ tick'[t].since = tick[t].since
         /\ tick'[t].featured = tick[t].featured /\ tick'[t].decided = tick[t].decided
         /\ tick'[t].built \subseteq captured
<1> DEFINE b == Built(captured \cap Link)
<1>1. tick' = [tick EXCEPT ![t].pc = "features", ![t].built = b]
  BY DEF RunGraph
<1>2. b \subseteq captured /\ b \subseteq Link
  BY BuiltLinks
<1> HIDE DEF b
<1>3. tick' = [tick EXCEPT ![t] = [tick[t] EXCEPT !.pc = "features", !.built = b]]
  BY <1>1
<1>4. [tick[t] EXCEPT !.pc = "features", !.built = b] \in Tick
  BY <1>2 DEF Tick, Stream
<1> QED
  BY <1>2, <1>3, <1>4 DEF Tick, Others

LEMMA FeaturesMoves ==
  ASSUME tick \in [Ticker -> Tick], NEW t \in Ticker, RunFeatures(t),
         Window(t, "features") \subseteq Row
  PROVE  /\ tick' \in [Ticker -> Tick] /\ Others(t)
         /\ tick'[t].pc = "inline_sync"
         /\ tick'[t].asOf = tick[t].asOf /\ tick'[t].since = tick[t].since
         /\ tick'[t].featured = Window(t, "features") /\ tick'[t].decided = tick[t].decided
         /\ tick'[t].built = tick[t].built
<1> DEFINE w == Window(t, "features")
<1>1. tick' = [tick EXCEPT ![t].pc = "inline_sync", ![t].featured = w]
  BY DEF RunFeatures
<1> HIDE DEF w
<1>2. tick' = [tick EXCEPT ![t] = [tick[t] EXCEPT !.pc = "inline_sync", !.featured = w]]
  BY <1>1
<1>3. [tick[t] EXCEPT !.pc = "inline_sync", !.featured = w] \in Tick
  BY DEF w, Tick, Stream, Lane
<1>4. w = Window(t, "features")
  BY DEF w
<1> QED
  BY <1>2, <1>3, <1>4 DEF Tick, Others

(* The stage after a lane.                                                 *)
After(l) == IF l = "inline_sync" THEN "async" ELSE "commit"

LEMMA LaneMoves ==
  ASSUME tick \in [Ticker -> Tick], NEW t \in Ticker, NEW l \in Lane, RunLane(t, l),
         Affected(t, l) \subseteq Row
  PROVE  /\ tick' \in [Ticker -> Tick] /\ Others(t)
         /\ tick'[t].pc = After(l)
         /\ tick'[t].asOf = tick[t].asOf /\ tick'[t].since = tick[t].since
         /\ tick'[t].featured = tick[t].featured /\ tick'[t].built = tick[t].built
         /\ tick'[t].decided = [tick[t].decided EXCEPT ![l] = Affected(t, l)]
<1> DEFINE w == Affected(t, l)
           d == [tick[t].decided EXCEPT ![l] = w]
           p == After(l)
<1>1. tick' = [tick EXCEPT ![t].pc = p, ![t].decided[l] = w]
  BY DEF RunLane, After
<1>2. d \in [Lane -> SUBSET Row]
  BY DEF Tick
<1>3. p \in {"commit"} \cup Stream
  BY DEF After, Stream, Lane
<1> HIDE DEF w, p
<1>4. tick' = [tick EXCEPT ![t] = [tick[t] EXCEPT !.pc = p, !.decided = d]]
  BY <1>1
<1>5. d = [tick[t].decided EXCEPT ![l] = Affected(t, l)] /\ p = After(l)
  BY DEF w, p
<1> HIDE DEF d
<1>6. [tick[t] EXCEPT !.pc = p, !.decided = d] \in Tick
  BY <1>2, <1>3 DEF Tick
<1> QED
  BY <1>4, <1>5, <1>6 DEF Tick, Others

----------------------------------------------------------------------------
(* Type correctness.                                                       *)

(* What a transaction has not yet committed is of captured rows.           *)
PendingCaptured ==
  /\ \A t \in Ticker : /\ tick[t].featured \subseteq captured
                       /\ tick[t].built \subseteq captured
                       /\ \A l \in Lane : tick[t].decided[l] \subseteq captured
  /\ rescore.plan \subseteq captured

TypeInv == TypeOK /\ HasNewest /\ PendingCaptured

LEMMA InitTyped == Init => TypeInv
<1> SUFFICES ASSUME Init PROVE TypeInv
  OBVIOUS
<1>1. NoRescore \in [pc : {"idle", "plan", "commit"}, lane : Lane, asOf : Nat, plan : SUBSET Row]
  BY DEF NoRescore, Lane, Never
<1>2. [l \in Lane |-> [r \in Row |-> 0]] \in [Lane -> [Row -> Nat]]
  OBVIOUS
<1>3. marks \in [Stream -> Nat]
  <2>1. Newest(Seed) \in Nat
    BY SeedHasNewest, NewestIsNewest, RowAssumption
  <2> QED
    BY <2>1 DEF Init, Never
<1>4. members \subseteq captured \cap Link
  BY BuiltLinks DEF Init
<1>5. TypeOK
  <2>1. captured \subseteq Row /\ featured \subseteq captured /\ founders \subseteq captured
    BY RowAssumption DEF Init
  <2>2. decided \in [Lane -> SUBSET captured] /\ late \in [Stream -> SUBSET captured]
    BY DEF Init
  <2>3. /\ byTick \in [Lane -> [Row -> Nat]] /\ lock \in Ticker \cup {NoTicker}
        /\ failures \in 0..MaxFailures
    BY <1>2, FailureAssumption DEF Init
  <2>4. tick \in [Ticker -> Tick] /\ rescore = NoRescore
    BY NoTickTyped DEF Init
  <2> QED
    BY <1>1, <1>3, <1>4, <2>1, <2>2, <2>3, <2>4 DEF TypeOK
<1>6. HasNewest /\ PendingCaptured
  BY SeedHasNewest DEF Init, HasNewest, PendingCaptured, NoTick, NoRescore
<1> QED
  BY <1>5, <1>6 DEF TypeInv

(* Capturing a row keeps one the newest.                                   *)
LEMMA NewestStays ==
  ASSUME TypeOK, HasNewest, NEW r \in Row, captured' = captured \cup {r}
  PROVE  HasNewest'
<1>1. captured \subseteq Row
  BY DEF TypeOK
<1>2. CASE captured = {}
  BY <1>2, AtPositive DEF HasNewest
<1>3. CASE captured # {}
  <2>1. PICK n \in captured : \A q \in captured : At[q] <= At[n]
    BY <1>3 DEF HasNewest
  <2>2. CASE At[r] <= At[n]
    BY <1>1, <2>1, <2>2, AtPositive DEF HasNewest
  <2>3. CASE ~(At[r] <= At[n])
    <3>1. \A q \in captured' : At[q] <= At[r]
      BY <1>1, <2>1, <2>3, AtPositive
    <3> QED
      BY <3>1 DEF HasNewest
  <2> QED
    BY <2>2, <2>3
<1> QED
  BY <1>2, <1>3

(* A step of one tick that leaves raw capture alone keeps what ticks have  *)
(* pending within it.                                                      *)
LEMMA PendingStays ==
  ASSUME PendingCaptured, NEW t \in Ticker, Others(t), captured' = captured,
         tick'[t].featured \subseteq captured, tick'[t].built \subseteq captured,
         \A l \in Lane : tick'[t].decided[l] \subseteq captured,
         rescore'.plan \subseteq captured
  PROVE  PendingCaptured'
BY DEF PendingCaptured, Others

LEMMA CloseTyped ==
  ASSUME TypeInv, NEW t \in Ticker, Close(t), captured' = captured, rescore' = rescore
  PROVE  /\ tick' \in [Ticker -> Tick] /\ lock' \in Ticker \cup {NoTicker}
         /\ PendingCaptured'
<1>1. tick \in [Ticker -> Tick]
  BY DEF TypeInv, TypeOK
<1>2. tick' \in [Ticker -> Tick] /\ Others(t) /\ tick'[t] = NoTick /\ lock' = NoTicker
  BY <1>1, CloseMoves
<1>3. rescore'.plan \subseteq captured
  BY DEF TypeInv, PendingCaptured
<1>4. NoTick.featured = {} /\ NoTick.built = {} /\ \A l \in Lane : NoTick.decided[l] = {}
  BY DEF NoTick
<1>5. PendingCaptured'
  BY <1>2, <1>3, <1>4, PendingStays DEF TypeInv
<1> QED
  BY <1>2, <1>5

LEMMA StepTyped == TypeInv /\ [Next]_vars => TypeInv'
<1> SUFFICES ASSUME TypeInv, [Next]_vars PROVE TypeInv'
  OBVIOUS
<1>t. tick \in [Ticker -> Tick] /\ captured \subseteq Row
  BY DEF TypeInv, TypeOK
<1>p. /\ \A t \in Ticker : /\ tick[t].featured \subseteq captured
                           /\ tick[t].built \subseteq captured
                           /\ \A l \in Lane : tick[t].decided[l] \subseteq captured
      /\ rescore.plan \subseteq captured
  BY DEF TypeInv, PendingCaptured
<1>l. ASSUME NEW r \in Row, Land(r)
      PROVE  /\ HasNewest' /\ captured' \subseteq Row /\ captured \subseteq captured'
             /\ late' \in [Stream -> SUBSET captured']
  <2>1. captured' = captured \cup {r} /\ HasNewest'
    BY <1>l, NewestStays DEF Land, TypeInv
  <2>2. late' \in [Stream -> SUBSET captured']
    BY <1>l DEF Land, TypeInv, TypeOK
  <2> QED
    BY <1>t, <2>1, <2>2
<1>1. ASSUME NEW r \in Row, Ingest(r) PROVE TypeInv'
  <2>1. Land(r)
    BY <1>1 DEF Ingest
  <2>2. TypeOK'
    BY <1>1, <1>l, <2>1 DEF Ingest, cluster, TypeInv, TypeOK
  <2>3. PendingCaptured'
    BY <1>1, <1>p, <1>l, <2>1 DEF Ingest, PendingCaptured
  <2> QED
    BY <1>l, <2>1, <2>2, <2>3 DEF TypeInv
<1>2. ASSUME NEW r \in Charge, Authorize(r) PROVE TypeInv'
  <2>1. r \in Row /\ Land(r)
    BY <1>2, RowAssumption DEF Authorize
  <2>2. decided' \in [Lane -> SUBSET captured']
    BY <1>2, <2>1 DEF Authorize, Land, TypeInv, TypeOK
  <2>3. TypeOK'
    BY <1>2, <1>l, <2>1, <2>2 DEF Authorize, Land, cluster, TypeInv, TypeOK
  <2>4. PendingCaptured'
    BY <1>2, <1>p, <1>l, <2>1 DEF Authorize, PendingCaptured
  <2> QED
    BY <1>l, <2>1, <2>3, <2>4 DEF TypeInv
<1>3. ASSUME NEW t \in Ticker, TakeLock(t) PROVE TypeInv'
  <2>1. /\ tick' \in [Ticker -> Tick] /\ Others(t)
        /\ tick'[t].featured = tick[t].featured /\ tick'[t].decided = tick[t].decided
        /\ tick'[t].built = tick[t].built
    BY <1>t, <1>3, TakeLockMoves
  <2>2. PendingCaptured'
    BY <1>p, <1>3, <2>1, PendingStays DEF TakeLock, TypeInv
  <2> QED
    BY <1>3, <2>1, <2>2 DEF TakeLock, TypeInv, TypeOK, HasNewest, cluster
<1>4. ASSUME NEW t \in Ticker, ReadFrontier(t) PROVE TypeInv'
  <2>1. tick' \in [Ticker -> Tick] /\ lock' \in Ticker \cup {NoTicker} /\ PendingCaptured'
    <3>1. CASE captured = {}
      BY <1>4, <3>1, CloseTyped DEF ReadFrontier
    <3>2. CASE captured # {}
      <4>1. tick' = [tick EXCEPT ![t].pc = "marks", ![t].asOf = Frontier] /\ lock' = lock
        BY <1>4, <3>2 DEF ReadFrontier
      <4>2. Frontier \in Nat
        BY FrontierIsNewest DEF TypeInv
      <4>3. /\ tick' \in [Ticker -> Tick] /\ Others(t)
            /\ tick'[t].featured = tick[t].featured /\ tick'[t].decided = tick[t].decided
        /\ tick'[t].built = tick[t].built
        BY <1>t, <4>1, <4>2, FrontierMoves
      <4>4. PendingCaptured'
        BY <1>p, <1>4, <4>3, PendingStays DEF ReadFrontier, TypeInv
      <4> QED
        BY <4>1, <4>3, <4>4 DEF TypeInv, TypeOK
    <3> QED
      BY <3>1, <3>2
  <2> QED
    BY <1>4, <2>1 DEF ReadFrontier, TypeInv, TypeOK, HasNewest, cluster
<1>5. ASSUME NEW t \in Ticker, ReadMarks(t) PROVE TypeInv'
  <2>1. tick' \in [Ticker -> Tick] /\ lock' \in Ticker \cup {NoTicker} /\ PendingCaptured'
    <3>1. CASE Close(t)
      BY <1>5, <3>1, CloseTyped DEF ReadMarks
    <3>2. CASE /\ tick' = [tick EXCEPT ![t].pc = "graph", ![t].since = marks]
               /\ lock' = lock
      <4>1. marks \in [Stream -> Nat]
        BY DEF TypeInv, TypeOK
      <4>2. /\ tick' \in [Ticker -> Tick] /\ Others(t)
            /\ tick'[t].featured = tick[t].featured /\ tick'[t].decided = tick[t].decided
        /\ tick'[t].built = tick[t].built
        BY <1>t, <3>2, <4>1, MarksMoves
      <4>3. PendingCaptured'
        BY <1>p, <1>5, <4>2, PendingStays DEF ReadMarks, TypeInv
      <4> QED
        BY <3>2, <4>2, <4>3 DEF TypeInv, TypeOK
    <3> QED
      BY <1>5, <3>1, <3>2 DEF ReadMarks
  <2> QED
    BY <1>5, <2>1 DEF ReadMarks, TypeInv, TypeOK, HasNewest, cluster
<1>6. ASSUME NEW t \in Ticker, RunFeatures(t) PROVE TypeInv'
  <2>1. Window(t, "features") \subseteq captured
    BY WindowCaptured
  <2>2. /\ tick' \in [Ticker -> Tick] /\ Others(t)
        /\ tick'[t].featured = Window(t, "features") /\ tick'[t].decided = tick[t].decided
        /\ tick'[t].built = tick[t].built
    BY <1>t, <1>6, <2>1, FeaturesMoves
  <2>3. PendingCaptured'
    BY <1>p, <1>6, <2>1, <2>2, PendingStays DEF RunFeatures, TypeInv
  <2> QED
    BY <1>6, <2>2, <2>3 DEF RunFeatures, TypeInv, TypeOK, HasNewest, cluster
<1>7. ASSUME NEW t \in Ticker, NEW l \in Lane, RunLane(t, l) PROVE TypeInv'
  <2>1. Affected(t, l) \subseteq captured
    BY <1>p, AffectedCaptured
  <2>2. /\ tick' \in [Ticker -> Tick] /\ Others(t)
        /\ tick'[t].featured = tick[t].featured /\ tick'[t].built = tick[t].built
        /\ tick'[t].decided = [tick[t].decided EXCEPT ![l] = Affected(t, l)]
    BY <1>t, <1>7, <2>1, LaneMoves
  <2>3. \A k \in Lane : tick'[t].decided[k] \subseteq captured
    <3>1. tick[t].decided \in [Lane -> SUBSET Row]
      BY <1>t DEF Tick
    <3> QED
      BY <1>p, <2>1, <2>2, <3>1
  <2>4. PendingCaptured'
    BY <1>p, <1>7, <2>2, <2>3, PendingStays DEF RunLane, TypeInv
  <2> QED
    BY <1>7, <2>2, <2>4 DEF RunLane, TypeInv, TypeOK, HasNewest, cluster
<1>8. ASSUME NEW t \in Ticker, Commit(t) PROVE TypeInv'
  <2>1. tick' \in [Ticker -> Tick] /\ lock' \in Ticker \cup {NoTicker} /\ PendingCaptured'
    BY <1>8, CloseTyped DEF Commit
  <2>2. marks' \in [Stream -> Nat]
    <3>1. tick[t].asOf \in Nat
      BY <1>t DEF Tick
    <3>2. \A s \in Stream : Later(marks[s], tick[t].asOf) \in Nat
      BY <3>1, LaterIsGreatest DEF TypeInv, TypeOK
    <3> QED
      BY <1>8, <3>2 DEF Commit, Advanced
  <2>3. featured' \subseteq captured'
    BY <1>8, <1>p DEF Commit, TypeInv, TypeOK
  <2>4. decided' \in [Lane -> SUBSET captured']
    BY <1>8, <1>p DEF Commit, TypeInv, TypeOK
  <2>5. byTick' \in [Lane -> [Row -> Nat]]
    BY <1>8 DEF Commit, TypeInv, TypeOK
  <2>6. members' \subseteq captured \cap Link /\ founders' \subseteq captured
    <3>1. tick[t].built \subseteq Link
      BY <1>t DEF Tick
    <3> QED
      BY <1>8, <1>p, <3>1 DEF Commit, TypeInv, TypeOK
  <2> QED
    BY <1>8, <2>1, <2>2, <2>3, <2>4, <2>5, <2>6 DEF Commit, TypeInv, TypeOK, HasNewest, cluster
<1>9. ASSUME NEW t \in Ticker, Fail(t) PROVE TypeInv'
  <2>1. tick' \in [Ticker -> Tick] /\ lock' \in Ticker \cup {NoTicker} /\ PendingCaptured'
    BY <1>9, CloseTyped DEF Fail
  <2>2. failures' \in 0..MaxFailures
    BY <1>9, FailureAssumption DEF Fail, TypeInv, TypeOK
  <2> QED
    BY <1>9, <2>1, <2>2 DEF Fail, TypeInv, TypeOK, HasNewest, cluster
<1>10. ASSUME NEW l \in Lane, RescoreFrom(l) PROVE TypeInv'
  <2>1. PICK a \in {Later(Reference, Frontier)} \cup ByHand :
          rescore' = [NoRescore EXCEPT !.pc = "plan", !.lane = l, !.asOf = a]
    BY <1>10 DEF RescoreFrom
  <2>2. a \in Nat
    BY FrontierIsNewest, LaterIsGreatest, ReferenceAssumption DEF TypeInv
  <2>3. /\ rescore' \in [pc : {"idle", "plan", "commit"}, lane : Lane, asOf : Nat, plan : SUBSET Row]
        /\ rescore'.plan = {}
    BY <2>1, <2>2 DEF NoRescore
  <2> QED
    BY <1>10, <2>3 DEF RescoreFrom, TypeInv, TypeOK, HasNewest, cluster, PendingCaptured
<1>11. ASSUME RescorePlan PROVE TypeInv'
  <2>1. /\ rescore' \in [pc : {"idle", "plan", "commit"}, lane : Lane, asOf : Nat, plan : SUBSET Row]
        /\ rescore'.plan \subseteq captured
    BY <1>t, <1>11 DEF RescorePlan, TypeInv, TypeOK
  <2> QED
    BY <1>11, <2>1 DEF RescorePlan, TypeInv, TypeOK, HasNewest, cluster, PendingCaptured
<1>12. ASSUME RescoreCommit PROVE TypeInv'
  <2>1. /\ NoRescore \in [pc : {"idle", "plan", "commit"}, lane : Lane, asOf : Nat, plan : SUBSET Row]
        /\ NoRescore.plan = {}
    BY DEF NoRescore, Lane, Never
  <2>2. rescore.lane \in Lane /\ rescore.asOf \in Nat /\ Lane \subseteq Stream
    BY DEF TypeInv, TypeOK, Stream
  <2>3. marks' \in [Stream -> Nat]
    <3>1. Later(marks[rescore.lane], rescore.asOf) \in Nat
      BY <2>2, LaterIsGreatest DEF TypeInv, TypeOK
    <3> QED
      BY <1>12, <3>1 DEF RescoreCommit, Advanced, TypeInv, TypeOK
  <2>4. decided' \in [Lane -> SUBSET captured']
    BY <1>12, <1>p, <2>2 DEF RescoreCommit, TypeInv, TypeOK
  <2> QED
    BY <1>12, <2>1, <2>3, <2>4 DEF RescoreCommit, TypeInv, TypeOK, HasNewest, cluster, PendingCaptured
<1>14. ASSUME NEW t \in Ticker, RunGraph(t) PROVE TypeInv'
  <2>1. /\ tick' \in [Ticker -> Tick] /\ Others(t)
        /\ tick'[t].featured = tick[t].featured /\ tick'[t].decided = tick[t].decided
        /\ tick'[t].built \subseteq captured
    BY <1>t, <1>14, GraphMoves
  <2>2. PendingCaptured'
    BY <1>p, <1>14, <2>1, PendingStays DEF RunGraph, TypeInv
  <2> QED
    BY <1>14, <2>1, <2>2 DEF RunGraph, TypeInv, TypeOK, HasNewest, cluster
<1>13. CASE UNCHANGED vars
  BY <1>13 DEF vars, cluster, TypeInv, TypeOK, HasNewest, PendingCaptured
<1> QED
  BY <1>1, <1>2, <1>3, <1>4, <1>5, <1>6, <1>7, <1>8, <1>9, <1>10, <1>11, <1>12, <1>13, <1>14
  DEF Next, Step

(* Every state of every run of the cycle has its shape: features and       *)
(* evaluations are only of captured rows.                                  *)
THEOREM TypeCorrect == Spec => []TypeOK
<1>1. Spec => []TypeInv
  BY InitTyped, StepTyped, PTL DEF Spec
<1>2. TypeInv => TypeOK
  BY DEF TypeInv
<1> QED
  BY <1>1, <1>2, PTL

----------------------------------------------------------------------------
(* Watermarks.                                                             *)

(* A watermark moves when a tick commits, in every stream to the same      *)
(* instant, or when a run by hand commits, in its lane.                    *)
LEMMA MarksMove ==
  ASSUME TypeInv, [Next]_vars
  PROVE  \/ marks' = marks
         \/ \E t \in Ticker : Commit(t) /\ \A s \in Stream :
              marks'[s] = Later(marks[s], tick[t].asOf) /\ tick[t].asOf \in Nat
         \/ /\ RescoreCommit
            /\ \A s \in Stream : marks'[s] =
                 IF s = rescore.lane THEN Later(marks[s], rescore.asOf) ELSE marks[s]
            /\ rescore.asOf \in Nat
<1>1. ASSUME NEW t \in Ticker, Commit(t)
      PROVE  \A s \in Stream : marks'[s] = Later(marks[s], tick[t].asOf) /\ tick[t].asOf \in Nat
  BY <1>1 DEF Commit, Advanced, TypeInv, TypeOK, Tick
<1>2. ASSUME RescoreCommit
      PROVE  /\ \A s \in Stream : marks'[s] =
                  IF s = rescore.lane THEN Later(marks[s], rescore.asOf) ELSE marks[s]
             /\ rescore.asOf \in Nat
  BY <1>2 DEF RescoreCommit, Advanced, TypeInv, TypeOK
<1>3. \A t \in Ticker : Step(t) /\ ~Commit(t) => marks' = marks
  BY DEF Step, ReadFrontier, ReadMarks, RunGraph, RunFeatures, RunLane
<1>4. \A t \in Ticker : TakeLock(t) \/ Fail(t) => marks' = marks
  BY DEF TakeLock, Fail
<1>5. (\E r \in Row : Ingest(r)) \/ (\E r \in Charge : Authorize(r)) => marks' = marks
  BY DEF Ingest, Authorize, Land
<1>6. (\E l \in Lane : RescoreFrom(l)) \/ RescorePlan => marks' = marks
  BY DEF RescoreFrom, RescorePlan
<1>7. UNCHANGED vars => marks' = marks
  BY DEF vars
<1> QED
  BY <1>1, <1>2, <1>3, <1>4, <1>5, <1>6, <1>7 DEF Next

LEMMA MarksRise ==
  ASSUME TypeInv, [Next]_vars
  PROVE  \A s \in Stream : marks'[s] >= marks[s]
<1>1. \A s \in Stream : marks[s] \in Nat
  BY DEF TypeInv, TypeOK
<1>2. ASSUME NEW t \in Ticker, \A s \in Stream :
        marks'[s] = Later(marks[s], tick[t].asOf) /\ tick[t].asOf \in Nat
      PROVE  \A s \in Stream : marks'[s] >= marks[s]
  BY <1>1, <1>2 DEF Later
<1>3. ASSUME rescore.asOf \in Nat, \A s \in Stream : marks'[s] =
        IF s = rescore.lane THEN Later(marks[s], rescore.asOf) ELSE marks[s]
      PROVE  \A s \in Stream : marks'[s] >= marks[s]
  BY <1>1, <1>3 DEF Later
<1>4. CASE marks' = marks
  BY <1>1, <1>4
<1> QED
  BY <1>2, <1>3, <1>4, MarksMove, Zenon

(* No watermark moves backward.                                            *)
THEOREM MarksOnlyRise == Spec => MarksNeverBackward
<1>1. TypeInv /\ [Next]_vars => [\A s \in Stream : marks'[s] >= marks[s]]_vars
  BY MarksRise
<1> QED
  BY <1>1, InitTyped, StepTyped, PTL DEF Spec, MarksNeverBackward

----------------------------------------------------------------------------
(* One tick at a time.                                                     *)

(* A tick in progress holds the advisory lock.                             *)
LockHeld == \A t \in Ticker : tick[t].pc # "idle" => lock = t

Idle(t) == tick[t].pc = "idle"

(* A tick under way moves only itself, and keeps the lock or is closed.    *)
LEMMA StepMoves ==
  ASSUME TypeInv, NEW t \in Ticker, Step(t) \/ Fail(t)
  PROVE  ~Idle(t) /\ Others(t) /\ (Close(t) \/ lock' = lock)
<1>t. tick \in [Ticker -> Tick] /\ marks \in [Stream -> Nat]
  BY DEF TypeInv, TypeOK
<1>c. Close(t) => Others(t)
  BY <1>t, CloseMoves
<1>1. CASE ReadFrontier(t)
  <2>1. CASE tick' = [tick EXCEPT ![t].pc = "marks", ![t].asOf = Frontier] /\ lock' = lock
    BY <1>t, <1>1, <2>1, FrontierIsNewest, FrontierMoves DEF ReadFrontier, AtStep, Idle, TypeInv
  <2> QED
    BY <1>c, <1>1, <2>1 DEF ReadFrontier, AtStep, Idle
<1>2. CASE ReadMarks(t)
  <2>1. CASE tick' = [tick EXCEPT ![t].pc = "graph", ![t].since = marks] /\ lock' = lock
    BY <1>t, <1>2, <2>1, MarksMoves DEF ReadMarks, AtStep, Idle
  <2> QED
    BY <1>c, <1>2, <2>1 DEF ReadMarks, AtStep, Idle
<1>3. CASE RunGraph(t)
  BY <1>t, <1>3, GraphMoves DEF RunGraph, AtStep, Idle
<1>4. CASE RunFeatures(t)
  <2>1. Window(t, "features") \subseteq Row
    BY WindowCaptured DEF TypeInv, TypeOK
  <2> QED
    BY <1>t, <1>4, <2>1, FeaturesMoves DEF RunFeatures, AtStep, Idle
<1>5. ASSUME NEW l \in Lane, RunLane(t, l)
      PROVE  ~Idle(t) /\ Others(t) /\ lock' = lock
  <2>1. Affected(t, l) \subseteq Row
    BY AffectedCaptured DEF TypeInv, TypeOK, PendingCaptured
  <2>2. tick[t].pc = l /\ l # "idle" /\ lock' = lock
    BY <1>5 DEF RunLane, AtStep, Lane
  <2> QED
    BY <1>t, <1>5, <2>1, <2>2, LaneMoves DEF Idle
<1>6. CASE Commit(t)
  BY <1>c, <1>6 DEF Commit, AtStep, Idle
<1>7. CASE Fail(t)
  BY <1>c, <1>7 DEF Fail, Idle
<1> QED
  BY <1>1, <1>2, <1>3, <1>4, <1>5, <1>6, <1>7 DEF Step

LEMMA ClosedIdle ==
  ASSUME TypeInv, NEW t \in Ticker, Close(t)
  PROVE  tick'[t].pc = "idle" /\ lock' = NoTicker
BY CloseMoves DEF TypeInv, TypeOK, NoTick

(* The lock passes only to a tick that finds it free, and only its holder  *)
(* takes steps.                                                            *)
LEMMA LockStep ==
  ASSUME TypeInv, LockHeld, [Next]_vars
  PROVE  LockHeld'
<1>1. ASSUME NEW t \in Ticker, TakeLock(t) PROVE LockHeld'
  <2>1. Others(t)
    BY <1>1, TakeLockMoves DEF TypeInv, TypeOK
  <2>2. lock = NoTicker /\ lock' = t
    BY <1>1 DEF TakeLock
  <2> QED
    BY <2>1, <2>2, TickerAssumption DEF LockHeld, Others
<1>2. ASSUME NEW t \in Ticker, Step(t) \/ Fail(t) PROVE LockHeld'
  <2>1. ~Idle(t) /\ Others(t) /\ (Close(t) \/ lock' = lock)
    BY <1>2, StepMoves
  <2>2. lock = t /\ \A u \in Ticker \ {t} : tick'[u].pc = "idle"
    BY <2>1 DEF LockHeld, Idle, Others
  <2>3. tick'[t].pc # "idle" => lock' = t
    BY <2>1, <2>2, ClosedIdle
  <2> QED
    BY <2>2, <2>3 DEF LockHeld
<1>3. CASE UNCHANGED <<tick, lock>>
  BY <1>3 DEF LockHeld
<1>4. \/ (\E r \in Row : Ingest(r)) \/ (\E r \in Charge : Authorize(r))
      \/ (\E l \in Lane : RescoreFrom(l)) \/ RescorePlan \/ RescoreCommit \/ UNCHANGED vars
      => UNCHANGED <<tick, lock>>
  BY DEF Ingest, Authorize, RescoreFrom, RescorePlan, RescoreCommit, vars
<1> QED
  BY <1>1, <1>2, <1>3, <1>4 DEF Next

LEMMA OthersIdle ==
  ASSUME LockHeld, NEW t \in Ticker, ~Idle(t), Others(t)
  PROVE  \A u \in Ticker \ {t} : tick'[u].pc = "idle"
BY DEF LockHeld, Idle, Others

----------------------------------------------------------------------------
(* Nothing is skipped.                                                     *)

Read == {"graph"} \cup Past("graph")     \* the marks are read

(* A tick in flight accounts for every row up to asOf that did not land    *)
(* behind a stage it has run: the row was done by someone before, or is    *)
(* done by this tick.  A cluster that is new has its links evaluated.      *)
Accounts(t) ==
  /\ tick[t].pc \in Read => \A s \in Stream : tick[t].since[s] <= marks[s]
  /\ tick[t].pc \in Past("features") => \A r \in captured \ late["features"] :
       At[r] <= tick[t].asOf => r \in featured \cup tick[t].featured
  /\ \A l \in Lane : tick[t].pc \in Past(l) =>
       /\ \A r \in captured \ (late[l] \cup Link) :
            At[r] <= tick[t].asOf => r \in decided[l] \cup tick[t].decided[l]
       /\ Fresh(t) => \A r \in tick[t].built :
            At[r] <= tick[t].asOf => r \in tick[t].decided[l]

RescoreAccounts ==
  rescore.pc = "commit" => \A r \in captured \ (late[rescore.lane] \cup Link) :
    At[r] <= rescore.asOf => r \in rescore.plan

SoundInv == NothingSkipped /\ RescoreAccounts /\ \A t \in Ticker : Accounts(t)

LEMMA Stages ==
  /\ Past("features") = {"inline_sync", "async", "commit"}
  /\ Past("inline_sync") = {"async", "commit"} /\ Past("async") = {"commit"}
  /\ Read = {"graph", "features", "inline_sync", "async", "commit"}
  /\ Lane = {"inline_sync", "async"}
  /\ "features" \in Stream /\ Lane \subseteq Stream
BY DEF Read, Past, Lane, Stream

LEMMA EarlyAccounts ==
  ASSUME NEW t \in Ticker, tick[t].pc \in {"idle", "frontier", "marks"}
  PROVE  Accounts(t)
<1>1. tick[t].pc \notin Read /\ tick[t].pc \notin Past("features")
  BY Stages
<1>2. \A l \in Lane : tick[t].pc \notin Past(l)
  BY Stages
<1> QED
  BY <1>1, <1>2 DEF Accounts

LEMMA TickFields ==
  ASSUME TypeInv, NEW t \in Ticker
  PROVE  /\ tick[t].asOf \in Nat /\ tick[t].since \in [Stream -> Nat]
         /\ tick[t].decided \in [Lane -> SUBSET Row] /\ tick[t].pc \in Pc
         /\ tick[t].built \subseteq captured /\ tick[t].built \subseteq Link
         /\ Lane \subseteq Stream /\ "features" \in Stream /\ captured \subseteq Row
BY DEF TypeInv, TypeOK, PendingCaptured, Tick, Pc, Stream

(* What no step does: forget a row, or undo what was done of one.          *)
Grows ==
  /\ captured \subseteq captured' /\ featured \subseteq featured'
  /\ \A l \in Lane : decided[l] \subseteq decided'[l]
  /\ \A s \in Stream : late[s] \subseteq late'[s]

LEMMA StepGrows ==
  ASSUME TypeInv, [Next]_vars
  PROVE  Grows
<1>d. decided \in [Lane -> SUBSET captured] /\ late \in [Stream -> SUBSET captured]
  BY DEF TypeInv, TypeOK
<1>1. ASSUME NEW r \in Row, Ingest(r) PROVE Grows
  BY <1>d, <1>1 DEF Ingest, Land, Grows
<1>2. ASSUME NEW r \in Charge, Authorize(r) PROVE Grows
  <2>1. \A l \in Lane : decided[l] \subseteq decided'[l]
    BY <1>d, <1>2 DEF Authorize
  <2> QED
    BY <1>d, <1>2, <2>1 DEF Authorize, Land, Grows
<1>3. ASSUME NEW t \in Ticker, Commit(t) PROVE Grows
  BY <1>d, <1>3 DEF Commit, Grows
<1>4. ASSUME NEW t \in Ticker, Step(t) \/ TakeLock(t) \/ Fail(t), ~Commit(t) PROVE Grows
  BY <1>4 DEF Step, TakeLock, Fail, ReadFrontier, ReadMarks, RunGraph, RunFeatures, RunLane,
     Grows
<1>5. ASSUME (\E l \in Lane : RescoreFrom(l)) \/ RescorePlan PROVE Grows
  BY <1>5 DEF RescoreFrom, RescorePlan, Grows
<1>6. ASSUME RescoreCommit PROVE Grows
  <2>1. \A l \in Lane : decided[l] \subseteq decided'[l]
    BY <1>d, <1>6 DEF RescoreCommit
  <2> QED
    BY <1>6, <2>1 DEF RescoreCommit, Grows
<1>7. CASE UNCHANGED vars
  BY <1>7 DEF vars, Grows
<1> QED
  BY <1>1, <1>2, <1>3, <1>4, <1>5, <1>6, <1>7 DEF Next

LEMMA InitSound == Init => SoundInv /\ LockHeld
<1> SUFFICES ASSUME Init PROVE SoundInv /\ LockHeld
  OBVIOUS
<1>1. NothingSkipped
  <2>1. \A l \in Lane : marks[l] = 0
    BY DEF Init, Stream, Never
  <2>2. \A l \in Lane : \A r \in captured : ~(At[r] <= marks[l])
    BY <2>1, AtPositive, RowAssumption DEF Init
  <2> QED
    BY <2>2 DEF Init, NothingSkipped
<1>2. RescoreAccounts
  BY DEF Init, RescoreAccounts, NoRescore
<1>3. \A t \in Ticker : tick[t].pc = "idle"
  BY DEF Init, NoTick
<1>4. \A t \in Ticker : Accounts(t)
  BY <1>3, EarlyAccounts
<1>5. LockHeld
  BY <1>3 DEF LockHeld
<1> QED
  BY <1>1, <1>2, <1>4, <1>5 DEF SoundInv

(* A row that arrives is done, or past what each stream has consumed, or   *)
(* late.                                                                   *)
LEMMA ArrivalSound ==
  ASSUME TypeInv, TypeInv', SoundInv, Grows, NEW r \in Row, Land(r),
         UNCHANGED <<marks, members, founders, tick, rescore>>
  PROVE  SoundInv'
<1>1. captured' = captured \cup {r}
  BY DEF Land
<1>2. \A s \in Stream : LandsBehind(r, s) => r \in late'[s]
  BY DEF Land
<1>3. \A s \in Stream : At[r] <= marks[s] => r \in late'[s]
  BY <1>2 DEF LandsBehind
<1>4. \A s \in Stream, t \in Ticker :
        tick[t].pc \in Past(s) /\ At[r] <= tick[t].asOf => r \in late'[s]
  BY <1>2 DEF LandsBehind
<1>5. \A s \in Stream :
        rescore.pc = "commit" /\ rescore.lane = s /\ At[r] <= rescore.asOf => r \in late'[s]
  BY <1>2 DEF LandsBehind
<1>6. Lane \subseteq Stream /\ "features" \in Stream
  BY Stages
<1>7. NothingSkipped'
  <2>1. \A q \in captured' \ late'["features"] : At[q] <= marks'["features"] => q \in featured'
    BY <1>1, <1>3, <1>6 DEF SoundInv, NothingSkipped, Grows
  <2>2. \A l \in Lane : \A q \in captured' \ (late'[l] \cup Link) :
          At[q] <= marks'[l] => q \in decided'[l]
    BY <1>1, <1>3, <1>6 DEF SoundInv, NothingSkipped, Grows
  <2>3. \A l \in Lane : founders' \subseteq decided'[l]
    BY DEF SoundInv, NothingSkipped, Grows
  <2> QED
    BY <2>1, <2>2, <2>3 DEF NothingSkipped
<1>8. RescoreAccounts'
  <2>1. rescore.lane \in Stream
    BY <1>6 DEF TypeInv, TypeOK
  <2> QED
    BY <1>1, <1>5, <2>1 DEF SoundInv, RescoreAccounts, Grows
<1>9. ASSUME NEW t \in Ticker PROVE Accounts(t)'
  <2>1. Accounts(t)
    BY DEF SoundInv
  <2>2. tick[t].pc \in Read => \A s \in Stream : tick[t].since[s] <= marks'[s]
    BY <2>1 DEF Accounts
  <2>3. tick[t].pc \in Past("features") => \A q \in captured' \ late'["features"] :
          At[q] <= tick[t].asOf => q \in featured' \cup tick[t].featured
    BY <1>1, <1>4, <1>6, <2>1 DEF Accounts, Grows
  <2>4. \A l \in Lane : tick[t].pc \in Past(l) =>
          \A q \in captured' \ (late'[l] \cup Link) :
            At[q] <= tick[t].asOf => q \in decided'[l] \cup tick[t].decided[l]
    BY <1>1, <1>4, <1>6, <2>1 DEF Accounts, Grows
  <2>5. \A l \in Lane : tick[t].pc \in Past(l) =>
          (Fresh(t)' => \A q \in tick[t].built :
             At[q] <= tick[t].asOf => q \in tick[t].decided[l])
    BY <2>1 DEF Accounts, Fresh
  <2> QED
    BY <2>2, <2>3, <2>4, <2>5 DEF Accounts
<1> QED
  BY <1>7, <1>8, <1>9 DEF SoundInv

(* The stages of a tick: from the marks it read to the rows it runs over.  *)
LEMMA StageAccounts ==
  ASSUME TypeInv, SoundInv, NEW t \in Ticker, tick[t].pc \in Read
  PROVE  /\ \A r \in captured \ late["features"] : At[r] <= tick[t].asOf =>
              r \in featured \cup Window(t, "features")
         /\ \A l \in Lane : \A r \in captured \ (late[l] \cup Link) :
              At[r] <= tick[t].asOf => r \in decided[l] \cup Affected(t, l)
         /\ \A l \in Lane : Fresh(t) => \A r \in tick[t].built :
              At[r] <= tick[t].asOf => r \in Affected(t, l)
<1> USE TickFields
<1>1. \A s \in Stream : tick[t].since[s] <= marks[s]
  BY DEF SoundInv, Accounts
<1>2. \A s \in Stream : \A r \in captured : At[r] <= tick[t].asOf =>
        At[r] <= marks[s] \/ r \in Window(t, s)
  <2> SUFFICES ASSUME NEW s \in Stream, NEW r \in captured, At[r] <= tick[t].asOf,
                      ~(At[r] <= marks[s])
               PROVE  r \in Window(t, s)
    OBVIOUS
  <2>1. At[r] \in Nat /\ tick[t].since[s] \in Nat /\ marks[s] \in Nat
    BY AtPositive DEF TypeInv, TypeOK
  <2> QED
    BY <1>1, <2>1 DEF Window
<1>3. \A r \in captured \ late["features"] : At[r] <= tick[t].asOf =>
        r \in featured \cup Window(t, "features")
  BY <1>2 DEF SoundInv, NothingSkipped
<1>4. \A l \in Lane : \A r \in captured \ (late[l] \cup Link) :
        At[r] <= tick[t].asOf => r \in decided[l] \cup Affected(t, l)
  <2> SUFFICES ASSUME NEW l \in Lane, NEW r \in captured \ (late[l] \cup Link),
                      At[r] <= tick[t].asOf, r \notin decided[l]
               PROVE  r \in Affected(t, l)
    OBVIOUS
  <2>1. ~(At[r] <= marks[l])
    BY DEF SoundInv, NothingSkipped
  <2>2. r \in Window(t, l) \ Link
    BY <1>2, <2>1
  <2> QED
    BY <2>2 DEF Affected
<1>5. \A l \in Lane : Fresh(t) => ReachesCluster(t, l)
  BY DEF ReachesCluster
<1> QED
  BY <1>3, <1>4, <1>5 DEF Affected

LEMMA EarlyLater ==
  ASSUME NEW t \in Ticker, tick'[t].pc \in {"idle", "frontier", "marks"}
  PROVE  Accounts(t)'
<1>1. tick'[t].pc \notin Read /\ tick'[t].pc \notin Past("features")
  BY Stages
<1>2. \A l \in Lane : tick'[t].pc \notin Past(l)
  BY Stages
<1> QED
  BY <1>1, <1>2 DEF Accounts

(* A tick that writes only its own record.                                 *)
Aside(t) ==
  /\ Others(t) /\ ~Idle(t)
  /\ UNCHANGED <<captured, marks, featured, decided, members, founders, late, rescore>>

LEMMA AsideSound ==
  ASSUME SoundInv, LockHeld, NEW t \in Ticker, Aside(t), Accounts(t)'
  PROVE  SoundInv'
<1>1. \A u \in Ticker \ {t} : tick'[u].pc = "idle"
  BY OthersIdle DEF Aside
<1>3. \A u \in Ticker \ {t} : Accounts(u)'
  BY <1>1, EarlyLater
<1>4. NothingSkipped' /\ RescoreAccounts'
  BY DEF SoundInv, NothingSkipped, RescoreAccounts, Aside
<1> QED
  BY <1>3, <1>4 DEF SoundInv

LEMMA TickSound ==
  ASSUME TypeInv, SoundInv, LockHeld, NEW t \in Ticker,
         Step(t) \/ Fail(t), ~Commit(t)
  PROVE  SoundInv'
<1> USE TickFields
<1>t. tick \in [Ticker -> Tick] /\ marks \in [Stream -> Nat]
  BY DEF TypeInv, TypeOK
<1>a. Aside(t) /\ Accounts(t)
  <2>1. UNCHANGED <<captured, marks, featured, decided, members, founders, late, rescore>>
    BY DEF Step, ReadFrontier, ReadMarks, RunGraph, RunFeatures, RunLane, Fail, cluster
  <2> QED
    BY <2>1, StepMoves DEF Aside, SoundInv
<1>u. /\ captured' = captured /\ marks' = marks /\ featured' = featured
      /\ decided' = decided /\ members' = members /\ late' = late
  BY <1>a DEF Aside
<1>c. CASE Close(t)
  BY <1>a, <1>c, ClosedIdle, EarlyLater, AsideSound
<1>1. CASE ReadFrontier(t) /\ ~Close(t)
  <2>1. tick' = [tick EXCEPT ![t].pc = "marks", ![t].asOf = Frontier]
    BY <1>1 DEF ReadFrontier
  <2>2. tick'[t].pc = "marks"
    BY <1>t, <2>1, FrontierIsNewest, FrontierMoves DEF TypeInv
  <2> QED
    BY <1>a, <2>2, EarlyLater, AsideSound
<1>2. CASE ReadMarks(t) /\ ~Close(t)
  <2>1. tick' = [tick EXCEPT ![t].pc = "graph", ![t].since = marks]
    BY <1>2 DEF ReadMarks
  <2>2. tick'[t].pc = "graph" /\ tick'[t].since = marks
    BY <1>t, <2>1, MarksMoves
  <2>3. "graph" \notin Past("features") /\ \A l \in Lane : "graph" \notin Past(l)
    BY Stages
  <2>4. Accounts(t)'
    BY <1>t, <1>u, <2>2, <2>3 DEF Accounts
  <2> QED
    BY <1>a, <2>4, AsideSound
<1>3. CASE RunGraph(t)
  <2>1. tick'[t].pc = "features" /\ tick'[t].since = tick[t].since
    BY <1>t, <1>3, GraphMoves
  <2>2. "features" \notin Past("features") /\ \A l \in Lane : "features" \notin Past(l)
    BY Stages
  <2>3. tick[t].pc \in Read
    BY <1>3, Stages DEF RunGraph, AtStep
  <2>4. Accounts(t)'
    BY <1>a, <1>u, <2>1, <2>2, <2>3 DEF Accounts
  <2> QED
    BY <1>a, <2>4, AsideSound
<1>4. CASE RunFeatures(t)
  <2>1. Window(t, "features") \subseteq Row
    BY WindowCaptured
  <2>2. /\ tick'[t].pc = "inline_sync"
        /\ tick'[t].asOf = tick[t].asOf /\ tick'[t].since = tick[t].since
        /\ tick'[t].featured = Window(t, "features")
    BY <1>t, <1>4, <2>1, FeaturesMoves
  <2>3. tick[t].pc \in Read /\ \A l \in Lane : "inline_sync" \notin Past(l)
    BY <1>4, Stages DEF RunFeatures, AtStep
  <2>4. \A r \in captured \ late["features"] : At[r] <= tick[t].asOf =>
          r \in featured \cup Window(t, "features")
    BY <2>3, StageAccounts
  <2>5. Accounts(t)'
    BY <1>a, <1>u, <2>2, <2>3, <2>4 DEF Accounts
  <2> QED
    BY <1>a, <2>5, AsideSound
<1>5. ASSUME NEW l \in Lane, RunLane(t, l) PROVE SoundInv'
  <2>1. Affected(t, l) \subseteq Row
    BY AffectedCaptured
  <2>2. /\ tick'[t].pc = After(l)
        /\ tick'[t].asOf = tick[t].asOf /\ tick'[t].since = tick[t].since
        /\ tick'[t].featured = tick[t].featured /\ tick'[t].built = tick[t].built
        /\ tick'[t].decided = [tick[t].decided EXCEPT ![l] = Affected(t, l)]
    BY <1>t, <1>5, <2>1, LaneMoves
  <2>3. tick[t].pc = l /\ tick[t].pc \in Read /\ tick[t].pc \in Past("features")
    BY <1>5, Stages DEF RunLane, AtStep
  <2>4. \A k \in Lane : After(l) \in Past(k) => k = l \/ tick[t].pc \in Past(k)
    BY <2>3, Stages DEF After
  <2>5. /\ tick'[t].decided[l] = Affected(t, l)
        /\ \A k \in Lane \ {l} : tick'[t].decided[k] = tick[t].decided[k]
    BY <2>2
  <2>6. Fresh(t)' => Fresh(t)
    BY <1>u, <2>2 DEF Fresh
  <2>7. /\ \A r \in captured \ (late[l] \cup Link) :
             At[r] <= tick[t].asOf => r \in decided[l] \cup Affected(t, l)
        /\ Fresh(t) => \A r \in tick[t].built :
             At[r] <= tick[t].asOf => r \in Affected(t, l)
    BY <2>3, StageAccounts
  <2>8. \A k \in Lane : tick'[t].pc \in Past(k) =>
          /\ \A r \in captured \ (late[k] \cup Link) :
               At[r] <= tick[t].asOf => r \in decided[k] \cup tick'[t].decided[k]
          /\ Fresh(t)' => \A r \in tick[t].built :
               At[r] <= tick[t].asOf => r \in tick'[t].decided[k]
    <3> SUFFICES ASSUME NEW k \in Lane, tick'[t].pc \in Past(k)
                 PROVE  /\ \A r \in captured \ (late[k] \cup Link) :
                             At[r] <= tick[t].asOf => r \in decided[k] \cup tick'[t].decided[k]
                        /\ Fresh(t)' => \A r \in tick[t].built :
                             At[r] <= tick[t].asOf => r \in tick'[t].decided[k]
      OBVIOUS
    <3>1. CASE k = l
      BY <2>5, <2>6, <2>7, <3>1
    <3>2. CASE k # l
      <4>1. tick[t].pc \in Past(k) /\ tick'[t].decided[k] = tick[t].decided[k]
        BY <2>2, <2>4, <2>5, <3>2
      <4> QED
        BY <1>a, <2>6, <4>1 DEF Accounts
    <3> QED
      BY <3>1, <3>2
  <2>9. Accounts(t)'
    BY <1>a, <1>u, <2>2, <2>3, <2>8 DEF Accounts
  <2> QED
    BY <1>a, <2>9, AsideSound
<1> QED
  BY <1>c, <1>1, <1>2, <1>3, <1>4, <1>5 DEF Step, Fail

LEMMA CommitSound ==
  ASSUME TypeInv, SoundInv, LockHeld, NEW t \in Ticker, Commit(t)
  PROVE  SoundInv'
<1> USE TickFields
<1>1. Accounts(t) /\ tick[t].pc = "commit" /\ NothingSkipped
  BY DEF SoundInv, Commit, AtStep
<1>2. captured' = captured /\ late' = late /\ rescore' = rescore
  BY DEF Commit
<1>3. \A s \in Stream : marks'[s] = marks[s] \/ marks'[s] = tick[t].asOf
  BY DEF Commit, Advanced, Later
<1>4. "commit" \in Past("features") /\ \A l \in Lane : "commit" \in Past(l)
  BY Stages
<1>5. /\ featured' = featured \cup tick[t].featured
      /\ \A l \in Lane : decided'[l] = decided[l] \cup tick[t].decided[l]
  BY DEF Commit
<1>6. \A r \in captured \ late["features"] : At[r] <= marks'["features"] => r \in featured'
  <2> SUFFICES ASSUME NEW r \in captured \ late["features"], At[r] <= marks'["features"]
               PROVE  r \in featured'
    OBVIOUS
  <2>1. CASE At[r] <= marks["features"]
    BY <1>1, <1>5, <2>1 DEF NothingSkipped
  <2>2. CASE At[r] <= tick[t].asOf
    BY <1>1, <1>4, <1>5, <2>2 DEF Accounts
  <2> QED
    BY <1>3, <2>1, <2>2
<1>7. \A l \in Lane : \A r \in captured \ (late[l] \cup Link) :
        At[r] <= marks'[l] => r \in decided'[l]
  <2> SUFFICES ASSUME NEW l \in Lane, NEW r \in captured \ (late[l] \cup Link),
                      At[r] <= marks'[l]
               PROVE  r \in decided'[l]
    OBVIOUS
  <2>1. CASE At[r] <= marks[l]
    BY <1>1, <1>5, <2>1 DEF NothingSkipped
  <2>2. CASE At[r] <= tick[t].asOf
    BY <1>1, <1>4, <1>5, <2>2 DEF Accounts
  <2> QED
    BY <1>3, <2>1, <2>2
<1>8. \A l \in Lane : founders' \subseteq decided'[l]
  <2>1. CASE Fresh(t)
    <3>1. founders' = {r \in tick[t].built : At[r] <= tick[t].asOf}
      BY <2>1 DEF Commit
    <3> QED
      BY <1>1, <1>4, <1>5, <2>1, <3>1 DEF Accounts
  <2>2. CASE ~Fresh(t)
    <3>1. founders' = founders
      BY <2>2 DEF Commit
    <3> QED
      BY <1>1, <1>5, <3>1 DEF NothingSkipped
  <2> QED
    BY <2>1, <2>2
<1>9. NothingSkipped'
  BY <1>2, <1>6, <1>7, <1>8 DEF NothingSkipped
<1>10. RescoreAccounts'
  BY <1>2 DEF SoundInv, RescoreAccounts
<1>11. \A u \in Ticker : Accounts(u)'
  <2>1. Close(t) /\ Step(t)
    BY DEF Commit, Step
  <2>2. ~Idle(t) /\ Others(t)
    BY <2>1, StepMoves
  <2>3. \A u \in Ticker : tick'[u].pc = "idle"
    BY <2>1, <2>2, ClosedIdle, OthersIdle
  <2> QED
    BY <2>3, EarlyLater
<1> QED
  BY <1>9, <1>10, <1>11 DEF SoundInv

LEMMA RescoreSound ==
  ASSUME TypeInv, SoundInv, Grows, NEW l \in Lane, RescoreFrom(l) \/ RescorePlan
  PROVE  SoundInv'
<1>1. UNCHANGED <<captured, marks, featured, decided, members, founders, late, tick>>
  BY DEF RescoreFrom, RescorePlan, cluster
<1>2. NothingSkipped' /\ \A t \in Ticker : Accounts(t)'
  BY <1>1 DEF SoundInv, NothingSkipped, Accounts, Fresh
<1>3. CASE RescoreFrom(l)
  <2>1. rescore'.pc = "plan"
    BY <1>3 DEF RescoreFrom, NoRescore
  <2> QED
    BY <1>2, <2>1 DEF SoundInv, RescoreAccounts
<1>4. CASE RescorePlan
  <2>1. /\ rescore'.asOf = rescore.asOf
        /\ rescore'.plan = {r \in (captured \ Link) \cup members : At[r] <= rescore.asOf}
    BY <1>4 DEF RescorePlan, TypeInv, TypeOK
  <2>2. RescoreAccounts'
    BY <1>1, <2>1 DEF RescoreAccounts
  <2> QED
    BY <1>2, <2>2 DEF SoundInv
<1> QED
  BY <1>3, <1>4

LEMMA RescoreCommitSound ==
  ASSUME TypeInv, TypeInv', SoundInv, Grows, [Next]_vars, RescoreCommit
  PROVE  SoundInv'
<1>1. /\ RescoreAccounts /\ NothingSkipped /\ rescore.pc = "commit"
      /\ UNCHANGED <<captured, featured, members, founders, late, tick>>
  BY DEF SoundInv, RescoreCommit, cluster
<1>2. /\ rescore.lane \in Lane /\ Lane \subseteq Stream
      /\ "features" \in Stream /\ "features" \notin Lane
  BY DEF TypeInv, TypeOK, Stream, Lane
<1>3. /\ \A s \in Stream \ {rescore.lane} : marks'[s] = marks[s]
      /\ marks'[rescore.lane] = Later(marks[rescore.lane], rescore.asOf)
  BY <1>2 DEF RescoreCommit, Advanced, TypeInv, TypeOK
<1>4. \A s \in Stream : marks'[s] = marks[s] \/ (s = rescore.lane /\ marks'[s] = rescore.asOf)
  BY <1>3 DEF Later
<1>5. rescore.plan \subseteq decided'[rescore.lane]
  BY <1>2 DEF RescoreCommit, TypeInv, TypeOK
<1>6. NothingSkipped'
  <2>1. \A r \in captured \ late["features"] : At[r] <= marks'["features"] => r \in featured'
    BY <1>1, <1>2, <1>3 DEF NothingSkipped
  <2>2. \A l \in Lane : \A r \in captured \ (late[l] \cup Link) :
          At[r] <= marks'[l] => r \in decided'[l]
    BY <1>1, <1>2, <1>4, <1>5 DEF NothingSkipped, RescoreAccounts, Grows
  <2>3. \A l \in Lane : founders \subseteq decided'[l]
    BY <1>1 DEF NothingSkipped, Grows
  <2> QED
    BY <1>1, <2>1, <2>2, <2>3 DEF NothingSkipped
<1>7. RescoreAccounts'
  BY DEF RescoreCommit, RescoreAccounts, NoRescore
<1>8. ASSUME NEW t \in Ticker PROVE Accounts(t)'
  <2>1. Accounts(t)
    BY DEF SoundInv
  <2>2. tick[t].pc \in Read => \A s \in Stream : tick[t].since[s] <= marks'[s]
    <3> SUFFICES ASSUME tick[t].pc \in Read, NEW s \in Stream
                 PROVE  tick[t].since[s] <= marks'[s]
      OBVIOUS
    <3>1. tick[t].since[s] <= marks[s] /\ tick[t].since[s] \in Nat
      BY <2>1, TickFields DEF Accounts
    <3>2. marks'[s] >= marks[s] /\ marks[s] \in Nat /\ marks'[s] \in Nat
      BY MarksRise DEF TypeInv, TypeOK
    <3> QED
      BY <3>1, <3>2
  <2> QED
    BY <1>1, <2>1, <2>2 DEF Accounts, Fresh, Grows
<1> QED
  BY <1>6, <1>7, <1>8 DEF SoundInv

LEMMA StepSound ==
  ASSUME TypeInv, TypeInv', SoundInv, LockHeld, [Next]_vars
  PROVE  SoundInv'
<1>g. Grows
  BY StepGrows
<1>1. ASSUME NEW r \in Row, Ingest(r) PROVE SoundInv'
  <2>1. Land(r) /\ UNCHANGED <<marks, members, founders, tick, rescore>>
    BY <1>1 DEF Ingest, cluster
  <2> QED
    BY <1>g, <2>1, ArrivalSound
<1>2. ASSUME NEW r \in Charge, Authorize(r) PROVE SoundInv'
  <2>1. r \in Row /\ Land(r) /\ UNCHANGED <<marks, members, founders, tick, rescore>>
    BY <1>2, RowAssumption DEF Authorize, cluster
  <2> QED
    BY <1>g, <2>1, ArrivalSound
<1>3. ASSUME NEW t \in Ticker, TakeLock(t) PROVE SoundInv'
  <2>1. Others(t) /\ tick'[t].pc = "frontier"
    BY <1>3, TakeLockMoves DEF TypeInv, TypeOK
  <2>2. UNCHANGED <<captured, marks, featured, decided, members, founders, late, rescore>>
    BY <1>3 DEF TakeLock, cluster
  <2>3. Accounts(t)'
    BY <2>1, EarlyLater
  <2>4. \A u \in Ticker \ {t} : Accounts(u)'
    BY <2>1, <2>2 DEF SoundInv, Accounts, Fresh, Others
  <2> QED
    BY <2>2, <2>3, <2>4 DEF SoundInv, NothingSkipped, RescoreAccounts
<1>4. ASSUME NEW t \in Ticker, Step(t) \/ Fail(t) PROVE SoundInv'
  BY <1>4, TickSound, CommitSound
<1>5. ASSUME NEW l \in Lane, RescoreFrom(l) PROVE SoundInv'
  BY <1>g, <1>5, RescoreSound
<1>6. CASE RescorePlan
  <2>1. "async" \in Lane
    BY DEF Lane
  <2> QED
    BY <1>g, <1>6, <2>1, RescoreSound
<1>7. CASE RescoreCommit
  BY <1>g, <1>7, RescoreCommitSound
<1>8. CASE UNCHANGED vars
  BY <1>8 DEF vars, cluster, SoundInv, NothingSkipped, RescoreAccounts, Accounts, Fresh
<1> QED
  BY <1>1, <1>2, <1>3, <1>4, <1>5, <1>6, <1>7, <1>8 DEF Next

(* Rows come with any event time, ticks fail, and lanes are run by hand at *)
(* any instant: no row at or below a watermark is without its features, or *)
(* without its evaluation in that lane unless it is a link, but those that *)
(* landed behind it; and the links a cluster was first built of are        *)
(* evaluated with it (watermark.py, affected_subjects).                    *)
THEOREM NoneSkipped == Spec => []NothingSkipped
<1>1. TypeInv /\ SoundInv /\ LockHeld /\ [Next]_vars => SoundInv' /\ LockHeld'
  BY StepTyped, StepSound, LockStep
<1>2. SoundInv => NothingSkipped
  BY DEF SoundInv
<1> QED
  BY <1>1, <1>2, InitTyped, InitSound, StepTyped, PTL DEF Spec

----------------------------------------------------------------------------
(* No tick repeats another.                                                *)

(* What ticks have evaluated is behind the watermark they left.            *)
TicksBehindMarks ==
  \A l \in Lane, r \in Row \ Link :
    /\ byTick[l][r] <= 1
    /\ byTick[l][r] = 1 => r \in featured \cup late["features"] /\ At[r] <= marks[l]

(* A tick in progress starts from what those before it evaluated, and      *)
(* evaluates only what comes after.                                        *)
StartsBehind(t) ==
  \A l \in Lane :
    /\ tick[t].pc \in Read =>
         \A r \in Row \ Link : byTick[l][r] = 1 => At[r] <= tick[t].since[l]
    /\ tick[t].pc \in Past(l) =>
         \A r \in tick[t].decided[l] \ Link :
           tick[t].since[l] < At[r] /\ At[r] <= tick[t].asOf

OnceInv == TicksBehindMarks /\ \A t \in Ticker : StartsBehind(t)

LEMMA EarlyStarts ==
  ASSUME NEW t \in Ticker, tick'[t].pc \in {"idle", "frontier", "marks"}
  PROVE  StartsBehind(t)'
<1>1. tick'[t].pc \notin Read /\ \A l \in Lane : tick'[t].pc \notin Past(l)
  BY Stages
<1> QED
  BY <1>1 DEF StartsBehind

LEMMA InitOnce == Init => OnceInv
<1> SUFFICES ASSUME Init PROVE OnceInv
  OBVIOUS
<1>1. TicksBehindMarks
  BY DEF Init, TicksBehindMarks
<1>2. \A t \in Ticker : tick[t].pc \notin Read /\ \A l \in Lane : tick[t].pc \notin Past(l)
  BY Stages DEF Init, NoTick
<1>3. \A t \in Ticker : StartsBehind(t)
  BY <1>2 DEF StartsBehind
<1> QED
  BY <1>1, <1>3 DEF OnceInv

(* A step that commits no tick.                                            *)
LEMMA BehindKept ==
  ASSUME TypeInv, TypeInv', [Next]_vars, TicksBehindMarks, byTick' = byTick
  PROVE  TicksBehindMarks'
<1> SUFFICES ASSUME NEW l \in Lane, NEW r \in Row \ Link
             PROVE  /\ byTick[l][r] <= 1
                    /\ byTick[l][r] = 1 =>
                         r \in featured' \cup late'["features"] /\ At[r] <= marks'[l]
  BY DEF TicksBehindMarks
<1>1. marks'[l] >= marks[l] /\ marks[l] \in Nat /\ marks'[l] \in Nat /\ At[r] \in Nat
  BY MarksRise, AtPositive DEF TypeInv, TypeOK, Stream
<1>2. featured \subseteq featured' /\ late["features"] \subseteq late'["features"]
  BY StepGrows, Stages DEF Grows
<1> QED
  BY <1>1, <1>2 DEF TicksBehindMarks

(* Of the rows other than links, a lane is given those of its window.      *)
LEMMA AffectedOfWindow ==
  ASSUME TypeInv, NEW t \in Ticker, NEW l
  PROVE  Affected(t, l) \ Link \subseteq Window(t, l)
BY TickFields DEF Affected

LEMMA CommitOnce ==
  ASSUME TypeInv, SoundInv, OnceInv, NEW t \in Ticker, Commit(t)
  PROVE  TicksBehindMarks'
<1> USE TickFields
<1>1. tick[t].pc = "commit" /\ StartsBehind(t) /\ Accounts(t) /\ TicksBehindMarks
  BY DEF Commit, AtStep, OnceInv, SoundInv
<1> SUFFICES ASSUME NEW l \in Lane, NEW r \in Row \ Link
             PROVE  /\ byTick'[l][r] <= 1
                    /\ byTick'[l][r] = 1 =>
                         r \in featured' \cup late'["features"] /\ At[r] <= marks'[l]
  BY DEF TicksBehindMarks
<1>2. /\ byTick'[l][r] = IF r \in tick[t].decided[l] THEN byTick[l][r] + 1 ELSE byTick[l][r]
      /\ byTick[l][r] \in Nat
      /\ featured' = featured \cup tick[t].featured /\ late' = late
      /\ marks'[l] = Later(marks[l], tick[t].asOf)
  BY DEF Commit, Advanced, TypeInv, TypeOK
<1>3. marks[l] \in Nat /\ At[r] \in Nat /\ tick[t].since[l] \in Nat
  BY AtPositive DEF TypeInv, TypeOK
<1>4. /\ byTick[l][r] <= 1
      /\ byTick[l][r] = 1 => r \in featured \cup late["features"] /\ At[r] <= marks[l]
  BY <1>1 DEF TicksBehindMarks
<1>5. marks'[l] \in Nat /\ marks'[l] >= marks[l] /\ marks'[l] >= tick[t].asOf
  BY <1>2, <1>3 DEF Later
<1>6. CASE r \in tick[t].decided[l]
  <2>1. "commit" \in Read /\ "commit" \in Past("features") /\ "commit" \in Past(l)
    BY Stages
  <2>2. tick[t].since[l] < At[r] /\ At[r] <= tick[t].asOf
    BY <1>1, <1>6, <2>1 DEF StartsBehind
  <2>3. byTick[l][r] # 1
    BY <1>1, <1>3, <2>1, <2>2 DEF StartsBehind
  <2>4. r \in captured
    BY <1>6 DEF TypeInv, PendingCaptured
  <2>5. r \in featured' \cup late["features"]
    BY <1>1, <1>2, <2>1, <2>2, <2>4 DEF Accounts
  <2> QED
    BY <1>2, <1>3, <1>4, <1>5, <1>6, <2>2, <2>3, <2>5
<1>7. CASE r \notin tick[t].decided[l]
  BY <1>2, <1>3, <1>4, <1>5, <1>7
<1> QED
  BY <1>6, <1>7

(* A step of a tick that commits nothing.                                  *)
LEMMA TickOnce ==
  ASSUME TypeInv, TicksBehindMarks, NEW t \in Ticker, StartsBehind(t),
         Step(t) \/ Fail(t), ~Commit(t)
  PROVE  StartsBehind(t)'
<1> USE TickFields
<1>t. tick \in [Ticker -> Tick] /\ marks \in [Stream -> Nat]
  BY DEF TypeInv, TypeOK
<1>b. byTick' = byTick
  BY DEF Step, ReadFrontier, ReadMarks, RunGraph, RunFeatures, RunLane, Fail
<1>c. CASE Close(t)
  BY <1>c, ClosedIdle, EarlyStarts
<1>1. CASE ReadFrontier(t) /\ ~Close(t)
  <2>1. tick' = [tick EXCEPT ![t].pc = "marks", ![t].asOf = Frontier]
    BY <1>1 DEF ReadFrontier
  <2>2. tick'[t].pc = "marks"
    BY <1>t, <2>1, FrontierIsNewest, FrontierMoves DEF TypeInv
  <2> QED
    BY <2>2, EarlyStarts
<1>2. CASE ReadMarks(t) /\ ~Close(t)
  <2>1. tick' = [tick EXCEPT ![t].pc = "graph", ![t].since = marks]
    BY <1>2 DEF ReadMarks
  <2>2. tick'[t].pc = "graph" /\ tick'[t].since = marks
    BY <1>t, <2>1, MarksMoves
  <2>3. \A l \in Lane : "graph" \notin Past(l)
    BY Stages
  <2> QED
    BY <1>b, <2>2, <2>3 DEF StartsBehind, TicksBehindMarks
<1>3. CASE RunGraph(t)
  <2>1. tick'[t].pc = "features" /\ tick'[t].since = tick[t].since
    BY <1>t, <1>3, GraphMoves
  <2>2. tick[t].pc \in Read /\ \A l \in Lane : "features" \notin Past(l)
    BY <1>3, Stages DEF RunGraph, AtStep
  <2> QED
    BY <1>b, <2>1, <2>2 DEF StartsBehind
<1>4. CASE RunFeatures(t)
  <2>1. Window(t, "features") \subseteq Row
    BY WindowCaptured
  <2>2. tick'[t].pc = "inline_sync" /\ tick'[t].since = tick[t].since
    BY <1>t, <1>4, <2>1, FeaturesMoves
  <2>3. tick[t].pc \in Read /\ \A l \in Lane : "inline_sync" \notin Past(l)
    BY <1>4, Stages DEF RunFeatures, AtStep
  <2> QED
    BY <1>b, <2>2, <2>3 DEF StartsBehind
<1>5. ASSUME NEW l \in Lane, RunLane(t, l) PROVE StartsBehind(t)'
  <2>1. Affected(t, l) \subseteq Row
    BY AffectedCaptured
  <2>2. /\ tick'[t].pc = After(l)
        /\ tick'[t].asOf = tick[t].asOf /\ tick'[t].since = tick[t].since
        /\ tick'[t].decided = [tick[t].decided EXCEPT ![l] = Affected(t, l)]
    BY <1>t, <1>5, <2>1, LaneMoves
  <2>3. tick[t].pc = l /\ tick[t].pc \in Read
    BY <1>5, Stages DEF RunLane, AtStep
  <2>4. \A k \in Lane : After(l) \in Past(k) => k = l \/ tick[t].pc \in Past(k)
    BY <2>3, Stages DEF After
  <2>5. /\ tick'[t].decided[l] = Affected(t, l)
        /\ \A k \in Lane \ {l} : tick'[t].decided[k] = tick[t].decided[k]
    BY <2>2
  <2>6. \A r \in Affected(t, l) \ Link : tick[t].since[l] < At[r] /\ At[r] <= tick[t].asOf
    BY AffectedOfWindow DEF Window
  <2>7. \A k \in Lane : tick'[t].pc \in Past(k) => \A r \in tick'[t].decided[k] \ Link :
          tick'[t].since[k] < At[r] /\ At[r] <= tick'[t].asOf
    BY <2>2, <2>4, <2>5, <2>6 DEF StartsBehind
  <2> QED
    BY <1>b, <2>2, <2>3, <2>7 DEF StartsBehind
<1> QED
  BY <1>c, <1>1, <1>2, <1>3, <1>4, <1>5 DEF Step, Fail

LEMMA StepOnce ==
  ASSUME TypeInv, TypeInv', SoundInv, LockHeld, OnceInv, [Next]_vars
  PROVE  OnceInv'
<1>o. TicksBehindMarks /\ \A t \in Ticker : StartsBehind(t)
  BY DEF OnceInv
<1>b. byTick' = byTick => TicksBehindMarks'
  BY <1>o, BehindKept
<1>1. CASE \/ (\E r \in Row : Ingest(r)) \/ (\E r \in Charge : Authorize(r))
           \/ (\E l \in Lane : RescoreFrom(l)) \/ RescorePlan \/ RescoreCommit
           \/ UNCHANGED vars
  <2>1. tick' = tick /\ byTick' = byTick
    BY <1>1 DEF Ingest, Authorize, RescoreFrom, RescorePlan, RescoreCommit, vars
  <2> QED
    BY <1>b, <1>o, <2>1 DEF OnceInv, StartsBehind
<1>2. ASSUME NEW t \in Ticker, TakeLock(t) PROVE OnceInv'
  <2>1. Others(t) /\ tick'[t].pc = "frontier" /\ byTick' = byTick
    BY <1>2, TakeLockMoves DEF TakeLock, TypeInv, TypeOK
  <2>2. StartsBehind(t)' /\ \A u \in Ticker \ {t} : StartsBehind(u)'
    BY <1>o, <2>1, EarlyStarts DEF StartsBehind, Others
  <2> QED
    BY <1>b, <2>1, <2>2 DEF OnceInv
<1>3. ASSUME NEW t \in Ticker, Step(t) \/ Fail(t) PROVE OnceInv'
  <2>1. ~Idle(t) /\ Others(t)
    BY <1>3, StepMoves
  <2>2. \A u \in Ticker \ {t} : StartsBehind(u)'
    BY <2>1, OthersIdle, EarlyStarts
  <2>3. CASE Commit(t)
    <3>1. StartsBehind(t)'
      BY <2>3, ClosedIdle, EarlyStarts DEF Commit
    <3> QED
      BY <2>2, <2>3, <3>1, CommitOnce DEF OnceInv
  <2>4. CASE ~Commit(t)
    <3>1. StartsBehind(t)'
      BY <1>o, <1>3, <2>4, TickOnce
    <3>2. byTick' = byTick
      BY <1>3, <2>4 DEF Step, ReadFrontier, ReadMarks, RunGraph, RunFeatures, RunLane, Fail
    <3> QED
      BY <1>b, <2>2, <3>1, <3>2 DEF OnceInv
  <2> QED
    BY <2>3, <2>4
<1> QED
  BY <1>1, <1>2, <1>3 DEF Next

(* Ticks evaluate a transaction or an event at most once in each lane, and *)
(* never before its features unless it landed behind them: the lock keeps  *)
(* two ticks from one window and a tick that failed left nothing behind.   *)
THEOREM NoneTwice == Spec => []TickedOnceAfterFeatures
<1>1. TypeInv /\ SoundInv /\ LockHeld /\ OnceInv /\ [Next]_vars
      => SoundInv' /\ LockHeld' /\ OnceInv'
  BY StepTyped, StepSound, LockStep, StepOnce
<1>2. OnceInv => TickedOnceAfterFeatures
  BY DEF OnceInv, TicksBehindMarks, TickedOnceAfterFeatures
<1> QED
  BY <1>1, <1>2, InitTyped, InitSound, InitOnce, StepTyped, PTL DEF Spec

=============================================================================
