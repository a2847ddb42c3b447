-------------------------- MODULE EvaluationProofs --------------------------
(***************************************************************************)
(* What an evaluation promises, whatever the tables, the rules and the     *)
(* scores: what Decisioning makes of the values that were read, then how   *)
(* EntityReads comes by them.  Both rest on lemmas about sums, which the   *)
(* library folds in an order nobody chose, and on induction over numbers.  *)
(***************************************************************************)
EXTENDS Decisioning, EntityReads, FiniteSetTheorems, SequenceTheorems, TLAPS

----------------------------------------------------------------------------
(* Induction over numbers and sets of numbers.                             *)

LEMMA Least ==
  ASSUME NEW S \in SUBSET Nat, S # {}
  PROVE  \E n \in S : \A k \in S : n <= k
<1>1. PICK R : R = OpToRel(<, Nat)
  OBVIOUS
<1>2. IsWellFoundedOn(R, Nat)
  BY <1>1, NatLessThanWellFounded
<1>3. PICK n \in S : \A k \in S : ~(<<k, n>> \in R)
  BY <1>2, WFMin
<1>4. \A k \in S : ~(k < n)
  BY <1>1, <1>3 DEF OpToRel
<1>. QED
  BY <1>3, <1>4

LEMMA CountUp ==
  ASSUME NEW T, 0 \in T, \A n \in Nat : n \in T => n + 1 \in T
  PROVE  \A n \in Nat : n \in T
<1>. SUFFICES ASSUME {n \in Nat : n \notin T} # {} PROVE FALSE
  OBVIOUS
<1>1. PICK n \in {m \in Nat : m \notin T} : \A k \in {m \in Nat : m \notin T} : n <= k
  BY Least
<1>2. n # 0 /\ n - 1 \in Nat /\ n - 1 \in T
  BY <1>1
<1>. QED
  BY <1>1, <1>2

----------------------------------------------------------------------------
(* Sums.                                                                   *)

Pick(s) == CHOOSE x \in s : TRUE

(* g sums f over each set of D, one picked element after another.          *)
Sums(g, f, D) ==
  g = [s \in D |-> IF s = {} THEN 0 ELSE f[Pick(s)] + g[s \ {Pick(s)}]]

UpTo(S, n) == {s \in SUBSET S : Cardinality(s) <= n}

SumsOver(f, S) == CHOOSE g : Sums(g, f, SUBSET S)

LEMMA SumIsIteration ==
  ASSUME NEW f, NEW S
  PROVE  SumFunctionOnSet(f, S) = SumsOver(f, S)[S]
BY DEF SumFunctionOnSet, FoldFunctionOnSet, MapThenFoldSet, SumsOver, Sums, Pick

LEMMA Picked ==
  ASSUME NEW S, IsFiniteSet(S), S # {}
  PROVE  /\ Pick(S) \in S
         /\ IsFiniteSet(S \ {Pick(S)})
         /\ Cardinality(S) \in Nat \ {0}
         /\ Cardinality(S \ {Pick(S)}) = Cardinality(S) - 1
<1>1. Pick(S) \in S
  BY DEF Pick
<1>2. Cardinality(S) \in Nat /\ Cardinality(S) # 0
  BY FS_CardinalityType, FS_EmptySet
<1>. QED
  BY <1>1, <1>2, FS_RemoveElement

LEMMA Greatest ==
  ASSUME NEW S \in SUBSET Nat, IsFiniteSet(S), S # {}
  PROVE  \E n \in S : \A k \in S : k <= n
<1>. DEFINE T == {n \in Nat : \A s \in SUBSET S :
                     Cardinality(s) = n /\ s # {} => \E m \in s : \A k \in s : k <= m}
<1>0. \A s \in SUBSET S : IsFiniteSet(s)
  BY FS_Subset
<1>1. 0 \in T
  BY <1>0, FS_EmptySet
<1>2. ASSUME NEW n \in Nat, n \in T PROVE n + 1 \in T
  <2>1. ASSUME NEW s \in SUBSET S, Cardinality(s) = n + 1, s # {}
        PROVE  \E m \in s : \A k \in s : k <= m
    <3>1. PICK x : x = Pick(s)
      OBVIOUS
    <3>2. x \in s /\ Cardinality(s \ {x}) = n
      <4>1. IsFiniteSet(s)
        BY <1>0
      <4>2. x \in s /\ Cardinality(s \ {x}) = Cardinality(s) - 1
        BY <2>1, <3>1, <4>1, Picked
      <4>. QED
        BY <2>1, <4>2
    <3>3. CASE s \ {x} = {}
      BY <3>2, <3>3
    <3>4. CASE s \ {x} # {}
      <4>1. PICK m \in s \ {x} : \A k \in s \ {x} : k <= m
        BY <1>2, <3>2, <3>4
      <4>2. m \in Nat /\ x \in Nat /\ \A k \in s : k \in Nat
        BY <3>2
      <4>3. CASE x <= m
        BY <4>1, <4>3
      <4>4. CASE m <= x
        BY <3>2, <4>1, <4>2, <4>4
      <4>. QED
        BY <4>2, <4>3, <4>4
    <3>. QED
      BY <3>3, <3>4
  <2>. QED
    BY <2>1
<1>3. Cardinality(S) \in T
  <2>. HIDE DEF T
  <2>. QED
    BY <1>1, <1>2, CountUp, FS_CardinalityType
<1>. QED
  BY <1>3

LEMMA SumsExist ==
  ASSUME NEW f, NEW S, IsFiniteSet(S)
  PROVE  \E g : Sums(g, f, SUBSET S)
<1>. DEFINE T == {n \in Nat : \E g : Sums(g, f, UpTo(S, n))}
<1>1. 0 \in T
  <2>. DEFINE g == [s \in UpTo(S, 0) |-> 0]
  <2>1. \A s \in UpTo(S, 0) : s = {}
    <3>1. ASSUME NEW s \in UpTo(S, 0) PROVE s = {}
      <4>1. IsFiniteSet(s) /\ Cardinality(s) \in Nat
        BY <3>1, FS_Subset, FS_CardinalityType DEF UpTo
      <4>. QED
        BY <3>1, <4>1, FS_EmptySet DEF UpTo
    <3>. QED
      BY <3>1
  <2>2. g = [s \in UpTo(S, 0) |-> IF s = {} THEN 0 ELSE f[Pick(s)] + g[s \ {Pick(s)}]]
    BY <2>1
  <2>. QED
    BY <2>2 DEF Sums
<1>2. ASSUME NEW n \in Nat, n \in T PROVE n + 1 \in T
  <2>1. PICK g : Sums(g, f, UpTo(S, n))
    BY <1>2
  <2>. DEFINE h == [s \in UpTo(S, n + 1) |->
                      IF s = {} THEN 0 ELSE f[Pick(s)] + g[s \ {Pick(s)}]]
  <2>2. \A s \in UpTo(S, n) : h[s] = g[s]
    <3>1. \A s \in UpTo(S, n) : s \in UpTo(S, n + 1)
      <4>1. \A s \in SUBSET S : Cardinality(s) \in Nat
        BY FS_Subset, FS_CardinalityType
      <4>. QED
        BY <4>1 DEF UpTo
    <3>2. \A s \in UpTo(S, n) : g[s] = IF s = {} THEN 0 ELSE f[Pick(s)] + g[s \ {Pick(s)}]
      BY <2>1 DEF Sums
    <3>. QED
      BY <3>1, <3>2
  <2>3. \A s \in UpTo(S, n + 1) : s # {} => s \ {Pick(s)} \in UpTo(S, n)
    <3>1. ASSUME NEW s \in UpTo(S, n + 1), s # {} PROVE s \ {Pick(s)} \in UpTo(S, n)
      <4>1. IsFiniteSet(s) /\ s \in SUBSET S /\ Cardinality(s) <= n + 1
        BY <3>1, FS_Subset DEF UpTo
      <4>2. Cardinality(s) \in Nat /\ Cardinality(s \ {Pick(s)}) = Cardinality(s) - 1
        BY <3>1, <4>1, Picked
      <4>3. Cardinality(s \ {Pick(s)}) <= n
        BY <4>1, <4>2
      <4>. QED
        BY <4>1, <4>3 DEF UpTo
    <3>. QED
      BY <3>1
  <2>4. h = [s \in UpTo(S, n + 1) |-> IF s = {} THEN 0 ELSE f[Pick(s)] + h[s \ {Pick(s)}]]
    BY <2>2, <2>3
  <2>5. Sums(h, f, UpTo(S, n + 1))
    BY <2>4 DEF Sums
  <2>. QED
    BY <2>5
<1>3. Cardinality(S) \in T
  <2>. HIDE DEF T
  <2>. QED
    BY <1>1, <1>2, CountUp, FS_CardinalityType
<1>4. UpTo(S, Cardinality(S)) = SUBSET S
  BY FS_Subset DEF UpTo
<1>. QED
  BY <1>3, <1>4

LEMMA SumsOverStep ==
  ASSUME NEW f, NEW S, IsFiniteSet(S), NEW s \in SUBSET S
  PROVE  SumsOver(f, S)[s] =
           IF s = {} THEN 0 ELSE f[Pick(s)] + SumsOver(f, S)[s \ {Pick(s)}]
<1>1. PICK g : Sums(g, f, SUBSET S)
  BY SumsExist
<1>2. Sums(SumsOver(f, S), f, SUBSET S)
  BY <1>1 DEF SumsOver
<1>. QED
  BY <1>2 DEF Sums

(* What is summed over a set does not depend on what it is a part of.      *)
LEMMA SumsAgree ==
  ASSUME NEW f, NEW S, IsFiniteSet(S), NEW R \in SUBSET S
  PROVE  SumsOver(f, S)[R] = SumsOver(f, R)[R]
<1>. DEFINE T == {n \in Nat : \A s \in SUBSET R :
                     Cardinality(s) = n => SumsOver(f, S)[s] = SumsOver(f, R)[s]}
<1>0. IsFiniteSet(R) /\ \A s \in SUBSET R : s \in SUBSET S /\ IsFiniteSet(s)
  BY FS_Subset
<1>1. 0 \in T
  <2>1. ASSUME NEW s \in SUBSET R, Cardinality(s) = 0
        PROVE SumsOver(f, S)[s] = SumsOver(f, R)[s]
    <3>1. s = {}
      BY <1>0, <2>1, FS_EmptySet
    <3>. QED
      BY <1>0, <3>1, SumsOverStep
  <2>. QED
    BY <2>1
<1>2. ASSUME NEW n \in Nat, n \in T PROVE n + 1 \in T
  <2>1. ASSUME NEW s \in SUBSET R, Cardinality(s) = n + 1
        PROVE SumsOver(f, S)[s] = SumsOver(f, R)[s]
    <3>1. IsFiniteSet(s) /\ s # {} /\ s \in SUBSET S
      BY <1>0, <2>1, FS_EmptySet
    <3>2. s \ {Pick(s)} \in SUBSET R /\ Cardinality(s \ {Pick(s)}) = n
      BY <2>1, <3>1, Picked
    <3>3. SumsOver(f, S)[s \ {Pick(s)}] = SumsOver(f, R)[s \ {Pick(s)}]
      BY <1>2, <3>2
    <3>4. SumsOver(f, S)[s] = f[Pick(s)] + SumsOver(f, S)[s \ {Pick(s)}]
      BY <3>1, SumsOverStep
    <3>5. SumsOver(f, R)[s] = f[Pick(s)] + SumsOver(f, R)[s \ {Pick(s)}]
      <4>1. IsFiniteSet(R) /\ s \in SUBSET R /\ s # {}
        BY <1>0, <3>1
      <4>. QED
        BY <4>1, SumsOverStep
    <3>. QED
      BY <3>3, <3>4, <3>5
  <2>. QED
    BY <2>1
<1>3. Cardinality(R) \in T
  <2>. HIDE DEF T
  <2>. QED
    BY <1>0, <1>1, <1>2, CountUp, FS_CardinalityType
<1>. QED
  BY <1>3

LEMMA SumEmpty == \A f : SumFunctionOnSet(f, {}) = 0
BY SumIsIteration, SumsOverStep, FS_EmptySet

LEMMA SumPick ==
  ASSUME NEW f, NEW S, IsFiniteSet(S), S # {}
  PROVE  SumFunctionOnSet(f, S) = f[Pick(S)] + SumFunctionOnSet(f, S \ {Pick(S)})
<1>1. SumsOver(f, S)[S] = f[Pick(S)] + SumsOver(f, S)[S \ {Pick(S)}]
  BY SumsOverStep
<1>2. SumsOver(f, S)[S \ {Pick(S)}] = SumsOver(f, S \ {Pick(S)})[S \ {Pick(S)}]
  BY SumsAgree
<1>. QED
  BY <1>1, <1>2, SumIsIteration

LEMMA SumInt ==
  ASSUME NEW f, NEW S, IsFiniteSet(S), \A x \in S : f[x] \in Int
  PROVE  SumFunctionOnSet(f, S) \in Int
<1>. DEFINE T == {n \in Nat : \A s \in SUBSET S : Cardinality(s) = n => SumFunctionOnSet(f, s) \in Int}
<1>0. \A s \in SUBSET S : IsFiniteSet(s)
  BY FS_Subset
<1>1. 0 \in T
  BY <1>0, FS_EmptySet, SumEmpty
<1>2. ASSUME NEW n \in Nat, n \in T PROVE n + 1 \in T
  <2>1. ASSUME NEW s \in SUBSET S, Cardinality(s) = n + 1 PROVE SumFunctionOnSet(f, s) \in Int
    <3>1. IsFiniteSet(s) /\ s # {}
      BY <1>0, <2>1, FS_EmptySet
    <3>2. Pick(s) \in s /\ Cardinality(s \ {Pick(s)}) = Cardinality(s) - 1
      BY <3>1, Picked
    <3>3. s \ {Pick(s)} \in SUBSET S /\ Cardinality(s \ {Pick(s)}) = n /\ Pick(s) \in S
      BY <2>1, <3>2
    <3>4. SumFunctionOnSet(f, s \ {Pick(s)}) \in Int /\ f[Pick(s)] \in Int
      BY <1>2, <3>3
    <3>. QED
      BY <3>1, <3>4, SumPick
  <2>. QED
    BY <2>1
<1>3. Cardinality(S) \in T
  <2>. HIDE DEF T
  <2>. QED
    BY <1>1, <1>2, CountUp, FS_CardinalityType
<1>. QED
  BY <1>3

(* Any element may be taken out first.                                     *)
LEMMA SumTakeOut ==
  ASSUME NEW f, NEW S, IsFiniteSet(S), \A x \in S : f[x] \in Int, NEW y \in S
  PROVE  SumFunctionOnSet(f, S) = f[y] + SumFunctionOnSet(f, S \ {y})
<1>. DEFINE TakenOut(s) ==
              \A x \in s : SumFunctionOnSet(f, s) = f[x] + SumFunctionOnSet(f, s \ {x})
            T == {n \in Nat : \A s \in SUBSET S : Cardinality(s) = n => TakenOut(s)}
<1>0. \A s \in SUBSET S : IsFiniteSet(s)
  BY FS_Subset
<1>1. 0 \in T
  BY <1>0, FS_EmptySet
<1>2. ASSUME NEW n \in Nat, n \in T PROVE n + 1 \in T
  <2>1. ASSUME NEW s \in SUBSET S, Cardinality(s) = n + 1, NEW x \in s
        PROVE  SumFunctionOnSet(f, s) = f[x] + SumFunctionOnSet(f, s \ {x})
    <3>1. IsFiniteSet(s) /\ s # {}
      BY <1>0
    <3>2. Pick(s) \in s /\ Cardinality(s \ {Pick(s)}) = n /\ Cardinality(s \ {x}) = n
      <4>1. Pick(s) \in s /\ Cardinality(s \ {Pick(s)}) = Cardinality(s) - 1
        BY <3>1, Picked
      <4>2. Cardinality(s \ {x}) = Cardinality(s) - 1
        BY <3>1, FS_RemoveElement
      <4>. QED
        BY <2>1, <4>1, <4>2
    <3>3. SumFunctionOnSet(f, s) = f[Pick(s)] + SumFunctionOnSet(f, s \ {Pick(s)})
      BY <3>1, SumPick
    <3>4. CASE x = Pick(s)
      BY <3>3, <3>4
    <3>5. CASE x # Pick(s)
      <4>1. x \in s \ {Pick(s)} /\ Pick(s) \in s \ {x}
        BY <3>2, <3>5
      <4>2. TakenOut(s \ {Pick(s)}) /\ TakenOut(s \ {x})
        BY <1>2, <3>2
      <4>3. (s \ {Pick(s)}) \ {x} = (s \ {x}) \ {Pick(s)}
        OBVIOUS
      <4>4. SumFunctionOnSet(f, s \ {Pick(s)}) = f[x] + SumFunctionOnSet(f, (s \ {x}) \ {Pick(s)})
        BY <4>1, <4>2, <4>3
      <4>5. SumFunctionOnSet(f, s \ {x}) = f[Pick(s)] + SumFunctionOnSet(f, (s \ {x}) \ {Pick(s)})
        BY <4>1, <4>2
      <4>6. /\ f[x] \in Int /\ f[Pick(s)] \in Int
            /\ SumFunctionOnSet(f, (s \ {x}) \ {Pick(s)}) \in Int
        <5>1. f[x] \in Int /\ f[Pick(s)] \in Int
          BY <3>2
        <5>2. (s \ {x}) \ {Pick(s)} \in SUBSET S
          OBVIOUS
        <5>3. IsFiniteSet((s \ {x}) \ {Pick(s)})
          BY <1>0, <5>2
        <5>4. \A z \in (s \ {x}) \ {Pick(s)} : f[z] \in Int
          BY <5>2
        <5>5. SumFunctionOnSet(f, (s \ {x}) \ {Pick(s)}) \in Int
          BY <5>3, <5>4, SumInt
        <5>. QED
          BY <5>1, <5>5
      <4>. QED
        BY <3>3, <4>4, <4>5, <4>6
    <3>. QED
      BY <3>4, <3>5
  <2>. QED
    BY <2>1
<1>3. Cardinality(S) \in T
  <2>. HIDE DEF T
  <2>. QED
    BY <1>1, <1>2, CountUp, FS_CardinalityType
<1>. QED
  BY <1>3

(* A sum without some of its negative terms is greater by at least one for *)
(* each of them.                                                           *)
LEMMA SumWithout ==
  ASSUME NEW f, NEW S, IsFiniteSet(S), \A x \in S : f[x] \in Int,
         NEW R \in SUBSET S, \A x \in R : f[x] < 0
  PROVE  SumFunctionOnSet(f, S \ R) >= SumFunctionOnSet(f, S) + Cardinality(R)
<1>. DEFINE T == {n \in Nat : \A s \in SUBSET R : Cardinality(s) = n =>
                     SumFunctionOnSet(f, S \ s) >= SumFunctionOnSet(f, S) + n}
<1>0. /\ IsFiniteSet(R) /\ \A s \in SUBSET R : IsFiniteSet(s)
      /\ \A s \in SUBSET S : SumFunctionOnSet(f, s) \in Int
  <2>1. IsFiniteSet(R)
    BY FS_Subset
  <2>2. \A s \in SUBSET R : IsFiniteSet(s)
    BY <2>1, FS_Subset
  <2>3. ASSUME NEW s \in SUBSET S PROVE SumFunctionOnSet(f, s) \in Int
    <3>1. IsFiniteSet(s)
      BY FS_Subset
    <3>2. \A x \in s : f[x] \in Int
      OBVIOUS
    <3>. QED
      BY <3>1, <3>2, SumInt
  <2>. QED
    BY <2>1, <2>2, <2>3
<1>1. 0 \in T
  <2>1. ASSUME NEW s \in SUBSET R, Cardinality(s) = 0
        PROVE SumFunctionOnSet(f, S \ s) >= SumFunctionOnSet(f, S) + 0
    <3>1. S \ s = S
      BY <1>0, <2>1, FS_EmptySet
    <3>2. SumFunctionOnSet(f, S) \in Int
      BY <1>0
    <3>. QED
      BY <3>1, <3>2
  <2>. QED
    BY <2>1
<1>2. ASSUME NEW n \in Nat, n \in T PROVE n + 1 \in T
  <2>1. ASSUME NEW s \in SUBSET R, Cardinality(s) = n + 1
        PROVE SumFunctionOnSet(f, S \ s) >= SumFunctionOnSet(f, S) + (n + 1)
    <3>1. IsFiniteSet(s) /\ s # {}
      BY <1>0, <2>1, FS_EmptySet
    <3>2. PICK x : x = Pick(s)
      OBVIOUS
    <3>3. x \in s /\ Cardinality(s \ {x}) = n
      BY <2>1, <3>1, <3>2, Picked
    <3>4. SumFunctionOnSet(f, S \ (s \ {x})) >= SumFunctionOnSet(f, S) + n
      BY <1>2, <3>3
    <3>5. PICK U : U = S \ (s \ {x})
      OBVIOUS
    <3>6. U \in SUBSET S /\ x \in U /\ U \ {x} = S \ s /\ f[x] < 0 /\ f[x] \in Int
      BY <3>3, <3>5
    <3>7. IsFiniteSet(U)
      BY <3>6, FS_Subset
    <3>8. SumFunctionOnSet(f, U) = f[x] + SumFunctionOnSet(f, U \ {x})
      BY <3>6, <3>7, SumTakeOut
    <3>9. /\ SumFunctionOnSet(f, S \ s) \in Int /\ SumFunctionOnSet(f, S) \in Int
          /\ SumFunctionOnSet(f, U) = f[x] + SumFunctionOnSet(f, S \ s)
          /\ SumFunctionOnSet(f, U) >= SumFunctionOnSet(f, S) + n
      BY <1>0, <3>4, <3>5, <3>6, <3>8
    <3>. QED
      BY <3>6, <3>9
  <2>. QED
    BY <2>1
<1>3. Cardinality(R) \in T
  <2>. HIDE DEF T
  <2>. QED
    BY <1>0, <1>1, <1>2, CountUp, FS_CardinalityType
<1>. QED
  BY <1>3

----------------------------------------------------------------------------
(* One rule.                                                               *)

LEMMA ConditionShape ==
  ASSUME NEW rule \in RuleShape
  PROVE  /\ IsFiniteSet(DOMAIN rule.conditions)
         /\ DOMAIN rule.conditions \subseteq Nat
         /\ \A i \in DOMAIN rule.conditions :
              rule.conditions[i] \in Condition /\ rule.conditions[i].points \in Int
<1>1. rule.conditions \in Seq(Condition)
  BY DEF RuleShape
<1>2. Len(rule.conditions) \in Nat /\ DOMAIN rule.conditions = 1 .. Len(rule.conditions)
  BY <1>1, LenProperties
<1>3. \A i \in DOMAIN rule.conditions : rule.conditions[i] \in Condition
  BY <1>1, ElementOfSeq, <1>2
<1>4. \A c \in Condition : c.points \in Int
  BY DEF Condition
<1>5. IsFiniteSet(1 .. Len(rule.conditions))
  BY <1>2, FS_Interval
<1>. QED
  BY <1>2, <1>3, <1>4, <1>5

LEMMA ScoreShape ==
  ASSUME NEW rule \in RuleShape, NEW given
  PROVE  /\ FiredOf(rule, given) \subseteq DOMAIN rule.conditions
         /\ IsFiniteSet(FiredOf(rule, given))
         /\ RuleScore(rule, given) \in Int
<1>1. FiredOf(rule, given) \subseteq DOMAIN rule.conditions
  BY DEF FiredOf
<1>2. IsFiniteSet(FiredOf(rule, given))
  BY <1>1, ConditionShape, FS_Subset
<1>3. \A i \in FiredOf(rule, given) : PointsOf(rule)[i] \in Int
  BY <1>1, ConditionShape DEF PointsOf
<1>4. SumFunctionOnSet(PointsOf(rule), FiredOf(rule, given)) \in Int
  BY <1>2, <1>3, SumInt
<1>. QED
  BY <1>1, <1>2, <1>4 DEF RuleScore

VetoStates == {"established", "indeterminate", "not_established"}

(* What consolidation and precedence may rely on.                          *)
IsEvaluation(ev) ==
  /\ ev.id \in RuleId /\ ev.rule \in RuleShape
  /\ ev.fired \subseteq DOMAIN ev.rule.conditions /\ IsFiniteSet(ev.fired)
  /\ ev.score \in Int /\ ev.veto \in VetoStates

Evaluations(evs) ==
  /\ IsFiniteSet(evs)
  /\ \A ev \in evs : IsEvaluation(ev)
  /\ \A ev, other \in evs : ev.id = other.id => ev = other

EvaluatedWith(defs, given, S) == {EvaluateRule(r, defs[r], given) : r \in S}

LEMMA EvaluationsShape ==
  ASSUME NEW S \in SUBSET RuleId, NEW defs \in [RuleId -> Shape], NEW given
  PROVE  Evaluations(EvaluatedWith(defs, given, S))
<1>. DEFINE evs == EvaluatedWith(defs, given, S)
            f == [r \in S |-> EvaluateRule(r, defs[r], given)]
<1>1. IsFiniteSet(evs)
  <2>1. IsFiniteSet(S)
    BY RuleIdAssumption, FS_Subset
  <2>2. f \in Surjection(S, evs)
    BY DEF Surjection, EvaluatedWith
  <2>. QED
    BY <2>1, <2>2, FS_Surjection
<1>2. ASSUME NEW r \in S PROVE IsEvaluation(EvaluateRule(r, defs[r], given))
  <2>1. defs[r] \in RuleShape
    BY ShapeAssumption
  <2>2. VetoState(defs[r], given) \in VetoStates
    BY DEF VetoState, VetoStates
  <2>. QED
    BY <2>1, <2>2, ScoreShape DEF IsEvaluation, EvaluateRule
<1>3. \A r \in S : EvaluateRule(r, defs[r], given).id = r
  BY DEF EvaluateRule
<1>. QED
  BY <1>1, <1>2, <1>3 DEF Evaluations, EvaluatedWith

----------------------------------------------------------------------------
(* Precedence.                                                             *)

LEMMA SeverityShape ==
  /\ \A a \in Action : Severity[a] \in 0 .. 5
  /\ Preventive \subseteq Action
  /\ {"allow", "monitor", "alert"} \subseteq Action \ Preventive
  /\ Severity.monitor = 1 /\ \A a \in Preventive : Severity[a] > 1
BY DEF Action, Severity, Preventive

LEMMA ActionShape ==
  ASSUME NEW evs, Evaluations(evs), NEW ev \in evs
  PROVE  ev.rule.action \in Action /\ ev.id \in Nat
BY RuleIdAssumption DEF Evaluations, IsEvaluation, RuleShape

(* There is a most severe rule with authority.                             *)
LEMMA ChosenOutranks ==
  ASSUME NEW evs, Evaluations(evs), Authorised(evs) # {}
  PROVE  /\ Chosen(evs) \in Authorised(evs)
         /\ \A other \in Authorised(evs) : Outranks(Chosen(evs), other)
<1>1. PICK A : A = Authorised(evs)
  OBVIOUS
<1>2. \A ev \in A : ev.rule.action \in Action /\ ev.id \in Nat /\ Severity[ev.rule.action] \in 0 .. 5
  BY <1>1, ActionShape, SeverityShape DEF Authorised
<1>3. PICK gaps : gaps = {5 - Severity[ev.rule.action] : ev \in A}
  OBVIOUS
<1>4. gaps \in SUBSET Nat /\ gaps # {}
  BY <1>1, <1>2, <1>3
<1>5. PICK gap \in gaps : \A g \in gaps : gap <= g
  BY <1>4, Least
<1>6. PICK ids : ids = {ev.id : ev \in {e \in A : 5 - Severity[e.rule.action] = gap}}
  OBVIOUS
<1>7. ids \in SUBSET Nat /\ ids # {}
  BY <1>2, <1>3, <1>5, <1>6
<1>8. PICK id \in ids : \A i \in ids : id <= i
  BY <1>7, Least
<1>9. PICK ev \in A : ev.id = id /\ 5 - Severity[ev.rule.action] = gap
  BY <1>6, <1>8
<1>10. ASSUME NEW other \in A PROVE Outranks(ev, other)
  <2>1. 5 - Severity[other.rule.action] \in gaps
    BY <1>3
  <2>2. gap <= 5 - Severity[other.rule.action]
    BY <1>5, <2>1
  <2>3. CASE 5 - Severity[other.rule.action] = gap
    <3>1. other.id \in ids
      BY <1>6, <2>3
    <3>2. ev.id <= other.id
      BY <1>8, <1>9, <3>1
    <3>. QED
      BY <1>2, <1>9, <2>3, <3>2 DEF Outranks
  <2>4. CASE 5 - Severity[other.rule.action] # gap
    BY <1>2, <1>9, <2>2, <2>4 DEF Outranks
  <2>. QED
    BY <2>3, <2>4
<1>11. \E e \in Authorised(evs) : \A other \in Authorised(evs) : Outranks(e, other)
  BY <1>1, <1>9, <1>10
<1>. QED
  BY <1>11 DEF Chosen

LEMMA DemotedShape ==
  ASSUME NEW evs, Evaluations(evs)
  PROVE  Demoted(evs) \in Action \ Preventive
<1>1. PICK options : options = {ev.rule.action : ev \in Authorised(evs)} \ Preventive
  OBVIOUS
<1>2. options \subseteq Action \ Preventive
  BY <1>1, ActionShape DEF Authorised
<1>3. CASE options = {}
  BY <1>1, <1>3, SeverityShape DEF Demoted
<1>4. CASE options # {}
  <2>1. PICK gaps : gaps = {5 - Severity[a] : a \in options}
    OBVIOUS
  <2>2. gaps \in SUBSET Nat /\ gaps # {}
    BY <1>2, <1>4, <2>1, SeverityShape
  <2>3. PICK gap \in gaps : \A g \in gaps : gap <= g
    BY <2>2, Least
  <2>4. PICK a \in options : 5 - Severity[a] = gap
    BY <2>1, <2>3
  <2>5. \A b \in options : Severity[a] >= Severity[b]
    <3>1. ASSUME NEW b \in options PROVE Severity[a] >= Severity[b]
      <4>1. 5 - Severity[a] <= 5 - Severity[b]
        BY <2>1, <2>3, <2>4
      <4>2. Severity[a] \in 0 .. 5 /\ Severity[b] \in 0 .. 5
        BY <1>2, SeverityShape
      <4>. QED
        BY <4>1, <4>2
    <3>. QED
      BY <3>1
  <2>6. (CHOOSE x \in options : \A b \in options : Severity[x] >= Severity[b]) \in options
    BY <2>4, <2>5
  <2>. QED
    BY <1>1, <1>2, <1>4, <2>6 DEF Demoted
<1>. QED
  BY <1>3, <1>4

(* A preventive action is what the chosen rule asked for and may do.       *)
LEMMA PreventiveIsChosen ==
  ASSUME NEW evs, Evaluations(evs), DecidedAction(evs) \in Preventive
  PROVE  /\ Authorised(evs) # {}
         /\ Chosen(evs).rule.action = DecidedAction(evs)
         /\ MayPrevent(Chosen(evs))
         /\ ~IsCapped(evs)
<1>1. Uncapped(evs) \in Preventive /\ DecidedAction(evs) = Uncapped(evs)
  BY SeverityShape DEF DecidedAction
<1>2. ~IsCapped(evs)
  BY <1>1, SeverityShape DEF DecidedAction
<1>3. Authorised(evs) # {}
  BY <1>1, SeverityShape DEF Uncapped
<1>4. Uncapped(evs) # Demoted(evs)
  BY <1>1, DemotedShape
<1>. QED
  BY <1>1, <1>2, <1>3, <1>4 DEF Uncapped

LEMMA DecidedActionShape ==
  ASSUME NEW evs, Evaluations(evs)
  PROVE  DecidedAction(evs) \in Action
<1>1. Authorised(evs) # {} => Chosen(evs).rule.action \in Action
  BY ChosenOutranks, ActionShape DEF Authorised
<1>2. Uncapped(evs) \in Action
  BY <1>1, DemotedShape, SeverityShape DEF Uncapped
<1>. QED
  BY <1>2, SeverityShape DEF DecidedAction

----------------------------------------------------------------------------
(* The result is the evaluation of the state it is found in.               *)

Known ==
  /\ rules \in [RuleId -> Shape]
  /\ status \in [RuleId -> Status]
  /\ reads \in [Feature -> Read]

UpToDate == Known /\ result = Evaluation

LEMMA Frame ==
  ASSUME UNCHANGED <<rules, status, reads>>
  PROVE  Evaluation' = Evaluation
BY DEF Evaluation, ShadowOutcome, Evaluated, Live, Shadow, DataCeiling, ExposedBy

LEMMA UpToDateCorrect == Spec => []UpToDate
<1>1. Init => UpToDate
  BY ReadAssumption DEF Init, UpToDate, Known, Read, Missing
<1>2. UpToDate /\ [Next]_vars => UpToDate'
  <2>. SUFFICES ASSUME UpToDate, [Next]_vars PROVE UpToDate'
    OBVIOUS
  <2>1. ASSUME NEW f \in Feature, Evaluate(f) PROVE UpToDate'
    BY <2>1 DEF UpToDate, Known, Evaluate
  <2>2. ASSUME NEW r \in RuleId, NEW s \in Status, SetStatus(r, s) PROVE UpToDate'
    BY <2>2 DEF UpToDate, Known, SetStatus
  <2>3. CASE UNCHANGED vars
    BY <2>3, Frame DEF UpToDate, Known, vars
  <2>. QED
    BY <2>1, <2>2, <2>3 DEF Next
<1>. QED
  BY <1>1, <1>2, PTL DEF Spec

LEMMA EvaluatedShape ==
  ASSUME Known, NEW S \in SUBSET RuleId
  PROVE  Evaluations(Evaluated(S))
<1>1. EvaluatedWith(rules, reads, S) = Evaluated(S)
  BY DEF EvaluatedWith, Evaluated
<1>. QED
  BY <1>1, EvaluationsShape DEF Known

LEMMA EvaluatedFields ==
  ASSUME NEW S, NEW r \in S
  PROVE  LET ev == EvaluateRule(r, rules[r], reads) IN
         /\ ev \in Evaluated(S) /\ ev.id = r /\ ev.rule = rules[r]
         /\ ev.satisfied = Satisfied(rules[r], reads) /\ ev.score = RuleScore(rules[r], reads)
         /\ ev.fired = FiredOf(rules[r], reads)
         /\ ev.authority = PreventiveAuthority(rules[r], reads)
         /\ ev.veto = VetoState(rules[r], reads)
BY DEF Evaluated, EvaluateRule

(* The evaluations are those of the rules and nothing else.                *)
LEMMA EvaluatedOnly ==
  ASSUME NEW S, NEW ev \in Evaluated(S)
  PROVE  \E r \in S : ev = EvaluateRule(r, rules[r], reads)
BY DEF Evaluated

(* Whatever the rules and the reads, a customer is stopped only on         *)
(* evidence that is all there.                                             *)
THEOREM PreventionIsEarned == Spec => []PreventionEarned
<1>1. UpToDate => PreventionEarned
  <2>. SUFFICES ASSUME UpToDate, result.action \in Preventive PROVE PreventionEarned
    BY DEF PreventionEarned
  <2>. DEFINE evs == Evaluated(Live)
  <2>1. Evaluations(evs) /\ Live \subseteq RuleId
    BY EvaluatedShape DEF UpToDate, Live
  <2>2. result.action = DecidedAction(evs)
    BY DEF UpToDate, Evaluation
  <2>3. /\ Authorised(evs) # {} /\ Chosen(evs).rule.action = result.action
        /\ MayPrevent(Chosen(evs)) /\ ~IsCapped(evs)
    <3>. HIDE DEF evs
    <3>. QED
      BY <2>1, <2>2, PreventiveIsChosen
  <2>4. /\ Chosen(evs) \in Authorised(evs)
        /\ \A other \in Authorised(evs) : Outranks(Chosen(evs), other)
    <3>. HIDE DEF evs
    <3>. QED
      BY <2>1, <2>3, ChosenOutranks
  <2>5. PICK r \in Live : Chosen(evs) = EvaluateRule(r, rules[r], reads)
    <3>1. Chosen(evs) \in evs
      BY <2>4 DEF Authorised
    <3>. QED
      BY <3>1, EvaluatedOnly
  <2>6. /\ Chosen(evs).id = r /\ Chosen(evs).rule = rules[r]
        /\ Chosen(evs).score = RuleScore(rules[r], reads)
        /\ Chosen(evs).authority = PreventiveAuthority(rules[r], reads)
    BY <2>5, EvaluatedFields
  <2>7. rules[r] \in RuleShape
    BY <2>1, ShapeAssumption DEF UpToDate, Known
  <2>8. /\ rules[r].action = result.action
        /\ rules[r].prevent \in Nat /\ RuleScore(rules[r], reads) >= rules[r].prevent
    BY <2>3, <2>6, <2>7 DEF MayPrevent, RuleShape
  <2>9. ASSUME NEW i \in DOMAIN rules[r].conditions, rules[r].conditions[i].points < 0
        PROVE  reads[rules[r].conditions[i].feature] \in Value
    <3>1. rules[r].conditions[i].feature \in Feature
      BY <2>7, ConditionShape DEF Condition
    <3>2. IsPresent(rules[r].conditions[i].feature, reads)
      BY <2>3, <2>6, <2>9 DEF MayPrevent, PreventiveAuthority, Mitigating
    <3>. QED
      BY <3>1, <3>2 DEF IsPresent, UpToDate, Known, Read
  <2>10. ASSUME NEW q \in Live, ~rules[q].veto, Satisfied(rules[q], reads),
                RuleScore(rules[q], reads) >= rules[q].review
         PROVE  Severity[rules[q].action] <= Severity[result.action]
    <3>1. PICK ev : ev = EvaluateRule(q, rules[q], reads)
      OBVIOUS
    <3>2. ev \in Authorised(evs) /\ ev.rule = rules[q]
      BY <2>10, <3>1, EvaluatedFields DEF Authorised
    <3>3. Outranks(Chosen(evs), ev)
      BY <2>4, <3>2
    <3>4. rules[q].action \in Action /\ rules[r].action \in Action
      BY <2>1, ShapeAssumption DEF UpToDate, Known, RuleShape
    <3>. QED
      BY <2>3, <2>6, <3>2, <3>3, <3>4, SeverityShape DEF Outranks
  <2>11. ASSUME NEW q \in Live, rules[q].veto
         PROVE  VetoState(rules[q], reads) = "not_established"
    <3>1. PICK ev : ev = EvaluateRule(q, rules[q], reads)
      OBVIOUS
    <3>2. ev \in evs /\ ev.rule = rules[q] /\ ev.veto = VetoState(rules[q], reads)
      BY <3>1, EvaluatedFields
    <3>3. ev.veto # "established" /\ ev.veto # "indeterminate"
      BY <2>3, <2>11, <3>2 DEF IsCapped, Vetoes
    <3>. QED
      BY <3>2, <3>3 DEF VetoState
  <2>. QED
    BY <2>8, <2>9, <2>10, <2>11 DEF PreventionEarned
<1>. QED
  BY <1>1, UpToDateCorrect, PTL

(* What WhatIf assumes of the engine it is given.                          *)
EngineGrounded ==
  /\ result.authorised \subseteq
       {r \in Live : Satisfied(rules[r], reads) /\ FiredOf(rules[r], reads) # {}}
  /\ result.authorised # {} => result.source \in result.authorised
  /\ result.authorised = {} => result.source \notin RuleId

(* The engine keeps the assumption under which a what-if is proved: a rule *)
(* with authority is satisfied and has fired, a rule with authority is     *)
(* named as the source of the action, and without one no rule is           *)
(* (precedence.decide, to_rule_simulation).                                  *)
THEOREM EngineKeepsAssumption == Spec => []EngineGrounded
<1>1. UpToDate => EngineGrounded
  <2>. SUFFICES ASSUME UpToDate PROVE EngineGrounded
    OBVIOUS
  <2>1. PICK evs : evs = Evaluated(Live)
    OBVIOUS
  <2>2. Evaluations(evs)
    BY <2>1, EvaluatedShape DEF UpToDate, Live
  <2>3. /\ result.authorised = IdsOf(Authorised(evs))
        /\ result.source = IF Authorised(evs) = {} THEN NoRule ELSE Chosen(evs).id
    BY <2>1 DEF UpToDate, Evaluation
  <2>4. ASSUME NEW ev \in Authorised(evs)
        PROVE  \E r \in Live : ev.id = r /\ Satisfied(rules[r], reads)
    <3>1. ev \in Evaluated(Live) /\ ev.satisfied
      BY <2>1 DEF Authorised
    <3>. QED
      BY <3>1, EvaluatedOnly, EvaluatedFields
  <2>5. ASSUME NEW rule, Satisfied(rule, reads) PROVE FiredOf(rule, reads) # {}
    BY <2>5 DEF Satisfied
  <2>6. Authorised(evs) # {} => Chosen(evs) \in Authorised(evs)
    BY <2>2, ChosenOutranks
  <2>. QED
    BY <2>3, <2>4, <2>5, <2>6, RuleIdAssumption DEF EngineGrounded, IdsOf
<1>. QED
  BY <1>1, UpToDateCorrect, PTL

----------------------------------------------------------------------------
(* Consolidation.                                                          *)

IsClaim(cl) ==
  cl.by \in RuleId /\ cl.by \in Nat /\ cl.at \in Nat /\ cl.condition \in Condition
  /\ cl.condition.points \in Int

ClaimSet(claims) ==
  /\ IsFiniteSet(claims)
  /\ \A cl \in claims : IsClaim(cl)
  /\ \A cl, other \in claims : cl.by = other.by /\ cl.at = other.at => cl = other

LEMMA ClaimsShape ==
  ASSUME NEW evs, Evaluations(evs)
  PROVE  ClaimSet(Claims(evs))
<1>. DEFINE saying == {e \in evs : e.satisfied}
<1>1. IsFiniteSet(saying)
  BY FS_Subset DEF Evaluations
<1>2. ASSUME NEW ev \in saying PROVE IsFiniteSet(ClaimsOf(ev))
  <2>. DEFINE f == [i \in ev.fired |-> [by |-> ev.id, at |-> i, condition |-> ev.rule.conditions[i]]]
  <2>1. f \in Surjection(ev.fired, ClaimsOf(ev))
    BY DEF Surjection, ClaimsOf
  <2>2. IsFiniteSet(ev.fired)
    BY DEF Evaluations, IsEvaluation
  <2>. QED
    BY <2>1, <2>2, FS_Surjection
<1>3. IsFiniteSet(Claims(evs))
  <2>. DEFINE family == {ClaimsOf(ev) : ev \in saying}
              f == [ev \in saying |-> ClaimsOf(ev)]
  <2>1. f \in Surjection(saying, family)
    BY DEF Surjection
  <2>2. IsFiniteSet(family)
    BY <1>1, <2>1, FS_Surjection
  <2>3. \A c \in family : IsFiniteSet(c)
    BY <1>2
  <2>. QED
    BY <2>2, <2>3, FS_UNION DEF Claims
<1>4. ASSUME NEW cl \in Claims(evs)
      PROVE  \E ev \in evs : \E i \in ev.fired :
               cl = [by |-> ev.id, at |-> i, condition |-> ev.rule.conditions[i]]
  BY DEF Claims, ClaimsOf
<1>5. ASSUME NEW cl \in Claims(evs) PROVE IsClaim(cl)
  <2>1. PICK ev \in evs : \E i \in ev.fired :
          cl = [by |-> ev.id, at |-> i, condition |-> ev.rule.conditions[i]]
    BY <1>4
  <2>2. IsEvaluation(ev)
    BY DEF Evaluations
  <2>4. PICK i \in ev.fired : cl = [by |-> ev.id, at |-> i, condition |-> ev.rule.conditions[i]]
    BY <2>1
  <2>3. i \in Nat /\ ev.rule.conditions[i] \in Condition /\ ev.rule.conditions[i].points \in Int
    BY <2>2, ConditionShape DEF IsEvaluation
  <2>. QED
    BY <2>2, <2>3, <2>4, RuleIdAssumption DEF IsClaim, IsEvaluation
<1>6. ASSUME NEW cl \in Claims(evs), NEW other \in Claims(evs), cl.by = other.by, cl.at = other.at
      PROVE  cl = other
  <2>1. PICK ev \in evs : \E i \in ev.fired :
          cl = [by |-> ev.id, at |-> i, condition |-> ev.rule.conditions[i]]
    BY <1>4
  <2>2. PICK e \in evs : \E j \in e.fired :
          other = [by |-> e.id, at |-> j, condition |-> e.rule.conditions[j]]
    BY <1>4
  <2>3. ev = e
    BY <1>6, <2>1, <2>2 DEF Evaluations
  <2>. QED
    BY <1>6, <2>1, <2>2, <2>3
<1>. QED
  BY <1>3, <1>5, <1>6 DEF ClaimSet

(* Every claim has a winner in its bucket.                                 *)
LEMMA WinnerExists ==
  ASSUME NEW claims, ClaimSet(claims), NEW cl \in claims
  PROVE  \E w \in Winners(claims) : SameBucket(cl.condition, w.condition)
<1>1. PICK R : R = Rivals(claims, cl)
  OBVIOUS
<1>2. R \subseteq claims /\ cl \in R /\ IsFiniteSet(R)
  BY <1>1, FS_Subset DEF Rivals, SameBucket, ClaimSet
<1>3. \A o \in R : Abs(o.condition.points) \in Nat /\ o.by \in Nat /\ o.at \in Nat
  BY <1>2 DEF ClaimSet, IsClaim, Abs
<1>4. PICK m \in {Abs(o.condition.points) : o \in R} :
        \A o \in R : Abs(o.condition.points) <= m
  <2>. DEFINE sizes == {Abs(o.condition.points) : o \in R}
              f == [o \in R |-> Abs(o.condition.points)]
  <2>1. f \in Surjection(R, sizes)
    BY DEF Surjection
  <2>2. IsFiniteSet(sizes) /\ sizes \in SUBSET Nat /\ sizes # {}
    BY <1>2, <1>3, <2>1, FS_Surjection
  <2>3. \E n \in sizes : \A k \in sizes : k <= n
    <3>. HIDE DEF sizes
    <3>. QED
      BY <2>2, Greatest
  <2>. QED
    BY <2>3
<1>5. PICK bys : bys = {o.by : o \in {x \in R : Abs(x.condition.points) = m}}
  OBVIOUS
<1>6. bys \in SUBSET Nat /\ bys # {}
  BY <1>3, <1>4, <1>5
<1>7. PICK b \in bys : \A k \in bys : b <= k
  BY <1>6, Least
<1>8. PICK ats : ats = {o.at : o \in {x \in R : Abs(x.condition.points) = m /\ x.by = b}}
  OBVIOUS
<1>9. ats \in SUBSET Nat /\ ats # {}
  BY <1>3, <1>5, <1>7, <1>8
<1>10. PICK a \in ats : \A k \in ats : a <= k
  BY <1>9, Least
<1>11. PICK w \in R : Abs(w.condition.points) = m /\ w.by = b /\ w.at = a
  BY <1>8, <1>10
<1>12. SameBucket(cl.condition, w.condition)
  BY <1>1, <1>11 DEF Rivals
<1>13. ASSUME NEW o \in Rivals(claims, w) PROVE Beats(w, o)
  <2>1. o \in R
    BY <1>1, <1>12 DEF Rivals, SameBucket
  <2>2. Abs(o.condition.points) <= m /\ Abs(o.condition.points) \in Nat /\ m \in Nat
    BY <1>3, <1>4, <1>11, <2>1
  <2>3. CASE Abs(o.condition.points) # m
    BY <1>11, <2>2, <2>3 DEF Beats
  <2>4. CASE Abs(o.condition.points) = m
    <3>1. b <= o.by /\ b \in Nat /\ o.by \in Nat
      BY <1>3, <1>5, <1>6, <1>7, <2>1, <2>4
    <3>2. CASE o.by = b
      <4>1. a <= o.at
        BY <1>8, <1>10, <2>1, <2>4, <3>2
      <4>. QED
        BY <1>11, <2>4, <3>2, <4>1 DEF Beats
    <3>3. CASE o.by # b
      BY <1>11, <2>4, <3>1, <3>3 DEF Beats
    <3>. QED
      BY <3>2, <3>3
  <2>. QED
    BY <2>3, <2>4
<1>. QED
  BY <1>2, <1>11, <1>12, <1>13 DEF Winners

(* A bucket has one winner.                                                *)
LEMMA WinnerUnique ==
  ASSUME NEW claims, ClaimSet(claims), NEW w \in Winners(claims), NEW v \in Winners(claims),
         SameBucket(w.condition, v.condition)
  PROVE  w = v
<1>1. w \in claims /\ v \in claims
  BY DEF Winners
<1>2. Beats(w, v) /\ Beats(v, w)
  BY <1>1 DEF Winners, Rivals, SameBucket
<1>3. w.by \in Nat /\ v.by \in Nat /\ w.at \in Nat /\ v.at \in Nat
  BY <1>1 DEF ClaimSet, IsClaim
<1>4. Abs(w.condition.points) \in Nat /\ Abs(v.condition.points) \in Nat
  BY <1>1 DEF ClaimSet, IsClaim, Abs
<1>5. w.by = v.by /\ w.at = v.at
  BY <1>2, <1>3, <1>4 DEF Beats
<1>. QED
  BY <1>1, <1>5 DEF ClaimSet

LEMMA SignalFields ==
  ASSUME NEW claims, NEW cl
  PROVE  /\ SignalOf(claims, cl).feature = cl.condition.feature
         /\ SignalOf(claims, cl).direction = Direction(cl.condition)
         /\ SignalOf(claims, cl).points = cl.condition.points
         /\ SignalOf(claims, cl).source = cl.by
         /\ SignalOf(claims, cl).asserted = {o.by : o \in Rivals(claims, cl)}
BY DEF SignalOf

(* What is on the bar of a claim's bucket.                                 *)
LEMMA BucketAnswers ==
  ASSUME NEW claims, ClaimSet(claims), NEW cl \in claims
  PROVE  \E s \in Buckets(claims) :
           /\ s.feature = cl.condition.feature
           /\ (s.points < 0) = (cl.condition.points < 0)
           /\ cl.by \in s.asserted
           /\ Abs(cl.condition.points) <= Abs(s.points)
           /\ \A other \in Buckets(claims) :
                other.feature = cl.condition.feature /\ (other.points < 0) = (cl.condition.points < 0)
                  => other = s
<1>1. PICK w \in Winners(claims) : SameBucket(cl.condition, w.condition)
  BY WinnerExists
<1>2. PICK s : s = SignalOf(claims, w)
  OBVIOUS
<1>3. s \in Buckets(claims)
  BY <1>1, <1>2 DEF Buckets
<1>4. s.feature = cl.condition.feature /\ (s.points < 0) = (cl.condition.points < 0)
  BY <1>1, <1>2, SignalFields DEF SameBucket, Direction, Mitigating
<1>5. cl \in Rivals(claims, w)
  BY <1>1 DEF Rivals, SameBucket
<1>6. cl.by \in s.asserted
  BY <1>2, <1>5, SignalFields
<1>7. Abs(cl.condition.points) <= Abs(s.points)
  <2>1. Beats(w, cl)
    BY <1>5 DEF Winners
  <2>2. w \in claims
    BY DEF Winners
  <2>3. Abs(w.condition.points) \in Nat /\ Abs(cl.condition.points) \in Nat
    BY <2>2 DEF ClaimSet, IsClaim, Abs
  <2>4. Abs(cl.condition.points) <= Abs(w.condition.points)
    BY <2>1, <2>3 DEF Beats
  <2>. QED
    BY <1>2, <2>4, SignalFields
<1>8. ASSUME NEW other \in Buckets(claims), other.feature = cl.condition.feature,
             (other.points < 0) = (cl.condition.points < 0)
      PROVE  other = s
  <2>1. PICK v \in Winners(claims) : other = SignalOf(claims, v)
    BY DEF Buckets
  <2>2. v.condition.feature = cl.condition.feature /\ (v.condition.points < 0) = (cl.condition.points < 0)
    BY <1>8, <2>1, SignalFields
  <2>3. SameBucket(w.condition, v.condition)
    BY <1>1, <2>2 DEF SameBucket, Direction, Mitigating
  <2>. QED
    BY <1>2, <2>1, <2>3, WinnerUnique
<1>. QED
  BY <1>3, <1>4, <1>6, <1>7, <1>8

LEMMA PoolSums ==
  ASSUME NEW evs
  PROVE  /\ Pool(evs) = {} <=> SumOf(Pool(evs)) = 0
         /\ Pool(evs) # {} => Pool(evs) = Buckets(Claims(evs)) /\ ~(SumOf(Pool(evs)) <= 0)
<1>1. SumOf({}) = 0
  BY SumEmpty DEF SumOf
<1>2. CASE SumOf(Buckets(Claims(evs))) <= 0
  BY <1>1, <1>2 DEF Pool
<1>3. CASE ~(SumOf(Buckets(Claims(evs))) <= 0)
  BY <1>1, <1>3 DEF Pool
<1>. QED
  BY <1>2, <1>3

(* The signals shown add up to the score, whatever the rules and however   *)
(* many share a feature.                                                   *)
THEOREM ScoreIsExplained == Spec => []ScoreExplained
<1>1. UpToDate => ScoreExplained
  <2>. SUFFICES ASSUME UpToDate PROVE ScoreExplained
    OBVIOUS
  <2>1. PICK evs : evs = Evaluated(Live)
    OBVIOUS
  <2>2. Evaluations(evs)
    BY <2>1, EvaluatedShape DEF UpToDate, Live
  <2>3. PICK claims : claims = Claims(evs)
    OBVIOUS
  <2>4. ClaimSet(claims)
    BY <2>2, <2>3, ClaimsShape
  <2>5. result.signals = Pool(evs) /\ result.score = SumOf(Pool(evs))
    BY <2>1 DEF UpToDate, Evaluation
  <2>6. result.signals = {} <=> result.score = 0
    BY <2>5, PoolSums
  <2>7. ASSUME result.signals # {}, NEW r \in Live, NEW i \in FiredOf(rules[r], reads),
               Satisfied(rules[r], reads), NEW c, c = rules[r].conditions[i]
        PROVE  \E s \in result.signals :
                 /\ s.feature = c.feature /\ (s.points < 0) = (c.points < 0)
                 /\ r \in s.asserted
                 /\ Abs(c.points) <= Abs(s.points)
                 /\ \A other \in result.signals :
                      other.feature = c.feature /\ (other.points < 0) = (c.points < 0) => other = s
    <3>1. PICK ev : ev = EvaluateRule(r, rules[r], reads)
      OBVIOUS
    <3>2. /\ ev \in evs /\ ev.id = r /\ ev.rule = rules[r] /\ ev.satisfied
          /\ ev.fired = FiredOf(rules[r], reads)
      BY <2>1, <2>7, <3>1, EvaluatedFields
    <3>3. PICK cl : cl = [by |-> r, at |-> i, condition |-> c]
      OBVIOUS
    <3>4. cl \in ClaimsOf(ev)
      BY <2>7, <3>2, <3>3 DEF ClaimsOf
    <3>5. cl \in claims
      BY <2>3, <3>2, <3>4 DEF Claims
    <3>6. cl.by = r /\ cl.condition = c
      BY <3>3
    <3>7. result.signals = Buckets(claims)
      BY <2>3, <2>5, <2>7, PoolSums
    <3>. QED
      BY <2>4, <3>5, <3>6, <3>7, BucketAnswers
  <2>. QED
    BY <2>5, <2>6, <2>7 DEF ScoreExplained
<1>. QED
  BY <1>1, UpToDateCorrect, PTL
----------------------------------------------------------------------------
(* Rules in shadow.                                                        *)

LEMMA RulesStay == [Next]_vars => rules' = rules
BY DEF Next, Evaluate, SetStatus, vars

(* The ceiling is the lag of some evaluated rule, or zero, and no          *)
(* evaluated rule has a larger one.                                        *)
CeilingOfSome ==
  /\ DataCeiling \in Nat
  /\ DataCeiling = 0 \/ \E r \in Live \cup Shadow : rules[r].lag = DataCeiling
  /\ \A r \in Live \cup Shadow : rules[r].lag \in Nat /\ rules[r].lag <= DataCeiling

LEMMA CeilingShape ==
  ASSUME Known
  PROVE  CeilingOfSome
<1>. DEFINE S == Live \cup Shadow
            f == [r \in S |-> rules[r].lag]
            lags == {rules[r].lag : r \in S}
<1>1. S \in SUBSET RuleId /\ IsFiniteSet(S)
  BY RuleIdAssumption, FS_Subset DEF Live, Shadow
<1>2. \A r \in S : rules[r].lag \in Nat
  BY <1>1, ShapeAssumption DEF Known, RuleShape
<1>3. f \in Surjection(S, lags)
  BY DEF Surjection
<1>4. IsFiniteSet(lags)
  <2>. HIDE DEF f, lags, S
  <2>. QED
    BY <1>1, <1>3, FS_Surjection
<1>5. IsFiniteSet({0} \cup lags)
  BY <1>4, FS_Singleton, FS_Union
<1>6. {0} \cup lags \in SUBSET Nat /\ {0} \cup lags # {}
  BY <1>2
<1>7. PICK n \in {0} \cup lags : \A k \in {0} \cup lags : k <= n
  <2>. HIDE DEF lags
  <2>. QED
    BY <1>5, <1>6, Greatest
<1>8. DataCeiling \in {0} \cup lags /\ \A k \in {0} \cup lags : k <= DataCeiling
  BY <1>7 DEF DataCeiling, Max
<1>. QED
  BY <1>2, <1>8 DEF CeilingOfSome

(* Entering or leaving shadow leaves every part of the judgement, and      *)
(* moves the ceiling only out to the lag of the rule that enters.          *)
THEOREM ShadowJudgesNothing == Spec => ShadowMovesTheCeilingOnly
<1>1. ASSUME UpToDate, UpToDate', CeilingOfSome, CeilingOfSome', [Next]_vars, reads' = reads,
             {r \in RuleId : status'[r] = "active"} = {r \in RuleId : status[r] = "active"}
      PROVE  /\ Judgement(result') = Judgement(result)
             /\ result'.bound = result.bound => result'.exposure = result.exposure
             /\ result'.bound > result.bound =>
                  /\ \E r \in RuleId : status'[r] = "shadow" /\ rules[r].lag = result'.bound
                  /\ \A r \in RuleId : status[r] = "active" => rules[r].lag < result'.bound
                  /\ \A m \in result'.exposure \ result.exposure : FlowAt[m] > result.bound
  <2>1. Live' = Live
    BY <1>1 DEF Live
  <2>2. rules' = rules
    BY <1>1, RulesStay
  <2>3. Evaluated(Live)' = Evaluated(Live)
    BY <1>1, <2>1, <2>2 DEF Evaluated
  <2>4. result = Evaluation /\ result' = Evaluation'
    BY <1>1 DEF UpToDate
  <2>5. Judgement(result') = Judgement(result)
    BY <2>3, <2>4 DEF Judgement, Evaluation
  <2>6. /\ result.bound = DataCeiling /\ result.exposure = ExposedBy(DataCeiling)
        /\ result'.bound = DataCeiling' /\ result'.exposure = ExposedBy(DataCeiling')
    BY <2>4 DEF Evaluation, ExposedBy
  <2>7. /\ DataCeiling \in Nat
        /\ \A r \in Live \cup Shadow : rules[r].lag \in Nat /\ rules[r].lag <= DataCeiling
    BY <1>1 DEF CeilingOfSome
  <2>8. /\ DataCeiling' \in Nat
        /\ DataCeiling' = 0 \/ \E r \in (Live \cup Shadow)' : rules[r].lag = DataCeiling'
    BY <1>1, <2>2 DEF CeilingOfSome
  <2>9. ASSUME DataCeiling' > DataCeiling
        PROVE  /\ \E r \in RuleId : status'[r] = "shadow" /\ rules[r].lag = DataCeiling'
               /\ \A r \in RuleId : status[r] = "active" => rules[r].lag < DataCeiling'
               /\ \A m \in ExposedBy(DataCeiling') \ ExposedBy(DataCeiling) :
                    FlowAt[m] > DataCeiling
    <3>1. PICK r \in (Live \cup Shadow)' : rules[r].lag = DataCeiling'
      BY <2>7, <2>8, <2>9
    <3>2. r \notin Live
      BY <2>7, <2>8, <2>9, <3>1
    <3>3. r \in RuleId /\ status'[r] = "shadow"
      BY <2>1, <3>1, <3>2 DEF Shadow, Live
    <3>4. \A q \in RuleId : status[q] = "active" => rules[q].lag < DataCeiling'
      BY <2>7, <2>8, <2>9 DEF Live
    <3>5. ASSUME NEW m \in ExposedBy(DataCeiling'), ~(FlowAt[m] > DataCeiling)
          PROVE  m \in ExposedBy(DataCeiling)
      <4>1. m \in Flow /\ FlowAt[m] \in Int /\ FlowWindow \in Nat
        BY FlowAssumption DEF ExposedBy
      <4>2. DataCeiling' - FlowWindow < FlowAt[m]
        BY DEF ExposedBy
      <4>. QED
        BY <2>7, <2>8, <2>9, <3>5, <4>1, <4>2 DEF ExposedBy
    <3>. QED
      BY <3>1, <3>3, <3>4, <3>5
  <2>. QED
    BY <2>5, <2>6, <2>9
<1>2. UpToDate => CeilingOfSome
  BY CeilingShape DEF UpToDate
<1>. QED
  BY <1>1, <1>2, UpToDateCorrect, PTL DEF Spec, ShadowMovesTheCeilingOnly

(* What a shadow rule is announced to do is what it does once promoted.    *)
THEOREM PreviewIsKept == Spec => PromotionAsPreviewed
<1>1. ASSUME UpToDate, UpToDate', [Next]_vars
      PROVE  \A r \in RuleId :
               /\ reads' = reads
               /\ {q \in RuleId : status[q] = "shadow"} = {r}
               /\ status'[r] = "active"
               => result'.action = result.shadow.action /\ result'.score = result.shadow.score
  <2>. SUFFICES ASSUME NEW r \in RuleId, reads' = reads,
                       {q \in RuleId : status[q] = "shadow"} = {r}, status'[r] = "active"
                PROVE  result'.action = result.shadow.action /\ result'.score = result.shadow.score
    OBVIOUS
  <2>1. Shadow = {r} /\ status[r] = "shadow"
    BY DEF Shadow
  <2>2. PICK q \in RuleId, s \in Status : SetStatus(q, s)
    BY <1>1, <2>1 DEF Next, Evaluate, vars
  <2>3. status' = [status EXCEPT ![r] = "active"]
    BY <1>1, <2>1, <2>2 DEF SetStatus, UpToDate, Known
  <2>4. Live' = Live \cup Shadow
    <3>1. status'[r] = "active" /\ \A p \in RuleId \ {r} : status'[p] = status[p]
      BY <1>1, <2>3 DEF UpToDate, Known
    <3>. QED
      BY <2>1, <3>1 DEF Live
  <2>5. Evaluated(Live)' = Evaluated(Live \cup Shadow)
    BY <1>1, <2>4, RulesStay DEF Evaluated
  <2>6. result = Evaluation /\ result' = Evaluation'
    BY <1>1 DEF UpToDate
  <2>7. /\ result.shadow.action = DecidedAction(Evaluated(Live \cup Shadow))
        /\ result.shadow.score = SumOf(Pool(Evaluated(Live \cup Shadow)))
    BY <2>1, <2>6 DEF Evaluation, ShadowOutcome
  <2>. QED
    BY <2>5, <2>6, <2>7 DEF Evaluation
<1>. QED
  BY <1>1, UpToDateCorrect, PTL DEF Spec, PromotionAsPreviewed

----------------------------------------------------------------------------
(* Missing exonerating evidence.                                           *)

(* The rule cites f to deduct or not at all.                               *)
Deducts(rule, f) ==
  \A i \in DOMAIN rule.conditions :
    rule.conditions[i].feature = f => rule.conditions[i].points < 0 /\ ~rule.conditions[i].required

Cites(rule, f) == {i \in DOMAIN rule.conditions : rule.conditions[i].feature = f}

Losing(given, f) == [given EXCEPT ![f] = Absent]

(* What no longer fires is what was cited of f.                            *)
LEMMA FiredWithout ==
  ASSUME NEW rule \in RuleShape, NEW given \in [Feature -> Read], NEW f \in Feature
  PROVE  FiredOf(rule, Losing(given, f)) = FiredOf(rule, given) \ Cites(rule, f)
<1>1. ASSUME NEW i \in DOMAIN rule.conditions
      PROVE  Fires(rule.conditions[i], Losing(given, f))
               <=> Fires(rule.conditions[i], given) /\ rule.conditions[i].feature # f
  <2>1. rule.conditions[i].feature \in Feature
    BY ConditionShape DEF Condition
  <2>. QED
    BY <2>1 DEF Fires, IsPresent, Losing, Missing
<1>. QED
  BY <1>1 DEF FiredOf, Cites

(* A rule that held with a score of at least zero still holds, with no     *)
(* lower a score.                                                          *)
LEMMA ScoreWithout ==
  ASSUME NEW rule \in RuleShape, NEW given \in [Feature -> Read], NEW f \in Feature,
         Deducts(rule, f), Satisfied(rule, given), RuleScore(rule, given) >= 0
  PROVE  /\ Satisfied(rule, Losing(given, f))
         /\ RuleScore(rule, Losing(given, f)) >= RuleScore(rule, given)
<1>. DEFINE fired == FiredOf(rule, given)
            gone  == fired \cap Cites(rule, f)
            after == Losing(given, f)
            sum(S) == SumFunctionOnSet(PointsOf(rule), S)
<1>1. FiredOf(rule, after) = fired \ gone
  BY FiredWithout
<1>2. /\ IsFiniteSet(fired) /\ fired \subseteq DOMAIN rule.conditions
      /\ \A i \in fired : PointsOf(rule)[i] \in Int
  BY ScoreShape, ConditionShape DEF PointsOf
<1>3. \A i \in gone : PointsOf(rule)[i] < 0 /\ i \notin Required(rule)
  BY <1>2 DEF Deducts, Cites, PointsOf, Required
<1>4. IsFiniteSet(gone) /\ Cardinality(gone) \in Nat /\ (gone # {} => Cardinality(gone) # 0)
  BY <1>2, FS_Subset, FS_CardinalityType, FS_EmptySet
<1>5. sum(fired \ gone) >= sum(fired) + Cardinality(gone)
  <2>. HIDE DEF fired
  <2>1. gone \in SUBSET fired
    OBVIOUS
  <2>2. \A i \in gone : PointsOf(rule)[i] < 0
    BY <1>3
  <2>. HIDE DEF gone
  <2>. QED
    BY <1>2, <2>1, <2>2, SumWithout
<1>6. RuleScore(rule, given) = sum(fired) /\ sum(fired) \in Int
  BY ScoreShape DEF RuleScore
<1>7. Required(rule) \cap FiredOf(rule, after) = Required(rule) \cap fired
  BY <1>1, <1>3
<1>8. Satisfied(rule, after)
  <2>1. CASE GroupsOf(rule) # {}
    BY <1>7, <2>1 DEF Satisfied
  <2>2. CASE GroupsOf(rule) = {}
    <3>1. fired # {}
      BY <2>2 DEF Satisfied
    <3>2. ASSUME fired \ gone = {} PROVE FALSE
      <4>1. gone # {}
        BY <3>1, <3>2
      <4>2. sum(fired \ gone) = 0
        BY <3>2, SumEmpty
      <4>. QED
        BY <1>4, <1>5, <1>6, <4>1, <4>2
    <3>. QED
      BY <1>1, <2>2, <3>2 DEF Satisfied
  <2>. QED
    BY <2>1, <2>2
<1>9. RuleScore(rule, after) = sum(fired \ gone)
  BY <1>1, <1>8 DEF RuleScore
<1>10. RuleScore(rule, after) \in Int
  BY ScoreShape
<1>. QED
  BY <1>4, <1>5, <1>6, <1>8, <1>9, <1>10

(* A rule that does not cite f says the same without it.                   *)
LEMMA UncitedSame ==
  ASSUME NEW id, NEW rule \in RuleShape, NEW given \in [Feature -> Read], NEW f \in Feature,
         Cites(rule, f) = {}
  PROVE  EvaluateRule(id, rule, Losing(given, f)) = EvaluateRule(id, rule, given)
<1>. DEFINE after == Losing(given, f)
<1>1. FiredOf(rule, after) = FiredOf(rule, given)
  <2>1. FiredOf(rule, Losing(given, f)) = FiredOf(rule, given) \ {}
    BY FiredWithout
  <2>2. FiredOf(rule, given) \ {} = FiredOf(rule, given)
    OBVIOUS
  <2>. QED
    BY <2>1, <2>2
<1>2. ASSUME NEW i \in DOMAIN rule.conditions
      PROVE  after[rule.conditions[i].feature] = given[rule.conditions[i].feature]
  <2>1. rule.conditions[i].feature \in Feature \ {f}
    BY ConditionShape DEF Cites, Condition
  <2>. QED
    BY <2>1 DEF Losing
<1>3. Satisfied(rule, after) = Satisfied(rule, given)
  BY <1>1 DEF Satisfied
<1>4. RuleScore(rule, after) = RuleScore(rule, given)
  BY <1>1, <1>3 DEF RuleScore
<1>5. PreventiveAuthority(rule, after) = PreventiveAuthority(rule, given)
  BY <1>2 DEF PreventiveAuthority, IsPresent
<1>6. \A g \in Exonerating(rule) : after[g] = given[g]
  BY <1>2 DEF Exonerating
<1>7. VetoState(rule, after) = VetoState(rule, given)
  BY <1>1, <1>6 DEF VetoState, FiredFeatures
<1>8. DegradedOf(rule, after) = DegradedOf(rule, given)
  <2>1. ASSUME NEW g \in Feature, NEW i \in DOMAIN rule.conditions, rule.conditions[i].feature = g
        PROVE  after[g] = given[g]
    BY <1>2, <2>1
  <2>. HIDE DEF after
  <2>. QED
    BY <2>1 DEF DegradedOf
<1>. HIDE DEF after
<1>. QED
  BY <1>1, <1>3, <1>4, <1>5, <1>7, <1>8 DEF EvaluateRule, after

(* A veto that cites f is in doubt without it.                             *)
LEMMA VetoWithout ==
  ASSUME NEW rule \in RuleShape, NEW given \in [Feature -> Read], NEW f \in Feature,
         Deducts(rule, f), VetoState(rule, Losing(given, f)) = "not_established"
  PROVE  VetoState(rule, given) = "not_established"
<1>1. Losing(given, f)[f] = Absent
  BY DEF Losing
<1>2. f \notin Exonerating(rule)
  BY <1>1, ReadAssumption DEF VetoState
<1>3. Cites(rule, f) = {}
  BY <1>2 DEF Cites, Exonerating, Deducts, Mitigating
<1>4. EvaluateRule(0, rule, Losing(given, f)) = EvaluateRule(0, rule, given)
  BY <1>3, UncitedSame
<1>. QED
  BY <1>4 DEF EvaluateRule

(* The decision on the rules S, with and without the evidence of f.        *)
LEMMA PreventiveAlready ==
  ASSUME NEW defs \in [RuleId -> Shape], NEW given \in [Feature -> Read],
         NEW f \in Feature, NEW S \in SUBSET RuleId,
         \A r \in RuleId : Deducts(defs[r], f),
         DecidedAction(EvaluatedWith(defs, Losing(given, f), S)) \in Preventive
  PROVE  DecidedAction(EvaluatedWith(defs, given, S))
           = DecidedAction(EvaluatedWith(defs, Losing(given, f), S))
<1>1. PICK before, after : /\ before = EvaluatedWith(defs, given, S)
                           /\ after = EvaluatedWith(defs, Losing(given, f), S)
  OBVIOUS
<1>2. Evaluations(before) /\ Evaluations(after)
  BY <1>1, EvaluationsShape
<1>3. /\ Authorised(after) # {} /\ Chosen(after).rule.action = DecidedAction(after)
      /\ MayPrevent(Chosen(after)) /\ ~IsCapped(after)
  BY <1>1, <1>2, PreventiveIsChosen
<1>4. /\ Chosen(after) \in Authorised(after)
      /\ \A other \in Authorised(after) : Outranks(Chosen(after), other)
  BY <1>2, <1>3, ChosenOutranks
<1>5. PICK q \in S : Chosen(after) = EvaluateRule(q, defs[q], Losing(given, f))
  BY <1>1, <1>4 DEF Authorised, EvaluatedWith
<1>6. \A r \in S : defs[r] \in RuleShape
  BY ShapeAssumption
<1>7. Cites(defs[q], f) = {}
  <2>1. Losing(given, f)[f] = Absent
    BY DEF Losing
  <2>2. PreventiveAuthority(defs[q], Losing(given, f))
    BY <1>3, <1>5 DEF MayPrevent, EvaluateRule
  <2>3. \A i \in DOMAIN defs[q].conditions :
          defs[q].conditions[i].feature = f => defs[q].conditions[i].points < 0
    BY DEF Deducts
  <2>. QED
    BY <2>1, <2>2, <2>3 DEF PreventiveAuthority, Cites, Mitigating, IsPresent, Missing
<1>8. Chosen(after) = EvaluateRule(q, defs[q], given)
  BY <1>5, <1>6, <1>7, UncitedSame
<1>9. Chosen(after) \in Authorised(before)
  <2>1. Chosen(after) \in before
    BY <1>1, <1>8 DEF EvaluatedWith
  <2>. QED
    BY <1>4, <2>1 DEF Authorised
<1>10. ASSUME NEW ev \in Authorised(before)
       PROVE  \E other \in Authorised(after) : other.id = ev.id /\ other.rule = ev.rule
  <2>1. PICK r \in S : ev = EvaluateRule(r, defs[r], given)
    BY <1>1, <1>10 DEF Authorised, EvaluatedWith
  <2>2. /\ ev.id = r /\ ev.rule = defs[r] /\ ~defs[r].veto
        /\ Satisfied(defs[r], given) /\ RuleScore(defs[r], given) >= defs[r].review
    BY <1>10, <2>1 DEF Authorised, EvaluateRule
  <2>3. defs[r].review \in Nat /\ RuleScore(defs[r], given) \in Int
    BY <1>6, ScoreShape DEF RuleShape
  <2>4. /\ Satisfied(defs[r], Losing(given, f))
        /\ RuleScore(defs[r], Losing(given, f)) >= RuleScore(defs[r], given)
    BY <1>6, <2>2, <2>3, ScoreWithout
  <2>5. RuleScore(defs[r], Losing(given, f)) \in Int
    BY <1>6, ScoreShape
  <2>6. PICK other : other = EvaluateRule(r, defs[r], Losing(given, f))
    OBVIOUS
  <2>7. /\ other.id = r /\ other.rule = defs[r] /\ other \in after
        /\ other.satisfied = Satisfied(defs[r], Losing(given, f))
        /\ other.score = RuleScore(defs[r], Losing(given, f))
    BY <1>1, <2>6 DEF EvaluateRule, EvaluatedWith
  <2>8. other.score >= other.rule.review
    BY <2>2, <2>3, <2>4, <2>5, <2>7
  <2>. QED
    BY <2>2, <2>4, <2>7, <2>8 DEF Authorised
<1>11. Chosen(before) = Chosen(after)
  <2>1. /\ Chosen(before) \in Authorised(before)
        /\ Outranks(Chosen(before), Chosen(after))
    BY <1>2, <1>9, ChosenOutranks
  <2>2. PICK other \in Authorised(after) : other.id = Chosen(before).id /\ other.rule = Chosen(before).rule
    BY <1>10, <2>1
  <2>3. Outranks(Chosen(after), Chosen(before))
    BY <1>4, <2>2 DEF Outranks
  <2>4. Chosen(before) \in before /\ Chosen(after) \in before
    BY <1>9, <2>1 DEF Authorised
  <2>5. /\ Chosen(before).id \in Nat /\ Chosen(after).id \in Nat
        /\ Severity[Chosen(before).rule.action] \in 0 .. 5
        /\ Severity[Chosen(after).rule.action] \in 0 .. 5
    BY <1>2, <2>4, ActionShape, SeverityShape
  <2>6. Chosen(before).id = Chosen(after).id
    BY <2>1, <2>3, <2>5 DEF Outranks
  <2>. QED
    BY <1>2, <2>4, <2>6 DEF Evaluations
<1>12. ~IsCapped(before)
  <2>1. ASSUME NEW ev \in before, ev.rule.veto PROVE ev.veto = "not_established"
    <3>1. PICK r \in S : ev = EvaluateRule(r, defs[r], given)
      BY <1>1 DEF EvaluatedWith
    <3>2. ev.rule = defs[r] /\ ev.veto = VetoState(defs[r], given)
      BY <3>1 DEF EvaluateRule
    <3>3. PICK other : other = EvaluateRule(r, defs[r], Losing(given, f))
      OBVIOUS
    <3>4. other \in after /\ other.rule = defs[r] /\ other.veto = VetoState(defs[r], Losing(given, f))
      BY <1>1, <3>3 DEF EvaluateRule, EvaluatedWith
    <3>5. other.veto \notin {"established", "indeterminate"}
      BY <1>3, <2>1, <3>2, <3>4 DEF IsCapped, Vetoes
    <3>6. VetoState(defs[r], Losing(given, f)) = "not_established"
      BY <3>4, <3>5 DEF VetoState
    <3>. QED
      BY <1>6, <3>2, <3>6, VetoWithout
  <2>. QED
    BY <2>1 DEF IsCapped, Vetoes
<1>13. Uncapped(before) = Chosen(after).rule.action
  BY <1>3, <1>9, <1>11 DEF Uncapped
<1>. QED
  BY <1>1, <1>3, <1>12, <1>13 DEF DecidedAction

(* Whatever a rule deducts for, losing sight of it stops nobody who was    *)
(* not stopped already.                                                    *)
THEOREM MissingEvidenceStopsNobody == Spec => MissingMitigatorNeverPrevents
<1>1. ASSUME UpToDate, UpToDate', [Next]_vars
      PROVE  \A f \in Feature :
               /\ reads' = [reads EXCEPT ![f] = Absent] /\ status' = status
               /\ DeductsOnly(f)
               /\ result'.action \in Preventive
               => result.action = result'.action
  <2>. SUFFICES ASSUME NEW f \in Feature, reads' = [reads EXCEPT ![f] = Absent], status' = status,
                       DeductsOnly(f), result'.action \in Preventive
                PROVE  result.action = result'.action
    OBVIOUS
  <2>1. /\ result = Evaluation /\ result' = Evaluation'
        /\ rules \in [RuleId -> Shape] /\ reads \in [Feature -> Read] /\ rules' = rules
    BY <1>1, RulesStay DEF UpToDate, Known
  <2>2. Live' = Live /\ Live \in SUBSET RuleId
    BY DEF Live
  <2>3. result.action = DecidedAction(EvaluatedWith(rules, reads, Live))
    BY <2>1 DEF Evaluation, Evaluated, EvaluatedWith
  <2>4. result'.action = DecidedAction(EvaluatedWith(rules, Losing(reads, f), Live))
    BY <2>1, <2>2 DEF Evaluation, Evaluated, EvaluatedWith, Losing
  <2>5. \A r \in RuleId : Deducts(rules[r], f)
    BY DEF DeductsOnly, Deducts
  <2>. QED
    BY <2>1, <2>2, <2>3, <2>4, <2>5, PreventiveAlready
<1>. QED
  BY <1>1, UpToDateCorrect, PTL DEF Spec, MissingMitigatorNeverPrevents

----------------------------------------------------------------------------
(* Types.                                                                  *)

LEMMA PoolShape ==
  ASSUME NEW evs, Evaluations(evs)
  PROVE  SumOf(Pool(evs)) \in Nat /\ \A s \in Pool(evs) : s.points \in Int
<1>1. PICK claims : claims = Claims(evs)
  OBVIOUS
<1>2. ClaimSet(claims)
  BY <1>1, ClaimsShape
<1>3. IsFiniteSet(Buckets(claims))
  <2>. DEFINE f == [cl \in Winners(claims) |-> SignalOf(claims, cl)]
  <2>1. IsFiniteSet(Winners(claims))
    BY <1>2, FS_Subset DEF Winners, ClaimSet
  <2>2. f \in Surjection(Winners(claims), Buckets(claims))
    BY DEF Surjection, Buckets
  <2>. QED
    BY <2>1, <2>2, FS_Surjection
<1>4. \A s \in Buckets(claims) : s.points \in Int
  BY <1>2, SignalFields DEF Buckets, Winners, ClaimSet, IsClaim
<1>5. SumOf(Buckets(claims)) \in Int
  BY <1>3, <1>4, SumInt DEF SumOf
<1>6. SumOf({}) = 0
  BY SumEmpty DEF SumOf
<1>. QED
  BY <1>1, <1>4, <1>5, <1>6 DEF Pool

LEMMA SignalShape ==
  ASSUME NEW evs, Evaluations(evs), NEW s \in Pool(evs)
  PROVE  s \in Signal
<1>1. PICK claims : claims = Claims(evs)
  OBVIOUS
<1>2. PICK w \in Winners(claims) : s = SignalOf(claims, w)
  BY <1>1 DEF Pool, Buckets
<1>3. IsClaim(w) /\ \A o \in Rivals(claims, w) : IsClaim(o)
  BY <1>1, ClaimsShape DEF Winners, Rivals, ClaimSet
<1>4. w.condition.feature \in Feature /\ Direction(w.condition) \in {"aggravating", "mitigating"}
  BY <1>3 DEF IsClaim, Condition, Direction
<1>5. {o.by : o \in Rivals(claims, w)} \in SUBSET RuleId
  BY <1>3 DEF IsClaim
<1>. QED
  BY <1>2, <1>3, <1>4, <1>5 DEF SignalOf, Signal, IsClaim

LEMMA VetoedByShape ==
  ASSUME NEW evs, Evaluations(evs)
  PROVE  VetoedBy(evs) \in RuleId \cup {NoRule}
<1>1. PICK V : V = Vetoes(evs, "established")
  OBVIOUS
<1>2. CASE V = {}
  BY <1>1, <1>2 DEF VetoedBy
<1>3. CASE V # {}
  <2>. DEFINE f == [ev \in V |-> ev.id]
  <2>1. IsFiniteSet(V) /\ \A ev \in V : ev.id \in RuleId
    BY <1>1, FS_Subset DEF Vetoes, Evaluations, IsEvaluation
  <2>2. f \in Surjection(V, IdsOf(V))
    BY DEF Surjection, IdsOf
  <2>3. IsFiniteSet(IdsOf(V))
    BY <2>1, <2>2, FS_Surjection
  <2>4. IdsOf(V) \in SUBSET RuleId /\ IdsOf(V) \in SUBSET Nat /\ IdsOf(V) # {}
    BY <1>3, <2>1, RuleIdAssumption DEF IdsOf
  <2>5. PICK n \in IdsOf(V) : \A k \in IdsOf(V) : k <= n
    BY <2>3, <2>4, Greatest
  <2>6. Max(IdsOf(V)) \in IdsOf(V)
    BY <2>4, <2>5 DEF Max
  <2>. QED
    BY <1>1, <1>3, <2>4, <2>6 DEF VetoedBy
<1>. QED
  BY <1>2, <1>3

(* Every evaluation is a well-formed result; no score is negative.         *)
THEOREM TypeCorrect == Spec => []TypeOK
<1>1. UpToDate => TypeOK
  <2>. SUFFICES ASSUME UpToDate PROVE TypeOK
    OBVIOUS
  <2>1. PICK live, both : live = Evaluated(Live) /\ both = Evaluated(Live \cup Shadow)
    OBVIOUS
  <2>2. Evaluations(live) /\ Evaluations(both)
    BY <2>1, EvaluatedShape DEF UpToDate, Live, Shadow
  <2>3. /\ Pool(live) \in SUBSET Signal
        /\ SumOf(Pool(live)) \in Nat /\ SumOf(Pool(both)) \in Nat
    BY <2>2, SignalShape, PoolShape
  <2>4. DecidedAction(live) \in Action /\ DecidedAction(both) \in Action
    BY <2>2, DecidedActionShape
  <2>5. (IF Authorised(live) = {} THEN NoRule ELSE Chosen(live).id) \in RuleId \cup {NoRule}
    BY <2>2, ChosenOutranks DEF Authorised, Evaluations, IsEvaluation
  <2>6. IdsOf(Authorised(live)) \in SUBSET RuleId
    BY <2>2 DEF IdsOf, Authorised, Evaluations, IsEvaluation
  <2>7. VetoedBy(live) \in RuleId \cup {NoRule}
    BY <2>2, VetoedByShape
  <2>8. UNION {ev.degraded : ev \in live} \in SUBSET Feature
    BY <2>1 DEF Evaluated, EvaluateRule, DegradedOf
  <2>9. /\ ShadowOutcome \in [rules : SUBSET RuleId, score : Nat, action : Action]
        /\ DataCeiling \in Nat /\ ExposedBy(DataCeiling) \in SUBSET Flow
        /\ Live \cup Shadow \in SUBSET RuleId
    <3>1. ShadowOutcome \in [rules : SUBSET RuleId, score : Nat, action : Action]
      BY <2>1, <2>3, <2>4, SeverityShape DEF ShadowOutcome, NoShadow, Shadow
    <3>. QED
      BY <3>1, CeilingShape DEF UpToDate, CeilingOfSome, ExposedBy, Live, Shadow
  <2>10. Evaluation \in Result
    BY <2>1, <2>3, <2>4, <2>5, <2>6, <2>7, <2>8, <2>9 DEF Evaluation, Result
  <2>. QED
    BY <2>10 DEF UpToDate, Known, TypeOK
<1>. QED
  BY <1>1, UpToDateCorrect, PTL

----------------------------------------------------------------------------
(* A sequence of steps exists.                                             *)

Iterates(g, N, S, first, step) ==
  /\ g \in [0 .. N -> S] /\ g[0] = first
  /\ \A n \in 1 .. N : g[n] = step[n][g[n - 1]]

LEMMA Iterated ==
  ASSUME NEW N \in Nat, NEW S, NEW first \in S, NEW step \in [1 .. N -> [S -> S]]
  PROVE  \E g : Iterates(g, N, S, first, step)
<1>. DEFINE T == {n \in Nat : n <= N => \E g \in [0 .. n -> S] :
                     g[0] = first /\ \A k \in 1 .. n : g[k] = step[k][g[k - 1]]}
<1>1. 0 \in T
  <2>. DEFINE g == [n \in 0 .. 0 |-> first]
  <2>1. g \in [0 .. 0 -> S] /\ g[0] = first /\ \A k \in 1 .. 0 : g[k] = step[k][g[k - 1]]
    OBVIOUS
  <2>. QED
    BY <2>1
<1>2. ASSUME NEW n \in Nat, n \in T PROVE n + 1 \in T
  <2>. SUFFICES ASSUME n + 1 <= N
                PROVE \E h \in [0 .. n + 1 -> S] :
                        h[0] = first /\ \A k \in 1 .. n + 1 : h[k] = step[k][h[k - 1]]
    OBVIOUS
  <2>1. PICK g \in [0 .. n -> S] : g[0] = first /\ \A k \in 1 .. n : g[k] = step[k][g[k - 1]]
    BY <1>2
  <2>. DEFINE h == [k \in 0 .. n + 1 |-> IF k = n + 1 THEN step[n + 1][g[n]] ELSE g[k]]
  <2>2. step[n + 1][g[n]] \in S
    <3>1. n + 1 \in 1 .. N /\ g[n] \in S
      BY <2>1
    <3>. QED
      BY <3>1
  <2>3. h \in [0 .. n + 1 -> S]
    BY <2>1, <2>2
  <2>4. \A k \in 0 .. n : h[k] = g[k]
    OBVIOUS
  <2>5. h[n + 1] = step[n + 1][h[n]]
    BY <2>4
  <2>6. \A k \in 1 .. n : h[k] = step[k][h[k - 1]]
    <3>1. ASSUME NEW k \in 1 .. n PROVE h[k] = step[k][h[k - 1]]
      <4>1. h[k] = g[k] /\ h[k - 1] = g[k - 1]
        BY <2>4
      <4>. QED
        BY <2>1, <4>1
    <3>. QED
      BY <3>1
  <2>. QED
    <3>1. \A k \in 1 .. n + 1 : k \in 1 .. n \/ k = n + 1
      OBVIOUS
    <3>2. \A k \in 1 .. n + 1 : h[k] = step[k][h[k - 1]]
      <4>. HIDE DEF h
      <4>. QED
        BY <2>5, <2>6, <3>1
    <3>3. h[0] = first
      BY <2>1, <2>4
    <3>. HIDE DEF h
    <3>. QED
      BY <2>3, <3>2, <3>3
<1>3. N \in T
  <2>. HIDE DEF T
  <2>. QED
    BY <1>1, <1>2, CountUp
<1>. QED
  BY <1>3 DEF Iterates

----------------------------------------------------------------------------
(* What a batch reaches along a route is what each of its roots reaches.   *)

Reachable(found, roots) ==
  {o.id : o \in roots} \cup UNION {{x.value : x \in found[n]} : n \in DOMAIN found}

Pooled(g, found, roots) ==
  g = [n \in 0 .. Len(found) |->
         IF n = 0 THEN [o \in roots |-> {o.id}] ELSE Hop(found[n], g[n - 1])]

Alone(g, found, id) ==
  g = [n \in 0 .. Len(found) |-> IF n = 0 THEN {id} ELSE Follow(found[n], g[n - 1])]

LEMMA HopOwn ==
  ASSUME NEW table, NEW current
  PROVE  Hop(table, current) = [o \in DOMAIN current |-> Follow(table, current[o])]
<1>1. ASSUME NEW o \in DOMAIN current
      PROVE  {y \in {x \in table : x.key \in UNION {current[p] : p \in DOMAIN current}} :
                y.key \in current[o]}
             = {x \in table : x.key \in current[o]}
  OBVIOUS
<1>. QED
  BY <1>1 DEF Hop, Follow

LEMMA PooledExists ==
  ASSUME NEW S, NEW found \in Seq(S), NEW roots
  PROVE  \E g : Pooled(g, found, roots)
<1>. DEFINE R == [roots -> SUBSET Reachable(found, roots)]
            first == [o \in roots |-> {o.id}]
            step == [n \in 1 .. Len(found) |-> [c \in R |-> Hop(found[n], c)]]
<1>1. first \in R
  BY DEF Reachable
<1>2. \A n \in 1 .. Len(found) : \A c \in R : Hop(found[n], c) \in R
  <2>1. ASSUME NEW n \in 1 .. Len(found), NEW c \in R PROVE Hop(found[n], c) \in R
    <3>0. n \in DOMAIN found
      OBVIOUS
    <3>1. \A o \in roots : Follow(found[n], c[o]) \subseteq Reachable(found, roots)
      BY <3>0 DEF Follow, Reachable
    <3>2. Hop(found[n], c) = [o \in roots |-> Follow(found[n], c[o])]
      BY HopOwn
    <3>. QED
      BY <3>1, <3>2
  <2>. QED
    BY <2>1
<1>3. step \in [1 .. Len(found) -> [R -> R]]
  <2>. HIDE DEF R
  <2>. QED
    BY <1>2
<1>4. Len(found) \in Nat
  OBVIOUS
<1>0. \E g : Iterates(g, Len(found), R, first, step)
  <2>. HIDE DEF R, first, step
  <2>. QED
    BY <1>1, <1>3, <1>4, Iterated
<1>5. PICK g : /\ g \in [0 .. Len(found) -> R] /\ g[0] = first
               /\ \A n \in 1 .. Len(found) : g[n] = step[n][g[n - 1]]
  <2>. HIDE DEF R, first, step
  <2>. QED
    BY <1>0 DEF Iterates
<1>6. \A n \in 1 .. Len(found) : g[n] = Hop(found[n], g[n - 1])
  <2>1. ASSUME NEW n \in 1 .. Len(found) PROVE g[n] = Hop(found[n], g[n - 1])
    <3>1. g[n - 1] \in R
      <4>. HIDE DEF R, first, step
      <4>. QED
        BY <1>4, <1>5
    <3>. HIDE DEF R
    <3>. QED
      BY <1>5, <3>1
  <2>. QED
    BY <2>1
<1>7. g = [n \in 0 .. Len(found) |-> g[n]] /\ g[0] = first
  <2>. HIDE DEF R, first, step
  <2>. QED
    BY <1>5
<1>8. \A n \in 0 .. Len(found) : n # 0 => n \in 1 .. Len(found)
  BY <1>4
<1>9. \A n \in 0 .. Len(found) : g[n] = IF n = 0 THEN first ELSE Hop(found[n], g[n - 1])
  <2>. HIDE DEF R, first, step
  <2>. QED
    BY <1>6, <1>7, <1>8
<1>10. g = [n \in 0 .. Len(found) |-> IF n = 0 THEN first ELSE Hop(found[n], g[n - 1])]
  <2>. HIDE DEF R, first, step
  <2>. QED
    BY <1>7, <1>9
<1>11. Pooled(g, found, roots)
  BY <1>10, Zenon DEF Pooled
<1>. QED
  BY <1>11

LEMMA AloneExists ==
  ASSUME NEW S, NEW found \in Seq(S), NEW id
  PROVE  \E g : Alone(g, found, id)
<1>. DEFINE R == SUBSET ({id} \cup UNION {{x.value : x \in found[n]} : n \in DOMAIN found})
            step == [n \in 1 .. Len(found) |-> [c \in R |-> Follow(found[n], c)]]
<1>1. {id} \in R
  OBVIOUS
<1>2. \A n \in 1 .. Len(found) : \A c \in R : Follow(found[n], c) \in R
  <2>1. ASSUME NEW n \in 1 .. Len(found), NEW c \in R PROVE Follow(found[n], c) \in R
    <3>1. n \in DOMAIN found
      OBVIOUS
    <3>. QED
      BY <3>1 DEF Follow
  <2>. QED
    BY <2>1
<1>3. step \in [1 .. Len(found) -> [R -> R]]
  <2>. HIDE DEF R
  <2>. QED
    BY <1>2
<1>4. Len(found) \in Nat
  OBVIOUS
<1>0. \E g : Iterates(g, Len(found), R, {id}, step)
  <2>. HIDE DEF R, step
  <2>. QED
    BY <1>1, <1>3, <1>4, Iterated
<1>5. PICK g : /\ g \in [0 .. Len(found) -> R] /\ g[0] = {id}
               /\ \A n \in 1 .. Len(found) : g[n] = step[n][g[n - 1]]
  <2>. HIDE DEF R, step
  <2>. QED
    BY <1>0 DEF Iterates
<1>6. \A n \in 1 .. Len(found) : g[n] = Follow(found[n], g[n - 1])
  <2>1. ASSUME NEW n \in 1 .. Len(found) PROVE g[n] = Follow(found[n], g[n - 1])
    <3>1. g[n - 1] \in R
      <4>. HIDE DEF R
      <4>. QED
        BY <1>4, <1>5
    <3>. HIDE DEF R
    <3>. QED
      BY <1>5, <3>1
  <2>. QED
    BY <2>1
<1>7. g = [n \in 0 .. Len(found) |-> g[n]] /\ g[0] = {id}
  <2>. HIDE DEF R, step
  <2>. QED
    BY <1>5
<1>8. \A n \in 0 .. Len(found) : n # 0 => n \in 1 .. Len(found)
  BY <1>4
<1>9. \A n \in 0 .. Len(found) : g[n] = IF n = 0 THEN {id} ELSE Follow(found[n], g[n - 1])
  BY <1>6, <1>7, <1>8
<1>10. g = [n \in 0 .. Len(found) |-> IF n = 0 THEN {id} ELSE Follow(found[n], g[n - 1])]
  BY <1>7, <1>9
<1>11. Alone(g, found, id)
  BY <1>10, Zenon DEF Alone
<1>. QED
  BY <1>11

LEMMA OwnWalk ==
  ASSUME NEW S, NEW found \in Seq(S), NEW roots, NEW root \in roots
  PROVE  Reached(found, roots)[root] = Walk(found, root.id)
<1>. DEFINE g == CHOOSE f : Pooled(f, found, roots)
            h == CHOOSE f : Alone(f, found, root.id)
<1>1. Reached(found, roots) = g[Len(found)]
  BY DEF Reached, Pooled
<1>2. Walk(found, root.id) = h[Len(found)]
  BY DEF Walk, Alone
<1>3. Pooled(g, found, roots)
  BY PooledExists
<1>4. Alone(h, found, root.id)
  BY AloneExists
<1>. HIDE DEF g, h
<1>5. Len(found) \in Nat
  OBVIOUS
<1>6. g[0] = [o \in roots |-> {o.id}] /\ h[0] = {root.id}
  <2>1. 0 \in 0 .. Len(found)
    BY <1>5
  <2>2. g[0] = [o \in roots |-> {o.id}]
    BY <1>3, <2>1, Zenon DEF Pooled
  <2>3. h[0] = {root.id}
    BY <1>4, <2>1, Zenon DEF Alone
  <2>. QED
    BY <2>2, <2>3
<1>7. ASSUME NEW n \in 1 .. Len(found)
      PROVE  g[n] = Hop(found[n], g[n - 1]) /\ h[n] = Follow(found[n], h[n - 1])
  <2>1. n \in 0 .. Len(found) /\ n # 0
    BY <1>5
  <2>2. g[n] = Hop(found[n], g[n - 1])
    BY <1>3, <2>1, Zenon DEF Pooled
  <2>3. h[n] = Follow(found[n], h[n - 1])
    BY <1>4, <2>1, Zenon DEF Alone
  <2>. QED
    BY <2>2, <2>3
<1>. DEFINE T == {n \in Nat : n <= Len(found) => DOMAIN g[n] = roots /\ g[n][root] = h[n]}
<1>8. 0 \in T
  BY <1>6
<1>9. ASSUME NEW n \in Nat, n \in T PROVE n + 1 \in T
  <2>. SUFFICES ASSUME n + 1 <= Len(found) PROVE DOMAIN g[n + 1] = roots /\ g[n + 1][root] = h[n + 1]
    OBVIOUS
  <2>1. DOMAIN g[n] = roots /\ g[n][root] = h[n]
    BY <1>5, <1>9
  <2>2. n + 1 \in 1 .. Len(found) /\ (n + 1) - 1 = n
    BY <1>5
  <2>3. g[n + 1] = Hop(found[n + 1], g[n]) /\ h[n + 1] = Follow(found[n + 1], h[n])
    BY <1>7, <2>2
  <2>4. g[n + 1] = [o \in roots |-> Follow(found[n + 1], g[n][o])]
    BY <2>1, <2>3, HopOwn
  <2>. QED
    BY <2>1, <2>3, <2>4
<1>10. Len(found) \in T
  <2>. HIDE DEF T
  <2>. QED
    BY <1>5, <1>8, <1>9, CountUp
<1>. QED
  BY <1>1, <1>2, <1>5, <1>10

LEMMA WalkFinite ==
  ASSUME NEW table, IsFiniteSet(table), NEW found \in Seq(SUBSET table), NEW id
  PROVE  IsFiniteSet(Walk(found, id))
<1>. DEFINE h == CHOOSE f : Alone(f, found, id)
            V == {x.value : x \in table}
<1>1. Walk(found, id) = h[Len(found)]
  BY DEF Walk, Alone
<1>2. Alone(h, found, id)
  BY AloneExists
<1>. HIDE DEF h
<1>3. Len(found) \in Nat
  OBVIOUS
<1>4. h[Len(found)] \subseteq {id} \cup V
  <2>1. CASE Len(found) = 0
    BY <1>2, <2>1 DEF Alone
  <2>2. CASE Len(found) # 0
    <3>1. h[Len(found)] = Follow(found[Len(found)], h[Len(found) - 1])
      BY <1>2, <1>3, <2>2 DEF Alone
    <3>2. found[Len(found)] \in SUBSET table
      BY <1>3, <2>2
    <3>. QED
      BY <3>1, <3>2 DEF Follow
  <2>. QED
    BY <2>1, <2>2
<1>5. IsFiniteSet(V)
  <2>. DEFINE val == [x \in table |-> x.value]
  <2>1. val \in Surjection(table, V)
    BY DEF Surjection
  <2>. HIDE DEF V, val
  <2>. QED
    BY <2>1, FS_Surjection
<1>6. IsFiniteSet({id} \cup V)
  <2>. HIDE DEF V
  <2>. QED
    BY <1>5, FS_Singleton, FS_Union
<1>. HIDE DEF V
<1>. QED
  BY <1>1, <1>4, <1>6, FS_Subset

----------------------------------------------------------------------------
(* The search for a route: one step after the other, over an edge table.   *)

EntryShape == [node : Type, path : Seq(Nat)]

SearchState(edges) ==
  [queue : Seq(EntryShape), left : SUBSET edges, seen : SUBSET Type, route : Seq(Nat)]

Searches(g, edges, from, to) ==
  g = [n \in 0 .. Steps(edges) |->
         IF n = 0 THEN Start(edges, from) ELSE SearchStep(edges, to, g[n - 1])]

LEMMA FirstOf ==
  ASSUME NEW S \in SUBSET Edge, S # {}
  PROVE  First(S) \in S /\ \A f \in S : First(S).id <= f.id
<1>1. {e.id : e \in S} \in SUBSET Nat /\ {e.id : e \in S} # {}
  BY DEF Edge
<1>2. PICK n \in {e.id : e \in S} : \A k \in {e.id : e \in S} : n <= k
  BY <1>1, Least
<1>3. \E e \in S : \A f \in S : e.id <= f.id
  BY <1>2
<1>. QED
  BY <1>3 DEF First

LEMMA AheadShape == ASSUME NEW edges, NEW queue PROVE Ahead(edges, queue) \in SUBSET edges
BY DEF Ahead

LEMMA StepShape ==
  ASSUME NEW edges \in SUBSET Edge, NEW to, NEW s \in SearchState(edges)
  PROVE  SearchStep(edges, to, s) \in SearchState(edges)
<1>1. CASE s.queue = <<>> \/ s.route # NoRoute
  BY <1>1 DEF SearchStep
<1>2. CASE s.queue # <<>> /\ s.route = NoRoute /\ s.left = {}
  <2>1. SearchStep(edges, to, s) = Popleft(edges, s)
    BY <1>2 DEF SearchStep
  <2>2. Tail(s.queue) \in Seq(EntryShape)
    BY <1>2 DEF SearchState
  <2>3. Ahead(edges, Tail(s.queue)) \in SUBSET edges
    BY AheadShape
  <2>4. Popleft(edges, s) =
          [s EXCEPT !.queue = Tail(s.queue), !.left = Ahead(edges, Tail(s.queue))]
    BY DEF Popleft
  <2>. QED
    BY <2>1, <2>2, <2>3, <2>4 DEF SearchState
<1>3. CASE s.queue # <<>> /\ s.route = NoRoute /\ s.left # {}
  <2>. DEFINE e == First(s.left)
              path == Append(Head(s.queue).path, e.id)
  <2>1. SearchStep(edges, to, s) = Look(to, s, e)
    BY <1>3 DEF SearchStep
  <2>2. e \in s.left /\ e \in Edge
    BY <1>3, FirstOf DEF SearchState
  <2>3. Head(s.queue) \in EntryShape
    BY <1>3 DEF SearchState
  <2>. HIDE DEF e
  <2>4. path \in Seq(Nat) /\ Entry(e.to, path) \in EntryShape
    BY <2>2, <2>3 DEF EntryShape, Entry, Edge
  <2>5. CASE e.to = to
    <3>1. Look(to, s, e) = [s EXCEPT !.route = path]
      BY <2>5 DEF Look
    <3>. HIDE DEF path
    <3>. QED
      BY <2>1, <2>4, <3>1 DEF SearchState
  <2>6. CASE e.to # to
    <3>. DEFINE q == IF e.to \in s.seen THEN s.queue ELSE Append(s.queue, Entry(e.to, path))
    <3>1. Look(to, s, e) =
            [s EXCEPT !.left = s.left \ {e}, !.seen = s.seen \cup {e.to}, !.queue = q]
      BY <2>6 DEF Look
    <3>. HIDE DEF path
    <3>2. s.queue \in Seq(EntryShape)
      BY DEF SearchState
    <3>3. q \in Seq(EntryShape)
      BY <2>4, <3>2
    <3>4. s.left \ {e} \in SUBSET edges /\ s.seen \cup {e.to} \in SUBSET Type
      BY <2>2 DEF SearchState, Edge
    <3>. HIDE DEF q
    <3>. QED
      BY <2>1, <3>1, <3>3, <3>4 DEF SearchState
  <2>. QED
    BY <2>5, <2>6
<1>. QED
  BY <1>1, <1>2, <1>3

LEMMA StartShape ==
  ASSUME NEW edges \in SUBSET Edge, NEW from \in Type
  PROVE  Start(edges, from) \in SearchState(edges)
<1>1. <<>> \in Seq(Nat) /\ NoRoute \in Seq(Nat)
  BY DEF NoRoute
<1>2. Entry(from, <<>>) \in EntryShape
  BY <1>1 DEF Entry, EntryShape
<1>. QED
  BY <1>1, <1>2, AheadShape DEF Start, SearchState

LEMMA StepsShape ==
  ASSUME NEW edges, IsFiniteSet(edges)
  PROVE  Steps(edges) \in Nat
BY CatalogsAssumption, FS_CardinalityType DEF Steps

LEMMA SearchExists ==
  ASSUME NEW edges \in SUBSET Edge, IsFiniteSet(edges), NEW from \in Type, NEW to
  PROVE  \E g : Searches(g, edges, from, to)
<1>. DEFINE S == SearchState(edges)
            step == [n \in 1 .. Steps(edges) |-> [s \in S |-> SearchStep(edges, to, s)]]
<1>1. Start(edges, from) \in S
  BY StartShape
<1>2. step \in [1 .. Steps(edges) -> [S -> S]]
  BY StepShape
<1>3. Steps(edges) \in Nat
  BY StepsShape
<1>4. \E g : Iterates(g, Steps(edges), S, Start(edges, from), step)
  <2>. HIDE DEF S, step
  <2>. QED
    BY <1>1, <1>2, <1>3, Iterated
<1>5. PICK g : /\ g \in [0 .. Steps(edges) -> S] /\ g[0] = Start(edges, from)
               /\ \A n \in 1 .. Steps(edges) : g[n] = step[n][g[n - 1]]
  <2>. HIDE DEF S, step
  <2>. QED
    BY <1>4 DEF Iterates
<1>6. ASSUME NEW n \in 1 .. Steps(edges) PROVE g[n] = SearchStep(edges, to, g[n - 1])
  <2>1. g[n - 1] \in S
    <3>. HIDE DEF S, step
    <3>. QED
      BY <1>3, <1>5
  <2>. HIDE DEF S
  <2>. QED
    BY <1>5, <2>1
<1>7. g = [n \in 0 .. Steps(edges) |-> g[n]] /\ g[0] = Start(edges, from)
  <2>. HIDE DEF S, step
  <2>. QED
    BY <1>5
<1>8. \A n \in 0 .. Steps(edges) : n # 0 => n \in 1 .. Steps(edges)
  BY <1>3
<1>9. \A n \in 0 .. Steps(edges) :
        g[n] = IF n = 0 THEN Start(edges, from) ELSE SearchStep(edges, to, g[n - 1])
  BY <1>6, <1>7, <1>8
<1>10. g = [n \in 0 .. Steps(edges) |->
              IF n = 0 THEN Start(edges, from) ELSE SearchStep(edges, to, g[n - 1])]
  BY <1>7, <1>9
<1>11. Searches(g, edges, from, to)
  BY <1>10, Zenon DEF Searches
<1>. QED
  BY <1>11

(* The states of a search, by the number of steps.                         *)
After(edges, from, to) == CHOOSE g : Searches(g, edges, from, to)

LEMMA SearchSteps ==
  ASSUME NEW edges \in SUBSET Edge, IsFiniteSet(edges), NEW from \in Type, NEW to
  PROVE  /\ Search(edges, from, to) = After(edges, from, to)[Steps(edges)].route
         /\ After(edges, from, to)[0] = Start(edges, from)
         /\ \A n \in 1 .. Steps(edges) :
              After(edges, from, to)[n] = SearchStep(edges, to, After(edges, from, to)[n - 1])
         /\ \A n \in 0 .. Steps(edges) : After(edges, from, to)[n] \in SearchState(edges)
<1>. DEFINE g == After(edges, from, to)
<1>1. Search(edges, from, to) = g[Steps(edges)].route
  BY DEF Search, Searches, After
<1>2. Searches(g, edges, from, to)
  BY SearchExists DEF After
<1>. HIDE DEF g
<1>3. Steps(edges) \in Nat
  BY StepsShape
<1>4. g[0] = Start(edges, from)
  <2>1. 0 \in 0 .. Steps(edges)
    BY <1>3
  <2>. QED
    BY <1>2, <2>1, Zenon DEF Searches
<1>5. ASSUME NEW n \in 1 .. Steps(edges) PROVE g[n] = SearchStep(edges, to, g[n - 1])
  <2>1. n \in 0 .. Steps(edges) /\ n # 0
    BY <1>3
  <2>. QED
    BY <1>2, <2>1, Zenon DEF Searches
<1>. DEFINE T == {n \in Nat : n <= Steps(edges) => g[n] \in SearchState(edges)}
<1>6. 0 \in T
  BY <1>4, StartShape
<1>7. ASSUME NEW n \in Nat, n \in T PROVE n + 1 \in T
  <2>. SUFFICES ASSUME n + 1 <= Steps(edges) PROVE g[n + 1] \in SearchState(edges)
    OBVIOUS
  <2>1. g[n] \in SearchState(edges)
    BY <1>3, <1>7
  <2>2. n + 1 \in 1 .. Steps(edges) /\ (n + 1) - 1 = n
    BY <1>3
  <2>3. g[n + 1] = SearchStep(edges, to, g[n])
    BY <1>5, <2>2
  <2>. QED
    BY <2>1, <2>3, StepShape
<1>8. \A n \in Nat : n \in T
  <2>. HIDE DEF T
  <2>. QED
    BY <1>6, <1>7, CountUp
<1>. QED
  BY <1>1, <1>3, <1>4, <1>5, <1>8 DEF g

Graph == [edges : Catalogs, routes : [Type \X Type -> Seq(Nat)]]

LEMMA GraphShape ==
  ASSUME NEW edges \in Catalogs
  PROVE  LoadGraph(edges) \in Graph
<1>1. edges \in SUBSET Edge /\ IsFiniteSet(edges)
  BY CatalogsAssumption
<1>2. \A from, to \in Type : ShortestRoute(edges, from, to) \in Seq(Nat)
  <2>1. ASSUME NEW from \in Type, NEW to \in Type
        PROVE  ShortestRoute(edges, from, to) \in Seq(Nat)
    <3>1. Steps(edges) \in 0 .. Steps(edges)
      BY <1>1, StepsShape
    <3>2. After(edges, from, to)[Steps(edges)] \in SearchState(edges)
      BY <1>1, <3>1, SearchSteps
    <3>3. Search(edges, from, to) \in Seq(Nat)
      BY <1>1, <3>2, SearchSteps DEF SearchState
    <3>. QED
      BY <3>3 DEF ShortestRoute
  <2>. QED
    BY <2>1
<1>. QED
  BY <1>2 DEF LoadGraph, Graph

LEMMA PlanShape ==
  ASSUME NEW g \in Graph, NEW q \in Request, NEW r \in Rule
  PROVE  PlanRoute(g, q, r).route \in Seq(Nat)
<1>1. NoRoute \in Seq(Nat) /\ <<>> \in Seq(Nat)
  BY DEF NoRoute
<1>2. r.entity \in Type /\ r.names \in Seq(Nat) /\ r.path \in {"self", "trigger", "auto", "named"}
  BY RuleAssumption
<1>3. q.subject.type \in Type
  BY RequestAssumption
<1>4. g.routes[q.subject.type, r.entity] \in Seq(Nat)
  BY <1>2, <1>3 DEF Graph
<1>5. q.trigger # NoTrigger => g.routes[q.trigger.type, r.entity] \in Seq(Nat)
  <2>. SUFFICES ASSUME q.trigger # NoTrigger PROVE g.routes[q.trigger.type, r.entity] \in Seq(Nat)
    OBVIOUS
  <2>1. q.trigger.type \in Type
    BY RequestAssumption
  <2>. QED
    BY <1>2, <2>1 DEF Graph
<1>6. NamedRoute(g.edges, q.subject.type, r.names) \in Seq(Nat)
  BY <1>1, <1>2 DEF NamedRoute
<1>7. CASE r.path = "self"
  BY <1>1, <1>7 DEF PlanRoute, Plan, Unplanned
<1>8. CASE r.path = "trigger"
  BY <1>1, <1>5, <1>8 DEF PlanRoute, Plan, Unplanned
<1>9. CASE r.path = "auto"
  BY <1>1, <1>4, <1>5, <1>9 DEF PlanRoute, Plan, Unplanned
<1>10. CASE r.path = "named"
  BY <1>6, <1>10 DEF PlanRoute, Plan
<1>. QED
  BY <1>2, <1>7, <1>8, <1>9, <1>10

----------------------------------------------------------------------------
(* A subject reads in a batch what it reads on its own.                    *)

Rows == SUBSET (Linked \cup Fixed)

OwnIds(walked, g, q, r) ==
  LET plan == PlanRoute(g, q, r) IN
  IF plan.route = NoRoute THEN {} ELSE Walk(walked[GroupOf(plan)], plan.root.id)

(* What each hop of the groups of a request found.                         *)
WalkedFor(walked, g, q) == \A group \in Groups(g, {q}) : walked[group] \in Seq(Rows)

LEMMA OwnGroups ==
  ASSUME NEW g, NEW batch, NEW q \in batch
  PROVE  /\ Groups(g, {q}) \subseteq Groups(g, batch)
         /\ \A r \in RulesFor(q) : PlanRoute(g, q, r).route # NoRoute =>
              /\ PlanRoute(g, q, r) \in Plans(g, {q}) /\ PlanRoute(g, q, r) \in Plans(g, batch)
              /\ GroupOf(PlanRoute(g, q, r)) \in Groups(g, {q})
<1>1. Plans(g, {q}) \subseteq Plans(g, batch)
  BY DEF Plans
<1>2. \A r \in RulesFor(q) : PlanRoute(g, q, r).route # NoRoute => PlanRoute(g, q, r) \in Plans(g, {q})
  BY DEF Plans
<1>. QED
  BY <1>1, <1>2 DEF Groups

LEMMA ResolveAlone ==
  ASSUME NEW g \in Graph, NEW batch, NEW q \in batch, NEW walked, WalkedFor(walked, g, q),
         NEW r \in RulesFor(q)
  PROVE  /\ Resolve(walked, g, batch, q, r).ids = OwnIds(walked, g, q, r)
         /\ Resolve(walked, g, batch, q, r) =
              IF PlanRoute(g, q, r).route = NoRoute THEN Resolved("unresolvable", {})
              ELSE Fanout(r, OwnIds(walked, g, q, r))
<1>. DEFINE plan == PlanRoute(g, q, r)
            group == GroupOf(plan)
            roots == Roots(g, batch, group)
<1>1. CASE plan.route = NoRoute
  BY <1>1 DEF Resolve, OwnIds, Resolved
<1>2. CASE plan.route # NoRoute
  <2>1. plan \in Plans(g, batch) /\ group \in Groups(g, {q})
    BY <1>2, OwnGroups
  <2>2. plan.root \in roots
    BY <2>1 DEF Roots
  <2>3. walked[group] \in Seq(Rows)
    BY <2>1 DEF WalkedFor
  <2>4. Reached(walked[group], roots)[plan.root] = Walk(walked[group], plan.root.id)
    <3>. HIDE DEF plan, group, roots
    <3>. QED
      BY <2>2, <2>3, OwnWalk
  <2>5. Resolve(walked, g, batch, q, r) = Fanout(r, Walk(walked[group], plan.root.id))
    BY <1>2, <2>4 DEF Resolve
  <2>6. OwnIds(walked, g, q, r) = Walk(walked[group], plan.root.id)
    BY <1>2 DEF OwnIds
  <2>7. \A ids : Fanout(r, ids).ids = ids
    BY DEF Fanout, Resolved
  <2>. HIDE DEF plan, group, roots
  <2>. QED
    BY <1>2, <2>5, <2>6, <2>7 DEF plan
<1>. QED
  BY <1>1, <1>2

(* The part of what a batch walked that a request of it needs.             *)
OwnPart(walked, g, q) == [group \in Groups(g, {q}) |-> walked[group]]

LEMMA ReadsAlone ==
  ASSUME NEW g \in Graph, NEW batch, NEW q \in batch, NEW walked, WalkedFor(walked, g, q),
         NEW values, NEW ceiling
  PROVE  Reads(walked, values, g, batch, q, ceiling) =
           Reads(OwnPart(walked, g, q), values, g, {q}, q, ceiling)
<1>. DEFINE own == OwnPart(walked, g, q)
<1>0. WalkedFor(own, g, q) /\ q \in {q}
  BY DEF WalkedFor, OwnPart
<1>1. ASSUME NEW r \in RulesFor(q)
      PROVE  Resolve(walked, g, batch, q, r) = Resolve(own, g, {q}, q, r)
  <2>1. OwnIds(own, g, q, r) = OwnIds(walked, g, q, r)
    <3>1. CASE PlanRoute(g, q, r).route = NoRoute
      BY <3>1 DEF OwnIds
    <3>2. CASE PlanRoute(g, q, r).route # NoRoute
      <4>1. GroupOf(PlanRoute(g, q, r)) \in Groups(g, {q})
        BY <3>2, OwnGroups
      <4>2. own[GroupOf(PlanRoute(g, q, r))] = walked[GroupOf(PlanRoute(g, q, r))]
        BY <4>1 DEF OwnPart
      <4>. QED
        BY <4>2 DEF OwnIds
    <3>. QED
      BY <3>1, <3>2
  <2>. HIDE DEF own
  <2>2. Resolve(walked, g, batch, q, r) =
              IF PlanRoute(g, q, r).route = NoRoute THEN Resolved("unresolvable", {})
              ELSE Fanout(r, OwnIds(walked, g, q, r))
    BY ResolveAlone
  <2>3. Resolve(own, g, {q}, q, r) =
              IF PlanRoute(g, q, r).route = NoRoute THEN Resolved("unresolvable", {})
              ELSE Fanout(r, OwnIds(own, g, q, r))
    BY <1>0, ResolveAlone
  <2>. QED
    BY <2>1, <2>2, <2>3
<1>. HIDE DEF own
<1>. QED
  BY <1>1 DEF Reads, own

LEMMA ReadIds ==
  ASSUME NEW values, NEW resolution, NEW q, NEW r, NEW ceiling
  PROVE  ReadOne(values, resolution, q, r, ceiling).ids = resolution.ids
BY DEF ReadOne, Assemble, Unread

----------------------------------------------------------------------------
(* A read under a ceiling ignores what was computed after it, and one that *)
(* all values are below ignores the ceiling.                               *)

(* Two tables look the same from under two ceilings.                       *)
Alike(values, ceiling, others, other) ==
  {v \in values : v.computed_at <= ceiling} = {v \in others : v.computed_at <= other}

LEMMA AlikeReads ==
  ASSUME NEW values, NEW ceiling, NEW others, NEW other, Alike(values, ceiling, others, other),
         NEW walked, NEW g, NEW batch, NEW q
  PROVE  Reads(walked, values, g, batch, q, ceiling) = Reads(walked, others, g, batch, q, other)
<1>. DEFINE Found(vs, r, id, bound) ==
              {v \in vs : v.entity = r.entity /\ v.id = id /\ v.as_of <= bound}
            Visible == {v \in values : v.computed_at <= ceiling}
<1>. DEFINE Top(found) == {v \in found : \A w \in found :
                             w.as_of < v.as_of \/ (w.as_of = v.as_of /\ w.computed_at <= v.computed_at)}
<1>1. ASSUME NEW r, NEW id, NEW bound
      PROVE  /\ Newest(values, r, id, bound, ceiling) = Top(Found(Visible, r, id, bound))
             /\ Newest(others, r, id, bound, other) = Top(Found(Visible, r, id, bound))
  <2>. DEFINE one == {v \in values : v.entity = r.entity /\ v.id = id /\ v.as_of <= bound
                                     /\ v.computed_at <= ceiling}
              two == {v \in others : v.entity = r.entity /\ v.id = id /\ v.as_of <= bound
                                     /\ v.computed_at <= other}
  <2>1. one = Found(Visible, r, id, bound)
    OBVIOUS
  <2>2. two = Found(Visible, r, id, bound)
    BY DEF Alike
  <2>3. Newest(values, r, id, bound, ceiling) = Top(one) /\ Newest(others, r, id, bound, other) = Top(two)
    BY DEF Newest
  <2>. HIDE DEF one, two, Top, Found, Visible
  <2>. QED
    BY <2>1, <2>2, <2>3
<1>. HIDE DEF Top, Found, Visible
<1>2. \A r, id, bound : Newest(values, r, id, bound, ceiling) = Newest(others, r, id, bound, other)
  BY <1>1
<1>3. \A r, ids, bound : Backing(values, r, ids, bound, ceiling) = Backing(others, r, ids, bound, other)
  BY <1>2 DEF Backing
<1>4. \A resolution, r : ReadOne(values, resolution, q, r, ceiling)
                           = ReadOne(others, resolution, q, r, other)
  BY <1>3 DEF ReadOne
<1>. QED
  BY <1>4 DEF Reads

----------------------------------------------------------------------------
(* The invariant: an evaluation has read what its walks and the values of  *)
(* some moment give, and unless it overlapped a transaction that computed  *)
(* features, the values that were committed before it began.               *)

Stored ==
  [entity : {x.entity.type : x \in Computable}, id : {x.entity.id : x \in Computable},
   value : {x.value : x \in Computable},
   as_of : Nat, computed_at : Nat, began : Nat, committed : Nat]

Tables ==
  /\ graph \in Graph /\ rows \in Rows
  /\ feature_values \in SUBSET Stored
  /\ \A v \in feature_values :
       v.began <= v.computed_at /\ v.computed_at <= v.committed /\ v.committed <= clock
  /\ transactions \in SUBSET Movement
  /\ clock \in Nat
  /\ session = [s \in Session |-> session[s]]

Crossed(values, e) == \E v \in values : v.committed >= e.decided_at /\ v.began <= e.read_at

CommittedBefore(values, instant) == {v \in values : v.committed < instant}

Told(g, q, walked, readings) ==
  /\ WalkedFor(walked, g, q)
  /\ \E values \in SUBSET Stored : \E ceiling : readings = Reads(walked, values, g, {q}, q, ceiling)

(* own has the values that the transaction of e computed itself.           *)
Seen(g, values, now, q, e, own) ==
  /\ e.decided_at \in Nat /\ e.read_at \in Nat /\ e.decided_at <= e.read_at /\ e.read_at <= now
  /\ Told(g, q, e.walked, e.reads)
  /\ own = {} /\ ~Crossed(values, e) =>
       e.reads = Reads(e.walked, CommittedBefore(values, e.decided_at), g, {q}, q, e.decided_at)

MovedOf(q, accounts, ts) ==
  IF q.subject.type = "transaction" THEN {t \in ts : t.id = q.subject.id}
  ELSE {t \in ts : /\ t.account \in accounts /\ Counts(q, t)
                   /\ t.at <= PitBound(q) /\ t.at > PitBound(q) - Window}

Paid(ts, q, e) ==
  e.recorded \subseteq ts /\ e.exposure = Amounts(MovedOf(q, e.accounts, e.recorded))

Shaped(t) ==
  t = [started |-> t.started, phase |-> t.phase, values |-> t.values, batch |-> t.batch,
       walked |-> t.walked, reads |-> t.reads, read_at |-> t.read_at, prices |-> t.prices]

Uncommitted(now, t) ==
  /\ t.values \in SUBSET Stored
  /\ \A v \in t.values : v.began = t.started /\ v.began <= v.computed_at /\ v.computed_at <= now

Walking(g, t) ==
  t.phase # "open" => /\ t.walked = [group \in Groups(g, t.batch) |-> t.walked[group]]
                      /\ \A group \in Groups(g, t.batch) : t.walked[group] \in Seq(Rows)

InProgress(g, t, q) ==
  [decided_at |-> t.started, read_at |-> t.read_at,
   walked |-> OwnPart(t.walked, g, q), reads |-> t.reads[q]]

Looked(g, values, now, ts, t) ==
  t.phase = "pricing" =>
    \A q \in t.batch :
      /\ Seen(g, values, now, q, InProgress(g, t, q), t.values)
      /\ t.prices[q] = Unpriced \/ Paid(ts, q, t.prices[q])

Transacting(g, values, now, ts, t) ==
  /\ Shaped(t)
  /\ t.started \in Nat /\ t.started <= now
  /\ t.phase \in {"open", "resolving", "pricing"}
  /\ t.batch \in SUBSET Request /\ (t.phase = "open" => t.batch = {})
  /\ Uncommitted(now, t)
  /\ Walking(g, t)
  /\ Looked(g, values, now, ts, t)

Sound(s) ==
  session[s] = Idle \/ Transacting(graph, feature_values, clock, transactions, session[s])

Kept(g, values, now, ts, q, d) == Seen(g, values, now, q, d, {}) /\ Paid(ts, q, d)

KeptNow(q) == IsDecided(q) => Kept(graph, feature_values, clock, transactions, q, decisions[q])

ReadsInv == Tables /\ (\A s \in Session : Sound(s)) /\ \A q \in Request : KeptNow(q)

Grown(old, new, now) == old \subseteq new /\ \A v \in new \ old : v.committed = now

LEMMA SeenKept ==
  ASSUME NEW g, NEW values, NEW now \in Nat, NEW q, NEW e, NEW own, NEW new, NEW later \in Nat,
         Seen(g, values, now, q, e, own), Grown(values, new, now), now <= later
  PROVE  Seen(g, new, later, q, e, own)
<1>1. /\ e.decided_at \in Nat /\ e.read_at \in Nat /\ e.decided_at <= e.read_at /\ e.read_at <= now
      /\ Told(g, q, e.walked, e.reads)
  BY DEF Seen
<1>2. ASSUME own = {}, ~Crossed(new, e)
      PROVE  e.reads = Reads(e.walked, CommittedBefore(new, e.decided_at), g, {q}, q, e.decided_at)
  <2>1. ~Crossed(values, e)
    BY <1>2 DEF Crossed, Grown
  <2>2. CommittedBefore(new, e.decided_at) = CommittedBefore(values, e.decided_at)
    BY <1>1 DEF CommittedBefore, Grown
  <2>. QED
    BY <1>2, <2>1, <2>2 DEF Seen
<1>. QED
  BY <1>1, <1>2 DEF Seen

LEMMA TransactingKept ==
  ASSUME NEW g, NEW values, NEW now \in Nat, NEW ts, NEW t, NEW new, NEW later \in Nat, NEW more,
         Transacting(g, values, now, ts, t), Grown(values, new, now), now <= later, ts \subseteq more
  PROVE  Transacting(g, new, later, more, t)
<1>1. Uncommitted(later, t)
  <2>1. \A v \in t.values : v.computed_at \in Nat
    BY DEF Transacting, Uncommitted, Stored
  <2>. QED
    BY <2>1 DEF Transacting, Uncommitted
<1>2. Looked(g, new, later, more, t)
  <2>. SUFFICES ASSUME t.phase = "pricing", NEW q \in t.batch
                PROVE  /\ Seen(g, new, later, q, InProgress(g, t, q), t.values)
                       /\ t.prices[q] = Unpriced \/ Paid(more, q, t.prices[q])
    BY DEF Looked
  <2>1. /\ Seen(g, values, now, q, InProgress(g, t, q), t.values)
        /\ t.prices[q] = Unpriced \/ Paid(ts, q, t.prices[q])
    BY DEF Transacting, Looked
  <2>. QED
    BY <2>1, SeenKept DEF Paid
<1>. QED
  BY <1>1, <1>2 DEF Transacting

LEMMA KeptKept ==
  ASSUME NEW g, NEW values, NEW now \in Nat, NEW ts, NEW q, NEW d, NEW new, NEW later \in Nat, NEW more,
         Kept(g, values, now, ts, q, d), Grown(values, new, now), now <= later, ts \subseteq more
  PROVE  Kept(g, new, later, more, q, d)
BY SeenKept DEF Kept, Paid

LEMMA Opens ==
  ASSUME Tables, NEW s \in Session, Sound(s)
  PROVE  /\ Now(s) \in Nat /\ clock <= Now(s)
         /\ Transacting(graph, feature_values, Now(s), transactions, Opened(s))
<1>1. CASE Running(s)
  BY <1>1 DEF Tables, Sound, Running, Now, Opened
<1>2. CASE ~Running(s)
  <2>. DEFINE t == [started |-> clock + 1, phase |-> "open", values |-> {}, batch |-> {},
                    walked |-> <<>>, reads |-> <<>>, read_at |-> 0, prices |-> <<>>]
  <2>1. Opened(s) = t /\ Now(s) = clock + 1 /\ clock + 1 \in Nat /\ clock <= clock + 1
    BY <1>2 DEF Opened, Now, Tables
  <2>2. Transacting(graph, feature_values, clock + 1, transactions, t)
    BY <2>1 DEF Transacting, Shaped, Uncommitted, Walking, Looked
  <2>. QED
    BY <2>1, <2>2
<1>. QED
  BY <1>1, <1>2

(* What a step does to the tables, and to the transactions that it leaves  *)
(* alone.                                                                  *)
Advances ==
  /\ graph' = graph /\ clock' \in Nat /\ clock <= clock'
  /\ Grown(feature_values, feature_values', clock)
  /\ transactions \subseteq transactions'

LEMMA OthersSound ==
  ASSUME Tables, Advances, NEW s \in Session, Sound(s), session'[s] = session[s]
  PROVE  Sound(s)'
<1>1. CASE session[s] = Idle
  BY <1>1 DEF Sound, Idle
<1>2. CASE Transacting(graph, feature_values, clock, transactions, session[s])
  <2>1. Transacting(graph, feature_values', clock', transactions', session[s])
    BY <1>2, TransactingKept DEF Tables, Advances
  <2>. QED
    BY <2>1 DEF Sound, Advances
<1>. QED
  BY <1>1, <1>2 DEF Sound

(* A step of one transaction.                                              *)
LEMMA OneSound ==
  ASSUME Tables, Advances, NEW s \in Session, NEW t,
         \A r \in Session : Sound(r), session' = [session EXCEPT ![s] = t],
         t = Idle \/ Transacting(graph, feature_values', clock', transactions', t)
  PROVE  /\ \A r \in Session : Sound(r)'
         /\ session' = [r \in Session |-> session'[r]]
<1>1. /\ session'[s] = t /\ \A r \in Session \ {s} : session'[r] = session[r]
      /\ session' = [r \in Session |-> session'[r]]
  BY DEF Tables
<1>2. Sound(s)'
  BY <1>1 DEF Sound, Idle, Advances
<1>3. \A r \in Session \ {s} : Sound(r)'
  BY <1>1, OthersSound
<1>. QED
  BY <1>1, <1>2, <1>3

LEMMA Planning ==
  ASSUME NEW t, Shaped(t), NEW p, NEW b, NEW w
  PROVE  [t EXCEPT !.phase = p, !.batch = b, !.walked = w] =
              [started |-> t.started, phase |-> p, values |-> t.values, batch |-> b,
               walked |-> w, reads |-> t.reads, read_at |-> t.read_at, prices |-> t.prices]
<1>. DEFINE first == [t EXCEPT !.phase = p]
            second == [first EXCEPT !.batch = b]
            third == [second EXCEPT !.walked = w]
<1>1. first = [started |-> t.started, phase |-> p, values |-> t.values, batch |-> t.batch,
             walked |-> t.walked, reads |-> t.reads, read_at |-> t.read_at, prices |-> t.prices]
  BY DEF Shaped
<1>. HIDE DEF first
<1>2. second = [started |-> t.started, phase |-> p, values |-> t.values, batch |-> b,
              walked |-> t.walked, reads |-> t.reads, read_at |-> t.read_at, prices |-> t.prices]
  BY <1>1
<1>. HIDE DEF second
<1>3. third = [started |-> t.started, phase |-> p, values |-> t.values, batch |-> b,
             walked |-> w, reads |-> t.reads, read_at |-> t.read_at, prices |-> t.prices]
  BY <1>2
<1>4. [t EXCEPT !.phase = p, !.batch = b, !.walked = w] = third
  BY DEF first, second
<1>. QED
  BY <1>3, <1>4

LEMMA Hopping ==
  ASSUME NEW t, Shaped(t), NEW w
  PROVE  [t EXCEPT !.walked = w] =
              [started |-> t.started, phase |-> t.phase, values |-> t.values, batch |-> t.batch,
               walked |-> w, reads |-> t.reads, read_at |-> t.read_at, prices |-> t.prices]
BY DEF Shaped

LEMMA Reading ==
  ASSUME NEW t, Shaped(t), NEW p, NEW at, NEW rs, NEW ps
  PROVE  [t EXCEPT !.phase = p, !.read_at = at, !.reads = rs, !.prices = ps] =
              [started |-> t.started, phase |-> p, values |-> t.values, batch |-> t.batch,
               walked |-> t.walked, reads |-> rs, read_at |-> at, prices |-> ps]
<1>. DEFINE first == [t EXCEPT !.phase = p]
            second == [first EXCEPT !.read_at = at]
            third == [second EXCEPT !.reads = rs]
            fourth == [third EXCEPT !.prices = ps]
<1>1. first = [started |-> t.started, phase |-> p, values |-> t.values, batch |-> t.batch,
             walked |-> t.walked, reads |-> t.reads, read_at |-> t.read_at, prices |-> t.prices]
  BY DEF Shaped
<1>. HIDE DEF first
<1>2. second = [started |-> t.started, phase |-> p, values |-> t.values, batch |-> t.batch,
              walked |-> t.walked, reads |-> t.reads, read_at |-> at, prices |-> t.prices]
  BY <1>1
<1>. HIDE DEF second
<1>3. third = [started |-> t.started, phase |-> p, values |-> t.values, batch |-> t.batch,
             walked |-> t.walked, reads |-> rs, read_at |-> at, prices |-> t.prices]
  BY <1>2
<1>. HIDE DEF third
<1>4. fourth = [started |-> t.started, phase |-> p, values |-> t.values, batch |-> t.batch,
              walked |-> t.walked, reads |-> rs, read_at |-> at, prices |-> ps]
  BY <1>3
<1>5. [t EXCEPT !.phase = p, !.read_at = at, !.reads = rs, !.prices = ps] = fourth
  BY DEF first, second, third
<1>. QED
  BY <1>4, <1>5

LEMMA GrownNot == ASSUME NEW values, NEW now PROVE Grown(values, values, now)
BY DEF Grown

(* One lemma for each action.                                              *)
Steady == Tables' /\ Advances /\ \A s \in Session : Sound(s)'

LEMMA LinkSteady ==
  ASSUME Tables, \A s \in Session : Sound(s), NEW x \in Linked, Link(x)
  PROVE  Steady
<1>1. Tables'
  BY DEF Tables, Link, Rows
<1>2. Advances
  BY GrownNot DEF Tables, Link, Advances
<1>. QED
  BY <1>1, <1>2, OthersSound DEF Steady, Link

LEMMA MoveSteady ==
  ASSUME Tables, \A s \in Session : Sound(s), NEW t \in Movement, Move(t)
  PROVE  Steady
<1>1. Tables'
  BY DEF Tables, Move
<1>2. Advances
  BY GrownNot DEF Tables, Move, Advances
<1>. QED
  BY <1>1, <1>2, OthersSound DEF Steady, Move

LEMMA ComputeSteady ==
  ASSUME Tables, \A s \in Session : Sound(s), NEW s \in Session, NEW x \in Computable, Compute(s, x)
  PROVE  Steady
<1>. DEFINE t == Opened(s)
            new == [entity |-> x.entity.type, id |-> x.entity.id, value |-> x.value,
                    as_of |-> x.at, computed_at |-> Stamp(s, x.at),
                    began |-> Opened(s).started, committed |-> 0]
            u == [t EXCEPT !.values = @ \cup {new}]
<1>1. /\ Now(s) \in Nat /\ clock <= Now(s)
      /\ Transacting(graph, feature_values, Now(s), transactions, t)
  BY Opens
<1>2. /\ clock' = Now(s) + 1 /\ clock' \in Nat /\ clock <= clock' /\ Now(s) <= clock' /\ clock \in Nat
      /\ UNCHANGED <<graph, rows, feature_values, transactions, decisions>>
      /\ t.phase = "open" /\ session' = [session EXCEPT ![s] = u]
  BY <1>1 DEF Compute, MayWork, Tables
<1>3. Advances
  BY <1>2, GrownNot DEF Advances
<1>4. new \in Stored /\ new.began = t.started /\ new.began <= new.computed_at /\ new.computed_at <= clock'
  <2>1. t.started \in Nat /\ t.started <= Now(s)
    BY <1>1 DEF Transacting
  <2>2. Stamp(s, x.at) = Now(s) + 1
    BY DEF Stamp
  <2>3. x.at \in Nat
    BY ComputableAssumption
  <2>. HIDE DEF t
  <2>. QED
    BY <1>1, <1>2, <2>1, <2>2, <2>3 DEF Stored, t
<1>5. Transacting(graph, feature_values, clock', transactions, t)
  <2>. HIDE DEF t
  <2>. QED
    BY <1>1, <1>2, TransactingKept, GrownNot
<1>6. Transacting(graph, feature_values', clock', transactions', u)
  <2>. HIDE DEF t, new
  <2>1. Shaped(t) /\ t.phase = "open"
    BY <1>2, <1>5 DEF Transacting
  <2>2. u = [started |-> t.started, phase |-> t.phase, values |-> t.values \cup {new}, batch |-> t.batch,
             walked |-> t.walked, reads |-> t.reads, read_at |-> t.read_at, prices |-> t.prices]
    BY <2>1 DEF Shaped
  <2>. HIDE DEF u
  <2>3. Shaped(u) /\ u.started = t.started /\ u.phase = "open" /\ u.batch = t.batch /\ u.values = t.values \cup {new}
    BY <2>1, <2>2 DEF Shaped
  <2>4. Uncommitted(clock', u)
    BY <1>4, <1>5, <2>3 DEF Transacting, Uncommitted
  <2>. QED
    BY <1>2, <1>5, <2>3, <2>4 DEF Transacting, Walking, Looked
<1>7. Tables'
  <2>1. session' = [r \in Session |-> session'[r]]
    BY <1>2 DEF Tables
  <2>2. \A v \in feature_values : v.committed \in Nat
    BY DEF Tables, Stored
  <2>. QED
    BY <1>2, <2>1, <2>2 DEF Tables
<1>. HIDE DEF u
<1>. QED
  BY <1>2, <1>3, <1>6, <1>7, OneSound DEF Steady

LEMMA PlanSteady ==
  ASSUME Tables, \A s \in Session : Sound(s), NEW s \in Session, NEW instant, PlanEvaluations(s, instant)
  PROVE  Steady
<1>. DEFINE t == Opened(s)
            batch == Planned(instant)
            walked == [group \in Groups(graph, batch) |-> <<>>]
            u == [t EXCEPT !.phase = "resolving", !.batch = batch, !.walked = walked]
<1>1. /\ Now(s) \in Nat /\ clock <= Now(s)
      /\ Transacting(graph, feature_values, Now(s), transactions, t)
  BY Opens
<1>2. /\ clock' = Now(s) /\ clock \in Nat
      /\ UNCHANGED <<graph, rows, feature_values, transactions, decisions>>
      /\ session' = [session EXCEPT ![s] = u]
  BY DEF PlanEvaluations, Tables
<1>3. Advances
  BY <1>1, <1>2, GrownNot DEF Advances
<1>4. Transacting(graph, feature_values', clock', transactions', u)
  <2>. HIDE DEF t
  <2>1. Shaped(t)
    BY <1>1 DEF Transacting
  <2>2. u = [started |-> t.started, phase |-> "resolving", values |-> t.values, batch |-> batch,
             walked |-> walked, reads |-> t.reads, read_at |-> t.read_at, prices |-> t.prices]
    <3>. HIDE DEF batch, walked
    <3>. QED
      BY <2>1, Planning
  <2>. HIDE DEF u
  <2>3. /\ Shaped(u) /\ u.started = t.started /\ u.phase = "resolving" /\ u.batch = batch
        /\ u.values = t.values /\ u.walked = walked
    BY <2>2 DEF Shaped
  <2>4. batch \in SUBSET Request
    BY DEF Planned
  <2>5. Uncommitted(clock', u)
    BY <1>1, <1>2, <2>3 DEF Transacting, Uncommitted
  <2>6. Walking(graph, u)
    <3>1. <<>> \in Seq(Rows)
      <4>. HIDE DEF Rows
      <4>. QED
        OBVIOUS
    <3>2. /\ walked = [group \in Groups(graph, batch) |-> walked[group]]
          /\ \A group \in Groups(graph, batch) : walked[group] \in Seq(Rows)
      BY <3>1
    <3>. HIDE DEF walked, batch
    <3>. QED
      BY <2>3, <3>2 DEF Walking
  <2>. QED
    BY <1>1, <1>2, <2>3, <2>4, <2>5, <2>6 DEF Transacting, Looked
<1>5. Tables'
  <2>1. session' = [r \in Session |-> session'[r]]
    BY <1>2 DEF Tables
  <2>2. \A v \in feature_values : v.committed \in Nat
    BY DEF Tables, Stored
  <2>. QED
    BY <1>1, <1>2, <2>1, <2>2 DEF Tables
<1>. HIDE DEF u
<1>. QED
  BY <1>2, <1>3, <1>4, <1>5, OneSound DEF Steady

(* The other statements of an evaluation change its transaction only.      *)
LEMMA StatementSteady ==
  ASSUME Tables, \A s \in Session : Sound(s), NEW s \in Session, NEW t,
         UNCHANGED <<graph, rows, feature_values, transactions, decisions, clock>>,
         session' = [session EXCEPT ![s] = t],
         Transacting(graph, feature_values, clock, transactions, t)
  PROVE  Steady
<1>1. Advances
  BY GrownNot DEF Advances, Tables
<1>2. session' = [r \in Session |-> session'[r]]
  BY DEF Tables
<1>3. Tables'
  BY <1>2 DEF Tables
<1>. QED
  BY <1>1, <1>3, OneSound DEF Steady

LEMMA HopSteady ==
  ASSUME Tables, \A s \in Session : Sound(s), NEW s \in Session, HopBatch(s)
  PROVE  Steady
<1>. DEFINE t == session[s]
<1>1. Transacting(graph, feature_values, clock, transactions, t) /\ t.phase = "resolving"
  BY DEF HopBatch, Sound, Idle
<1>2. PICK group \in Unwalked(s) :
        session' = [session EXCEPT ![s].walked[group] =
                      Append(@, Behind(rows, group.route[Len(session[s].walked[group]) + 1]))]
  BY DEF HopBatch, Begun
<1>. DEFINE table == Behind(rows, group.route[Len(t.walked[group]) + 1])
            u == [t EXCEPT !.walked = [t.walked EXCEPT ![group] = Append(t.walked[group], table)]]
<1>3. session' = [session EXCEPT ![s] = u]
  BY <1>2 DEF Tables
<1>4. table \in Rows
  BY DEF Behind, Tables, Rows
<1>5. /\ Shaped(t) /\ t.walked = [x \in Groups(graph, t.batch) |-> t.walked[x]]
      /\ \A x \in Groups(graph, t.batch) : t.walked[x] \in Seq(Rows)
  BY <1>1 DEF Transacting, Walking
<1>6. Transacting(graph, feature_values, clock, transactions, u)
  <2>. HIDE DEF t, table
  <2>1. u = [started |-> t.started, phase |-> t.phase, values |-> t.values, batch |-> t.batch,
             walked |-> [t.walked EXCEPT ![group] = Append(t.walked[group], table)],
             reads |-> t.reads, read_at |-> t.read_at, prices |-> t.prices]
    BY <1>5, Hopping
  <2>. HIDE DEF u
  <2>2. /\ Shaped(u) /\ u.started = t.started /\ u.phase = "resolving" /\ u.batch = t.batch
        /\ u.values = t.values /\ u.walked = [t.walked EXCEPT ![group] = Append(t.walked[group], table)]
    BY <1>1, <2>1 DEF Shaped
  <2>3. \A x \in Groups(graph, t.batch) :
          u.walked[x] = IF x = group THEN Append(t.walked[group], table) ELSE t.walked[x]
    BY <1>5, <2>2
  <2>4. ASSUME NEW x \in Groups(graph, t.batch) PROVE u.walked[x] \in Seq(Rows)
    <3>1. t.walked[x] \in Seq(Rows)
      BY <1>5
    <3>2. Append(t.walked[x], table) \in Seq(Rows)
      <4>. HIDE DEF Rows
      <4>. QED
        BY <1>4, <3>1, AppendProperties
    <3>. QED
      BY <2>3, <3>1, <3>2
  <2>5. u.walked = [x \in Groups(graph, t.batch) |-> u.walked[x]]
    BY <1>5, <2>2
  <2>. QED
    BY <1>1, <2>2, <2>4, <2>5 DEF Transacting, Uncommitted, Walking, Looked
<1>. HIDE DEF u
<1>. QED
  BY <1>3, <1>6, StatementSteady DEF HopBatch

(* Of two ceilings above all values, neither matters.                      *)
LEMMA CeilingsAbove ==
  ASSUME NEW values, NEW one \in Nat, NEW other \in Nat,
         \A v \in values : v.computed_at \in Nat /\ v.computed_at <= one /\ v.computed_at <= other
  PROVE  Alike(values, one, values, other)
BY DEF Alike

LEMMA ReadSteady ==
  ASSUME Tables, \A s \in Session : Sound(s), NEW s \in Session, ReadMany(s)
  PROVE  Steady
<1>. DEFINE t == session[s]
            values == feature_values \cup t.values
            readings == [q \in t.batch |-> Reads(t.walked, values, graph, t.batch, q, clock)]
            prices == [q \in t.batch |-> Unpriced]
            u == [t EXCEPT !.phase = "pricing", !.read_at = clock, !.reads = readings, !.prices = prices]
<1>1. /\ Transacting(graph, feature_values, clock, transactions, t) /\ t.phase = "resolving"
      /\ session' = [session EXCEPT ![s] = u]
  BY DEF ReadMany, Sound, Idle
<1>2. /\ Shaped(t) /\ t.started \in Nat /\ t.started <= clock /\ clock \in Nat /\ graph \in Graph
      /\ \A x \in Groups(graph, t.batch) : t.walked[x] \in Seq(Rows)
  BY <1>1 DEF Transacting, Walking, Tables
<1>3. values \in SUBSET Stored
  BY <1>1 DEF Transacting, Uncommitted, Tables
<1>. HIDE DEF readings, prices
<1>4. /\ Shaped(u) /\ u.started = t.started /\ u.phase = "pricing" /\ u.batch = t.batch /\ u.values = t.values
      /\ u.walked = t.walked /\ u.read_at = clock /\ u.reads = readings /\ u.prices = prices
  <2>0. Shaped(t)
    BY <1>2
  <2>. HIDE DEF t
  <2>1. u = [started |-> t.started, phase |-> "pricing", values |-> t.values, batch |-> t.batch,
             walked |-> t.walked, reads |-> readings, read_at |-> clock, prices |-> prices]
    BY <2>0, Reading
  <2>. HIDE DEF u
  <2>. QED
    BY <2>1 DEF Shaped
<1>. HIDE DEF u
<1>5. ASSUME NEW q \in t.batch
      PROVE  Seen(graph, feature_values, clock, q, InProgress(graph, u, q), t.values) /\ u.prices[q] = Unpriced
  <2>. DEFINE own == OwnPart(t.walked, graph, q)
              e == InProgress(graph, u, q)
  <2>1. WalkedFor(t.walked, graph, q)
    BY <1>2, OwnGroups DEF WalkedFor
  <2>2. readings[q] = Reads(own, values, graph, {q}, q, clock)
    <3>1. readings[q] = Reads(t.walked, values, graph, t.batch, q, clock)
      BY DEF readings
    <3>. HIDE DEF t, values, own
    <3>. QED
      BY <1>2, <2>1, <3>1, ReadsAlone DEF own
  <2>3. WalkedFor(own, graph, q)
    BY <2>1 DEF WalkedFor, OwnPart
  <2>4. e.decided_at = t.started /\ e.read_at = clock /\ e.walked = own /\ e.reads = readings[q]
    BY <1>4 DEF InProgress
  <2>. HIDE DEF e, own
  <2>5. Told(graph, q, own, readings[q])
    <3>. HIDE DEF values
    <3>. QED
      BY <1>3, <2>2, <2>3 DEF Told
  <2>6. ASSUME t.values = {}, ~Crossed(feature_values, e)
        PROVE  readings[q] = Reads(own, CommittedBefore(feature_values, t.started), graph, {q}, q, t.started)
    <3>1. values = feature_values
      BY <2>6
    <3>2. \A v \in feature_values :
            /\ v.began \in Nat /\ v.computed_at \in Nat /\ v.committed \in Nat
            /\ v.began <= v.computed_at /\ v.computed_at <= v.committed /\ v.committed <= clock
      BY DEF Tables, Stored
    <3>3. \A v \in feature_values : v.committed < t.started
      BY <1>2, <2>4, <2>6, <3>2 DEF Crossed
    <3>4. CommittedBefore(feature_values, t.started) = feature_values
      BY <3>3 DEF CommittedBefore
    <3>5. \A v \in feature_values : v.computed_at \in Nat /\ v.computed_at <= clock /\ v.computed_at <= t.started
      BY <1>2, <3>2, <3>3
    <3>6. Alike(feature_values, clock, feature_values, t.started)
      <4>. HIDE DEF t
      <4>. QED
        BY <1>2, <3>5, CeilingsAbove
    <3>7. Reads(own, feature_values, graph, {q}, q, clock) = Reads(own, feature_values, graph, {q}, q, t.started)
      <4>. HIDE DEF t
      <4>. QED
        BY <3>6, AlikeReads
    <3>. QED
      BY <2>2, <3>1, <3>4, <3>7
  <2>7. u.prices[q] = Unpriced
    BY <1>4 DEF prices
  <2>8. Seen(graph, feature_values, clock, q, e, t.values)
    BY <1>2, <2>4, <2>5, <2>6 DEF Seen
  <2>. QED
    BY <2>7, <2>8 DEF e
<1>6. Transacting(graph, feature_values, clock, transactions, u)
  <2>1. Looked(graph, feature_values, clock, transactions, u)
    BY <1>4, <1>5 DEF Looked
  <2>. HIDE DEF t
  <2>2. Walking(graph, u)
    BY <1>1, <1>4 DEF Transacting, Walking
  <2>. QED
    BY <1>1, <1>4, <2>1, <2>2 DEF Transacting, Uncommitted
<1>. QED
  BY <1>1, <1>6, StatementSteady DEF ReadMany

LEMMA PriceSteady ==
  ASSUME Tables, \A s \in Session : Sound(s), NEW s \in Session, NEW type, ExposureFor(s, type)
  PROVE  Steady
<1>. DEFINE t == session[s]
            prices == [q \in t.batch |-> IF q.subject.type = type THEN Priced(q) ELSE t.prices[q]]
            u == [t EXCEPT !.prices = prices]
<1>1. Transacting(graph, feature_values, clock, transactions, t) /\ t.phase = "pricing"
  BY DEF ExposureFor, Sound, Idle
<1>0. session' = [session EXCEPT ![s] = u]
  BY DEF ExposureFor, Tables
<1>2. Shaped(t)
  BY <1>1 DEF Transacting
<1>. HIDE DEF prices
<1>3. /\ Shaped(u) /\ u.started = t.started /\ u.phase = "pricing" /\ u.batch = t.batch /\ u.values = t.values
      /\ u.walked = t.walked /\ u.read_at = t.read_at /\ u.reads = t.reads /\ u.prices = prices
  <2>0. t.phase = "pricing"
    BY <1>1
  <2>. HIDE DEF t
  <2>1. u = [started |-> t.started, phase |-> "pricing", values |-> t.values, batch |-> t.batch,
             walked |-> t.walked, reads |-> t.reads, read_at |-> t.read_at, prices |-> prices]
    BY <1>2, <2>0 DEF Shaped
  <2>. HIDE DEF u
  <2>. QED
    BY <2>1 DEF Shaped
<1>. HIDE DEF u
<1>4. ASSUME NEW q \in t.batch
      PROVE  /\ Seen(graph, feature_values, clock, q, InProgress(graph, u, q), t.values)
             /\ u.prices[q] = Unpriced \/ Paid(transactions, q, u.prices[q])
  <2>1. InProgress(graph, u, q) = InProgress(graph, t, q)
    BY <1>3 DEF InProgress
  <2>2. u.prices[q] = IF q.subject.type = type THEN Priced(q) ELSE t.prices[q]
    BY <1>3 DEF prices
  <2>3. Paid(transactions, q, Priced(q))
    BY DEF Paid, Priced, Exposure, Moved, MovedOf
  <2>4. /\ Seen(graph, feature_values, clock, q, InProgress(graph, t, q), t.values)
        /\ t.prices[q] = Unpriced \/ Paid(transactions, q, t.prices[q])
    BY <1>1 DEF Transacting, Looked
  <2>. QED
    BY <2>1, <2>2, <2>3, <2>4
<1>5. Transacting(graph, feature_values, clock, transactions, u)
  <2>1. Looked(graph, feature_values, clock, transactions, u)
    BY <1>3, <1>4 DEF Looked
  <2>. HIDE DEF t
  <2>2. Walking(graph, u)
    BY <1>1, <1>3 DEF Transacting, Walking
  <2>. QED
    BY <1>1, <1>3, <2>1, <2>2 DEF Transacting, Uncommitted
<1>. QED
  BY <1>0, <1>5, StatementSteady DEF ExposureFor

LEMMA CommitSteady ==
  ASSUME Tables, \A s \in Session : Sound(s), NEW s \in Session, Commit(s)
  PROVE  Steady
<1>. DEFINE t == session[s]
            new == {[v EXCEPT !.committed = clock] : v \in t.values}
<1>1. Transacting(graph, feature_values, clock, transactions, t)
  BY DEF Commit, IsComplete, Running, Sound
<1>2. /\ UNCHANGED <<graph, rows, transactions, clock>> /\ clock \in Nat
      /\ feature_values' = feature_values \cup new
      /\ session' = [session EXCEPT ![s] = Idle]
  BY DEF Commit, Tables
<1>3. \A v \in new : /\ v \in Stored /\ v.committed = clock
                     /\ v.began <= v.computed_at /\ v.computed_at <= v.committed
  <2>. SUFFICES ASSUME NEW v \in t.values, NEW w, w = [v EXCEPT !.committed = clock]
                PROVE  /\ w \in Stored /\ w.committed = clock
                       /\ w.began <= w.computed_at /\ w.computed_at <= w.committed
    OBVIOUS
  <2>1. v \in Stored /\ v.began <= v.computed_at /\ v.computed_at <= clock
    BY <1>1 DEF Transacting, Uncommitted
  <2>2. w \in Stored /\ w.committed = clock /\ w.began = v.began /\ w.computed_at = v.computed_at
    BY <1>2, <2>1 DEF Stored
  <2>. QED
    BY <2>1, <2>2
<1>. HIDE DEF new
<1>4. Grown(feature_values, feature_values', clock)
  BY <1>2, <1>3 DEF Grown
<1>5. Advances
  BY <1>2, <1>4 DEF Advances
<1>6. Tables'
  <2>1. session' = [r \in Session |-> session'[r]]
    BY <1>2 DEF Tables
  <2>. QED
    BY <1>2, <1>3, <2>1 DEF Tables
<1>. QED
  BY <1>2, <1>5, <1>6, OneSound DEF Steady

LEMMA StepsSteady ==
  ASSUME Tables, \A s \in Session : Sound(s), [ReadsNext]_entityReads
  PROVE  Steady
<1>1. CASE UNCHANGED entityReads
  <2>1. Tables'
    BY <1>1 DEF entityReads, Tables
  <2>2. Advances
    BY <1>1, GrownNot DEF entityReads, Tables, Advances
  <2>. QED
    BY <1>1, <2>1, <2>2, OthersSound DEF entityReads, Steady
<1>2. CASE \E s \in Session : Work(s)
  <2>1. PICK s \in Session : Work(s)
    BY <1>2
  <2>. QED
    BY <2>1, ComputeSteady, PlanSteady, HopSteady, ReadSteady, PriceSteady, CommitSteady DEF Work
<1>. QED
  BY <1>1, <1>2, LinkSteady, MoveSteady DEF ReadsNext

(* A step leaves a decision alone or commits it.                           *)
LEMMA DecisionStep ==
  ASSUME [ReadsNext]_entityReads, NEW q \in Request
  PROVE  \/ decisions'[q] = decisions[q]
         \/ \E s \in Session : Commit(s) /\ q \in session[s].batch /\ decisions'[q] = Decision(s, q)
<1>1. CASE UNCHANGED decisions
  BY <1>1
<1>2. ASSUME NEW s \in Session, Commit(s)
      PROVE  \/ decisions'[q] = decisions[q]
             \/ q \in session[s].batch /\ decisions'[q] = Decision(s, q)
  BY <1>2 DEF Commit
<1>3. CASE \E s \in Session : Commit(s)
  BY <1>2, <1>3
<1>. QED
  BY <1>1, <1>3 DEF ReadsNext, Work, Link, Move, Compute, PlanEvaluations, HopBatch, ReadMany,
                    ExposureFor, entityReads

LEMMA DecisionKept ==
  ASSUME Tables, NEW s \in Session, Sound(s), Commit(s), NEW q \in session[s].batch
  PROVE  Kept(graph, feature_values', clock, transactions, q, Decision(s, q))
<1>. DEFINE t == session[s]
            d == Decision(s, q)
            e == InProgress(graph, t, q)
<1>1. Transacting(graph, feature_values, clock, transactions, t)
  BY DEF Commit, IsComplete, Running, Sound
<1>2. t.phase = "pricing" /\ t.prices[q] # Unpriced
  BY <1>1 DEF Transacting, Commit, IsComplete
<1>3. Seen(graph, feature_values, clock, q, e, t.values) /\ Paid(transactions, q, t.prices[q])
  BY <1>1, <1>2 DEF Transacting, Looked
<1>4. /\ d.decided_at = e.decided_at /\ d.read_at = e.read_at /\ d.walked = e.walked /\ d.reads = e.reads
      /\ d.exposure = t.prices[q].exposure /\ d.accounts = t.prices[q].accounts
      /\ d.recorded = t.prices[q].recorded
      /\ e.decided_at = t.started
  BY DEF Decision, InProgress, OwnPart
<1>5. clock \in Nat /\ Grown(feature_values, feature_values', clock)
  <2>. DEFINE new == {[v EXCEPT !.committed = clock] : v \in t.values}
  <2>1. feature_values' = feature_values \cup new
    BY DEF Commit
  <2>2. \A v \in t.values : v \in Stored
    BY <1>1 DEF Transacting, Uncommitted
  <2>3. \A v \in new : v.committed = clock
    BY <2>2 DEF Stored
  <2>. HIDE DEF new
  <2>. QED
    BY <2>1, <2>3 DEF Grown, Tables
<1>. HIDE DEF e, d
<1>6. Seen(graph, feature_values', clock, q, e, t.values)
  <2>. HIDE DEF t
  <2>. QED
    BY <1>3, <1>5, SeenKept
<1>7. t.values # {} => Crossed(feature_values', e)
  <2>. SUFFICES ASSUME NEW v \in t.values PROVE Crossed(feature_values', e)
    OBVIOUS
  <2>. DEFINE w == [v EXCEPT !.committed = clock]
  <2>1. v \in Stored /\ v.began = t.started /\ t.started \in Nat /\ t.started <= clock
    BY <1>1 DEF Transacting, Uncommitted
  <2>2. w.committed = clock /\ w.began = t.started
    BY <2>1 DEF Stored
  <2>3. w \in feature_values'
    BY DEF Commit
  <2>4. t.started <= e.read_at /\ e.read_at \in Nat
    BY <1>3, <1>4 DEF Seen
  <2>. HIDE DEF w, t
  <2>. QED
    BY <1>4, <1>5, <2>1, <2>2, <2>3, <2>4 DEF Crossed
<1>8. Seen(graph, feature_values', clock, q, d, {})
  <2>1. Crossed(feature_values', d) <=> Crossed(feature_values', e)
    BY <1>4 DEF Crossed
  <2>. HIDE DEF t
  <2>. QED
    BY <1>4, <1>6, <1>7, <2>1 DEF Seen
<1>9. Paid(transactions, q, d)
  BY <1>3, <1>4 DEF Paid
<1>. QED
  BY <1>8, <1>9 DEF Kept, d

LEMMA ReadsInvCorrect == ReadsSpec => []ReadsInv
<1>1. ReadsInit => ReadsInv
  <2>. SUFFICES ASSUME ReadsInit PROVE ReadsInv
    OBVIOUS
  <2>1. Tables
    <3>1. graph \in Graph
      BY GraphShape DEF ReadsInit
    <3>2. session = [s \in Session |-> session[s]]
      BY DEF ReadsInit
    <3>. QED
      BY <3>1, <3>2, MovementAssumption DEF ReadsInit, Tables, Rows
  <2>2. \A s \in Session : Sound(s)
    BY DEF ReadsInit, Sound
  <2>3. \A q \in Request : KeptNow(q)
    BY DEF ReadsInit, KeptNow, IsDecided
  <2>. QED
    BY <2>1, <2>2, <2>3 DEF ReadsInv
<1>2. ReadsInv /\ [ReadsNext]_entityReads => ReadsInv'
  <2>. SUFFICES ASSUME ReadsInv, [ReadsNext]_entityReads PROVE ReadsInv'
    OBVIOUS
  <2>1. Steady /\ Tables /\ \A s \in Session : Sound(s)
    BY StepsSteady DEF ReadsInv
  <2>2. ASSUME NEW q \in Request PROVE KeptNow(q)'
    <3>1. CASE decisions'[q] = decisions[q]
      <4>. SUFFICES ASSUME IsDecided(q)
                    PROVE  Kept(graph, feature_values', clock', transactions', q, decisions[q])
        BY <2>1, <3>1 DEF KeptNow, IsDecided, Undecided, Steady, Advances
      <4>1. Kept(graph, feature_values, clock, transactions, q, decisions[q])
        BY DEF ReadsInv, KeptNow
      <4>. QED
        BY <2>1, <4>1, KeptKept DEF Steady, Advances, Tables
    <3>2. CASE \E s \in Session : Commit(s) /\ q \in session[s].batch /\ decisions'[q] = Decision(s, q)
      <4>1. PICK s \in Session : Commit(s) /\ q \in session[s].batch /\ decisions'[q] = Decision(s, q)
        BY <3>2
      <4>2. Kept(graph, feature_values', clock, transactions, q, decisions'[q])
        BY <2>1, <4>1, DecisionKept
      <4>3. UNCHANGED <<graph, clock, transactions>>
        BY <4>1 DEF Commit
      <4>. QED
        BY <4>2, <4>3 DEF KeptNow
    <3>. QED
      BY <3>1, <3>2, DecisionStep
  <2>. QED
    BY <2>1, <2>2 DEF ReadsInv, Steady
<1>. QED
  BY <1>1, <1>2, PTL DEF ReadsSpec

(* What an evaluation read in a batch is what it reads again on its own at *)
(* decided_at, however much was computed since, unless the rows behind the *)
(* edges have changed or its transaction overlapped one that computed      *)
(* features (engine/pit.py, resolver.py; features/runner.py).              *)
THEOREM RereadsCorrect == ReadsSpec => []RereadMovesWithOverlapsOnly
<1>1. ReadsInv => RereadMovesWithOverlapsOnly
  <2>. SUFFICES ASSUME ReadsInv, NEW q \in Request, IsDecided(q), decisions[q].walked = RowsNow(q),
                       \A v \in feature_values : ~Overlaps(v, decisions[q])
                PROVE  Reread(q) = decisions[q].reads
    BY DEF RereadMovesWithOverlapsOnly
  <2>. DEFINE d == decisions[q]
              old == CommittedBefore(feature_values, d.decided_at)
  <2>1. Seen(graph, feature_values, clock, q, d, {})
    BY DEF ReadsInv, KeptNow, Kept
  <2>2. ~Crossed(feature_values, d)
    BY DEF Crossed, Overlaps
  <2>3. d.reads = Reads(d.walked, old, graph, {q}, q, d.decided_at)
    BY <2>1, <2>2 DEF Seen
  <2>4. Alike(feature_values, d.decided_at, old, d.decided_at)
    <3>1. d.decided_at \in Nat /\ d.read_at \in Nat /\ d.decided_at <= d.read_at
      BY <2>1 DEF Seen
    <3>2. ASSUME NEW v \in feature_values, v.computed_at <= d.decided_at PROVE v \in old
      <4>1. /\ v.began \in Nat /\ v.computed_at \in Nat /\ v.committed \in Nat
            /\ v.began <= v.computed_at
        BY DEF ReadsInv, Tables, Stored
      <4>2. v.began <= d.read_at
        BY <3>1, <3>2, <4>1
      <4>3. v.committed < d.decided_at
        BY <2>2, <3>1, <4>1, <4>2 DEF Crossed
      <4>. QED
        BY <4>3 DEF CommittedBefore
    <3>. QED
      BY <3>2 DEF Alike, CommittedBefore
  <2>. HIDE DEF old, d
  <2>5. Reads(d.walked, feature_values, graph, {q}, q, d.decided_at) = d.reads
    BY <2>3, <2>4, AlikeReads
  <2>. QED
    BY <2>5 DEF Reread, d
<1>. QED
  BY <1>1, ReadsInvCorrect, PTL

(* A subject is judged by the entities it reaches on its own, whatever     *)
(* batch it was evaluated in (engine/resolver.py, _run_route_batch).       *)
THEOREM OwnEntitiesOnly == ReadsSpec => []OwnEntities
<1>1. ReadsInv => OwnEntities
  <2>. SUFFICES ASSUME ReadsInv, NEW q \in Request, IsDecided(q), NEW r \in DOMAIN decisions[q].reads
                PROVE  decisions[q].reads[r].ids = OwnIds(decisions[q].walked, graph, q, r)
    BY DEF OwnEntities, OwnIds
  <2>. DEFINE d == decisions[q]
  <2>1. graph \in Graph /\ Told(graph, q, d.walked, d.reads)
    BY DEF ReadsInv, Tables, KeptNow, Kept, Seen
  <2>. HIDE DEF d
  <2>2. PICK values \in SUBSET Stored : \E ceiling : d.reads = Reads(d.walked, values, graph, {q}, q, ceiling)
    BY <2>1 DEF Told
  <2>3. PICK ceiling : d.reads = Reads(d.walked, values, graph, {q}, q, ceiling)
    BY <2>2
  <2>4. /\ r \in RulesFor(q) /\ q \in {q}
        /\ d.reads[r] = ReadOne(values, Resolve(d.walked, graph, {q}, q, r), q, r, ceiling)
    BY <2>3 DEF Reads, d
  <2>5. WalkedFor(d.walked, graph, q)
    BY <2>1 DEF Told
  <2>. QED
    BY <2>1, <2>4, <2>5, ReadIds, ResolveAlone DEF d
<1>. QED
  BY <1>1, ReadsInvCorrect, PTL

----------------------------------------------------------------------------
(* Nothing is laundered by a reduction.                                    *)

LEMMA OldestIsOldest ==
  ASSUME NEW found \in SUBSET Stored, found # {}
  PROVE  OldestOf(found) \in Nat /\ \A v \in found : OldestOf(found) <= v.as_of
<1>. DEFINE S == {v.as_of : v \in found}
<1>1. S \in SUBSET Nat /\ S # {}
  BY DEF Stored
<1>2. \E n \in S : \A k \in S : n <= k
  <2>. HIDE DEF S
  <2>. QED
    BY <1>1, Least
<1>3. OldestOf(found) = CHOOSE n \in S : \A k \in S : n <= k
  BY DEF OldestOf, Min
<1>. QED
  BY <1>1, <1>2, <1>3

LEMMA BackingStored ==
  ASSUME NEW values \in SUBSET Stored, NEW r, NEW ids, NEW bound, NEW ceiling
  PROVE  Backing(values, r, ids, bound, ceiling) \in SUBSET Stored
BY DEF Backing, Newest

(* A read of several entities has all of them behind it.                   *)
LEMMA AssembledHonestly ==
  ASSUME NEW found \in SUBSET Stored, NEW r \in Rule, NEW ids, NEW bound \in Nat
  PROVE  LET read == Assemble(found, r, ids, bound) IN
         IF read.status = "present"
         THEN /\ read.found # {}
              /\ \A v \in read.found :
                   v.value # Null /\ (r.staleness # NoLimit => bound - v.as_of <= r.staleness)
         ELSE read.value = Null
<1>. DEFINE read == Assemble(found, r, ids, bound)
            late == r.staleness # NoLimit /\ bound - OldestOf(found) > r.staleness
            nulls == \E v \in found : v.value = Null
<1>1. CASE found = {} \/ late \/ nulls
  <2>1. \/ read = Unread("absent", ids, found)
        \/ read = Unread("stale", ids, found)
    BY <1>1 DEF Assemble
  <2>2. read.status # "present" /\ read.value = Null
    <3>. HIDE DEF read
    <3>. QED
      BY <2>1 DEF Unread
  <2>. QED
    BY <2>2
<1>2. CASE found # {} /\ ~late /\ ~nulls
  <2>1. read.status = "present" /\ read.found = found
    BY <1>2 DEF Assemble
  <2>2. ASSUME NEW v \in found, r.staleness # NoLimit PROVE bound - v.as_of <= r.staleness
    <3>1. OldestOf(found) \in Nat /\ OldestOf(found) <= v.as_of
      BY <1>2, OldestIsOldest
    <3>2. v.as_of \in Nat /\ r.staleness \in Nat
      BY <2>2, RuleAssumption DEF Stored
    <3>3. ~(bound - OldestOf(found) > r.staleness)
      BY <1>2, <2>2
    <3>. QED
      BY <3>1, <3>2, <3>3
  <2>. HIDE DEF read
  <2>3. /\ read.status = "present" /\ read.found # {}
        /\ \A v \in read.found :
             v.value # Null /\ (r.staleness # NoLimit => bound - v.as_of <= r.staleness)
    BY <1>2, <2>1, <2>2
  <2>. QED
    BY <2>3 DEF read
<1>. QED
  BY <1>1, <1>2

(* A present value stands for every entity that has one, is no older than  *)
(* allowed and, where one entity is expected, is of one (engine/pit.py,    *)
(* _assemble; engine/resolver.py, _apply_fanout).                          *)
THEOREM HonestReads == ReadsSpec => []NothingLaundered
<1>1. ReadsInv => NothingLaundered
  <2>. SUFFICES ASSUME ReadsInv, NEW q \in Request, IsDecided(q),
                       NEW r \in DOMAIN decisions[q].reads
                PROVE  LET read == decisions[q].reads[r]
                       IN  IF read.status = "present"
                           THEN /\ read.found # {}
                                /\ r.fanout \in {"one", "error"} => Cardinality(read.ids) = 1
                                /\ \A v \in read.found :
                                     /\ v.value # Null
                                     /\ r.staleness # NoLimit => Bound(q, r) - v.as_of <= r.staleness
                           ELSE read.value = Null
    BY DEF NothingLaundered
  <2>. DEFINE walked == decisions[q].walked
              readings == decisions[q].reads
              resolution == Resolve(walked, graph, {q}, q, r)
              read == readings[r]
              ids == OwnIds(walked, graph, q, r)
  <2>1. graph \in Graph /\ Told(graph, q, walked, readings)
    BY DEF ReadsInv, Tables, KeptNow, Kept, Seen
  <2>2. WalkedFor(walked, graph, q)
    BY <2>1 DEF Told
  <2>3. PICK values \in SUBSET Stored : \E ceiling : readings = Reads(walked, values, graph, {q}, q, ceiling)
    BY <2>1 DEF Told
  <2>4. PICK ceiling : readings = Reads(walked, values, graph, {q}, q, ceiling)
    BY <2>3
  <2>. HIDE DEF walked
  <2>5. r \in RulesFor(q) /\ read = ReadOne(values, resolution, q, r, ceiling)
    BY <2>4 DEF Reads
  <2>6. r \in Rule /\ Bound(q, r) \in Nat
    BY <2>5, RuleAssumption, RequestAssumption DEF RulesFor, Bound
  <2>7. /\ resolution.ids = ids
        /\ resolution = IF PlanRoute(graph, q, r).route = NoRoute THEN Resolved("unresolvable", {})
                        ELSE Fanout(r, ids)
    <3>1. q \in {q}
      OBVIOUS
    <3>. QED
      BY <2>1, <2>2, <2>5, <3>1, ResolveAlone
  <2>8. read.ids = ids
    BY <2>5, <2>7, ReadIds
  <2>9. CASE resolution.status # "ok"
    <3>1. read = Unread(resolution.status, resolution.ids, {})
      BY <2>5, <2>9 DEF ReadOne
    <3>2. resolution.status \in {"unresolvable", "fanout_error"}
      <4>. HIDE DEF resolution
      <4>. QED
        BY <2>7, <2>9 DEF Fanout, Resolved
    <3>3. read.status # "present" /\ read.value = Null
      <4>. HIDE DEF read, resolution
      <4>. QED
        BY <3>1, <3>2 DEF Unread
    <3>. QED
      BY <3>3
  <2>10. CASE resolution.status = "ok"
    <3>. DEFINE found == Backing(values, r, resolution.ids, Bound(q, r), ceiling)
    <3>1. read = Assemble(found, r, resolution.ids, Bound(q, r))
      BY <2>5, <2>10 DEF ReadOne
    <3>2. found \in SUBSET Stored
      BY <2>3, BackingStored
    <3>3. IF read.status = "present"
          THEN /\ read.found # {}
               /\ \A v \in read.found :
                    v.value # Null /\ (r.staleness # NoLimit => Bound(q, r) - v.as_of <= r.staleness)
          ELSE read.value = Null
      <4>. HIDE DEF read, found, resolution
      <4>. QED
        BY <2>6, <3>1, <3>2, AssembledHonestly
    <3>4. ASSUME r.fanout \in {"one", "error"} PROVE Cardinality(read.ids) = 1
      <4>. HIDE DEF resolution, ids, read
      <4>1. PlanRoute(graph, q, r).route # NoRoute /\ resolution = Fanout(r, ids)
        BY <2>7, <2>10 DEF Resolved
      <4>2. ids # {} /\ ~(Cardinality(ids) > 1)
        BY <2>10, <3>4, <4>1 DEF Fanout, Resolved
      <4>3. IsFiniteSet(ids)
        <5>1. IsFiniteSet(Linked \cup Fixed)
          BY RowsAssumption, FS_Union
        <5>2. walked[GroupOf(PlanRoute(graph, q, r))] \in Seq(SUBSET (Linked \cup Fixed))
          BY <2>2, <2>5, <4>1, OwnGroups DEF WalkedFor, Rows
        <5>3. ids = Walk(walked[GroupOf(PlanRoute(graph, q, r))], PlanRoute(graph, q, r).root.id)
          BY <4>1 DEF ids, OwnIds
        <5>. QED
          BY <5>1, <5>2, <5>3, WalkFinite
      <4>4. Cardinality(ids) \in Nat /\ Cardinality(ids) # 0
        BY <4>2, <4>3, FS_CardinalityType, FS_EmptySet
      <4>. QED
        BY <2>8, <4>2, <4>4
    <3>. HIDE DEF read, found
    <3>5. QED
      BY <3>3, <3>4 DEF read
  <2>. QED
    BY <2>9, <2>10
<1>. QED
  BY <1>1, ReadsInvCorrect, PTL

----------------------------------------------------------------------------
(* Exposure.                                                               *)

(* What happens after the ceilings of all rules happens after pit_bound_at.*)
LEMMA PitBoundIsOne ==
  ASSUME NEW q \in Request
  PROVE  PitBound(q) = q.at \/ \E r \in RulesFor(q) : PitBound(q) = q.at + r.lag
<1>. DEFINE bounds == {Bound(q, r) : r \in RulesFor(q)}
            S == {q.at} \cup bounds
<1>1. S \in SUBSET Nat /\ S # {}
  BY RuleAssumption, RequestAssumption DEF RulesFor, Bound
<1>2. IsFiniteSet(bounds)
  <2>1. IsFiniteSet(RulesFor(q))
    BY RuleAssumption, FS_Subset DEF RulesFor
  <2>. DEFINE f == [r \in RulesFor(q) |-> Bound(q, r)]
  <2>2. f \in Surjection(RulesFor(q), bounds)
    BY DEF Surjection
  <2>. HIDE DEF f, bounds
  <2>. QED
    BY <2>1, <2>2, FS_Surjection
<1>3. IsFiniteSet(S)
  <2>. HIDE DEF bounds
  <2>. QED
    BY <1>2, FS_Singleton, FS_Union
<1>4. \E n \in S : \A k \in S : n >= k
  <2>. HIDE DEF S
  <2>1. \E n \in S : \A k \in S : k <= n
    BY <1>1, <1>3, Greatest
  <2>. QED
    BY <1>1, <2>1
<1>5. PitBound(q) = CHOOSE n \in S : \A k \in S : n >= k
  BY DEF PitBound, Max
<1>6. PitBound(q) \in S
  <2>. HIDE DEF S
  <2>. QED
    BY <1>4, <1>5
<1>. QED
  BY <1>6 DEF Bound

(* The exposure of a decision is what it would be today, whatever was      *)
(* recorded since that happened after the ceilings of its rules, while the *)
(* members are those it saw (engine/exposure.py).                          *)
THEOREM ExposureFixed == ReadsSpec => []ExposureOfAnInstant
<1>1. ReadsInv => ExposureOfAnInstant
  <2>. SUFFICES ASSUME ReadsInv, NEW q \in Request, IsDecided(q), decisions[q].accounts = AtStake(q),
                       \A t \in transactions \ decisions[q].recorded :
                         t.at > q.at /\ \A r \in RulesFor(q) : t.at > q.at + r.lag
                PROVE  decisions[q].exposure = Exposure(q)
    BY DEF ExposureOfAnInstant
  <2>. DEFINE d == decisions[q]
  <2>1. d.recorded \subseteq transactions /\ d.exposure = Amounts(MovedOf(q, d.accounts, d.recorded))
    BY DEF ReadsInv, KeptNow, Kept, Paid
  <2>2. \A t \in transactions : t.at \in Nat /\ t \in Movement
    BY MovementAssumption DEF ReadsInv, Tables
  <2>3. \A t \in transactions \ d.recorded : t.at > PitBound(q)
    BY <2>2, PitBoundIsOne
  <2>4. PitBound(q) \in Nat /\ q.at \in Nat
    BY PitBoundIsOne, RequestAssumption, RuleAssumption DEF RulesFor
  <2>5. Moved(q) = MovedOf(q, AtStake(q), transactions)
    BY DEF Moved, MovedOf
  <2>6. MovedOf(q, AtStake(q), transactions) = MovedOf(q, AtStake(q), d.recorded)
    <3>1. CASE q.subject.type = "transaction"
      <4>1. \A t \in transactions \ d.recorded : t.id # q.subject.id
        BY <2>2, <2>4, <3>1, MovementAssumption
      <4>. QED
        BY <2>1, <3>1, <4>1 DEF MovedOf
    <3>2. CASE q.subject.type # "transaction"
      <4>1. \A t \in transactions \ d.recorded : ~(t.at <= PitBound(q))
        BY <2>2, <2>3, <2>4
      <4>. QED
        BY <2>1, <3>2, <4>1 DEF MovedOf
    <3>. QED
      BY <3>1, <3>2
  <2>. QED
    BY <2>1, <2>5, <2>6 DEF Exposure
<1>. QED
  BY <1>1, ReadsInvCorrect, PTL

----------------------------------------------------------------------------
(* The order in which a breadth-first search reaches paths.                *)

Before(p, q) ==
  \/ Len(p) < Len(q)
  \/ Len(p) = Len(q) /\ \E i \in 1 .. Len(p) : p[i] < q[i] /\ \A j \in 1 .. i - 1 : p[j] = q[j]

LEMMA BeforeIrreflexive == ASSUME NEW p \in Seq(Nat) PROVE ~Before(p, p)
BY DEF Before

LEMMA LessThenAtMost ==
  ASSUME NEW a \in Nat, NEW b \in Nat, NEW c \in Nat, a < b, b <= c
  PROVE  a < c
OBVIOUS

LEMMA BeforeTransitive ==
  ASSUME NEW p \in Seq(Nat), NEW q \in Seq(Nat), NEW r \in Seq(Nat), Before(p, q), Before(q, r)
  PROVE  Before(p, r)
<1>1. Len(p) \in Nat /\ Len(q) \in Nat /\ Len(r) \in Nat
  OBVIOUS
<1>2. CASE Len(p) < Len(q) \/ Len(q) < Len(r)
  BY <1>1, <1>2 DEF Before
<1>3. CASE ~(Len(p) < Len(q) \/ Len(q) < Len(r))
  <2>1. Len(p) = Len(q) /\ Len(q) = Len(r)
    BY <1>3 DEF Before
  <2>2. PICK i \in 1 .. Len(p) : p[i] < q[i] /\ \A j \in 1 .. i - 1 : p[j] = q[j]
    BY <1>3 DEF Before
  <2>3. PICK k \in 1 .. Len(p) : q[k] < r[k] /\ \A j \in 1 .. k - 1 : q[j] = r[j]
    BY <1>3, <2>1 DEF Before
  <2>0. p \in [1 .. Len(p) -> Nat] /\ q \in [1 .. Len(q) -> Nat] /\ r \in [1 .. Len(r) -> Nat]
    OBVIOUS
  <2>4. \A j \in 1 .. Len(p) : p[j] \in Nat /\ q[j] \in Nat /\ r[j] \in Nat
    BY <2>0, <2>1
  <2>5. CASE i <= k
    <3>0. q[i] <= r[i]
      <4>1. CASE i = k
        BY <2>3, <2>4, <4>1
      <4>2. CASE i < k
        <5>1. i \in 1 .. k - 1
          BY <1>1, <4>2
        <5>2. q[i] = r[i]
          BY <2>3, <5>1
        <5>3. r[i] \in Nat
          BY <2>4
        <5>. QED
          BY <5>2, <5>3
      <4>. QED
        BY <1>1, <2>5, <4>1, <4>2
    <3>1. p[i] < r[i]
      <4>1. p[i] \in Nat /\ q[i] \in Nat /\ r[i] \in Nat /\ p[i] < q[i]
        BY <2>2, <2>4
      <4>. QED
        BY <3>0, <4>1, LessThenAtMost
    <3>2. \A j \in 1 .. i - 1 : p[j] = r[j]
      BY <1>1, <2>2, <2>3, <2>5
    <3>. QED
      BY <2>1, <3>1, <3>2 DEF Before
  <2>6. CASE k < i
    <3>1. p[k] < r[k]
      BY <1>1, <2>2, <2>3, <2>4, <2>6
    <3>2. \A j \in 1 .. k - 1 : p[j] = r[j]
      BY <1>1, <2>2, <2>3, <2>6
    <3>. QED
      BY <2>1, <3>1, <3>2 DEF Before
  <2>. QED
    BY <1>1, <2>5, <2>6
<1>. QED
  BY <1>2, <1>3

LEMMA BeforeTotal ==
  ASSUME NEW p \in Seq(Nat), NEW q \in Seq(Nat)
  PROVE  p = q \/ Before(p, q) \/ Before(q, p)
<1>1. Len(p) \in Nat /\ Len(q) \in Nat
  OBVIOUS
<1>2. CASE Len(p) # Len(q)
  BY <1>1, <1>2 DEF Before
<1>3. CASE Len(p) = Len(q) /\ p # q
  <2>. DEFINE D == {i \in 1 .. Len(p) : p[i] # q[i]}
  <2>1. D \in SUBSET Nat /\ D # {}
    <3>1. D \in SUBSET Nat
      OBVIOUS
    <3>2. ASSUME D = {} PROVE FALSE
      <4>1. Len(p) = Len(q) /\ \A i \in 1 .. Len(p) : p[i] = q[i]
        BY <1>3, <3>2
      <4>2. p = q
        BY <4>1, SeqEqual
      <4>. QED
        BY <1>3, <4>2
    <3>. QED
      BY <3>1, <3>2
  <2>2. PICK i \in D : \A k \in D : i <= k
    <3>. HIDE DEF D
    <3>. QED
      BY <2>1, Least
  <2>3. \A j \in 1 .. i - 1 : p[j] = q[j]
    BY <1>1, <2>2
  <2>4. i \in 1 .. Len(p) /\ p[i] # q[i] /\ p[i] \in Nat /\ q[i] \in Nat
    BY <1>3, <2>2
  <2>5. CASE p[i] < q[i]
    BY <1>3, <2>3, <2>4, <2>5 DEF Before
  <2>6. CASE q[i] < p[i]
    <3>1. \A j \in 1 .. i - 1 : q[j] = p[j]
      BY <2>3
    <3>. QED
      BY <1>3, <3>1, <2>4, <2>6 DEF Before
  <2>. QED
    BY <2>4, <2>5, <2>6
<1>. QED
  BY <1>2, <1>3

LEMMA BeforeAppended ==
  ASSUME NEW p \in Seq(Nat), NEW q \in Seq(Nat), NEW a \in Nat, NEW b \in Nat, Before(p, q)
  PROVE  Before(Append(p, a), Append(q, b))
<1>1. /\ Len(p) \in Nat /\ Len(q) \in Nat
      /\ Len(Append(p, a)) = Len(p) + 1 /\ Len(Append(q, b)) = Len(q) + 1
  OBVIOUS
<1>2. CASE Len(p) < Len(q)
  BY <1>1, <1>2 DEF Before
<1>3. CASE ~(Len(p) < Len(q))
  <2>1. PICK i \in 1 .. Len(p) : p[i] < q[i] /\ \A j \in 1 .. i - 1 : p[j] = q[j]
    BY <1>3 DEF Before
  <2>2. Len(p) = Len(q)
    BY <1>3 DEF Before
  <2>3. \A j \in 1 .. Len(p) : Append(p, a)[j] = p[j] /\ Append(q, b)[j] = q[j]
    <3>1. \A j \in 1 .. Len(p) : Append(p, a)[j] = p[j]
      OBVIOUS
    <3>2. \A j \in 1 .. Len(q) : Append(q, b)[j] = q[j]
      OBVIOUS
    <3>. QED
      BY <2>2, <3>1, <3>2
  <2>4. Append(p, a)[i] < Append(q, b)[i] /\ \A j \in 1 .. i - 1 : Append(p, a)[j] = Append(q, b)[j]
    <3>1. Append(p, a)[i] < Append(q, b)[i]
      BY <2>1, <2>3
    <3>2. ASSUME NEW j \in 1 .. i - 1 PROVE Append(p, a)[j] = Append(q, b)[j]
      <4>1. j \in 1 .. Len(p)
        BY <1>1
      <4>. QED
        BY <2>1, <2>3, <4>1
    <3>. QED
      BY <3>1, <3>2
  <2>5. i \in 1 .. Len(Append(p, a))
    BY <1>1
  <2>. QED
    BY <1>1, <2>2, <2>4, <2>5 DEF Before
<1>. QED
  BY <1>2, <1>3

LEMMA BeforeLast ==
  ASSUME NEW p \in Seq(Nat), NEW a \in Nat, NEW b \in Nat, a < b
  PROVE  Before(Append(p, a), Append(p, b))
<1>1. /\ Len(p) \in Nat
      /\ Len(Append(p, a)) = Len(p) + 1 /\ Len(Append(p, b)) = Len(p) + 1
      /\ Append(p, a)[Len(p) + 1] = a /\ Append(p, b)[Len(p) + 1] = b
      /\ \A j \in 1 .. Len(p) : Append(p, a)[j] = p[j] /\ Append(p, b)[j] = p[j]
  OBVIOUS
<1>. DEFINE i == Len(p) + 1
            x == Append(p, a)
            y == Append(p, b)
<1>. HIDE DEF x, y
<1>2. i \in 1 .. Len(x) /\ x[i] < y[i] /\ \A j \in 1 .. i - 1 : x[j] = y[j]
  BY <1>1 DEF x, y
<1>. QED
  BY <1>1, <1>2 DEF Before, x, y

LEMMA BeforeLonger ==
  ASSUME NEW p \in Seq(Nat), NEW a \in Nat
  PROVE  Before(p, Append(p, a))
BY DEF Before

LEMMA BeforeLength ==
  ASSUME NEW p \in Seq(Nat), NEW q \in Seq(Nat), Before(p, q)
  PROVE  Len(p) <= Len(q) /\ q # <<>>
<1>1. Len(p) \in Nat /\ Len(q) \in Nat
  OBVIOUS
<1>2. q = <<>> => Len(q) = 0
  OBVIOUS
<1>. QED
  BY <1>1, <1>2 DEF Before

----------------------------------------------------------------------------
(* Paths of edges.                                                         *)

Leads(edges, from, p, v) ==
  /\ p \in Seq(Nat)
  /\ \A i \in 1 .. Len(p) : \E e \in edges : e.id = p[i]
  /\ \A i \in 1 .. Len(p) :
       EdgeOf(edges, p[i]).from = IF i = 1 THEN from ELSE EdgeOf(edges, p[i - 1]).to
  /\ v = IF p = <<>> THEN from ELSE EdgeOf(edges, p[Len(p)]).to

LEMMA EdgeById ==
  ASSUME NEW edges \in Catalogs, NEW e \in edges
  PROVE  EdgeOf(edges, e.id) = e
BY CatalogsAssumption DEF EdgeOf

LEMMA EdgeFields ==
  ASSUME NEW edges \in Catalogs
  PROVE  /\ edges \in SUBSET Edge /\ IsFiniteSet(edges)
         /\ \A e \in edges : e.id \in Nat /\ e.id # 0 /\ e.from \in Type /\ e.to \in Type
         /\ \A e, f \in edges : e.id = f.id => e = f
BY CatalogsAssumption DEF Edge

LEMMA LeadsNowhere ==
  ASSUME NEW edges, NEW from
  PROVE  Leads(edges, from, <<>>, from)
BY DEF Leads

LEMMA LeadsOnce ==
  ASSUME NEW edges, NEW from, NEW p, NEW u, NEW v, Leads(edges, from, p, u), Leads(edges, from, p, v)
  PROVE  u = v
BY DEF Leads

LEMMA LeadsOn ==
  ASSUME NEW edges \in Catalogs, NEW from, NEW p, NEW e \in edges, Leads(edges, from, p, e.from)
  PROVE  Leads(edges, from, Append(p, e.id), e.to)
<1>. DEFINE q == Append(p, e.id)
<1>1. p \in Seq(Nat) /\ e.id \in Nat
  BY EdgeFields DEF Leads
<1>2. /\ q \in Seq(Nat) /\ q # <<>> /\ Len(p) \in Nat /\ Len(q) = Len(p) + 1 /\ q[Len(p) + 1] = e.id
      /\ \A i \in 1 .. Len(p) : q[i] = p[i]
  BY <1>1
<1>. HIDE DEF q
<1>3. \A i \in 1 .. Len(q) : \E f \in edges : f.id = q[i]
  <2>1. ASSUME NEW i \in 1 .. Len(q) PROVE \E f \in edges : f.id = q[i]
    <3>1. CASE i = Len(p) + 1
      BY <1>2, <3>1
    <3>2. CASE i # Len(p) + 1
      <4>1. i \in 1 .. Len(p)
        BY <1>2, <3>2
      <4>. QED
        BY <1>2, <4>1 DEF Leads
    <3>. QED
      BY <3>1, <3>2
  <2>. QED
    BY <2>1
<1>4. ASSUME NEW i \in 1 .. Len(q)
      PROVE  EdgeOf(edges, q[i]).from = IF i = 1 THEN from ELSE EdgeOf(edges, q[i - 1]).to
  <2>1. CASE i = Len(p) + 1
    <3>1. EdgeOf(edges, q[i]) = e
      BY <1>2, <2>1, EdgeById
    <3>2. CASE p = <<>>
      <4>1. i = 1 /\ e.from = from
        BY <2>1, <3>2 DEF Leads
      <4>. QED
        BY <3>1, <4>1
    <3>3. CASE p # <<>>
      <4>1. Len(p) # 0 /\ e.from = EdgeOf(edges, p[Len(p)]).to
        BY <1>1, <3>3 DEF Leads
      <4>2. i # 1 /\ q[i - 1] = p[Len(p)]
        BY <1>2, <2>1, <4>1
      <4>. QED
        BY <3>1, <4>1, <4>2
    <3>. QED
      BY <3>2, <3>3
  <2>2. CASE i # Len(p) + 1
    <3>1. i \in 1 .. Len(p) /\ (i # 1 => i - 1 \in 1 .. Len(p))
      BY <1>2, <2>2
    <3>2. q[i] = p[i] /\ (i # 1 => q[i - 1] = p[i - 1])
      BY <1>2, <3>1
    <3>. QED
      BY <3>1, <3>2 DEF Leads
  <2>. QED
    BY <2>1, <2>2
<1>5. EdgeOf(edges, q[Len(q)]).to = e.to
  BY <1>2, EdgeById
<1>. QED
  BY <1>2, <1>3, <1>4, <1>5 DEF Leads, q

(* How a path that is not empty ends.                                      *)
Ends(edges, from, q, p, e) ==
  /\ e \in edges /\ Leads(edges, from, p, e.from)
  /\ p \in Seq(Nat) /\ q = Append(p, e.id) /\ Len(q) = Len(p) + 1

LEMMA LeadsSplit ==
  ASSUME NEW edges \in Catalogs, NEW from, NEW q, NEW v, Leads(edges, from, q, v), q # <<>>
  PROVE  \E p : \E e : Ends(edges, from, q, p, e) /\ e.to = v
<1>. DEFINE n == Len(q)
            p == [i \in 1 .. n - 1 |-> q[i]]
            e == EdgeOf(edges, q[n])
<1>1. q \in Seq(Nat) /\ n \in Nat /\ n # 0
  BY DEF Leads
<1>2. n \in 1 .. n
  BY <1>1
<1>3. PICK f \in edges : f.id = q[n]
  BY <1>2 DEF Leads
<1>4. e = f /\ e \in edges /\ e.id = q[n]
  BY <1>3, EdgeById
<1>5. p \in Seq(Nat) /\ Len(p) = n - 1 /\ \A i \in 1 .. n - 1 : p[i] = q[i]
  BY <1>1
<1>6. q = Append(p, q[n])
  <2>1. Append(p, q[n]) \in Seq(Nat) /\ Len(Append(p, q[n])) = n
    BY <1>1, <1>5
  <2>2. \A i \in 1 .. n : Append(p, q[n])[i] = q[i]
    <3>1. ASSUME NEW i \in 1 .. n PROVE Append(p, q[n])[i] = q[i]
      <4>. HIDE DEF p
      <4>. QED
        BY <1>1, <1>5
    <3>. QED
      BY <3>1
  <2>3. q = [i \in 1 .. n |-> q[i]] /\ Append(p, q[n]) = [i \in 1 .. n |-> Append(p, q[n])[i]]
    <3>. HIDE DEF p
    <3>. QED
      BY <1>1, <2>1
  <2>. HIDE DEF p, n
  <2>. QED
    BY <2>2, <2>3
<1>7. e.to = v
  BY <1>1 DEF Leads
<1>. HIDE DEF p, e, n
<1>8. Leads(edges, from, p, e.from)
  <2>1. \A i \in 1 .. Len(p) : \E x \in edges : x.id = p[i]
    <3>1. ASSUME NEW i \in 1 .. Len(p) PROVE \E x \in edges : x.id = p[i]
      <4>1. i \in 1 .. Len(q) /\ p[i] = q[i]
        BY <1>1, <1>5 DEF n
      <4>. QED
        BY <4>1 DEF Leads
    <3>. QED
      BY <3>1
  <2>2. ASSUME NEW i \in 1 .. Len(p)
        PROVE  EdgeOf(edges, p[i]).from = IF i = 1 THEN from ELSE EdgeOf(edges, p[i - 1]).to
    <3>1. i \in 1 .. Len(q) /\ p[i] = q[i] /\ (i # 1 => p[i - 1] = q[i - 1])
      BY <1>1, <1>5 DEF n
    <3>. QED
      BY <3>1 DEF Leads
  <2>3. e.from = IF p = <<>> THEN from ELSE EdgeOf(edges, p[Len(p)]).to
    <3>1. e.from = IF n = 1 THEN from ELSE EdgeOf(edges, q[n - 1]).to
      BY <1>2 DEF Leads, e, n
    <3>2. p = <<>> <=> n = 1
      BY <1>1, <1>5
    <3>3. n # 1 => p[Len(p)] = q[n - 1]
      BY <1>1, <1>5
    <3>. QED
      BY <3>1, <3>2, <3>3
  <2>. QED
    BY <1>5, <2>1, <2>2, <2>3 DEF Leads
<1>9. Len(q) = Len(p) + 1
  BY <1>1, <1>5 DEF n
<1>10. Ends(edges, from, q, p, e)
  BY <1>4, <1>5, <1>6, <1>8, <1>9 DEF Ends
<1>. QED
  BY <1>7, <1>10

LEMMA RoutesLead ==
  ASSUME NEW edges \in Catalogs, NEW from, NEW to, NEW n \in Nat \ {0}, NEW p
  PROVE  p \in Routes(edges, from, to, n) <=> Leads(edges, from, p, to) /\ Len(p) = n
<1>. DEFINE ids == {e.id : e \in edges}
<1>1. ids \in SUBSET Nat
  BY EdgeFields
<1>2. 1 \in 1 .. n /\ n \in 1 .. n /\ \A i \in 2 .. n : i \in 1 .. n /\ i # 1
  OBVIOUS
<1>3. ASSUME p \in Routes(edges, from, to, n) PROVE Leads(edges, from, p, to) /\ Len(p) = n
  <2>1. /\ p \in [1 .. n -> ids]
        /\ EdgeOf(edges, p[1]).from = from /\ EdgeOf(edges, p[n]).to = to
        /\ \A i \in 2 .. n : EdgeOf(edges, p[i]).from = EdgeOf(edges, p[i - 1]).to
    BY <1>3 DEF Routes
  <2>2. p \in Seq(Nat) /\ Len(p) = n /\ p # <<>>
    <3>1. p \in [1 .. n -> Nat]
      <4>. HIDE DEF ids
      <4>. QED
        BY <1>1, <2>1
    <3>2. p \in Seq(Nat) /\ Len(p) = n
      BY <3>1
    <3>. QED
      BY <3>2
  <2>3. \A i \in 1 .. n : \E e \in edges : e.id = p[i]
    BY <2>1
  <2>4. ASSUME NEW i \in 1 .. n
        PROVE  EdgeOf(edges, p[i]).from = IF i = 1 THEN from ELSE EdgeOf(edges, p[i - 1]).to
    <3>1. i # 1 => i \in 2 .. n
      OBVIOUS
    <3>. QED
      BY <2>1, <3>1
  <2>. QED
    BY <2>1, <2>2, <2>3, <2>4 DEF Leads
<1>4. ASSUME Leads(edges, from, p, to), Len(p) = n PROVE p \in Routes(edges, from, to, n)
  <2>1. /\ p \in Seq(Nat) /\ p # <<>>
        /\ \A i \in 1 .. n : \E e \in edges : e.id = p[i]
        /\ \A i \in 1 .. n :
             EdgeOf(edges, p[i]).from = IF i = 1 THEN from ELSE EdgeOf(edges, p[i - 1]).to
        /\ EdgeOf(edges, p[n]).to = to
    <3>1. p \in Seq(Nat) /\ p # <<>>
      BY <1>4 DEF Leads
    <3>. QED
      BY <1>4, <3>1 DEF Leads
  <2>2. p \in [1 .. n -> ids]
    <3>1. p \in [1 .. n -> Nat]
      BY <1>4, <2>1
    <3>2. \A i \in 1 .. n : p[i] \in ids
      BY <2>1
    <3>. HIDE DEF ids
    <3>. QED
      BY <3>1, <3>2
  <2>. QED
    BY <1>2, <2>1, <2>2 DEF Routes
<1>. QED
  BY <1>3, <1>4

----------------------------------------------------------------------------
(* Breadth first: what a search knows after every step.  found holds the   *)
(* path by which each type that was seen was first reached.                *)

Passed(s, p, e) ==
  \/ s.queue = <<>>
  \/ Before(p, Head(s.queue).path)
  \/ p = Head(s.queue).path /\ e \notin s.left

NotAfter(p, q) == p = q \/ Before(p, q)

Found(edges, from, found, s) ==
  /\ found \in [Type -> Seq(Nat)] /\ from \in s.seen
  /\ \A v \in s.seen : Leads(edges, from, found[v], v) /\ Len(found[v]) <= MAX_DEPTH

Queued(found, s) ==
  \A i \in 1 .. Len(s.queue) :
    s.queue[i].node \in s.seen /\ s.queue[i].path = found[s.queue[i].node]

InTurn(s) ==
  \A i, j \in 1 .. Len(s.queue) : i < j => Before(s.queue[i].path, s.queue[j].path)

(* Every edge behind the head of the queue has been looked at, and what it *)
(* leads to was reached by a path that is no later.                        *)
Explored(edges, from, to, found, s) ==
  \A p \in Seq(Nat) : \A e \in edges :
    Leads(edges, from, p, e.from) /\ Len(p) < MAX_DEPTH /\ Passed(s, p, e) =>
      e.to # to /\ e.to \in s.seen /\ NotAfter(found[e.to], Append(p, e.id))

Pending(found, s) ==
  s.queue # <<>> => \A v \in s.seen :
    \/ Before(found[v], Head(s.queue).path)
    \/ \E i \in 1 .. Len(s.queue) : s.queue[i].node = v

(* What the queue holds comes before whatever will still be appended.      *)
Fringe(s) ==
  s.queue # <<>> => \A i \in 1 .. Len(s.queue) :
    /\ \A p \in Seq(Nat) : \A x \in Nat :
         Before(Head(s.queue).path, p) => Before(s.queue[i].path, Append(p, x))
    /\ \A e \in s.left : Before(s.queue[i].path, Append(Head(s.queue).path, e.id))

BreadthFirst(edges, from, to, found, s) ==
  /\ s \in SearchState(edges) /\ s.route = NoRoute /\ to \notin s.seen
  /\ Found(edges, from, found, s)
  /\ Queued(found, s)
  /\ InTurn(s)
  /\ Explored(edges, from, to, found, s)
  /\ Pending(found, s)
  /\ Fringe(s)
  /\ s.left \in SUBSET Ahead(edges, s.queue)

LEMMA QueueHead ==
  ASSUME NEW edges, NEW s \in SearchState(edges), s.queue # <<>>
  PROVE  /\ Head(s.queue) = s.queue[1] /\ Head(s.queue) \in EntryShape
         /\ Head(s.queue).path \in Seq(Nat)
         /\ Len(s.queue) \in Nat \ {0} /\ 1 \in 1 .. Len(s.queue)
         /\ Tail(s.queue) \in Seq(EntryShape) /\ Len(Tail(s.queue)) = Len(s.queue) - 1
         /\ \A i \in 1 .. Len(s.queue) - 1 : Tail(s.queue)[i] = s.queue[i + 1]
<1>1. s.queue \in Seq(EntryShape)
  BY DEF SearchState
<1>. DEFINE q == s.queue
<1>2. q \in Seq(EntryShape) /\ q # <<>>
  BY <1>1
<1>. HIDE DEF q
<1>3. Head(q) = q[1] /\ Len(q) \in Nat \ {0} /\ 1 \in 1 .. Len(q)
  BY <1>2
<1>4. Head(q) \in EntryShape /\ Tail(q) \in Seq(EntryShape) /\ Len(Tail(q)) = Len(q) - 1
  BY <1>2
<1>5. \A i \in 1 .. Len(q) - 1 : Tail(q)[i] = q[i + 1]
  BY <1>2
<1>6. Head(q).path \in Seq(Nat)
  BY <1>4 DEF EntryShape
<1>. QED
  BY <1>3, <1>4, <1>5, <1>6 DEF q

LEMMA QueueShape ==
  ASSUME NEW edges, NEW s \in SearchState(edges)
  PROVE  \A i \in 1 .. Len(s.queue) : s.queue[i].path \in Seq(Nat) /\ s.queue[i].node \in Type
<1>1. s.queue \in Seq(EntryShape)
  BY DEF SearchState
<1>. DEFINE q == s.queue
<1>2. q \in Seq(EntryShape)
  BY <1>1
<1>. HIDE DEF q
<1>3. \A i \in 1 .. Len(q) : q[i] \in EntryShape
  BY <1>2
<1>. QED
  BY <1>3 DEF q, EntryShape

LEMMA BreadthFirstStart ==
  ASSUME NEW edges \in Catalogs, NEW from \in Type, NEW to, from # to
  PROVE  \E found : BreadthFirst(edges, from, to, found, Start(edges, from))
<1>. DEFINE s == Start(edges, from)
            found == [v \in Type |-> <<>>]
            first == Entry(from, <<>>)
<1>1. s \in SearchState(edges)
  BY EdgeFields, StartShape
<1>2. s.queue = <<first>> /\ s.left = Ahead(edges, s.queue) /\ s.seen = {from} /\ s.route = NoRoute
  BY DEF Start
<1>3. first.node = from /\ first.path = <<>>
  BY DEF Entry
<1>4. Len(s.queue) = 1 /\ s.queue[1] = first /\ Head(s.queue) = first /\ s.queue # <<>>
  BY <1>2
<1>. HIDE DEF s, first
<1>5. /\ <<>> \in Seq(Nat) /\ Len(<<>>) = 0 /\ found \in [Type -> Seq(Nat)] /\ found[from] = <<>>
  OBVIOUS
<1>6. 1 .. Len(s.queue) = {1}
  BY <1>4
<1>. HIDE DEF found
<1>7. Found(edges, from, found, s)
  BY <1>2, <1>5, LeadsNowhere DEF Found, MAX_DEPTH
<1>8. Queued(found, s)
  BY <1>2, <1>3, <1>4, <1>5, <1>6 DEF Queued
<1>9. InTurn(s)
  BY <1>6 DEF InTurn
<1>10. \A p \in Seq(Nat) : ~Before(p, <<>>)
  BY <1>5, BeforeLength
<1>11. Explored(edges, from, to, found, s)
  <2>. SUFFICES ASSUME NEW p \in Seq(Nat), NEW e \in edges, Leads(edges, from, p, e.from),
                       Len(p) < MAX_DEPTH, Passed(s, p, e)
                PROVE  FALSE
    BY DEF Explored
  <2>1. p = <<>> /\ e \notin s.left
    BY <1>3, <1>4, <1>10 DEF Passed
  <2>2. e.from = from
    BY <2>1 DEF Leads
  <2>3. e \in Ahead(edges, s.queue)
    BY <1>3, <1>4, <1>5, <2>2 DEF Ahead, MAX_DEPTH
  <2>. QED
    BY <1>2, <2>1, <2>3
<1>12. Pending(found, s)
  BY <1>2, <1>3, <1>4, <1>6 DEF Pending
<1>13. Fringe(s)
  <2>1. ASSUME NEW p \in Seq(Nat), NEW x \in Nat
        PROVE  Before(<<>>, Append(p, x))
    <3>1. Len(Append(p, x)) = Len(p) + 1 /\ Len(p) \in Nat
      OBVIOUS
    <3>. QED
      BY <1>5, <3>1 DEF Before
  <2>2. \A e \in s.left : e.id \in Nat
    BY <1>1, EdgeFields DEF SearchState
  <2>. QED
    BY <1>3, <1>4, <1>5, <1>6, <2>1, <2>2 DEF Fringe
<1>14. BreadthFirst(edges, from, to, found, s)
  BY <1>1, <1>2, <1>7, <1>8, <1>9, <1>11, <1>12, <1>13 DEF BreadthFirst
<1>. QED
  BY <1>14 DEF s

(* An entry that is first in the queue makes way for the next.             *)
LEMMA PopleftKeeps ==
  ASSUME NEW edges \in Catalogs, NEW from \in Type, NEW to, NEW found, NEW s,
         BreadthFirst(edges, from, to, found, s), s.queue # <<>>, s.left = {}
  PROVE  BreadthFirst(edges, from, to, found, Popleft(edges, s))
<1>. DEFINE t == Popleft(edges, s)
            h == Head(s.queue).path
            k == Head(t.queue).path
<1>1. s \in SearchState(edges) /\ s.route = NoRoute
  BY DEF BreadthFirst
<1>2. /\ t.queue = Tail(s.queue) /\ t.left = Ahead(edges, t.queue)
      /\ t.seen = s.seen /\ t.route = s.route
  BY <1>1 DEF Popleft, SearchState
<1>3. t \in SearchState(edges)
  <2>1. t = SearchStep(edges, to, s)
    BY <1>1 DEF SearchStep
  <2>. QED
    BY <1>1, <2>1, EdgeFields, StepShape
<1>. HIDE DEF t
<1>4. /\ Head(s.queue) = s.queue[1] /\ h \in Seq(Nat)
      /\ Len(s.queue) \in Nat \ {0} /\ 1 \in 1 .. Len(s.queue)
      /\ Len(t.queue) = Len(s.queue) - 1
      /\ \A i \in 1 .. Len(s.queue) - 1 : t.queue[i] = s.queue[i + 1]
  BY <1>1, <1>2, QueueHead
<1>5. t.queue # <<>> => /\ k \in Seq(Nat) /\ Head(t.queue) = t.queue[1]
                        /\ Len(t.queue) \in Nat \ {0} /\ 1 \in 1 .. Len(t.queue)
  BY <1>3, QueueHead
<1>6. \A i \in 1 .. Len(t.queue) : i + 1 \in 1 .. Len(s.queue) /\ t.queue[i] = s.queue[i + 1]
  BY <1>4
<1>7. \A i \in 1 .. Len(s.queue) : i # 1 => i - 1 \in 1 .. Len(t.queue) /\ t.queue[i - 1] = s.queue[i]
  BY <1>4
<1>8. /\ Found(edges, from, found, s) /\ Queued(found, s) /\ InTurn(s)
      /\ Explored(edges, from, to, found, s) /\ Pending(found, s) /\ Fringe(s)
  BY DEF BreadthFirst
<1>9. \A i \in 1 .. Len(s.queue) : s.queue[i].path \in Seq(Nat)
  BY <1>1, QueueShape
<1>10. \A i \in 1 .. Len(t.queue) : Before(h, t.queue[i].path)
  <2>1. ASSUME NEW i \in 1 .. Len(t.queue) PROVE Before(s.queue[1].path, s.queue[i + 1].path)
    <3>1. 1 < i + 1 /\ i + 1 \in 1 .. Len(s.queue)
      BY <1>4, <1>6
    <3>. QED
      BY <1>4, <1>8, <3>1 DEF InTurn
  <2>. QED
    BY <1>4, <1>6, <2>1
<1>11. Found(edges, from, found, t)
  BY <1>2, <1>8 DEF Found
<1>12. Queued(found, t)
  BY <1>2, <1>6, <1>8 DEF Queued
<1>13. InTurn(t)
  <2>1. ASSUME NEW i \in 1 .. Len(t.queue), NEW j \in 1 .. Len(t.queue), i < j
        PROVE  Before(t.queue[i].path, t.queue[j].path)
    <3>1. i + 1 < j + 1
      BY <1>4, <2>1
    <3>. QED
      BY <1>6, <1>8, <3>1 DEF InTurn
  <2>. QED
    BY <2>1 DEF InTurn
<1>14. \A v \in s.seen : found[v] \in Seq(Nat) /\ Leads(edges, from, found[v], v)
  BY <1>8 DEF Found, Leads
<1>15. Pending(found, t)
  <2>. SUFFICES ASSUME t.queue # <<>>, NEW v \in s.seen
                PROVE  Before(found[v], k) \/ \E i \in 1 .. Len(t.queue) : t.queue[i].node = v
    BY <1>2 DEF Pending
  <2>1. Before(h, k)
    BY <1>5, <1>10
  <2>2. CASE Before(found[v], h)
    BY <1>4, <1>5, <1>14, <2>1, <2>2, BeforeTransitive
  <2>3. ASSUME NEW i \in 1 .. Len(s.queue), s.queue[i].node = v
        PROVE  Before(found[v], k) \/ \E j \in 1 .. Len(t.queue) : t.queue[j].node = v
    <3>1. CASE i = 1
      BY <1>4, <1>8, <2>1, <2>3, <3>1 DEF Queued
    <3>2. CASE i # 1
      BY <1>7, <2>3, <3>2
    <3>. QED
      BY <3>1, <3>2
  <2>. QED
    BY <1>8, <2>2, <2>3 DEF Pending
<1>16. Fringe(t)
  <2>. SUFFICES ASSUME t.queue # <<>>, NEW i \in 1 .. Len(t.queue)
                PROVE  /\ \A p \in Seq(Nat) : \A x \in Nat :
                            Before(k, p) => Before(t.queue[i].path, Append(p, x))
                       /\ \A e \in t.left : Before(t.queue[i].path, Append(k, e.id))
    BY DEF Fringe
  <2>1. Before(h, k) /\ k \in Seq(Nat)
    BY <1>5, <1>10
  <2>2. \A p \in Seq(Nat) : \A x \in Nat : Before(h, p) => Before(t.queue[i].path, Append(p, x))
    BY <1>6, <1>8 DEF Fringe
  <2>3. \A p \in Seq(Nat) : Before(k, p) => Before(h, p)
    BY <1>4, <2>1, BeforeTransitive
  <2>4. \A e \in t.left : e.id \in Nat
    BY <1>3, EdgeFields DEF SearchState
  <2>. QED
    BY <2>1, <2>2, <2>3, <2>4
<1>17. \A p \in Seq(Nat) : \A e \in edges : p = h => Passed(s, p, e)
  BY DEF Passed
<1>18. \A p \in Seq(Nat) : \A e \in edges : Before(p, h) => Passed(s, p, e)
  BY DEF Passed
<1>. DEFINE Beyond(p) == t.queue = <<>> \/ Before(p, k)
<1>19. \A i \in 1 .. Len(t.queue) : t.queue # <<>> /\ (t.queue[i].path = k \/ Before(k, t.queue[i].path))
  <2>1. ASSUME NEW i \in 1 .. Len(t.queue)
        PROVE  t.queue # <<>> /\ (t.queue[i].path = k \/ Before(k, t.queue[i].path))
    <3>1. t.queue # <<>>
      <4>1. Len(<<>>) = 0
        OBVIOUS
      <4>. QED
        BY <1>4, <4>1
    <3>2. CASE i = 1
      BY <1>5, <3>1, <3>2
    <3>3. CASE i # 1
      <4>1. 1 < i /\ 1 \in 1 .. Len(t.queue)
        BY <1>4, <3>3
      <4>. QED
        BY <1>5, <1>13, <3>1, <4>1 DEF InTurn
    <3>. QED
      BY <3>1, <3>2, <3>3
  <2>. QED
    BY <2>1
(* What was found by a path that the queue has left behind was passed.     *)
<1>20. ASSUME NEW v \in s.seen, Beyond(found[v])
       PROVE  Before(found[v], h) \/ found[v] = h
  <2>1. ASSUME NEW i \in 1 .. Len(s.queue), s.queue[i].node = v PROVE found[v] = h
    <3>1. s.queue[i].path = found[v]
      BY <1>8, <2>1 DEF Queued
    <3>2. ASSUME i # 1 PROVE FALSE
      <4>1. i - 1 \in 1 .. Len(t.queue) /\ t.queue[i - 1].path = found[v]
        BY <1>7, <3>1, <3>2
      <4>2. t.queue # <<>> /\ (found[v] = k \/ Before(k, found[v])) /\ Before(found[v], k)
        BY <1>19, <1>20, <4>1
      <4>. QED
        BY <1>5, <1>14, <4>2, BeforeIrreflexive, BeforeTransitive
    <3>. QED
      BY <1>4, <3>1, <3>2
  <2>. QED
    BY <1>8, <2>1 DEF Pending
<1>. DEFINE Good(p, e) == e.to # to /\ e.to \in s.seen /\ NotAfter(found[e.to], Append(p, e.id))
            Covered(n) == \A p \in Seq(Nat) : \A e \in edges :
                            Leads(edges, from, p, e.from) /\ Len(p) < MAX_DEPTH /\ Len(p) = n /\ Beyond(p)
                              => Good(p, e)
            T == {n \in Nat : Covered(n)}
<1>21. \A p \in Seq(Nat) : \A e \in edges :
         Leads(edges, from, p, e.from) /\ Len(p) < MAX_DEPTH /\ (p = h \/ Before(p, h)) => Good(p, e)
  BY <1>8, <1>17, <1>18 DEF Explored
<1>22. 0 \in T
  <2>. SUFFICES ASSUME NEW p \in Seq(Nat), NEW e \in edges, Leads(edges, from, p, e.from),
                       Len(p) < MAX_DEPTH, Len(p) = 0, Beyond(p)
                PROVE  Good(p, e)
    OBVIOUS
  <2>1. p = <<>> /\ <<>> \in Seq(Nat)
    OBVIOUS
  <2>2. p = h \/ Before(p, h)
    BY <1>4, <2>1, BeforeTotal, BeforeLength
  <2>. HIDE DEF Good
  <2>. QED
    BY <1>21, <2>2
<1>23. ASSUME NEW n \in Nat, n \in T PROVE n + 1 \in T
  <2>. SUFFICES ASSUME NEW p \in Seq(Nat), NEW e \in edges, Leads(edges, from, p, e.from),
                       Len(p) < MAX_DEPTH, Len(p) = n + 1, Beyond(p)
                PROVE  Good(p, e)
    OBVIOUS
  <2>1. CASE p = h \/ Before(p, h)
    <3>. HIDE DEF Good
    <3>. QED
      BY <1>21, <2>1
  <2>2. CASE ~(p = h \/ Before(p, h))
    <3>1. Before(h, p)
      BY <1>4, <2>2, BeforeTotal
    <3>2. p # <<>>
      BY <1>4, <3>1, BeforeLength
    <3>3. PICK r, f : Ends(edges, from, p, r, f) /\ f.to = e.from
      BY <3>2, LeadsSplit
    <3>4. /\ f \in edges /\ Leads(edges, from, r, f.from) /\ r \in Seq(Nat)
          /\ p = Append(r, f.id) /\ Len(p) = Len(r) + 1 /\ f.id \in Nat /\ e.id \in Nat
      BY <3>3, EdgeFields DEF Ends
    <3>5. Len(r) = n /\ Len(r) < MAX_DEPTH
      BY <3>4 DEF MAX_DEPTH
    <3>6. Beyond(r)
      <4>1. Before(r, p)
        BY <3>4, BeforeLonger
      <4>. QED
        BY <1>5, <3>4, <4>1, BeforeTransitive
    <3>7. Good(r, f)
      <4>. HIDE DEF Good, Beyond
      <4>. QED
        BY <1>23, <3>4, <3>5, <3>6
    <3>. DEFINE u == e.from
    <3>8. u \in s.seen /\ NotAfter(found[u], p)
      BY <3>3, <3>4, <3>7
    <3>. HIDE DEF u
    <3>9. found[u] \in Seq(Nat) /\ Leads(edges, from, found[u], u)
      BY <1>14, <3>8
    <3>10. Beyond(found[u])
      BY <1>5, <3>8, <3>9, BeforeTransitive DEF NotAfter
    <3>11. Before(found[u], h) \/ found[u] = h
      BY <1>20, <3>8, <3>10
    <3>12. found[u] # p
      BY <2>2, <3>11
    <3>13. Before(found[u], p)
      BY <3>8, <3>12 DEF NotAfter
    <3>14. Len(found[u]) < MAX_DEPTH
      <4>1. Len(found[u]) <= Len(p) /\ Len(found[u]) \in Nat /\ Len(p) \in Nat
        BY <3>9, <3>13, BeforeLength
      <4>. QED
        BY <4>1 DEF MAX_DEPTH
    <3>15. Good(found[u], e)
      <4>. HIDE DEF Good
      <4>. QED
        BY <1>21, <3>9, <3>11, <3>14 DEF u
    <3>16. Before(Append(found[u], e.id), Append(p, e.id))
      BY <3>4, <3>9, <3>13, BeforeAppended
    <3>17. found[e.to] \in Seq(Nat)
      BY <1>14, <3>15
    <3>18. Append(found[u], e.id) \in Seq(Nat) /\ Append(p, e.id) \in Seq(Nat)
      BY <3>4, <3>9
    <3>19. Before(found[e.to], Append(p, e.id))
      BY <3>15, <3>16, <3>17, <3>18, BeforeTransitive DEF NotAfter
    <3>. QED
      BY <3>15, <3>19 DEF NotAfter
  <2>. QED
    BY <2>1, <2>2
<1>24. \A n \in Nat : n \in T
  <2>. HIDE DEF T
  <2>. QED
    BY <1>22, <1>23, CountUp
<1>25. Explored(edges, from, to, found, t)
  <2>. SUFFICES ASSUME NEW p \in Seq(Nat), NEW e \in edges, Leads(edges, from, p, e.from),
                       Len(p) < MAX_DEPTH, Passed(t, p, e)
                PROVE  Good(p, e)
    BY <1>2 DEF Explored
  <2>1. CASE Beyond(p)
    <3>1. Len(p) \in Nat
      OBVIOUS
    <3>2. Covered(Len(p))
      BY <1>24, <3>1
    <3>. HIDE DEF Good, Beyond
    <3>. QED
      BY <2>1, <3>2
  <2>2. CASE ~Beyond(p)
    <3>1. t.queue # <<>> /\ p = k /\ e \notin t.left
      BY <2>2 DEF Passed
    <3>2. Leads(edges, from, k, Head(t.queue).node)
      BY <1>2, <1>5, <1>12, <1>14, <3>1 DEF Queued
    <3>3. e.from = Head(t.queue).node
      BY <3>1, <3>2, LeadsOnce
    <3>4. e \in Ahead(edges, t.queue)
      BY <3>1, <3>3 DEF Ahead
    <3>. QED
      BY <1>2, <3>1, <3>4
  <2>. QED
    BY <2>1, <2>2
<1>26. BreadthFirst(edges, from, to, found, t)
  BY <1>1, <1>2, <1>3, <1>11, <1>12, <1>13, <1>15, <1>16, <1>25 DEF BreadthFirst
<1>. QED
  BY <1>26 DEF t

(* The best a search can do: no other path to the type comes earlier.      *)
Best(edges, from, to, path) ==
  /\ Leads(edges, from, path, to) /\ path # <<>> /\ Len(path) <= MAX_DEPTH
  /\ \A p \in Seq(Nat) : Leads(edges, from, p, to) /\ Len(p) <= MAX_DEPTH => NotAfter(path, p)

LEMMA BeforeButLast ==
  ASSUME NEW p \in Seq(Nat), NEW q \in Seq(Nat), NEW a \in Nat, NEW b \in Nat,
         Before(Append(p, a), Append(q, b))
  PROVE  Before(p, q) \/ (p = q /\ a < b)
<1>1. Append(p, a) \in Seq(Nat) /\ Append(q, b) \in Seq(Nat)
  OBVIOUS
<1>2. ~Before(Append(q, b), Append(p, a))
  BY <1>1, BeforeIrreflexive, BeforeTransitive
<1>3. ~Before(q, p)
  BY <1>2, BeforeAppended
<1>4. ASSUME p = q PROVE a < b
  <2>1. a # b
    BY <1>1, <1>4, BeforeIrreflexive
  <2>2. ~(b < a)
    BY <1>2, <1>4, BeforeLast
  <2>. QED
    BY <2>1, <2>2
<1>5. p = q \/ Before(p, q)
  BY <1>3, BeforeTotal
<1>. QED
  BY <1>4, <1>5

(* The edge that is looked at, and the path it makes.                      *)
LEMMA LookedAt ==
  ASSUME NEW edges \in Catalogs, NEW from, NEW to, NEW found, NEW s,
         BreadthFirst(edges, from, to, found, s), s.queue # <<>>, s.left # {}, NEW e, e = First(s.left)
  PROVE  /\ e \in s.left /\ e \in edges /\ e.id \in Nat /\ e.id # 0 /\ e.to \in Type
         /\ \A f \in s.left : f # e => e.id < f.id /\ f.id \in Nat
         /\ e.from = Head(s.queue).node /\ e.from \in s.seen
         /\ Len(Head(s.queue).path) < MAX_DEPTH
         /\ Leads(edges, from, Head(s.queue).path, e.from)
<1>1. s \in SearchState(edges) /\ s.left \in SUBSET Ahead(edges, s.queue)
  BY DEF BreadthFirst
<1>2. s.left \in SUBSET Edge /\ s.left \in SUBSET edges
  BY <1>1, EdgeFields DEF SearchState
<1>3. e \in s.left /\ \A f \in s.left : e.id <= f.id
  BY <1>2, FirstOf
<1>4. e \in edges /\ e.id \in Nat /\ e.id # 0 /\ e.to \in Type
  BY <1>2, <1>3, EdgeFields
<1>5. \A f \in s.left : f # e => e.id < f.id /\ f.id \in Nat
  <2>1. ASSUME NEW f \in s.left, f # e PROVE e.id < f.id /\ f.id \in Nat
    <3>1. f \in edges /\ f.id \in Nat /\ f.id # e.id
      BY <1>2, <1>4, <2>1, EdgeFields
    <3>. QED
      BY <1>3, <1>4, <3>1
  <2>. QED
    BY <2>1
<1>6. e.from = Head(s.queue).node /\ Len(Head(s.queue).path) < MAX_DEPTH
  BY <1>1, <1>3 DEF Ahead
<1>7. 1 \in 1 .. Len(s.queue) /\ Head(s.queue) = s.queue[1]
  BY <1>1, QueueHead
<1>8. e.from \in s.seen /\ Head(s.queue).path = found[e.from]
  BY <1>6, <1>7 DEF BreadthFirst, Queued
<1>9. Leads(edges, from, Head(s.queue).path, e.from)
  BY <1>8 DEF BreadthFirst, Found
<1>. QED
  BY <1>3, <1>4, <1>5, <1>6, <1>8, <1>9

LEMMA LookFinds ==
  ASSUME NEW edges \in Catalogs, NEW from \in Type, NEW to, from # to, NEW found, NEW s,
         BreadthFirst(edges, from, to, found, s), s.queue # <<>>, s.left # {},
         First(s.left).to = to
  PROVE  /\ Best(edges, from, to, Look(to, s, First(s.left)).route)
         /\ Look(to, s, First(s.left)).route # NoRoute
<1>. DEFINE e == First(s.left)
            h == Head(s.queue).path
            path == Append(h, e.id)
<1>1. s \in SearchState(edges) /\ Explored(edges, from, to, found, s)
  BY DEF BreadthFirst
<1>2. Look(to, s, e).route = path
  BY <1>1 DEF Look, SearchState
<1>. HIDE DEF e
<1>3. /\ e \in s.left /\ e \in edges /\ e.id \in Nat /\ e.id # 0
      /\ \A f \in s.left : f # e => e.id < f.id /\ f.id \in Nat
      /\ Len(h) < MAX_DEPTH /\ Leads(edges, from, h, e.from)
  BY LookedAt DEF e
<1>4. e.to = to
  BY DEF e
<1>5. h \in Seq(Nat)
  BY <1>1, QueueHead
<1>. HIDE DEF h
<1>6. path \in Seq(Nat) /\ Len(path) = Len(h) + 1 /\ path # <<>> /\ path[Len(path)] = e.id
  BY <1>3, <1>5
<1>7. path # NoRoute
  <2>. HIDE DEF path
  <2>1. Len(<<0>>) = 1 /\ <<0>>[1] = 0
    OBVIOUS
  <2>. QED
    BY <1>3, <1>6, <2>1 DEF NoRoute
<1>8. Leads(edges, from, path, to)
  BY <1>3, <1>4, LeadsOn
<1>9. Len(path) <= MAX_DEPTH
  BY <1>3, <1>5, <1>6 DEF MAX_DEPTH
<1>. HIDE DEF path
<1>10. ASSUME NEW p \in Seq(Nat), Leads(edges, from, p, to), Len(p) <= MAX_DEPTH, Before(p, path)
       PROVE  FALSE
  <2>1. p # <<>>
    BY <1>10 DEF Leads
  <2>2. PICK r : \E f : Ends(edges, from, p, r, f) /\ f.to = to
    BY <1>10, <2>1, LeadsSplit
  <2>3. PICK f : Ends(edges, from, p, r, f) /\ f.to = to
    BY <2>2
  <2>4. /\ f \in edges /\ f.id \in Nat /\ r \in Seq(Nat) /\ p = Append(r, f.id)
        /\ Len(p) = Len(r) + 1 /\ Leads(edges, from, r, f.from)
    BY <2>3, EdgeFields DEF Ends
  <2>5. Len(r) < MAX_DEPTH
    BY <1>10, <2>4 DEF MAX_DEPTH
  <2>6. Before(r, h) \/ (r = h /\ f.id < e.id)
    BY <1>3, <1>5, <1>10, <2>4, BeforeButLast DEF path
  <2>7. r = h /\ f.id < e.id => f \notin s.left
    BY <1>3, <2>4
  <2>8. Passed(s, r, f)
    BY <2>6, <2>7 DEF Passed, h
  <2>. QED
    BY <1>1, <2>3, <2>4, <2>5, <2>8 DEF Explored
<1>11. ASSUME NEW p \in Seq(Nat), Leads(edges, from, p, to), Len(p) <= MAX_DEPTH
       PROVE  NotAfter(path, p)
  BY <1>6, <1>10, <1>11, BeforeTotal DEF NotAfter
<1>12. Best(edges, from, to, path)
  BY <1>6, <1>8, <1>9, <1>11 DEF Best
<1>. QED
  BY <1>2, <1>7, <1>12 DEF e

LEMMA LookKeeps ==
  ASSUME NEW edges \in Catalogs, NEW from \in Type, NEW to, from # to, NEW found, NEW s,
         BreadthFirst(edges, from, to, found, s), s.queue # <<>>, s.left # {},
         First(s.left).to # to
  PROVE  \E later : BreadthFirst(edges, from, to, later, Look(to, s, First(s.left)))
<1>. DEFINE e == First(s.left)
            h == Head(s.queue).path
            path == Append(h, e.id)
            t == Look(to, s, e)
            later == IF e.to \in s.seen THEN found ELSE [found EXCEPT ![e.to] = path]
<1>1. s \in SearchState(edges) /\ s.route = NoRoute /\ to \notin s.seen
  BY DEF BreadthFirst
<1>2. /\ Found(edges, from, found, s) /\ Queued(found, s) /\ InTurn(s)
      /\ Explored(edges, from, to, found, s) /\ Pending(found, s) /\ Fringe(s)
      /\ s.left \in SUBSET Ahead(edges, s.queue)
  BY DEF BreadthFirst
<1>3. t \in SearchState(edges)
  <2>1. t = SearchStep(edges, to, s)
    BY <1>1 DEF SearchStep
  <2>. QED
    BY <1>1, <2>1, EdgeFields, StepShape
<1>. HIDE DEF e
<1>4. e.to # to
  BY DEF e
<1>5. /\ t.queue = IF e.to \in s.seen THEN s.queue ELSE Append(s.queue, Entry(e.to, path))
      /\ t.left = s.left \ {e} /\ t.seen = s.seen \cup {e.to} /\ t.route = NoRoute
  BY <1>1, <1>4 DEF Look, SearchState
<1>6. /\ e \in s.left /\ e \in edges /\ e.id \in Nat /\ e.to \in Type
      /\ \A f \in s.left : f # e => e.id < f.id /\ f.id \in Nat
      /\ e.from = Head(s.queue).node
      /\ Len(h) < MAX_DEPTH /\ Leads(edges, from, h, e.from)
  BY LookedAt DEF e
<1>7. /\ Head(s.queue) = s.queue[1] /\ h \in Seq(Nat)
      /\ Len(s.queue) \in Nat \ {0} /\ 1 \in 1 .. Len(s.queue)
  BY <1>1, QueueHead
<1>8. \A i \in 1 .. Len(s.queue) : s.queue[i].path \in Seq(Nat) /\ s.queue[i].node \in Type
  BY <1>1, QueueShape
<1>. HIDE DEF t
<1>9. path \in Seq(Nat) /\ Len(path) = Len(h) + 1
  <2>. HIDE DEF h
  <2>. QED
    BY <1>6, <1>7
<1>. DEFINE new == Entry(e.to, path)
<1>10. new.node = e.to /\ new.path = path
  BY DEF Entry
<1>. HIDE DEF new
<1>11. /\ \A i \in 1 .. Len(s.queue) : i \in 1 .. Len(t.queue) /\ t.queue[i] = s.queue[i]
       /\ t.queue # <<>> /\ Head(t.queue) = Head(s.queue)
  <2>1. CASE e.to \in s.seen
    BY <1>5, <2>1
  <2>2. CASE e.to \notin s.seen
    <3>1. t.queue = Append(s.queue, new)
      BY <1>5, <2>2 DEF new
    <3>2. s.queue \in Seq(EntryShape) /\ t.queue \in Seq(EntryShape)
      BY <1>1, <1>3 DEF SearchState
    <3>3. Len(t.queue) = Len(s.queue) + 1 /\ \A i \in 1 .. Len(s.queue) : t.queue[i] = s.queue[i]
      BY <3>1, <3>2
    <3>4. t.queue # <<>> /\ Head(t.queue) = t.queue[1]
      BY <1>7, <3>2, <3>3
    <3>. QED
      BY <1>7, <3>3, <3>4
  <2>. QED
    BY <2>1, <2>2
(* An entry of the new queue is an old one or the new one, at the end.     *)
<1>12. \A i \in 1 .. Len(t.queue) :
         \/ i \in 1 .. Len(s.queue) /\ t.queue[i] = s.queue[i]
         \/ i = Len(s.queue) + 1 /\ t.queue[i] = new /\ e.to \notin s.seen
  <2>1. CASE e.to \in s.seen
    BY <1>5, <2>1
  <2>2. CASE e.to \notin s.seen
    <3>1. t.queue = Append(s.queue, new)
      BY <1>5, <2>2 DEF new
    <3>2. s.queue \in Seq(EntryShape) /\ t.queue \in Seq(EntryShape)
      BY <1>1, <1>3 DEF SearchState
    <3>3. Len(t.queue) = Len(s.queue) + 1 /\ t.queue[Len(s.queue) + 1] = new
      BY <3>1, <3>2
    <3>. QED
      BY <1>7, <1>11, <2>2, <3>3
  <2>. QED
    BY <2>1, <2>2
<1>13. found \in [Type -> Seq(Nat)] /\ \A v \in s.seen : Leads(edges, from, found[v], v) /\ found[v] \in Seq(Nat)
  BY <1>2 DEF Found, Leads
<1>14. later \in [Type -> Seq(Nat)] /\ \A v \in s.seen : later[v] = found[v]
  <2>. HIDE DEF path
  <2>. QED
    BY <1>6, <1>9, <1>13
<1>15. e.to \notin s.seen => later[e.to] = path
  <2>. HIDE DEF path
  <2>. QED
    BY <1>6, <1>13
<1>. HIDE DEF later
<1>16. Found(edges, from, later, t)
  <2>1. Leads(edges, from, path, e.to) /\ Len(path) <= MAX_DEPTH
    <3>1. Leads(edges, from, path, e.to)
      BY <1>6, LeadsOn
    <3>2. Len(path) <= MAX_DEPTH
      <4>. HIDE DEF path, h
      <4>. QED
        BY <1>6, <1>7, <1>9 DEF MAX_DEPTH
    <3>. QED
      BY <3>1, <3>2
  <2>. QED
    BY <1>2, <1>5, <1>14, <1>15, <2>1 DEF Found
<1>17. Queued(later, t)
  <2>1. ASSUME NEW i \in 1 .. Len(t.queue)
        PROVE  t.queue[i].node \in t.seen /\ t.queue[i].path = later[t.queue[i].node]
    <3>1. CASE i \in 1 .. Len(s.queue) /\ t.queue[i] = s.queue[i]
      <4>1. s.queue[i].node \in s.seen /\ s.queue[i].path = found[s.queue[i].node]
        BY <1>2, <3>1 DEF Queued
      <4>. QED
        BY <1>5, <1>14, <3>1, <4>1
    <3>2. CASE t.queue[i] = new /\ e.to \notin s.seen
      <4>. HIDE DEF path
      <4>. QED
        BY <1>5, <1>10, <1>15, <3>2
    <3>. QED
      BY <1>12, <3>1, <3>2
  <2>. QED
    BY <2>1 DEF Queued
<1>18. \A i \in 1 .. Len(s.queue) : Before(s.queue[i].path, path)
  BY <1>2, <1>6 DEF Fringe
<1>19. InTurn(t)
  <2>1. ASSUME NEW i \in 1 .. Len(t.queue), NEW j \in 1 .. Len(t.queue), i < j
        PROVE  Before(t.queue[i].path, t.queue[j].path)
    <3>1. i \in 1 .. Len(s.queue) /\ t.queue[i] = s.queue[i]
      BY <1>7, <1>12, <2>1
    <3>2. CASE j \in 1 .. Len(s.queue)
      BY <1>2, <1>11, <2>1, <3>1, <3>2 DEF InTurn
    <3>3. CASE j \notin 1 .. Len(s.queue)
      BY <1>10, <1>12, <1>18, <3>1, <3>3
    <3>. QED
      BY <3>2, <3>3
  <2>. QED
    BY <2>1 DEF InTurn
<1>20. Explored(edges, from, to, later, t)
  <2>. SUFFICES ASSUME NEW p \in Seq(Nat), NEW f \in edges, Leads(edges, from, p, f.from),
                       Len(p) < MAX_DEPTH, Passed(t, p, f)
                PROVE  f.to # to /\ f.to \in t.seen /\ NotAfter(later[f.to], Append(p, f.id))
    BY DEF Explored
  <2>1. CASE Passed(s, p, f)
    <3>1. f.to # to /\ f.to \in s.seen /\ NotAfter(found[f.to], Append(p, f.id))
      BY <1>2, <2>1 DEF Explored
    <3>. QED
      BY <1>5, <1>14, <3>1
  <2>2. CASE ~Passed(s, p, f)
    <3>1. p = h /\ f = e
      BY <1>5, <1>11, <2>2 DEF Passed
    <3>2. CASE e.to \notin s.seen
      BY <1>4, <1>5, <1>15, <3>1, <3>2 DEF NotAfter
    <3>3. CASE e.to \in s.seen
      <4>1. CASE Before(found[e.to], h)
        <5>1. Before(h, path)
          BY <1>6, <1>7, BeforeLonger
        <5>2. Before(found[e.to], path)
          BY <1>7, <1>9, <1>13, <3>3, <4>1, <5>1, BeforeTransitive
        <5>. QED
          BY <1>4, <1>5, <1>14, <3>1, <3>3, <5>2 DEF NotAfter
      <4>2. ASSUME NEW i \in 1 .. Len(s.queue), s.queue[i].node = e.to
            PROVE  Before(found[e.to], path)
        BY <1>2, <1>18, <4>2 DEF Queued
      <4>. QED
        BY <1>2, <1>4, <1>5, <1>14, <3>1, <3>3, <4>1, <4>2 DEF Pending, NotAfter
    <3>. QED
      BY <3>1, <3>2, <3>3
  <2>. QED
    BY <2>1, <2>2
<1>21. Pending(later, t)
  <2>1. ASSUME NEW v \in s.seen
        PROVE  \/ Before(later[v], Head(t.queue).path)
               \/ \E i \in 1 .. Len(t.queue) : t.queue[i].node = v
    BY <1>2, <1>11, <1>14 DEF Pending
  <2>2. e.to \notin s.seen => \E i \in 1 .. Len(t.queue) : t.queue[i].node = e.to
    <3>. SUFFICES ASSUME e.to \notin s.seen
                  PROVE  \E i \in 1 .. Len(t.queue) : t.queue[i].node = e.to
      OBVIOUS
    <3>1. t.queue = Append(s.queue, new) /\ s.queue \in Seq(EntryShape) /\ t.queue \in Seq(EntryShape)
      BY <1>1, <1>3, <1>5 DEF new, SearchState
    <3>2. Len(s.queue) + 1 \in 1 .. Len(t.queue) /\ t.queue[Len(s.queue) + 1] = new
      BY <3>1
    <3>. QED
      BY <1>10, <3>2
  <2>. QED
    BY <1>5, <2>1, <2>2 DEF Pending
<1>22. Fringe(t)
  <2>. SUFFICES ASSUME NEW i \in 1 .. Len(t.queue)
                PROVE  /\ \A p \in Seq(Nat) : \A x \in Nat :
                            Before(h, p) => Before(t.queue[i].path, Append(p, x))
                       /\ \A f \in t.left : Before(t.queue[i].path, Append(h, f.id))
    BY <1>11 DEF Fringe
  <2>1. CASE i \in 1 .. Len(s.queue)
    BY <1>2, <1>5, <1>11, <2>1 DEF Fringe
  <2>2. CASE i \notin 1 .. Len(s.queue)
    <3>1. t.queue[i].path = path
      BY <1>10, <1>12, <2>2
    <3>2. \A p \in Seq(Nat) : \A x \in Nat : Before(h, p) => Before(path, Append(p, x))
      BY <1>6, <1>7, BeforeAppended
    <3>3. \A f \in t.left : Before(path, Append(h, f.id))
      BY <1>5, <1>6, <1>7, BeforeLast
    <3>. QED
      BY <3>1, <3>2, <3>3
  <2>. QED
    BY <2>1, <2>2
<1>23. t.left \in SUBSET Ahead(edges, t.queue)
  BY <1>2, <1>5, <1>11 DEF Ahead
<1>24. to \notin t.seen
  BY <1>1, <1>4, <1>5
<1>25. BreadthFirst(edges, from, to, later, t)
  BY <1>3, <1>5, <1>16, <1>17, <1>19, <1>20, <1>21, <1>22, <1>23, <1>24 DEF BreadthFirst
<1>26. \E f : BreadthFirst(edges, from, to, f, t)
  BY <1>25
<1>. QED
  BY <1>26 DEF t, e

----------------------------------------------------------------------------
(* A search ends: every step uses up an edge, a type or an entry.          *)

(* The edges that can still be looked at.                                  *)
Open(edges, s) ==
  s.left \cup {e \in edges : \/ e.from \notin s.seen
                             \/ \E i \in 2 .. Len(s.queue) : s.queue[i].node = e.from}

Measure(edges, s) ==
  Cardinality(Open(edges, s)) + Cardinality(Type \ s.seen) + Len(s.queue)

LEMMA OpenFinite ==
  ASSUME NEW edges \in Catalogs, NEW s \in SearchState(edges)
  PROVE  /\ Open(edges, s) \in SUBSET edges /\ IsFiniteSet(Open(edges, s)) /\ IsFiniteSet(Type \ s.seen)
         /\ Cardinality(Open(edges, s)) \in Nat /\ Cardinality(Type \ s.seen) \in Nat
         /\ Len(s.queue) \in Nat /\ Measure(edges, s) \in Nat
<1>1. Open(edges, s) \in SUBSET edges
  BY DEF Open, SearchState
<1>2. IsFiniteSet(Open(edges, s)) /\ IsFiniteSet(Type \ s.seen)
  <2>1. IsFiniteSet(edges) /\ IsFiniteSet(Type) /\ Type \ s.seen \in SUBSET Type
    BY CatalogsAssumption
  <2>. QED
    BY <1>1, <2>1, FS_Subset
<1>3. Cardinality(Open(edges, s)) \in Nat /\ Cardinality(Type \ s.seen) \in Nat
  BY <1>2, FS_CardinalityType
<1>4. Len(s.queue) \in Nat
  <2>1. s.queue \in Seq(EntryShape)
    BY DEF SearchState
  <2>. QED
    BY <2>1, LenProperties
<1>5. Measure(edges, s) \in Nat
  BY <1>3, <1>4 DEF Measure
<1>. QED
  BY <1>1, <1>2, <1>3, <1>4, <1>5

LEMMA OneLess ==
  ASSUME NEW S, IsFiniteSet(S), NEW x \in S
  PROVE  IsFiniteSet(S \ {x}) /\ Cardinality(S \ {x}) = Cardinality(S) - 1
BY FS_RemoveElement

LEMMA MeasureStart ==
  ASSUME NEW edges \in Catalogs, NEW from \in Type
  PROVE  Measure(edges, Start(edges, from)) <= Steps(edges)
<1>. DEFINE s == Start(edges, from)
<1>1. s \in SearchState(edges)
  BY EdgeFields, StartShape
<1>2. Len(s.queue) = 1 /\ s.seen = {from}
  BY DEF Start
<1>. HIDE DEF s
<1>3. Open(edges, s) \in SUBSET edges /\ IsFiniteSet(edges) /\ IsFiniteSet(Type)
  BY <1>1, OpenFinite, CatalogsAssumption
<1>4. Cardinality(Open(edges, s)) <= Cardinality(edges)
  BY <1>3, FS_Subset
<1>5. Cardinality(Type \ s.seen) = Cardinality(Type) - 1
  BY <1>2, <1>3, FS_RemoveElement
<1>6. Cardinality(edges) \in Nat /\ Cardinality(Type) \in Nat /\ Cardinality(Open(edges, s)) \in Nat
  BY <1>1, <1>3, OpenFinite, FS_CardinalityType
<1>. QED
  BY <1>2, <1>4, <1>5, <1>6 DEF Measure, Steps, s

LEMMA PopleftMeasure ==
  ASSUME NEW edges \in Catalogs, NEW from, NEW to, NEW found, NEW s,
         BreadthFirst(edges, from, to, found, s), s.queue # <<>>, s.left = {}
  PROVE  Measure(edges, Popleft(edges, s)) + 1 <= Measure(edges, s)
<1>. DEFINE t == Popleft(edges, s)
<1>1. s \in SearchState(edges) /\ s.route = NoRoute
  BY DEF BreadthFirst
<1>2. t.queue = Tail(s.queue) /\ t.left = Ahead(edges, t.queue) /\ t.seen = s.seen
  BY <1>1 DEF Popleft, SearchState
<1>3. t \in SearchState(edges)
  <2>1. t = SearchStep(edges, to, s)
    BY <1>1 DEF SearchStep
  <2>. QED
    BY <1>1, <2>1, EdgeFields, StepShape
<1>. HIDE DEF t
<1>4. /\ Len(s.queue) \in Nat \ {0} /\ Len(t.queue) = Len(s.queue) - 1
      /\ \A i \in 1 .. Len(s.queue) - 1 : t.queue[i] = s.queue[i + 1]
  BY <1>1, <1>2, QueueHead
<1>5. ASSUME NEW e \in Open(edges, t) PROVE e \in Open(edges, s)
  <2>0. e \in edges
    BY <1>3, OpenFinite
  <2>1. CASE e \in t.left
    <3>1. t.queue # <<>> /\ e.from = Head(t.queue).node
      BY <1>2, <2>1 DEF Ahead
    <3>2. 1 \in 1 .. Len(t.queue) /\ Head(t.queue) = t.queue[1]
      BY <1>3, <3>1, QueueHead
    <3>3. 2 \in 2 .. Len(s.queue) /\ t.queue[1] = s.queue[2]
      BY <1>4, <3>2
    <3>. QED
      BY <2>0, <3>1, <3>2, <3>3 DEF Open
  <2>2. CASE e.from \notin s.seen
    BY <2>0, <2>2 DEF Open
  <2>3. ASSUME NEW i \in 2 .. Len(t.queue), t.queue[i].node = e.from
        PROVE  e \in Open(edges, s)
    <3>1. i + 1 \in 2 .. Len(s.queue) /\ t.queue[i] = s.queue[i + 1]
      BY <1>4
    <3>. QED
      BY <2>0, <2>3, <3>1 DEF Open
  <2>. QED
    BY <1>2, <1>5, <2>1, <2>2, <2>3 DEF Open
<1>6. Open(edges, t) \in SUBSET Open(edges, s) /\ IsFiniteSet(Open(edges, s))
  BY <1>1, <1>5, OpenFinite
<1>7. Cardinality(Open(edges, t)) <= Cardinality(Open(edges, s))
  BY <1>6, FS_Subset
<1>8. /\ Cardinality(Open(edges, t)) \in Nat /\ Cardinality(Open(edges, s)) \in Nat
      /\ Cardinality(Type \ s.seen) \in Nat
  BY <1>1, <1>3, OpenFinite
<1>. QED
  BY <1>2, <1>4, <1>7, <1>8 DEF Measure, t

LEMMA ThreeLess ==
  ASSUME NEW a \in Nat, NEW b \in Nat, NEW l \in Nat, NEW a1 \in Nat, NEW b1 \in Nat, NEW l1 \in Nat,
         a1 <= a - 1, b1 + l1 <= b + l
  PROVE  a1 + b1 + l1 + 1 <= a + b + l
OBVIOUS

LEMMA LookMeasure ==
  ASSUME NEW edges \in Catalogs, NEW from \in Type, NEW to, from # to, NEW found, NEW s,
         BreadthFirst(edges, from, to, found, s), s.queue # <<>>, s.left # {},
         First(s.left).to # to
  PROVE  Measure(edges, Look(to, s, First(s.left))) + 1 <= Measure(edges, s)
<1>. DEFINE e == First(s.left)
            path == Append(Head(s.queue).path, e.id)
            t == Look(to, s, e)
<1>1. s \in SearchState(edges) /\ s.route = NoRoute
  BY DEF BreadthFirst
<1>2. t \in SearchState(edges)
  <2>1. t = SearchStep(edges, to, s)
    BY <1>1 DEF SearchStep
  <2>. QED
    BY <1>1, <2>1, EdgeFields, StepShape
<1>3. /\ e \in s.left /\ e \in edges /\ e.to \in Type
      /\ e.from = Head(s.queue).node /\ e.from \in s.seen
  BY LookedAt
<1>4. /\ t.queue = IF e.to \in s.seen THEN s.queue ELSE Append(s.queue, Entry(e.to, path))
      /\ t.left = s.left \ {e} /\ t.seen = s.seen \cup {e.to}
  BY <1>1 DEF Look, SearchState
<1>. HIDE DEF e, t
<1>. DEFINE new == Entry(e.to, path)
<1>5. new.node = e.to
  BY DEF Entry
<1>. HIDE DEF new
<1>6. s.queue \in Seq(EntryShape) /\ t.queue \in Seq(EntryShape)
  BY <1>1, <1>2 DEF SearchState
<1>7. e.to \notin s.seen =>
        /\ Len(t.queue) = Len(s.queue) + 1 /\ t.queue[Len(s.queue) + 1] = new
        /\ \A i \in 1 .. Len(s.queue) : t.queue[i] = s.queue[i]
  <2>. SUFFICES ASSUME e.to \notin s.seen
                PROVE  /\ Len(t.queue) = Len(s.queue) + 1 /\ t.queue[Len(s.queue) + 1] = new
                       /\ \A i \in 1 .. Len(s.queue) : t.queue[i] = s.queue[i]
    OBVIOUS
  <2>1. t.queue = Append(s.queue, new)
    BY <1>4 DEF new
  <2>. QED
    BY <1>6, <2>1
<1>8. /\ Head(s.queue) = s.queue[1] /\ Len(s.queue) \in Nat \ {0} /\ 1 \in 1 .. Len(s.queue)
  BY <1>1, QueueHead
(* The type at the head of the queue is nowhere else in it.                *)
<1>9. \A i \in 2 .. Len(s.queue) : s.queue[i].node # e.from
  <2>1. ASSUME NEW i \in 2 .. Len(s.queue), s.queue[i].node = e.from PROVE FALSE
    <3>1. i \in 1 .. Len(s.queue) /\ 1 < i
      BY <1>8
    <3>2. s.queue[i].path = found[e.from] /\ s.queue[1].path = found[e.from]
      BY <1>3, <1>8, <2>1, <3>1 DEF BreadthFirst, Queued
    <3>3. Before(s.queue[1].path, s.queue[i].path) /\ s.queue[1].path \in Seq(Nat)
      BY <1>1, <1>8, <3>1, QueueShape DEF BreadthFirst, InTurn
    <3>. QED
      BY <3>2, <3>3, BeforeIrreflexive
  <2>. QED
    BY <2>1
<1>10. ASSUME NEW f \in Open(edges, t) PROVE f \in Open(edges, s) /\ f # e
  <2>0. f \in edges
    BY <1>2, OpenFinite
  <2>1. CASE f \in t.left
    BY <1>4, <2>1 DEF Open
  <2>2. CASE f.from \notin t.seen
    BY <1>3, <1>4, <2>0, <2>2 DEF Open
  <2>3. ASSUME NEW i \in 2 .. Len(t.queue), t.queue[i].node = f.from
        PROVE  f \in Open(edges, s) /\ f # e
    <3>1. CASE e.to \notin s.seen /\ i = Len(s.queue) + 1
      <4>1. f.from = e.to
        BY <1>5, <1>7, <2>3, <3>1
      <4>. QED
        BY <1>3, <2>0, <3>1, <4>1 DEF Open
    <3>2. CASE ~(e.to \notin s.seen /\ i = Len(s.queue) + 1)
      <4>1. i \in 2 .. Len(s.queue) /\ t.queue[i] = s.queue[i]
        BY <1>4, <1>7, <1>8, <3>2
      <4>. QED
        BY <1>9, <2>0, <2>3, <4>1 DEF Open
    <3>. QED
      BY <3>1, <3>2
  <2>. QED
    BY <1>10, <2>1, <2>2, <2>3 DEF Open
<1>11. e \in Open(edges, s)
  BY <1>3 DEF Open
<1>12. Cardinality(Open(edges, t)) <= Cardinality(Open(edges, s)) - 1
  <2>1. IsFiniteSet(Open(edges, s))
    BY <1>1, OpenFinite
  <2>2. /\ IsFiniteSet(Open(edges, s) \ {e})
        /\ Cardinality(Open(edges, s) \ {e}) = Cardinality(Open(edges, s)) - 1
    BY <1>11, <2>1, FS_RemoveElement
  <2>3. Open(edges, t) \in SUBSET (Open(edges, s) \ {e})
    BY <1>10
  <2>4. Cardinality(Open(edges, t)) <= Cardinality(Open(edges, s) \ {e})
    BY <2>2, <2>3, FS_Subset
  <2>. QED
    BY <2>2, <2>4
<1>13. /\ Cardinality(Open(edges, t)) \in Nat /\ Cardinality(Open(edges, s)) \in Nat
       /\ Cardinality(Type \ s.seen) \in Nat /\ Cardinality(Type \ t.seen) \in Nat
       /\ IsFiniteSet(Type \ s.seen)
  BY <1>1, <1>2, OpenFinite
<1>14. Cardinality(Type \ t.seen) + Len(t.queue) <= Cardinality(Type \ s.seen) + Len(s.queue)
  <2>1. CASE e.to \in s.seen
    <3>1. t.seen = s.seen /\ t.queue = s.queue
      BY <1>4, <2>1
    <3>. QED
      BY <1>8, <1>13, <3>1
  <2>2. CASE e.to \notin s.seen
    <3>1. Type \ t.seen = (Type \ s.seen) \ {e.to} /\ e.to \in Type \ s.seen
      BY <1>3, <1>4, <2>2
    <3>2. Cardinality(Type \ t.seen) = Cardinality(Type \ s.seen) - 1
      BY <1>13, <3>1, OneLess
    <3>. QED
      BY <1>7, <1>8, <1>13, <2>2, <3>2
  <2>. QED
    BY <2>1, <2>2
<1>15. Len(t.queue) \in Nat
  BY <1>6, LenProperties
<1>16. Measure(edges, t) + 1 <= Measure(edges, s)
  <2>. HIDE DEF t, e
  <2>1. Measure(edges, t) = Cardinality(Open(edges, t)) + Cardinality(Type \ t.seen) + Len(t.queue)
    BY DEF Measure
  <2>2. Measure(edges, s) = Cardinality(Open(edges, s)) + Cardinality(Type \ s.seen) + Len(s.queue)
    BY DEF Measure
  <2>. QED
    BY <1>8, <1>12, <1>13, <1>14, <1>15, <2>1, <2>2, ThreeLess
<1>. QED
  BY <1>16 DEF t, e

----------------------------------------------------------------------------
(* The search as a whole.                                                  *)

(* After n steps.                                                          *)
Searching(edges, from, to, s, n) ==
  IF s.route = NoRoute
  THEN /\ \E found : BreadthFirst(edges, from, to, found, s)
       /\ s.queue = <<>> \/ n + Measure(edges, s) <= Steps(edges)
  ELSE Best(edges, from, to, s.route)

LEMMA SearchingStep ==
  ASSUME NEW edges \in Catalogs, NEW from \in Type, NEW to, from # to, NEW s, NEW n \in Nat,
         Searching(edges, from, to, s, n)
  PROVE  Searching(edges, from, to, SearchStep(edges, to, s), n + 1)
<1>. DEFINE t == SearchStep(edges, to, s)
<1>1. CASE s.queue = <<>> \/ s.route # NoRoute
  <2>1. t = s
    BY <1>1 DEF SearchStep
  <2>. QED
    BY <1>1, <2>1 DEF Searching
<1>2. CASE s.queue # <<>> /\ s.route = NoRoute
  <2>1. PICK found : BreadthFirst(edges, from, to, found, s)
    BY <1>2 DEF Searching
  <2>2. n + Measure(edges, s) <= Steps(edges)
    BY <1>2 DEF Searching
  <2>3. s \in SearchState(edges) /\ Measure(edges, s) \in Nat /\ Steps(edges) \in Nat
    BY <2>1, OpenFinite, StepsShape, EdgeFields DEF BreadthFirst
  <2>4. ASSUME NEW after, BreadthFirst(edges, from, to, after, t),
               Measure(edges, t) + 1 <= Measure(edges, s)
        PROVE  Searching(edges, from, to, t, n + 1)
    <3>1. t.route = NoRoute /\ t \in SearchState(edges)
      BY <2>4 DEF BreadthFirst
    <3>2. Measure(edges, t) \in Nat
      BY <3>1, OpenFinite
    <3>3. (n + 1) + Measure(edges, t) <= Steps(edges)
      <4>. HIDE DEF t
      <4>. QED
        BY <2>2, <2>3, <2>4, <3>2
    <3>. HIDE DEF t
    <3>. QED
      BY <2>4, <3>1, <3>3 DEF Searching
  <2>5. CASE s.left = {}
    <3>1. t = Popleft(edges, s)
      BY <1>2, <2>5 DEF SearchStep
    <3>2. BreadthFirst(edges, from, to, found, t)
      BY <1>2, <2>1, <2>5, <3>1, PopleftKeeps
    <3>3. Measure(edges, t) + 1 <= Measure(edges, s)
      BY <1>2, <2>1, <2>5, <3>1, PopleftMeasure
    <3>. HIDE DEF t
    <3>. QED
      BY <2>4, <3>2, <3>3 DEF t
  <2>6. CASE s.left # {}
    <3>1. t = Look(to, s, First(s.left))
      BY <1>2, <2>6 DEF SearchStep
    <3>. HIDE DEF t
    <3>2. CASE First(s.left).to = to
      <4>1. Best(edges, from, to, t.route) /\ t.route # NoRoute
        BY <1>2, <2>1, <2>6, <3>1, <3>2, LookFinds
      <4>. QED
        BY <4>1 DEF Searching, t
    <3>3. CASE First(s.left).to # to
      <4>1. \E later : BreadthFirst(edges, from, to, later, t)
        BY <1>2, <2>1, <2>6, <3>1, <3>3, LookKeeps
      <4>2. Measure(edges, t) + 1 <= Measure(edges, s)
        BY <1>2, <2>1, <2>6, <3>1, <3>3, LookMeasure
      <4>. QED
        BY <2>4, <4>1, <4>2 DEF t
    <3>. QED
      BY <3>2, <3>3 DEF t
  <2>. QED
    BY <2>5, <2>6
<1>. QED
  BY <1>1, <1>2

(* A search finds the best path there is, and if it finds none there is    *)
(* none within the depth limit.                                            *)
Settled(edges, from, to, path) ==
  IF path = NoRoute
  THEN \A p \in Seq(Nat) : Leads(edges, from, p, to) => Len(p) > MAX_DEPTH
  ELSE Best(edges, from, to, path)

LEMMA SearchSettles ==
  ASSUME NEW edges \in Catalogs, NEW from \in Type, NEW to, from # to
  PROVE  Settled(edges, from, to, Search(edges, from, to))
<1>. DEFINE g == After(edges, from, to)
            N == Steps(edges)
<1>1. edges \in SUBSET Edge /\ IsFiniteSet(edges)
  BY EdgeFields
<1>2. /\ Search(edges, from, to) = g[N].route /\ g[0] = Start(edges, from)
      /\ \A n \in 1 .. N : g[n] = SearchStep(edges, to, g[n - 1])
      /\ \A n \in 0 .. N : g[n] \in SearchState(edges)
  BY <1>1, SearchSteps
<1>3. N \in Nat
  BY <1>1, StepsShape
<1>. HIDE DEF g, N
<1>. DEFINE T == {n \in Nat : n <= N => Searching(edges, from, to, g[n], n)}
<1>4. 0 \in T
  <2>1. \E found : BreadthFirst(edges, from, to, found, g[0])
    BY <1>2, BreadthFirstStart
  <2>2. g[0].route = NoRoute
    BY <2>1 DEF BreadthFirst
  <2>3. Measure(edges, g[0]) <= N /\ Measure(edges, g[0]) \in Nat
    <3>1. 0 \in 0 .. N
      BY <1>3
    <3>. QED
      BY <1>2, <3>1, MeasureStart, OpenFinite DEF N
  <2>4. 0 + Measure(edges, g[0]) <= N
    BY <2>3
  <2>. QED
    BY <2>1, <2>2, <2>4 DEF Searching, N
<1>5. ASSUME NEW n \in Nat, n \in T PROVE n + 1 \in T
  <2>. SUFFICES ASSUME n + 1 <= N PROVE Searching(edges, from, to, g[n + 1], n + 1)
    OBVIOUS
  <2>1. Searching(edges, from, to, g[n], n)
    BY <1>3, <1>5
  <2>2. n + 1 \in 1 .. N /\ (n + 1) - 1 = n
    BY <1>3
  <2>3. g[n + 1] = SearchStep(edges, to, g[n])
    BY <1>2, <2>2
  <2>. QED
    BY <2>1, <2>3, SearchingStep
<1>6. \A n \in Nat : n \in T
  <2>. HIDE DEF T
  <2>. QED
    BY <1>4, <1>5, CountUp
<1>7. Searching(edges, from, to, g[N], N)
  BY <1>3, <1>6
<1>8. CASE g[N].route # NoRoute
  BY <1>2, <1>7, <1>8 DEF Searching, Settled
<1>9. CASE g[N].route = NoRoute
  <2>1. PICK found : BreadthFirst(edges, from, to, found, g[N])
    BY <1>7, <1>9 DEF Searching
  <2>2. g[N].queue = <<>>
    <3>. SUFFICES ASSUME g[N].queue # <<>> PROVE FALSE
      OBVIOUS
    <3>1. N + Measure(edges, g[N]) <= N
      BY <1>7, <1>9 DEF Searching, N
    <3>2. g[N] \in SearchState(edges)
      BY <2>1 DEF BreadthFirst
    <3>3. /\ Cardinality(Open(edges, g[N])) \in Nat /\ Cardinality(Type \ g[N].seen) \in Nat
          /\ Len(g[N].queue) \in Nat \ {0}
      BY <3>2, OpenFinite, QueueHead
    <3>. QED
      BY <1>3, <3>1, <3>3 DEF Measure
  <2>3. ASSUME NEW p \in Seq(Nat), Leads(edges, from, p, to) PROVE Len(p) > MAX_DEPTH
    <3>1. p # <<>>
      BY <2>3 DEF Leads
    <3>2. PICK r : \E f : Ends(edges, from, p, r, f) /\ f.to = to
      BY <2>3, <3>1, LeadsSplit
    <3>3. PICK f : Ends(edges, from, p, r, f) /\ f.to = to
      BY <3>2
    <3>4. f \in edges /\ Leads(edges, from, r, f.from) /\ r \in Seq(Nat) /\ Len(p) = Len(r) + 1
      BY <3>3 DEF Ends
    <3>5. ~(Len(r) < MAX_DEPTH)
      BY <2>1, <2>2, <3>3, <3>4 DEF BreadthFirst, Explored, Passed
    <3>. QED
      BY <3>4, <3>5 DEF MAX_DEPTH
  <2>. QED
    BY <1>2, <1>9, <2>3 DEF Settled
<1>. QED
  BY <1>8, <1>9

(* How long the routes between two types can be.                           *)
Lengths(edges, from, to) == {n \in 1 .. MAX_DEPTH : Routes(edges, from, to, n) # {}}

Shortest(edges, from, to, short, route) ==
  IF short = {} THEN route = NoRoute
  ELSE /\ Len(route) = Min(short)
       /\ route \in Routes(edges, from, to, Min(short))
       /\ \A other \in Routes(edges, from, to, Min(short)) : Precedes(route, other)

LEMMA RouteSettled ==
  ASSUME NEW edges \in Catalogs, NEW from \in Type, NEW to \in Type, from # to,
         NEW route, Settled(edges, from, to, route)
  PROVE  Shortest(edges, from, to, Lengths(edges, from, to), route)
<1>. DEFINE short == Lengths(edges, from, to)
<1>0. short = {n \in 1 .. MAX_DEPTH : Routes(edges, from, to, n) # {}}
  BY DEF Lengths
<1>. HIDE DEF short
<1>1. \A n \in 1 .. MAX_DEPTH : n \in Nat \ {0}
  BY DEF MAX_DEPTH
<1>2. CASE route = NoRoute
  <2>1. ASSUME NEW n \in 1 .. MAX_DEPTH, NEW p \in Routes(edges, from, to, n) PROVE FALSE
    <3>1. Leads(edges, from, p, to) /\ Len(p) = n
      BY <1>1, RoutesLead
    <3>2. p \in Seq(Nat)
      BY <3>1 DEF Leads
    <3>3. Len(p) > MAX_DEPTH
      BY <1>2, <3>1, <3>2 DEF Settled
    <3>. QED
      BY <3>1, <3>3 DEF MAX_DEPTH
  <2>2. short = {}
    BY <1>0, <2>1
  <2>. QED
    BY <1>2, <2>2 DEF Shortest, short
<1>3. CASE route # NoRoute
  <2>. DEFINE m == Len(route)
  <2>1. /\ Leads(edges, from, route, to) /\ route # <<>> /\ m <= MAX_DEPTH
        /\ \A p \in Seq(Nat) : Leads(edges, from, p, to) /\ Len(p) <= MAX_DEPTH => NotAfter(route, p)
    BY <1>3 DEF Settled, Best
  <2>2. route \in Seq(Nat)
    BY <2>1 DEF Leads
  <2>3. m \in 1 .. MAX_DEPTH /\ m \in Nat \ {0}
    <3>1. m <= MAX_DEPTH
      BY <2>1
    <3>2. m \in Nat /\ m # 0
      BY <2>1, <2>2
    <3>. HIDE DEF m
    <3>. QED
      BY <3>1, <3>2 DEF MAX_DEPTH
  <2>. HIDE DEF m
  <2>4. route \in Routes(edges, from, to, m)
    BY <2>1, <2>3, RoutesLead DEF m
  <2>5. ASSUME NEW n \in short, NEW p \in Routes(edges, from, to, n)
        PROVE  NotAfter(route, p) /\ p \in Seq(Nat) /\ Len(p) = n
    <3>0. n \in 1 .. MAX_DEPTH /\ n \in Nat \ {0}
      BY <1>0, <1>1
    <3>1. Leads(edges, from, p, to) /\ Len(p) = n
      BY <3>0, RoutesLead
    <3>2. p \in Seq(Nat) /\ Len(p) <= MAX_DEPTH
      BY <3>0, <3>1 DEF Leads, MAX_DEPTH
    <3>. QED
      BY <2>1, <3>1, <3>2
  <2>6. m \in short
    BY <1>0, <2>3, <2>4
  <2>7. \A n \in short : m <= n
    <3>1. ASSUME NEW n \in short PROVE m <= n
      <4>1. PICK p : p \in Routes(edges, from, to, n)
        BY <1>0
      <4>2. NotAfter(route, p) /\ p \in Seq(Nat) /\ Len(p) = n
        BY <2>5, <4>1
      <4>. QED
        BY <2>2, <2>3, <4>2, BeforeLength DEF NotAfter, m
    <3>. QED
      BY <3>1
  <2>8. Min(short) = m
    <3>1. \A n \in short : n \in Nat
      BY <1>0, <1>1
    <3>2. \A n \in short : (\A k \in short : n <= k) => n = m
      <4>1. ASSUME NEW n \in short, \A k \in short : n <= k PROVE n = m
        <5>1. n <= m /\ m <= n /\ n \in Nat
          BY <2>6, <2>7, <3>1, <4>1
        <5>. QED
          BY <2>3, <5>1
      <4>. QED
        BY <4>1
    <3>. QED
      BY <2>6, <2>7, <3>2 DEF Min
  <2>9. ASSUME NEW p \in Routes(edges, from, to, m) PROVE Precedes(route, p)
    <3>1. NotAfter(route, p) /\ p \in Seq(Nat) /\ Len(p) = m
      BY <2>5, <2>6
    <3>2. CASE Before(route, p)
      <4>1. ~(Len(route) < Len(p))
        BY <2>3, <3>1 DEF m
      <4>2. \E i \in 1 .. Len(route) : route[i] < p[i] /\ \A j \in 1 .. i - 1 : route[j] = p[j]
        BY <3>2, <4>1 DEF Before
      <4>3. DOMAIN route = 1 .. Len(route)
        BY <2>2
      <4>. QED
        BY <4>2, <4>3 DEF Precedes
    <3>. QED
      BY <3>1, <3>2 DEF NotAfter, Precedes
  <2>10. Len(route) = Min(short)
    BY <2>8 DEF m
  <2>. QED
    BY <2>4, <2>6, <2>8, <2>9, <2>10 DEF Shortest, short
<1>. QED
  BY <1>2, <1>3

Loaded == \E edges \in Catalogs : graph = LoadGraph(edges)

(* The route between two types is the shortest there is and of those the   *)
(* least by edge ids, whatever the table: an answer that the order of the  *)
(* rows cannot change, and no route is missed within the depth limit       *)
(* (engine/resolver.py, shortest_route).                                   *)
THEOREM RoutesDetermined == ReadsSpec => []RouteDetermined
<1>1. ReadsInit => Loaded
  BY DEF ReadsInit, Loaded
<1>2. Loaded /\ [ReadsNext]_entityReads => Loaded'
  <2>. SUFFICES ASSUME Loaded, [ReadsNext]_entityReads PROVE graph' = graph
    BY DEF Loaded
  <2>. QED
    BY DEF ReadsNext, Work, Link, Move, Compute, PlanEvaluations, HopBatch, ReadMany, ExposureFor, Commit, entityReads
<1>3. Loaded => RouteDetermined
  <2>. SUFFICES ASSUME NEW edges \in Catalogs, graph = LoadGraph(edges),
                       NEW from \in Type, NEW to \in Type, from # to
                PROVE  LET route     == graph.routes[from, to]
                           others(n) == Routes(graph.edges, from, to, n)
                           short     == {n \in 1 .. MAX_DEPTH : others(n) # {}}
                       IN  IF short = {} THEN route = NoRoute
                           ELSE /\ Len(route) = Min(short)
                                /\ route \in others(Min(short))
                                /\ \A other \in others(Min(short)) : Precedes(route, other)
    BY DEF Loaded, RouteDetermined
  <2>1. graph.edges = edges /\ graph.routes[from, to] = Search(edges, from, to)
    BY DEF LoadGraph, ShortestRoute
  <2>2. Settled(edges, from, to, graph.routes[from, to])
    BY <2>1, SearchSettles
  <2>3. Shortest(edges, from, to, Lengths(edges, from, to), graph.routes[from, to])
    BY <2>2, RouteSettled
  <2>. QED
    BY <2>1, <2>3 DEF Shortest, Lengths
<1>. QED
  BY <1>1, <1>2, <1>3, PTL DEF ReadsSpec
=============================================================================
