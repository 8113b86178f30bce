----------------------------- MODULE WinnerProofs -----------------------------
(***************************************************************************)
(* get_winner is correct in every state: the closed form of its loop over  *)
(* Proposals in storage order (GetWinner) equals the argmax reference      *)
(* RefWinner, the key with the greatest total that comes first in storage *)
(* order, or 0 when every total is 0.                                      *)
(*                                                                         *)
(* The argument needs a key of greatest total and, among those, one of    *)
(* least storage rank.  Both come from ArgMaxExists: a finite non-empty    *)
(* set has an element where an integer-valued function is greatest.  It   *)
(* is proved without induction, from the well-foundedness of strict       *)
(* inclusion on the subsets of a finite set: a minimal non-empty subset T *)
(* such that every element outside T is dominated by one inside T is a    *)
(* singleton, and its element is the argmax.                               *)
(***************************************************************************)
EXTENDS VotingProofs

USE EndowmentAssumption, PeriodAssumption, BoundsAssumption, VoterAssumption,
    HashRankAssumption, InputAssumption

\* T is non-empty and every element of K outside T is dominated inside T.
Dominating(K, t, T) ==
  /\ T # {}
  /\ \A k \in K \ T : \E j \in T : t[k] <= t[j]

\* Dropping a dominated element keeps a dominating set dominating.
LEMMA DropDominated ==
  ASSUME NEW K, NEW t \in [K -> Int], NEW T \in SUBSET K, Dominating(K, t, T),
         NEW x \in T, NEW y \in T, x # y, t[x] <= t[y]
  PROVE  Dominating(K, t, T \ {x})
<1>1. y \in T \ {x}
  OBVIOUS
<1>2. ASSUME NEW k \in K \ (T \ {x}) PROVE \E j \in T \ {x} : t[k] <= t[j]
  <2>1. CASE k = x
    BY <1>1, <2>1
  <2>2. CASE k # x
    <3>1. PICK j \in T : t[k] <= t[j]
      BY <2>2 DEF Dominating
    <3>2. CASE j = x
      BY <1>1, <3>1, <3>2
    <3>3. CASE j # x
      BY <3>1, <3>3
    <3>4. QED
      BY <3>2, <3>3
  <2>3. QED
    BY <2>1, <2>2
<1>3. QED
  BY <1>1, <1>2 DEF Dominating

LEMMA ArgMaxExists ==
  ASSUME NEW K, IsFiniteSet(K), K # {}, NEW t \in [K -> Int]
  PROVE  \E m \in K : \A k \in K : t[k] <= t[m]
<1> DEFINE F == {T \in SUBSET K : Dominating(K, t, T)}
           R == StrictSubsetOrdering(K)
<1>1. K \in F
  BY DEF Dominating
<1>2. IsWellFoundedOn(R, SUBSET K)
  BY FS_StrictSubsetOrderingWellFounded, FS_FiniteSubsetsOfFinite
<1>3. PICK T \in F : \A U \in F : ~(<<U, T>> \in R)
  BY <1>1, <1>2, WFMin
<1>4. PICK m \in T : TRUE
  BY DEF Dominating
<1>5. T = {m}
  <2> SUFFICES ASSUME NEW a \in T, a # m PROVE FALSE
    OBVIOUS
  <2>1. CASE t[a] <= t[m]
    <3>1. T \ {a} \in F
      BY <2>1, DropDominated
    <3>2. <<T \ {a}, T>> \in R
      BY DEF StrictSubsetOrdering
    <3>3. QED
      BY <1>3, <3>1, <3>2
  <2>2. CASE ~(t[a] <= t[m])
    <3>1. t[m] <= t[a]
      BY <2>2
    <3>2. T \ {m} \in F
      BY <3>1, DropDominated
    <3>3. <<T \ {m}, T>> \in R
      BY DEF StrictSubsetOrdering
    <3>4. QED
      BY <1>3, <3>2, <3>3
  <2>3. QED
    BY <2>1, <2>2
<1>6. QED
  BY <1>5 DEF Dominating

\* Every proposal's total is a natural number.
LEMMA TotalVotesNat ==
  ASSUME TypeOK, NEW i \in Index
  PROVE  TotalVotes(i) \in Nat
BY VoterAssumption, SumOverNat DEF TotalVotes, TypeOK

\* The keys of Proposals are a finite set.
LEMMA KeysFinite == IsFiniteSet(Keys)
<1>1. IsFiniteSet(Index)
  BY FS_Interval DEF Index
<1>2. QED
  BY <1>1, FS_Subset DEF Keys

\* When every total is 0, both the loop and the reference return 0.
LEMMA NoPositiveTotal ==
  ASSUME TypeOK, \A k \in Keys : TotalVotes(k) = 0
  PROVE  WinnerMatchesReference
<1>1. LastRaise = {}
  BY DEF LastRaise, RaisesMax
<1>2. MaxTotal = 0
  <2> DEFINE S == {TotalVotes(k) : k \in Keys} \cup {0}
  <2>1. S = {0}
    OBVIOUS
  <2>2. \E x \in S : \A y \in S : x >= y
    BY <2>1
  <2>3. QED
    BY <2>1, <2>2 DEF MaxTotal, Max
<1>3. QED
  BY <1>1, <1>2 DEF WinnerMatchesReference, GetWinner, RefWinner

\* With some positive total, the greatest total is that of an argmax key.
LEMMA MaxTotalIsArgMax ==
  ASSUME TypeOK, NEW a \in Keys, \A k \in Keys : TotalVotes(k) <= TotalVotes(a)
  PROVE  MaxTotal = TotalVotes(a)
<1> DEFINE S == {TotalVotes(k) : k \in Keys} \cup {0}
           M == TotalVotes(a)
<1>1. M \in Nat
  BY TotalVotesNat DEF Keys
<1>2. \A y \in S : y \in Int /\ y <= M
  BY <1>1, TotalVotesNat DEF Keys
<1>3. \E x \in S : \A y \in S : x >= y
  BY <1>2
<1>4. PICK x \in S : x = MaxTotal /\ \A y \in S : x >= y
  BY <1>3 DEF MaxTotal, Max
<1>5. M \in S
  OBVIOUS
<1>6. x >= M /\ x <= M /\ x \in Int
  BY <1>2, <1>4, <1>5
<1>7. QED
  BY <1>1, <1>4, <1>6

\* With some positive total, the loop and the reference agree.
LEMMA PositiveTotal ==
  ASSUME TypeOK, NEW p \in Keys, TotalVotes(p) # 0
  PROVE  WinnerMatchesReference
<1> DEFINE T(k) == TotalVotes(k)
<1>1. \A k \in Keys : T(k) \in Nat
  BY TotalVotesNat DEF Keys
<1>2. PICK a \in Keys : \A k \in Keys : T(k) <= T(a)
  <2> DEFINE f == [k \in Keys |-> T(k)]
  <2>1. f \in [Keys -> Int]
    BY <1>1
  <2>2. \E n \in Keys : \A k \in Keys : f[k] <= f[n]
    BY <2>1, KeysFinite, ArgMaxExists
  <2>3. QED
    BY <2>2
<1> DEFINE M == T(a)
           MK == {k \in Keys : T(k) = M}
<1>3. MaxTotal = M /\ M > 0
  BY <1>1, <1>2, MaxTotalIsArgMax
<1>4. PICK m \in MK : \A k \in MK : HashRank[m] <= HashRank[k]
  <2>1. IsFiniteSet(MK)
    BY KeysFinite, FS_Subset
  <2> DEFINE f == [k \in MK |-> -HashRank[k]]
  <2>2. f \in [MK -> Int]
    BY HashRankAssumption DEF Keys
  <2>3. MK # {}
    BY <1>2
  <2>4. \E n \in MK : \A k \in MK : f[k] <= f[n]
    BY <2>1, <2>2, <2>3, ArgMaxExists
  <2>5. \A k \in MK : HashRank[k] \in Int
    BY HashRankAssumption DEF Keys
  <2>6. QED
    BY <2>4, <2>5
<1>5. \A k \in Keys : k # m => HashRank[k] # HashRank[m]
  BY HashRankAssumption DEF Keys
<1>6. RefWinner = m
  <2>1. m \in Keys /\ T(m) = M /\ \A j \in Keys : T(j) = M => HashRank[m] <= HashRank[j]
    BY <1>4
  <2>2. ASSUME NEW k \in Keys, T(k) = M,
               \A j \in Keys : T(j) = M => HashRank[k] <= HashRank[j]
        PROVE  k = m
    <3>1. HashRank[k] <= HashRank[m] /\ HashRank[m] <= HashRank[k]
      BY <1>4, <2>2
    <3>2. HashRank[k] = HashRank[m]
      BY <3>1, HashRankAssumption DEF Keys
    <3>3. QED
      BY <3>2, <1>5
  <2>3. QED
    BY <1>3, <2>1, <2>2 DEF RefWinner
<1>7. RaisesMax(m)
  <2>1. ASSUME NEW j \in Keys, HashRank[j] < HashRank[m] PROVE T(j) < T(m)
    <3>1. T(j) # M
      BY <1>4, <2>1, HashRankAssumption DEF Keys
    <3>2. T(j) <= M /\ T(m) = M
      BY <1>2
    <3>3. QED
      BY <1>1, <3>1, <3>2
  <2>2. QED
    BY <1>3, <2>1 DEF RaisesMax
<1>8. \A j \in Keys : RaisesMax(j) => HashRank[j] <= HashRank[m]
  BY <1>1, <1>2, HashRankAssumption DEF RaisesMax, Keys
<1>9. LastRaise = {m}
  <2>1. m \in LastRaise
    BY <1>7, <1>8 DEF LastRaise
  <2>2. ASSUME NEW k \in LastRaise PROVE k = m
    <3>1. HashRank[m] <= HashRank[k] /\ HashRank[k] <= HashRank[m]
      BY <1>7, <1>8, <2>2 DEF LastRaise
    <3>2. QED
      BY <3>1, <1>5, HashRankAssumption DEF LastRaise, Keys
  <2>3. QED
    BY <2>1, <2>2
<1>10. QED
  BY <1>6, <1>9 DEF WinnerMatchesReference, GetWinner

\* get_winner's result depends only on the current totals and key order.
LEMMA WinnerInState ==
  ASSUME TypeOK
  PROVE  WinnerMatchesReference
<1>1. CASE \A k \in Keys : TotalVotes(k) = 0
  BY <1>1, NoPositiveTotal
<1>2. CASE \E k \in Keys : TotalVotes(k) # 0
  BY <1>2, PositiveTotal
<1>3. QED
  BY <1>1, <1>2

(***************************************************************************)
(* get_winner (lib.rs, the loop over Proposals::iter()) returns, in every *)
(* reachable state and for every number of voters, proposals and every    *)
(* injective storage order, the proposal with the greatest aye total,     *)
(* ties going to the first in storage order, and 0 when all totals are 0. *)
(***************************************************************************)
THEOREM WinnerCorrect == Spec => []WinnerMatchesReference
BY TypeCorrect, WinnerInState, PTL
=============================================================================
