---------------------------- MODULE RequestProofs ----------------------------
(***************************************************************************)
(* Machine-checked proofs about the parts that serve a request while       *)
(* others are under way: the chain of language models (LlmChain), the      *)
(* updates of a profile (Profile), the search (Retrieval) and a tab of the *)
(* web client (Web).  Every chain, list, catalogue and bound is allowed.   *)
(***************************************************************************)
EXTENDS LlmChain, Profile, Retrieval, Web, FiniteSetTheorems, WellFoundedInduction, TLAPS

-----------------------------------------------------------------------------
(* The chain of language models.                                           *)

ChainInv == TypeOK /\ CooldownIffThreshold

LEMMA ChainBounds ==
  /\ ProviderThreshold \in Nat \ {0} /\ ProviderCooldown \in Nat \ {0}
  /\ BreakerThreshold \in Nat \ {0} /\ BreakerCooldown \in Nat \ {0}
  /\ Timeout \in Nat \ {0}
<1>1. {Timeout, BreakerThreshold, BreakerCooldown, ProviderThreshold, ProviderCooldown}
        \subseteq Nat \ {0}
  BY LlmAssumption
<1>2. QED
  BY <1>1

(* What the loop leaves behind, given consistent provider tables.          *)
TablesOK(fs, ages) ==
  /\ fs \in [Links -> 0..ProviderThreshold]
  /\ ages \in [Links -> NotOpened..ProviderCooldown]
  /\ \A l \in Links : fs[l] = ProviderThreshold <=> ages[l] # NotOpened

(* Recording a failure keeps count and cooldown of the provider together.  *)
LEMMA FailureKeepsTables ==
  ASSUME ChainInv, NEW l \in Links
  PROVE  TablesOK(FailuresAfter(l), AgeAfterFailure(l))
<1> ProviderThreshold \in Nat \ {0} /\ ProviderCooldown \in Nat \ {0}
  BY ChainBounds
<1> QED
  BY DEF ChainInv, TypeOK, CooldownIffThreshold, TablesOK, FailuresAfter, AgeAfterFailure,
     Saturate, NotOpened

LEMMA ChainFailureKeepsBreaker ==
  ASSUME ChainInv, ChainFailure
  PROVE  /\ streak' \in 0..BreakerThreshold
         /\ opened' \in NotOpened..BreakerCooldown
         /\ streak' = BreakerThreshold <=> opened' # NotOpened
<1> BreakerThreshold \in Nat \ {0} /\ BreakerCooldown \in Nat \ {0}
  BY ChainBounds
<1> QED
  BY DEF ChainInv, TypeOK, CooldownIffThreshold, ChainFailure, Saturate, NotOpened

(* Whatever the loop does next, the invariant survives it.                 *)
LEMMA VisitKeepsChain ==
  ASSUME ChainInv, NEW c \in Calls, NEW rest \in SUBSET Links, NEW fs, NEW ages,
         TablesOK(fs, ages), Visit(c, rest, fs, ages),
         UNCHANGED <<enabled, up, cancels>>
  PROVE  ChainInv'
<1> ProviderThreshold \in Nat \ {0} /\ ProviderCooldown \in Nat \ {0} /\ Timeout \in Nat \ {0}
  BY ChainBounds
<1>1. ASSUME NEW l \in rest,
             awaits' = [awaits EXCEPT ![c] = l],
             todo' = [todo EXCEPT ![c] = {k \in rest : k > l}],
             waited' = [waited EXCEPT ![c] = 0],
             ResetExpired(fs, ages, l),
             UNCHANGED <<outcome, breakerVars>>
      PROVE  ChainInv'
  <2>1. TablesOK(failures', age')
    BY <1>1 DEF TablesOK, ResetExpired, Expired, NotOpened
  <2>2. QED
    BY <1>1, <2>1 DEF ChainInv, TypeOK, CooldownIffThreshold, TablesOK, breakerVars
<1>2. ASSUME failures' = fs, age' = ages, Return(c, "unavailable"), ChainFailure
      PROVE  ChainInv'
  <2>1. /\ streak' \in 0..BreakerThreshold
        /\ opened' \in NotOpened..BreakerCooldown
        /\ streak' = BreakerThreshold <=> opened' # NotOpened
    BY <1>2, ChainFailureKeepsBreaker
  <2>2. QED
    BY <1>2, <2>1 DEF ChainInv, TypeOK, CooldownIffThreshold, TablesOK, Return, Outcomes
<1>3. QED
  BY <1>1, <1>2 DEF Visit

LEMMA CallKeepsChain ==
  ASSUME ChainInv, NEW c \in Calls, CallStep(c)
  PROVE  ChainInv'
<1> ProviderThreshold \in Nat \ {0} /\ BreakerThreshold \in Nat \ {0} /\ Timeout \in Nat \ {0}
  BY ChainBounds
<1>1. CASE FastFail(c)
  BY <1>1 DEF FastFail, Return, ChainInv, TypeOK, CooldownIffThreshold, providerVars,
     breakerVars, Outcomes
<1>2. CASE NoLinks(c)
  BY <1>2 DEF NoLinks, Return, ChainInv, TypeOK, CooldownIffThreshold, providerVars,
     breakerVars, Outcomes
<1>3. CASE Begin(c)
  <2>1. TablesOK(failures, age) /\ enabled \in SUBSET Links
    BY DEF ChainInv, TypeOK, CooldownIffThreshold, TablesOK
  <2>2. Visit(c, enabled, failures, age) /\ UNCHANGED <<enabled, up, cancels>>
    BY <1>3 DEF Begin
  <2>3. QED
    BY <2>1, <2>2, VisitKeepsChain
<1>4. CASE Succeed(c)
  <2>1. awaits[c] \in Links
    BY <1>4 DEF Succeed, ChainInv, TypeOK
  <2>2. TablesOK(failures', age')
    BY <1>4, <2>1, ChainBounds
    DEF Succeed, TablesOK, ChainInv, TypeOK, CooldownIffThreshold, NotOpened
  <2>3. /\ streak' \in 0..BreakerThreshold
        /\ opened' \in NotOpened..BreakerCooldown
        /\ streak' = BreakerThreshold <=> opened' # NotOpened
    BY <1>4, ChainBounds DEF Succeed, ChainSuccess, NotOpened
  <2>4. QED
    BY <1>4, <2>2, <2>3
    DEF Succeed, Return, TablesOK, ChainInv, TypeOK, CooldownIffThreshold, Outcomes
<1>5. CASE Fail(c)
  <2>1. awaits[c] \in Links
    BY <1>5 DEF Fail
  <2>2. TablesOK(FailuresAfter(awaits[c]), AgeAfterFailure(awaits[c]))
    BY <2>1, FailureKeepsTables
  <2>3. todo[c] \in SUBSET Links
    BY DEF ChainInv, TypeOK
  <2>4. /\ Visit(c, todo[c], FailuresAfter(awaits[c]), AgeAfterFailure(awaits[c]))
        /\ UNCHANGED <<enabled, up, cancels>>
    BY <1>5 DEF Fail
  <2>5. QED
    BY <2>2, <2>3, <2>4, VisitKeepsChain
<1>6. CASE Cancel(c)
  BY <1>6, LlmAssumption, ChainBounds DEF Cancel, Return, ChainInv, TypeOK, CooldownIffThreshold, providerVars,
     breakerVars, Outcomes
<1>7. QED
  BY <1>1, <1>2, <1>3, <1>4, <1>5, <1>6 DEF CallStep

LEMMA EnvironmentKeepsChain ==
  ASSUME ChainInv,
         Tick \/ (\E l \in Links : Flip(l)) \/ (\E S \in SUBSET Links : SetLinks(S))
  PROVE  ChainInv'
<1>1. CASE Tick
  <2> /\ Timeout \in Nat \ {0}
      /\ ProviderCooldown \in Nat \ {0}
      /\ BreakerCooldown \in Nat \ {0}
    BY ChainBounds
  <2>1. waited' \in [Calls -> 0..Timeout]
    BY <1>1 DEF Tick, ChainInv, TypeOK
  <2>2. /\ age' \in [Links -> NotOpened..ProviderCooldown]
        /\ \A l \in Links : age'[l] # NotOpened <=> age[l] # NotOpened
    BY <1>1 DEF Tick, ChainInv, TypeOK, Saturate, NotOpened
  <2>3. /\ opened' \in NotOpened..BreakerCooldown
        /\ opened' # NotOpened <=> opened # NotOpened
    BY <1>1 DEF Tick, ChainInv, TypeOK, Saturate, NotOpened
  <2>4. QED
    BY <1>1, <2>1, <2>2, <2>3 DEF Tick, ChainInv, TypeOK, CooldownIffThreshold
<1>2. CASE \E l \in Links : Flip(l)
  BY <1>2 DEF Flip, ChainInv, TypeOK, CooldownIffThreshold, providerVars, breakerVars, callVars
<1>3. CASE \E S \in SUBSET Links : SetLinks(S)
  BY <1>3 DEF SetLinks, ChainInv, TypeOK, CooldownIffThreshold, providerVars, breakerVars, callVars
<1>4. QED
  BY <1>1, <1>2, <1>3

LEMMA ChainInvHolds == Spec => []ChainInv
<1>1. Init => ChainInv
  BY LlmAssumption, ChainBounds DEF Init, ChainInv, TypeOK, CooldownIffThreshold, Outcomes, NotOpened
<1>2. ChainInv /\ [Next]_vars => ChainInv'
  <2>1. ASSUME ChainInv, Next PROVE ChainInv'
    BY <2>1, CallKeepsChain, EnvironmentKeepsChain DEF Next
  <2>2. ASSUME ChainInv, UNCHANGED vars PROVE ChainInv'
    BY <2>2 DEF vars, ChainInv, TypeOK, CooldownIffThreshold
  <2>3. QED
    BY <2>1, <2>2
<1>3. QED
  BY <1>1, <1>2, PTL DEF Spec

(* Counters never leave their range and every call stays on a known link.  *)
THEOREM TypeCorrect == Spec => []TypeOK
<1>1. ChainInv => TypeOK
  BY DEF ChainInv
<1>2. QED
  BY <1>1, ChainInvHolds, PTL

(* No interleaving of calls leaves a counter at its threshold without a    *)
(* cooldown, or a cooldown without such a counter.                         *)
THEOREM CooldownFollowsCount == Spec => []CooldownIffThreshold
<1>1. ChainInv => CooldownIffThreshold
  BY DEF ChainInv
<1>2. QED
  BY <1>1, ChainInvHolds, PTL

-----------------------------------------------------------------------------
(* Lists by their places.                                                  *)

LEMMA UptoFinite ==
  ASSUME NEW n \in Nat
  PROVE  IsFiniteSet(1..n) /\ Cardinality(1..n) = n
<1>1. 1 \in Int /\ n \in Int
  OBVIOUS
<1>2. IsFiniteSet(1..n) /\ Cardinality(1..n) = IF 1 > n THEN 0 ELSE n - 1 + 1
  BY <1>1, FS_Interval
<1>3. QED
  BY <1>2

(* Places count from 1 to the number of them, in their order, and each     *)
(* number is taken.                                                        *)
LEMMA Places ==
  ASSUME NEW I \in SUBSET Nat, IsFiniteSet(I)
  PROVE  /\ Cardinality(I) \in Nat
         /\ \A i \in I : Place(I, i) \in 1..Cardinality(I)
         /\ \A i, j \in I : i < j => Place(I, i) < Place(I, j)
         /\ \A n \in 1..Cardinality(I) : \E i \in I : Place(I, i) = n
<1> DEFINE Upto(i) == {j \in I : j <= i}
<1>1. Cardinality(I) \in Nat
  BY FS_CardinalityType
<1>2. ASSUME NEW i \in I
      PROVE  /\ IsFiniteSet(Upto(i)) /\ Cardinality(Upto(i)) \in 1..Cardinality(I)
  <2>1. IsFiniteSet(Upto(i)) /\ Cardinality(Upto(i)) <= Cardinality(I)
    <3>1. Upto(i) \in SUBSET I
      OBVIOUS
    <3>2. QED
      BY <3>1, FS_Subset
  <2>2. i \in Upto(i)
    OBVIOUS
  <2>3. Cardinality(Upto(i)) \in Nat /\ Cardinality(Upto(i)) # 0
    <3> HIDE DEF Upto
    <3>1. QED
      BY <2>1, <2>2, FS_CardinalityType, FS_EmptySet
  <2>4. QED
    BY <1>1, <2>1, <2>3
<1>3. ASSUME NEW i \in I, NEW j \in I, i < j
      PROVE  Cardinality(Upto(i)) < Cardinality(Upto(j))
  <2> i \in Nat /\ j \in Nat
    OBVIOUS
  <2>1. Upto(i) \in SUBSET Upto(j) /\ j \in Upto(j) /\ j \notin Upto(i)
    <3>1. \A k \in Upto(i) : k \in I /\ k \in Nat /\ k <= i
      OBVIOUS
    <3>2. \A k \in Upto(i) : k \in Upto(j)
      BY <1>3, <3>1
    <3>3. j \in Upto(j) /\ ~(j <= i)
      BY <1>3
    <3>4. QED
      BY <3>2, <3>3
  <2>2. IsFiniteSet(Upto(j))
    BY <1>2
  <2> HIDE DEF Upto
  <2>3. QED
    BY <2>1, <2>2, FS_Subset, FS_CardinalityType
<1>4. ASSUME NEW n \in 1..Cardinality(I), \A i \in I : Place(I, i) # n
      PROVE  FALSE
  <2> DEFINE N == Cardinality(I)
             f == [i \in I |-> Place(I, i)]
             T == (1..N) \ {n}
  <2>1. f \in [I -> T]
    BY <1>2, <1>4 DEF Place
  <2>2. IsFiniteSet(1..N) /\ Cardinality(1..N) = N
    BY <1>1, FS_Interval
  <2>3. IsFiniteSet(T) /\ Cardinality(T) = N - 1
    <3>1. n \in 1..N
      OBVIOUS
    <3>2. QED
      BY <2>2, <3>1, FS_RemoveElement
  <2>4. \A i, j \in I : i # j => f[i] # f[j]
    <3> SUFFICES ASSUME NEW i \in I, NEW j \in I, i # j
                 PROVE  f[i] # f[j]
      OBVIOUS
    <3>1. i < j \/ j < i
      OBVIOUS
    <3>2. QED
      BY <3>1, <1>2, <1>3 DEF Place
  <2>5. N - 1 < N
    BY <1>1
  <2> HIDE DEF T, f
  <2>6. QED
    BY <2>1, <2>3, <2>4, <2>5, FS_PigeonHole
<1>5. QED
  BY <1>1, <1>2, <1>3, <1>4 DEF Place

(* A list's part at the places I: it has their items, in their order.      *)
LEMMA PickProperties ==
  ASSUME NEW S, NEW list \in Seq(S), NEW I \in SUBSET DOMAIN list
  PROVE  /\ IsFiniteSet(I) /\ Cardinality(I) \in Nat
         /\ Pick(list, I) \in Seq(S)
         /\ Len(Pick(list, I)) = Cardinality(I)
         /\ \A n \in 1..Cardinality(I) :
              \E i \in I : Place(I, i) = n /\ Pick(list, I)[n] = list[i]
         /\ \A i \in I : /\ Place(I, i) \in 1..Cardinality(I)
                        /\ Pick(list, I)[Place(I, i)] = list[i]
<1>1. I \in SUBSET Nat /\ IsFiniteSet(I)
  <2>1. DOMAIN list = 1..Len(list) /\ Len(list) \in Nat
    OBVIOUS
  <2>2. IsFiniteSet(1..Len(list))
    BY <2>1, FS_Interval
  <2>3. QED
    BY <2>1, <2>2, FS_Subset
<1>2. /\ Cardinality(I) \in Nat
      /\ \A i \in I : Place(I, i) \in 1..Cardinality(I)
      /\ \A i, j \in I : i < j => Place(I, i) < Place(I, j)
      /\ \A n \in 1..Cardinality(I) : \E i \in I : Place(I, i) = n
  BY <1>1, Places
<1> DEFINE at(n) == CHOOSE i \in I : Place(I, i) = n
<1>3. \A i \in I : at(Place(I, i)) = i
  <2> SUFFICES ASSUME NEW i \in I PROVE at(Place(I, i)) = i
    OBVIOUS
  <2>1. at(Place(I, i)) \in I /\ Place(I, at(Place(I, i))) = Place(I, i)
    OBVIOUS
  <2> HIDE DEF at
  <2>2. \A j \in I : Place(I, j) = Place(I, i) => j = i
    BY <1>1, <1>2
  <2>3. QED
    BY <2>1, <2>2
<1>4. \A n \in 1..Cardinality(I) : at(n) \in I /\ Place(I, at(n)) = n
  BY <1>2
<1>5. Pick(list, I) = [n \in 1..Cardinality(I) |-> list[at(n)]]
  BY DEF Pick
<1> HIDE DEF at
<1>6. \A i \in I : list[i] \in S
  OBVIOUS
<1>7. QED
  BY <1>1, <1>2, <1>3, <1>4, <1>5, <1>6

(* What Without leaves of a list.                                          *)
LEMMA WithoutProperties ==
  ASSUME NEW S, NEW list \in Seq(S), NEW T
  PROVE  /\ Without(list, T) \in Seq(S)
         /\ Range(Without(list, T)) = Range(list) \ T
<1> DEFINE I == {i \in DOMAIN list : list[i] \notin T}
<1>1. I \in SUBSET DOMAIN list
  OBVIOUS
<1>2. Without(list, T) = Pick(list, I)
  BY DEF Without
<1>3. \A i \in DOMAIN list : i \in I <=> list[i] \notin T
  OBVIOUS
<1> HIDE DEF I
<1>4. /\ Pick(list, I) \in Seq(S)
      /\ Len(Pick(list, I)) = Cardinality(I)
      /\ \A n \in 1..Cardinality(I) : \E i \in I : Pick(list, I)[n] = list[i]
      /\ \A i \in I : \E n \in 1..Cardinality(I) : Pick(list, I)[n] = list[i]
  BY <1>1, PickProperties
<1>5. DOMAIN Pick(list, I) = 1..Cardinality(I)
  BY <1>4
<1>6. Range(Pick(list, I)) = Range(list) \ T
  BY <1>1, <1>3, <1>4, <1>5 DEF Range
<1>7. QED
  BY <1>2, <1>4, <1>6

(* The beginning of a list.                                                *)
LEMMA TakeProperties ==
  ASSUME NEW S, NEW list \in Seq(S), NEW n \in Nat
  PROVE  /\ Take(list, n) \in Seq(S)
         /\ Len(Take(list, n)) = IF Len(list) < n THEN Len(list) ELSE n
         /\ \A i \in DOMAIN Take(list, n) : i \in DOMAIN list /\ Take(list, n)[i] = list[i]
         /\ Range(Take(list, n)) \subseteq Range(list)
<1> DEFINE m == IF Len(list) < n THEN Len(list) ELSE n
<1>1. m \in 0..Len(list) /\ Len(list) \in Nat
  OBVIOUS
<1>2. Take(list, n) = SubSeq(list, 1, m)
  BY DEF Take
<1> HIDE DEF m
<1>3. /\ SubSeq(list, 1, m) \in Seq(S) /\ Len(SubSeq(list, 1, m)) = m
      /\ \A i \in 1..m : i \in 1..Len(list) /\ SubSeq(list, 1, m)[i] = list[i]
  BY <1>1
<1>4. DOMAIN SubSeq(list, 1, m) = 1..m /\ DOMAIN list = 1..Len(list)
  BY <1>1, <1>3
<1>5. QED
  BY <1>2, <1>3, <1>4 DEF m, Range

-----------------------------------------------------------------------------
(* Profile.                                                                *)

(* Joining adds no topic that neither list has.                            *)
LEMMA JoinedProperties ==
  ASSUME NEW S, NEW base \in Seq(S), NEW more \in Seq(S)
  PROVE  /\ Joined(base, more, Itself) \in Seq(S)
         /\ Range(Joined(base, more, Itself)) \subseteq Range(base) \cup Range(more)
<1> DEFINE I == {i \in DOMAIN more :
                   /\ ~\E j \in DOMAIN base : base[j] = more[i]
                   /\ \A j \in 1..i - 1 : more[j] # more[i]}
<1>1. Joined(base, more, Itself) = base \o Pick(more, I)
  BY DEF Joined, Itself
<1>2. I \in SUBSET DOMAIN more
  OBVIOUS
<1> HIDE DEF I
<1>3. /\ Pick(more, I) \in Seq(S) /\ Len(Pick(more, I)) = Cardinality(I)
      /\ \A n \in 1..Cardinality(I) : \E i \in I : Pick(more, I)[n] = more[i]
  BY <1>2, PickProperties
<1> DEFINE tail == Pick(more, I)
<1>4. tail \in Seq(S) /\ Range(tail) \subseteq Range(more)
  <2>1. DOMAIN tail = 1..Cardinality(I)
    BY <1>3
  <2>2. QED
    BY <1>2, <1>3, <2>1 DEF Range
<1> HIDE DEF tail
<1>5. base \o tail \in Seq(S) /\ Range(base \o tail) \subseteq Range(base) \cup Range(tail)
  <2>1. /\ base \o tail \in Seq(S)
        /\ Len(base \o tail) = Len(base) + Len(tail)
        /\ \A i \in 1..Len(base) + Len(tail) :
             (base \o tail)[i] = IF i <= Len(base) THEN base[i] ELSE tail[i - Len(base)]
    BY <1>4
  <2>2. DOMAIN base = 1..Len(base) /\ DOMAIN tail = 1..Len(tail)
        /\ Len(base) \in Nat /\ Len(tail) \in Nat
    BY <1>4
  <2>3. DOMAIN (base \o tail) = 1..Len(base) + Len(tail)
    BY <2>1
  <2>4. ASSUME NEW i \in 1..Len(base) + Len(tail)
        PROVE  (base \o tail)[i] \in Range(base) \cup Range(tail)
    <3>1. CASE i <= Len(base)
      BY <2>1, <2>2, <3>1 DEF Range
    <3>2. CASE ~(i <= Len(base))
      <4>1. i - Len(base) \in 1..Len(tail)
        BY <2>2, <3>2
      <4>2. QED
        BY <2>1, <2>2, <3>2, <4>1 DEF Range
    <3>3. QED
      BY <3>1, <3>2
  <2>5. Range(base \o tail) = {(base \o tail)[i] : i \in 1..Len(base) + Len(tail)}
    BY <2>3 DEF Range
  <2>6. QED
    BY <2>1, <2>4, <2>5
<1>6. QED
  BY <1>1, <1>4, <1>5 DEF tail

(* Codes are codes of the names.                                           *)
LEMMA CodesProperties ==
  ASSUME NEW names \in Seq(Names)
  PROVE  Codes(names) \in Seq(Names)
<1> DEFINE slugs == [i \in DOMAIN names |-> Slug[names[i]]]
           some == Without(slugs, {""})
<1>1. Codes(names) = Joined(<<>>, some, Itself)
  BY DEF Codes
<1> DEFINE T == Names \cup {""}
<1>2. slugs \in Seq(T)
  <2> DEFINE n == Len(names)
             d == 1..n
  <2>1. n \in Nat /\ DOMAIN names = d /\ \A i \in DOMAIN names : names[i] \in Names
    OBVIOUS
  <2>2. \A i \in d : Slug[names[i]] \in T
    BY <2>1, ProfileAssumption
  <2>3. slugs = [i \in d |-> Slug[names[i]]]
    BY <2>1
  <2> HIDE DEF slugs, T, n
  <2>4. slugs \in [d -> T]
    BY <2>2, <2>3
  <2>5. QED
    BY <2>1, <2>4
<1> HIDE DEF slugs
<1>3. \A x \in T : x # "" => x \in Names
  OBVIOUS
<1> HIDE DEF T
<1>4. some \in Seq(T)
  BY <1>2, WithoutProperties
<1>9. Range(some) = Range(slugs) \ {""}
  BY <1>2, WithoutProperties
<1> HIDE DEF some
<1>5. some \in Seq(Names)
  <2>1. DOMAIN some = 1..Len(some) /\ Len(some) \in Nat
    BY <1>4
  <2>2. \A i \in 1..Len(some) : some[i] \in Range(some) /\ some[i] \in T
    BY <1>4, <2>1 DEF Range
  <2>3. \A i \in 1..Len(some) : some[i] \in Names
    BY <1>3, <1>9, <2>2
  <2>4. some = [i \in 1..Len(some) |-> some[i]]
    BY <1>4
  <2>5. QED
    BY <2>1, <2>3, <2>4
<1>6. <<>> \in Seq(Names)
  OBVIOUS
<1>7. Joined(<<>>, some, Itself) \in Seq(Names)
  BY <1>5, <1>6, JoinedProperties
<1>8. QED
  BY <1>1, <1>7

Fields == Columns \cup {"stored", "may"}

(* A profile whose lists are lists.                                        *)
HasLists(p) ==
  /\ DOMAIN p = Fields
  /\ \A c \in {"stack", "interests", "anti", "gaps"} : p[c] \in Seq(Names)

Wanted(p) == Range(Codes(p.stack)) \cup Range(p.interests) \cup Range(p.anti)

ApartIn(p) == "lists" \in p.may \/ Range(p.interests) \cap Range(p.anti) = {}
OpenIn(p) == "gaps" \in p.may \/ Range(p.gaps) \cap Wanted(p) = {}

(* What a request knows: the profile it has read was in order; the new one *)
(* keeps the lists apart from the start and, until it has been planned     *)
(* for, has the gaps of the old one and their excuse; then it is in order. *)
Requested(q) ==
  /\ HasLists(q.prev) /\ HasLists(q.next)
  /\ DOMAIN q = {"at", "picks", "prev", "next", "seen"}
  /\ q.at = "extract" => q.picks \in Pickings
  /\ q.at \in {"extract", "plan"} => ApartIn(q.prev) /\ OpenIn(q.prev)
  /\ q.at = "plan" => /\ ApartIn(q.next)
                      /\ q.next.gaps = q.prev.gaps
                      /\ "gaps" \in q.prev.may => "gaps" \in q.next.may
  /\ q.at \in {"embed", "save"} => ApartIn(q.next) /\ OpenIn(q.next)

ProfileInv ==
  /\ HasLists(row) /\ ApartIn(row) /\ OpenIn(row)
  /\ DOMAIN updates = Updates
  /\ \A r \in Updates : Requested(updates[r])

LEMMA EmptyInOrder ==
  /\ HasLists(Empty) /\ ApartIn(Empty) /\ OpenIn(Empty)
<1>1. Empty.gaps = <<>> /\ Empty.interests = <<>>
      /\ Empty.anti = <<>> /\ Empty.stack = <<>>
  BY DEF Empty
<1>2. DOMAIN Empty = Fields
  BY DEF Empty, Fields, Columns
<1>3. Range(<<>>) = {} /\ <<>> \in Seq(Names)
  BY DEF Range
<1>4. QED
  BY <1>1, <1>2, <1>3 DEF HasLists, ApartIn, OpenIn

LEMMA IdleRequested == Requested(NoUpdate) /\ Requested([NoUpdate EXCEPT !.at = "done"])
<1>1. NoUpdate.prev = Empty /\ NoUpdate.next = Empty /\ NoUpdate.at = "idle"
  BY DEF NoUpdate
<1>2. DOMAIN NoUpdate = {"at", "picks", "prev", "next", "seen"}
  BY DEF NoUpdate
<1> DEFINE q == [NoUpdate EXCEPT !.at = "done"]
<1>3. /\ q.prev = Empty /\ q.next = Empty /\ q.at = "done"
      /\ DOMAIN q = {"at", "picks", "prev", "next", "seen"}
  BY DEF NoUpdate
<1> HIDE DEF q
<1>4. QED
  BY <1>1, <1>2, <1>3, EmptyInOrder DEF Requested

(* What the first n or fewer codes of a list are.                          *)
LEMMA TopicLists ==
  ASSUME NEW names \in Seq(Names)
  PROVE  TopicSlugs(names) \in Seq(Names) /\ ManualTopics(names) \in Seq(Names)
<1> MaxExtracted \in Nat /\ MaxTopics \in Nat
  BY ProfileAssumption
<1> DEFINE codes == Codes(names)
<1>1. codes \in Seq(Names)
  BY CodesProperties
<1> HIDE DEF codes
<1>2. Without(codes, LongSlugs) \in Seq(Names)
  BY <1>1, WithoutProperties
<1>3. Take(Without(codes, LongSlugs), MaxExtracted) \in Seq(Names)
  BY <1>2, TakeProperties
<1>4. Take(codes, MaxTopics) \in Seq(Names)
  BY <1>1, TakeProperties
<1>5. QED
  BY <1>3, <1>4 DEF codes, TopicSlugs, ManualTopics

(* What is taken from a text, and what is left when there is none.         *)
LEMMA ExtractLists ==
  ASSUME NEW x \in {PostprocessProfile(raw) : raw \in Extracts} \cup {Nothing}
  PROVE  x.stack \in Seq(Names) /\ x.interests \in Seq(Names) /\ x.anti \in Seq(Names)
<1>1. CASE x = Nothing
  BY <1>1 DEF Nothing
<1>2. ASSUME NEW raw \in Extracts, x = PostprocessProfile(raw)
      PROVE  x.stack \in Seq(Names) /\ x.interests \in Seq(Names) /\ x.anti \in Seq(Names)
  <2>1. raw.stack \in Seq(Names) /\ raw.interests \in Seq(Names) /\ raw.anti \in Seq(Names)
    BY ProfileAssumption
  <2> DEFINE anti == TopicSlugs(raw.anti)
             interests == TopicSlugs(raw.interests)
  <2>2. anti \in Seq(Names) /\ interests \in Seq(Names)
    BY <2>1, TopicLists
  <2> HIDE DEF anti, interests
  <2>3. Without(interests, Range(anti)) \in Seq(Names)
    BY <2>2, WithoutProperties
  <2>4. /\ x.stack = raw.stack
        /\ x.interests = Without(TopicSlugs(raw.interests), Range(TopicSlugs(raw.anti)))
        /\ x.anti = TopicSlugs(raw.anti)
    BY <1>2 DEF PostprocessProfile
  <2>5. x.interests = Without(interests, Range(anti)) /\ x.anti = anti
    BY <2>4 DEF anti, interests
  <2>6. QED
    BY <2>1, <2>2, <2>3, <2>4, <2>5
<1>3. QED
  BY <1>1, <1>2

(* A profile made of a text keeps its lists apart, whatever was picked.    *)
LEMMA FromTextInOrder ==
  ASSUME NEW prev, HasLists(prev), NEW picks \in Pickings,
         NEW x, x.stack \in Seq(Names), x.interests \in Seq(Names), x.anti \in Seq(Names)
  PROVE  LET next == FromText(prev, picks, x)
         IN /\ HasLists(next) /\ ApartIn(next)
            /\ next.gaps = prev.gaps
            /\ "gaps" \in prev.may => "gaps" \in next.may
<1> DEFINE anti == IF picks = NotGiven \/ picks.anti = NotGiven THEN x.anti
                   ELSE ManualTopics(picks.anti)
           chosen == IF picks = NotGiven \/ picks.interests = NotGiven THEN x.interests
                     ELSE ManualTopics(picks.interests)
           next == FromText(prev, picks, x)
<1>1. anti \in Seq(Names) /\ chosen \in Seq(Names)
  <2>1. picks = NotGiven \/ /\ picks.anti \in Seq(Names) \/ picks.anti = NotGiven
                            /\ picks.interests \in Seq(Names) \/ picks.interests = NotGiven
    BY ProfileAssumption
  <2>2. QED
    BY <2>1, TopicLists
<1>2. /\ next.interests = Without(chosen, Range(anti))
      /\ next.anti = anti /\ next.stack = x.stack /\ next.gaps = prev.gaps
      /\ next.may = prev.may \cap {"gaps"}
      /\ DOMAIN next = Fields
  BY DEF FromText, Fields, Columns
<1> HIDE DEF anti, chosen, next
<1>3. next.interests = Without(chosen, Range(anti))
  BY <1>2
<1>4. /\ Without(chosen, Range(anti)) \in Seq(Names)
      /\ Range(Without(chosen, Range(anti))) = Range(chosen) \ Range(anti)
  BY <1>1, WithoutProperties
<1>5. prev.gaps \in Seq(Names)
  BY DEF HasLists
<1>6. HasLists(next)
  BY <1>1, <1>2, <1>3, <1>4, <1>5 DEF HasLists
<1>7. ApartIn(next)
  BY <1>2, <1>3, <1>4 DEF ApartIn
<1>8. QED
  BY <1>2, <1>6, <1>7 DEF next

(* An edit keeps the lists apart too, unless it names a topic twice.       *)
LEMMA ApplyInOrder ==
  ASSUME NEW p, HasLists(p), ApartIn(p), NEW c \in Changes
  PROVE  LET next == ApplyProfileChanges(p, c)
         IN /\ HasLists(next) /\ ApartIn(next)
            /\ next.gaps = p.gaps
            /\ "gaps" \in p.may => "gaps" \in next.may
<1> MaxTopics \in Nat
  BY ProfileAssumption
<1> DEFINE more == Codes(c.addInterests)
           less == Codes(c.addAnti)
           offInterests == DropFrom(c.removeInterests, c.addAnti)
           offAnti == DropFrom(c.removeAnti, c.addInterests)
           oldInterests == Without(p.interests, offInterests)
           oldAnti == Without(p.anti, offAnti)
           interests == Joined(oldInterests, more, Itself)
           anti == Joined(oldAnti, less, Itself)
           next == ApplyProfileChanges(p, c)
<1>1. more \in Seq(Names) /\ less \in Seq(Names)
  <2>1. c.addInterests \in Seq(Names) /\ c.addAnti \in Seq(Names)
    BY ProfileAssumption
  <2>2. QED
    BY <2>1, CodesProperties
<1>2. Range(less) \subseteq offInterests /\ Range(more) \subseteq offAnti
  BY DEF DropFrom
<1>3. /\ next.interests = Take(interests, MaxTopics)
      /\ next.anti = Take(anti, MaxTopics)
      /\ next.stack = p.stack /\ next.gaps = p.gaps
      /\ DOMAIN next = Fields
  BY DEF ApplyProfileChanges, Fields, Columns, HasLists
<1>4. next.may = p.may \cup (IF NamedTwice(c) THEN {"lists"} ELSE {})
  BY DEF ApplyProfileChanges, Fields, HasLists
<1>5. Range(more) \cap Range(less) # {} => NamedTwice(c)
  BY DEF NamedTwice
<1>6. /\ p.interests \in Seq(Names) /\ p.anti \in Seq(Names)
      /\ p.stack \in Seq(Names) /\ p.gaps \in Seq(Names)
  BY DEF HasLists
<1> HIDE DEF more, less, offInterests, offAnti, next
<1>7. /\ oldInterests \in Seq(Names)
      /\ oldAnti \in Seq(Names)
  BY <1>6, WithoutProperties
<1>8. Range(oldInterests) = Range(p.interests) \ offInterests
  BY <1>6, WithoutProperties
<1>9. Range(oldAnti) = Range(p.anti) \ offAnti
  BY <1>6, WithoutProperties
<1> HIDE DEF oldInterests, oldAnti
<1>10. /\ interests \in Seq(Names)
       /\ anti \in Seq(Names)
  BY <1>1, <1>7, JoinedProperties
<1>11. /\ Range(interests) \subseteq Range(oldInterests) \cup Range(more)
       /\ Range(anti) \subseteq Range(oldAnti) \cup Range(less)
  BY <1>1, <1>7, JoinedProperties
<1> HIDE DEF interests, anti
<1>12. /\ next.interests \in Seq(Names)
       /\ next.anti \in Seq(Names)
  BY <1>3, <1>10, TakeProperties
<1>13. /\ Range(next.interests) \subseteq Range(interests)
       /\ Range(next.anti) \subseteq Range(anti)
  BY <1>3, <1>10, TakeProperties
<1>14. HasLists(next)
  BY <1>3, <1>6, <1>12 DEF HasLists
<1>15. ApartIn(next)
  <2>1. CASE "lists" \in next.may
    BY <2>1 DEF ApartIn
  <2>2. CASE "lists" \notin next.may
    <3>1. ~NamedTwice(c) /\ "lists" \notin p.may
      BY <1>4, <2>2
    <3>2. Range(p.interests) \cap Range(p.anti) = {} /\ Range(more) \cap Range(less) = {}
      BY <1>5, <3>1 DEF ApartIn
    <3>3. QED
      BY <1>2, <1>8, <1>9, <1>11, <1>13, <3>2 DEF ApartIn
  <2>3. QED
    BY <2>1, <2>2
<1>16. QED
  BY <1>3, <1>4, <1>14, <1>15 DEF next

(* What is planned for is not wanted yet, nor unwanted.                    *)
LEMMA PlanInOrder ==
  ASSUME NEW p, HasLists(p),
         NEW gaps \in {<<>>} \cup {PostprocessGaps(plan, p) : plan \in Plans}
  PROVE  gaps \in Seq(Names) /\ Range(gaps) \cap Wanted(p) = {}
<1>1. CASE gaps = <<>>
  BY <1>1 DEF Range
<1>2. ASSUME NEW plan \in Plans, gaps = PostprocessGaps(plan, p)
      PROVE  gaps \in Seq(Names) /\ Range(gaps) \cap Wanted(p) = {}
  <2> MaxGaps \in Nat
    BY ProfileAssumption
  <2> DEFINE codes == Codes(plan)
             off == LongSlugs \cup Wanted(p)
             left == Without(codes, off)
  <2>1. codes \in Seq(Names)
    <3>1. plan \in Seq(Names)
      BY ProfileAssumption
    <3>2. QED
      BY <3>1, CodesProperties
  <2>2. gaps = Take(left, MaxGaps)
    BY <1>2 DEF PostprocessGaps, Wanted
  <2>3. Wanted(p) \subseteq off
    OBVIOUS
  <2> HIDE DEF codes, off
  <2>4. left \in Seq(Names)
    BY <2>1, WithoutProperties
  <2>5. Range(left) = Range(codes) \ off
    BY <2>1, WithoutProperties
  <2> HIDE DEF left
  <2>6. gaps \in Seq(Names)
    BY <2>2, <2>4, TakeProperties
  <2>7. Range(gaps) \subseteq Range(left)
    BY <2>2, <2>4, TakeProperties
  <2>8. QED
    BY <2>3, <2>5, <2>6, <2>7
<1>3. QED
  BY <1>1, <1>2

(* One request has got on and the row is as it was.                        *)
LEMMA RequestMoves ==
  ASSUME ProfileInv, NEW r \in Updates, NEW q, Requested(q),
         UpdateIs(r, q), UNCHANGED row
  PROVE  ProfileInv'
BY DEF ProfileInv, UpdateIs

(* Planning ends with the gaps that are to be saved.                       *)
LEMMA PlannedInOrder ==
  ASSUME ProfileInv, NEW r \in Updates, NEW gaps \in Seq(Names), NEW may,
         Planned(r, gaps, may), ApartIn(updates[r].next),
         "lists" \in updates[r].next.may => "lists" \in may,
         "gaps" \in may \/ Range(gaps) \cap Wanted(updates[r].next) = {}
  PROVE  ProfileInv'
<1> DEFINE q == [updates[r] EXCEPT !.at = "embed", !.next.gaps = gaps, !.next.may = may]
<1>1. UpdateIs(r, q) /\ UNCHANGED row
  BY DEF Planned
<1>2. Requested(updates[r])
  BY DEF ProfileInv
<1> DEFINE next == [[updates[r].next EXCEPT !.gaps = gaps] EXCEPT !.may = may]
<1>3. /\ q.at = "embed" /\ q.prev = updates[r].prev /\ q.next = next
      /\ DOMAIN q = {"at", "picks", "prev", "next", "seen"}
  BY <1>2 DEF Requested
<1>4. /\ next.stack = updates[r].next.stack /\ next.interests = updates[r].next.interests
      /\ next.anti = updates[r].next.anti /\ next.gaps = gaps /\ next.may = may
      /\ DOMAIN next = Fields
  BY <1>2 DEF Requested, HasLists, Fields, Columns
<1> HIDE DEF q, next
<1>5. HasLists(next)
  BY <1>2, <1>4 DEF Requested, HasLists
<1>6. ApartIn(next)
  BY <1>4 DEF ApartIn
<1>7. OpenIn(next)
  BY <1>4 DEF OpenIn, Wanted
<1>8. Requested(q)
  BY <1>2, <1>3, <1>5, <1>6, <1>7 DEF Requested
<1>9. QED
  BY <1>1, <1>8, RequestMoves

(* A row that nobody else has written becomes the new profile; one that    *)
(* somebody has is excused.                                                *)
LEMMA SavedInOrder ==
  ASSUME ProfileInv, NEW r \in Updates, SaveProfile(r)
  PROVE  ProfileInv'
<1> DEFINE q == updates[r]
<1>1. Requested(q) /\ q.at = "save"
  BY DEF ProfileInv, SaveProfile
<1>2. DOMAIN row = Fields /\ \A c \in {"stack", "interests", "anti", "gaps"} : row[c] \in Seq(Names)
  BY DEF ProfileInv, HasLists
<1>3. DOMAIN row' = Fields
  BY <1>2 DEF SaveProfile
<1>4. \A c \in {"stack", "interests", "anti", "gaps"} :
        row'[c] = IF q.next[c] = q.seen[c] THEN row[c] ELSE q.next[c]
  BY <1>2 DEF SaveProfile, Fields, Columns
<1>5. row'.may = IF Raced(r) THEN {"lists", "gaps"} ELSE q.next.may
  BY <1>2 DEF SaveProfile, Fields, Columns
<1> HIDE DEF q
<1>6. HasLists(row')
  BY <1>1, <1>2, <1>3, <1>4 DEF Requested, HasLists
<1>7. ApartIn(row') /\ OpenIn(row')
  <2>1. CASE Raced(r)
    BY <1>5, <2>1 DEF ApartIn, OpenIn
  <2>2. CASE ~Raced(r)
    <3>1. row = q.seen
      BY <2>2 DEF Raced, q
    <3>2. \A c \in {"stack", "interests", "anti", "gaps"} : row'[c] = q.next[c]
      BY <1>4, <3>1
    <3>3. /\ row'.stack = q.next.stack /\ row'.interests = q.next.interests
          /\ row'.anti = q.next.anti /\ row'.gaps = q.next.gaps
          /\ row'.may = q.next.may
      BY <1>5, <2>2, <3>2
    <3>4. ApartIn(q.next) /\ OpenIn(q.next)
      BY <1>1 DEF Requested
    <3>5. QED
      BY <3>3, <3>4 DEF ApartIn, OpenIn, Wanted
  <2>3. QED
    BY <2>1, <2>2
<1>8. /\ DOMAIN updates' = Updates
      /\ \A s \in Updates : updates'[s] = IF s = r THEN [NoUpdate EXCEPT !.at = "done"] ELSE updates[s]
  BY DEF SaveProfile, UpdateIs, ProfileInv
<1>9. QED
  BY <1>6, <1>7, <1>8, IdleRequested DEF ProfileInv

LEMMA RequestStep ==
  ASSUME ProfileInv, NEW r \in Updates,
         \/ \E picks \in Pickings : UpdateUserProfile(r, picks)
         \/ Extract(r)
         \/ \E c \in Changes : Apply(r, c)
         \/ GapsStay(r) \/ Plan(r) \/ PlanFails(r)
         \/ Get(r) \/ SaveProfile(r) \/ Clash(r) \/ UpdateFails(r)
  PROVE  ProfileInv'
<1> DEFINE x == updates[r]
<1>1. Requested(x) /\ HasLists(row) /\ ApartIn(row) /\ OpenIn(row)
  BY DEF ProfileInv
<1>2. NoUpdate.next = Empty /\ DOMAIN NoUpdate = {"at", "picks", "prev", "next", "seen"}
  BY DEF NoUpdate
<1>3. ASSUME NEW picks \in Pickings, UpdateUserProfile(r, picks)
      PROVE  ProfileInv'
  <2> DEFINE q == [NoUpdate EXCEPT !.at = "extract", !.picks = picks, !.prev = row]
  <2>1. /\ q.at = "extract" /\ q.picks = picks /\ q.prev = row /\ q.next = Empty
        /\ DOMAIN q = {"at", "picks", "prev", "next", "seen"}
    BY DEF NoUpdate
  <2>2. UpdateIs(r, q) /\ UNCHANGED row
    BY <1>3 DEF UpdateUserProfile
  <2> HIDE DEF q
  <2>3. Requested(q)
    BY <1>1, <2>1, EmptyInOrder DEF Requested
  <2>4. QED
    BY <2>2, <2>3, RequestMoves
<1>4. CASE Extract(r)
  <2>1. PICK y \in {PostprocessProfile(raw) : raw \in Extracts} \cup {Nothing} :
          UpdateIs(r, [x EXCEPT !.at = "plan", !.next = FromText(x.prev, x.picks, y)])
    BY <1>4 DEF Extract
  <2>2. x.at = "extract" /\ UNCHANGED row
    BY <1>4 DEF Extract
  <2> DEFINE next == FromText(x.prev, x.picks, y)
             q == [x EXCEPT !.at = "plan", !.next = next]
  <2> HIDE DEF x
  <2>3. x.picks \in Pickings /\ HasLists(x.prev) /\ ApartIn(x.prev) /\ OpenIn(x.prev)
    BY <1>1, <2>2 DEF Requested
  <2>4. y.stack \in Seq(Names) /\ y.interests \in Seq(Names) /\ y.anti \in Seq(Names)
    BY ExtractLists
  <2>5. /\ HasLists(next) /\ ApartIn(next) /\ next.gaps = x.prev.gaps
        /\ "gaps" \in x.prev.may => "gaps" \in next.may
    BY <2>3, <2>4, FromTextInOrder
  <2> HIDE DEF next
  <2>6. /\ q.at = "plan" /\ q.prev = x.prev /\ q.next = next
        /\ DOMAIN q = {"at", "picks", "prev", "next", "seen"}
    BY <1>1 DEF Requested
  <2>7. UpdateIs(r, q)
    BY <2>1 DEF next
  <2> HIDE DEF q
  <2>8. Requested(q)
    BY <2>3, <2>5, <2>6 DEF Requested
  <2>9. QED
    BY <2>2, <2>7, <2>8, RequestMoves
<1>5. ASSUME NEW c \in Changes, Apply(r, c)
      PROVE  ProfileInv'
  <2> DEFINE next == ApplyProfileChanges(row, c)
             q == [NoUpdate EXCEPT !.at = "plan", !.prev = row, !.next = next]
  <2>1. UpdateIs(r, q) /\ UNCHANGED row
    BY <1>5 DEF Apply
  <2>2. /\ HasLists(next) /\ ApartIn(next) /\ next.gaps = row.gaps
        /\ "gaps" \in row.may => "gaps" \in next.may
    BY <1>1, ApplyInOrder
  <2> HIDE DEF next
  <2>3. /\ q.at = "plan" /\ q.prev = row /\ q.next = next
        /\ DOMAIN q = {"at", "picks", "prev", "next", "seen"}
    BY DEF NoUpdate
  <2> HIDE DEF q
  <2>4. Requested(q)
    BY <1>1, <2>2, <2>3 DEF Requested
  <2>5. QED
    BY <2>1, <2>4, RequestMoves
<1>6. CASE GapsStay(r)
  <2>1. /\ x.at = "plan" /\ ~GapsOutdated(x.prev, x.next)
        /\ Planned(r, x.next.gaps, x.next.may)
    BY <1>6 DEF GapsStay
  <2>2. /\ x.prev.stack = x.next.stack /\ x.prev.interests = x.next.interests
        /\ x.prev.anti = x.next.anti
    BY <2>1 DEF GapsOutdated
  <2>3. /\ HasLists(x.next) /\ ApartIn(x.next) /\ OpenIn(x.prev)
        /\ x.next.gaps = x.prev.gaps
        /\ "gaps" \in x.prev.may => "gaps" \in x.next.may
    BY <1>1, <2>1 DEF Requested
  <2> HIDE DEF x
  <2>4. "gaps" \in x.next.may \/ Range(x.next.gaps) \cap Wanted(x.next) = {}
    BY <2>2, <2>3 DEF OpenIn, Wanted
  <2>5. x.next.gaps \in Seq(Names)
    BY <2>3 DEF HasLists
  <2>6. QED
    BY <2>1, <2>3, <2>4, <2>5, PlannedInOrder DEF x
<1>7. CASE Plan(r)
  <2>1. PICK gaps \in IF x.next.goals = <<>> THEN {<<>>}
                      ELSE {PostprocessGaps(plan, x.next) : plan \in Plans} :
          Planned(r, gaps, x.next.may \ {"gaps"})
    BY <1>7 DEF Plan
  <2>2. HasLists(x.next) /\ ApartIn(x.next)
    BY <1>1, <1>7 DEF Plan, Requested
  <2>3. gaps \in {<<>>} \cup {PostprocessGaps(plan, x.next) : plan \in Plans}
    BY <2>1
  <2> DEFINE next == x.next
  <2>4. HasLists(next) /\ gaps \in {<<>>} \cup {PostprocessGaps(plan, next) : plan \in Plans}
    BY <2>2, <2>3
  <2>5. gaps \in Seq(Names) /\ Range(gaps) \cap Wanted(next) = {}
    <3> HIDE DEF next
    <3>1. QED
      BY <2>4, PlanInOrder
  <2>6. QED
    BY <2>1, <2>2, <2>5, PlannedInOrder
<1>8. CASE PlanFails(r)
  <2>1. x.at = "plan" /\ Planned(r, x.next.gaps, x.next.may \cup {"gaps"})
    BY <1>8 DEF PlanFails
  <2>2. ApartIn(x.next) /\ x.next.gaps \in Seq(Names)
    BY <1>1, <2>1 DEF Requested, HasLists
  <2>3. QED
    BY <2>1, <2>2, PlannedInOrder
<1>9. CASE Get(r)
  <2> DEFINE q == [x EXCEPT !.at = "save", !.seen = row]
  <2>1. x.at = "embed" /\ UpdateIs(r, q) /\ UNCHANGED row
    BY <1>9 DEF Get
  <2>2. /\ q.at = "save" /\ q.prev = x.prev /\ q.next = x.next
        /\ DOMAIN q = {"at", "picks", "prev", "next", "seen"}
    BY <1>1 DEF Requested
  <2> HIDE DEF q, x
  <2>3. Requested(q)
    BY <1>1, <2>1, <2>2 DEF Requested
  <2>4. QED
    BY <2>1, <2>3, RequestMoves
<1>10. CASE SaveProfile(r)
  BY <1>10, SavedInOrder
<1>11. CASE Clash(r) \/ UpdateFails(r)
  <2>1. UpdateIs(r, [NoUpdate EXCEPT !.at = "done"]) /\ UNCHANGED row
    BY <1>11 DEF Clash, UpdateFails
  <2>2. QED
    BY <2>1, IdleRequested, RequestMoves
<1>12. QED
  BY <1>3, <1>4, <1>5, <1>6, <1>7, <1>8, <1>9, <1>10, <1>11

LEMMA ProfileInvHolds == ProfileSpec => []ProfileInv
<1>1. ProfileInit => ProfileInv
  BY EmptyInOrder, IdleRequested DEF ProfileInit, ProfileInv
<1>2. ProfileInv /\ [ProfileNext]_profileVars => ProfileInv'
  <2>1. ASSUME ProfileInv, ProfileNext PROVE ProfileInv'
    BY <2>1, RequestStep DEF ProfileNext
  <2>2. ASSUME ProfileInv, UNCHANGED profileVars PROVE ProfileInv'
    BY <2>2 DEF profileVars, ProfileInv
  <2>3. QED
    BY <2>1, <2>2
<1>3. QED
  BY <1>1, <1>2, PTL DEF ProfileSpec

(* Whatever texts, picks, edits and answers of the model follow each other *)
(* and however requests overlap: the stored lists of topics are disjoint   *)
(* and no skill that is called missing is had or unwanted, but for the     *)
(* excuses the property names.                                             *)
THEOREM ProfilesAreConsistent == ProfileSpec => []ProfileConsistent
<1>1. ProfileInv => ProfileConsistent
  BY DEF ProfileInv, ApartIn, OpenIn, Wanted, ProfileConsistent, ListsApart, GapsOpen
<1>2. QED
  BY <1>1, ProfileInvHolds, PTL

-----------------------------------------------------------------------------
(* Web.                                                                    *)


ViewFields == {"loaded", "error", "items", "total", "profile", "text", "typed", "busy",
               "shows", "inbox"}
CallFields == {"op", "at", "open", "offset", "event", "text", "given", "interests", "anti",
               "note", "ok", "items", "total", "profile", "inbox"}
OpsOf(p) == CASE p = "saved"    -> {"saved", "remove"}
              [] p = "settings" -> {"profile", "put"}
              [] p = "search"   -> {"search"}
              [] p = "inbox"    -> {"inbox", "read"}
              [] OTHER          -> {}

IsCall(call) == DOMAIN call = CallFields /\ call.at \in {"sent", "done"}

TabInv ==
  /\ DOMAIN view = ViewFields
  /\ \A c \in DOMAIN calls : IsCall(calls[c])
  /\ \A c \in Live : calls[c].op \in OpsOf(page)

(* One call at most is under way for the page, and while the button can be *)
(* pressed there is none.                                                  *)
SearchInv ==
  page = "search" =>
    /\ \A c \in Live : calls[c].text = view.text
    /\ \A c, d \in Live : c = d
    /\ ~view.busy => Live = {}
    /\ SearchAgrees

(* Undisturbed, that call is the only one, and what it was answered is     *)
(* what is kept.                                                           *)
SettingsInv ==
  page = "settings" =>
    /\ \A c, d \in Live : c = d
    /\ view.loaded /\ ~view.busy => Live = {}
    /\ ~disturbed =>
         /\ DOMAIN calls = Live
         /\ \A c \in Live : calls[c].at = "done" /\ calls[c].ok => calls[c].profile = profile
         /\ view.loaded /\ Live = {} => /\ view.error \/ view.profile = profile
                                        /\ view.error \/ view.typed \/ view.text = profile.about

FormsInv == TabInv /\ SearchInv /\ SettingsInv

LEMMA LiveCalls == \A c : c \in Live <=> c \in DOMAIN calls /\ calls[c].open
BY DEF Live

LEMMA LiveCallsNext == \A c : c \in Live' <=> c \in DOMAIN calls' /\ calls'[c].open
BY DEF Live

LEMMA NewView ==
  /\ DOMAIN NoView = ViewFields
  /\ ~NoView.loaded /\ ~NoView.busy /\ ~NoView.error
  /\ NoView.shows = "" /\ NoView.text = "" /\ NoView.items = <<>>
BY DEF NoView, ViewFields

LEMMA NewCall ==
  /\ DOMAIN NoCall = CallFields
  /\ NoCall.at = "sent" /\ NoCall.open
BY DEF NoCall, CallFields

(* A page that is opened has a view of its own, and the call it begins     *)
(* with, if it does.                                                       *)
LEMMA EnterForms ==
  ASSUME FormsInv, NEW p, NEW op, NEW first, Enter(p, first),
         \/ first = <<>>
         \/ p # "search" /\ op \in OpsOf(p) /\ first = <<[NoCall EXCEPT !.op = op]>>
  PROVE  FormsInv'
<1> DEFINE left == [c \in {d \in DOMAIN calls : calls[d].at = "sent"} |->
                      [calls[c] EXCEPT !.open = FALSE]]
           call == [NoCall EXCEPT !.op = op]
<1>1. /\ page' = p /\ view' = NoView
      /\ disturbed' = (DOMAIN left # {})
      /\ calls' = IF first = <<>> THEN left
                  ELSE [c \in DOMAIN left \cup {sent} |-> IF c = sent THEN Head(first) ELSE left[c]]
  BY DEF Enter
<1>2. \A c \in DOMAIN left : IsCall(left[c]) /\ ~left[c].open
  BY DEF FormsInv, TabInv, IsCall, CallFields
<1>3. IsCall(call) /\ call.at = "sent" /\ call.open /\ call.op = op
  BY NewCall DEF IsCall, CallFields
<1>4. first = <<call>> => first # <<>> /\ Head(first) = call
  OBVIOUS
<1> HIDE DEF left, call
<1>5. CASE first = <<>>
  <2>1. calls' = left
    BY <1>1, <1>5
  <2>2. Live' = {} /\ \A c \in DOMAIN calls' : IsCall(calls'[c])
    BY <1>2, <2>1, LiveCallsNext
  <2>3. ~disturbed' => DOMAIN calls' = {}
    BY <1>1, <2>1
  <2>4. TabInv'
    BY <1>1, <2>2, NewView DEF TabInv
  <2>5. SearchInv'
    BY <1>1, <2>2, NewView DEF SearchInv, SearchAgrees
  <2>6. SettingsInv'
    BY <1>1, <2>2, <2>3, NewView DEF SettingsInv
  <2>7. QED
    BY <2>4, <2>5, <2>6 DEF FormsInv
<1>6. CASE p # "search" /\ op \in OpsOf(p) /\ first = <<call>>
  <2>1. calls' = [c \in DOMAIN left \cup {sent} |-> IF c = sent THEN call ELSE left[c]]
    BY <1>1, <1>4, <1>6
  <2>2. Live' = {sent} /\ calls'[sent] = call /\ \A c \in DOMAIN calls' : IsCall(calls'[c])
    BY <1>2, <1>3, <2>1, LiveCallsNext
  <2>3. ~disturbed' => DOMAIN calls' = {sent}
    BY <1>1, <2>1
  <2>4. TabInv'
    BY <1>1, <1>3, <1>6, <2>2, NewView DEF TabInv
  <2>5. SearchInv'
    BY <1>1, <1>6 DEF SearchInv
  <2>6. SettingsInv'
    BY <1>1, <1>3, <2>2, <2>3, NewView DEF SettingsInv
  <2>7. QED
    BY <2>4, <2>5, <2>6 DEF FormsInv
<1>7. QED
  BY <1>5, <1>6 DEF call

(* A call that the user makes joins those under way.                       *)
LEMMA RequestJoins ==
  ASSUME NEW call, Request(call)
  PROVE  /\ DOMAIN calls' = DOMAIN calls \cup {sent}
         /\ calls'[sent] = call
         /\ \A c \in DOMAIN calls : c # sent => calls'[c] = calls[c]
         /\ disturbed => disturbed'
BY DEF Request

LEMMA RequestLive ==
  ASSUME NEW call, Request(call), call.open
  PROVE  \A c : c \in Live' <=> c = sent \/ c \in Live
<1>1. QED
  BY RequestJoins, LiveCalls, LiveCallsNext

(* The API answers a call with what is kept, and the page knows its call   *)
(* again.                                                                  *)
LEMMA ServeAnswers ==
  ASSUME TabInv, NEW c \in DOMAIN calls, Serve(c)
  PROVE  /\ DOMAIN calls' = DOMAIN calls
         /\ \A d \in DOMAIN calls : d # c => calls'[d] = calls[d]
         /\ IsCall(calls'[c]) /\ calls[c].at = "sent"
         /\ calls'[c].open = calls[c].open
         /\ calls'[c].op = calls[c].op /\ calls'[c].text = calls[c].text
         /\ calls[c].op \in {"profile", "put"} /\ calls'[c].ok => calls'[c].profile = profile'
<1> DEFINE x == calls[c]
<1>1. IsCall(x)
  BY DEF TabInv
<1>2. ASSUME NEW a, Done(c, a)
      PROVE  /\ DOMAIN calls' = DOMAIN calls
             /\ \A d \in DOMAIN calls : d # c => calls'[d] = calls[d]
             /\ calls'[c] = [a EXCEPT !.at = "done"]
  BY <1>2 DEF Done
<1>3. ASSUME NEW a, DOMAIN a = CallFields
      PROVE  LET b == [a EXCEPT !.at = "done"]
             IN /\ IsCall(b) /\ b.open = a.open /\ b.op = a.op /\ b.text = a.text
                /\ b.ok = a.ok /\ b.profile = a.profile
  BY <1>3 DEF IsCall, CallFields
<1> DEFINE Answered(a) ==
      /\ Done(c, a) /\ DOMAIN a = CallFields
      /\ a.open = x.open /\ a.op = x.op /\ a.text = x.text
      /\ x.op \in {"profile", "put"} /\ a.ok => a.profile = profile'
<1>4. ASSUME NEW a, Answered(a)
      PROVE  /\ DOMAIN calls' = DOMAIN calls
             /\ \A d \in DOMAIN calls : d # c => calls'[d] = calls[d]
             /\ IsCall(calls'[c])
             /\ calls'[c].open = x.open
             /\ calls'[c].op = x.op /\ calls'[c].text = x.text
             /\ x.op \in {"profile", "put"} /\ calls'[c].ok => calls'[c].profile = profile'
  <2> DEFINE b == [a EXCEPT !.at = "done"]
  <2>1. Done(c, a) /\ DOMAIN a = CallFields
    BY <1>4
  <2>2. /\ IsCall(b) /\ b.open = a.open /\ b.op = a.op /\ b.text = a.text
        /\ b.ok = a.ok /\ b.profile = a.profile
    BY <1>3, <2>1
  <2>3. /\ DOMAIN calls' = DOMAIN calls
        /\ \A d \in DOMAIN calls : d # c => calls'[d] = calls[d]
        /\ calls'[c] = b
    BY <1>2, <2>1
  <2>4. /\ a.open = x.open /\ a.op = x.op /\ a.text = x.text
        /\ x.op \in {"profile", "put"} /\ a.ok => a.profile = profile'
    BY <1>4
  <2> HIDE DEF b, x
  <2>5. QED
    BY <2>2, <2>3, <2>4
<1>5. x.at = "sent"
  BY DEF Serve
<1>6. \E a : Answered(a)
  <2> HIDE DEF x
  <2>1. CASE Denied(c)
    <3> DEFINE a == [x EXCEPT !.ok = FALSE]
    <3>1. /\ DOMAIN a = CallFields /\ a.open = x.open /\ a.op = x.op /\ a.text = x.text
          /\ ~a.ok
      BY <1>1, <2>1 DEF IsCall, CallFields
    <3>2. Done(c, a) /\ profile' = profile
      BY <2>1 DEF Denied, server, x
    <3> HIDE DEF a
    <3>3. Answered(a)
      BY <2>1, <3>1, <3>2
    <3>4. QED
      BY <3>3
  <2>2. CASE x.op = "saved" /\ ListSaved(c)
    <3> DEFINE a == [x EXCEPT
                     !.items = SubSeq(saved, x.offset + 1,
                                        Min({Len(saved), x.offset + Page})),
                     !.total = Len(saved)]
    <3>1. /\ DOMAIN a = CallFields /\ a.open = x.open /\ a.op = x.op /\ a.text = x.text
          /\ a.op \notin {"profile", "put"}
      BY <1>1, <2>2 DEF IsCall, CallFields
    <3>2. Done(c, a) /\ profile' = profile
      BY <2>2 DEF ListSaved, server, x
    <3> HIDE DEF a
    <3>3. Answered(a)
      BY <2>2, <3>1, <3>2
    <3>4. QED
      BY <3>3
  <2>3. CASE x.op = "remove" /\ RemoveSaved(c)
    <3> DEFINE a == [x EXCEPT !.ok = x.event \subseteq Range(saved)]
    <3>1. /\ DOMAIN a = CallFields /\ a.open = x.open /\ a.op = x.op /\ a.text = x.text
          /\ a.op \notin {"profile", "put"}
      BY <1>1, <2>3 DEF IsCall, CallFields
    <3>2. Done(c, a) /\ profile' = profile
      BY <2>3 DEF RemoveSaved, server, x
    <3> HIDE DEF a
    <3>3. Answered(a)
      BY <2>3, <3>1, <3>2
    <3>4. QED
      BY <3>3
  <2>4. CASE x.op = "profile" /\ GetProfile(c)
    <3> DEFINE a == [x EXCEPT !.profile = profile]
    <3>1. /\ DOMAIN a = CallFields /\ a.open = x.open /\ a.op = x.op /\ a.text = x.text
          /\ a.profile = profile
      BY <1>1, <2>4 DEF IsCall, CallFields
    <3>2. Done(c, a) /\ profile' = profile
      BY <2>4 DEF GetProfile, server, x
    <3> HIDE DEF a
    <3>3. Answered(a)
      BY <2>4, <3>1, <3>2
    <3>4. QED
      BY <3>3
  <2>5. CASE x.op = "put" /\ PutProfile(c)
    <3> DEFINE made == profile'
               a == [x EXCEPT !.profile = made]
    <3>1. /\ DOMAIN a = CallFields /\ a.open = x.open /\ a.op = x.op /\ a.text = x.text
          /\ a.profile = made
      BY <1>1, <2>5 DEF IsCall, CallFields
    <3>2. Done(c, a)
      BY <2>5 DEF PutProfile, x
    <3> HIDE DEF a
    <3>3. Answered(a)
      BY <2>5, <3>1, <3>2
    <3>4. QED
      BY <3>3
  <2>6. CASE x.op = "search" /\ Done(c, x) /\ UNCHANGED server
    <3> DEFINE a == x
    <3>1. /\ DOMAIN a = CallFields /\ a.open = x.open /\ a.op = x.op /\ a.text = x.text
          /\ a.op \notin {"profile", "put"}
      BY <1>1, <2>6 DEF IsCall, CallFields
    <3>2. Done(c, a) /\ profile' = profile
      BY <2>6 DEF Done, server, x
    <3> HIDE DEF a
    <3>3. Answered(a)
      BY <2>6, <3>1, <3>2
    <3>4. QED
      BY <3>3
  <2>7. CASE x.op = "inbox" /\ ListInbox(c)
    <3> DEFINE a == [x EXCEPT !.inbox = inbox, !.total = Cardinality(inbox.unread)]
    <3>1. /\ DOMAIN a = CallFields /\ a.open = x.open /\ a.op = x.op /\ a.text = x.text
          /\ a.op \notin {"profile", "put"}
      BY <1>1, <2>7 DEF IsCall, CallFields
    <3>2. Done(c, a) /\ profile' = profile
      BY <2>7 DEF ListInbox, server, x
    <3> HIDE DEF a
    <3>3. Answered(a)
      BY <2>7, <3>1, <3>2
    <3>4. QED
      BY <3>3
  <2>8. CASE x.op = "read" /\ MarkNotificationRead(c)
    <3> DEFINE a == x
    <3>1. /\ DOMAIN a = CallFields /\ a.open = x.open /\ a.op = x.op /\ a.text = x.text
          /\ a.op \notin {"profile", "put"}
      BY <1>1, <2>8 DEF IsCall, CallFields
    <3>2. Done(c, a) /\ profile' = profile
      BY <2>8 DEF MarkNotificationRead, server, x
    <3> HIDE DEF a
    <3>3. Answered(a)
      BY <2>8, <3>1, <3>2
    <3>4. QED
      BY <3>3
  <2>9. QED
    BY <2>1, <2>2, <2>3, <2>4, <2>5, <2>6, <2>7, <2>8 DEF Serve, x
<1>7. QED
  BY <1>4, <1>5, <1>6

(* On the other pages only what a call may be is at stake.                 *)
LEMMA ListPages ==
  ASSUME FormsInv, UNCHANGED page, page \notin {"search", "settings"}, TabInv'
  PROVE  FormsInv'
BY DEF FormsInv, SearchInv, SettingsInv

LEMMA ListRequests ==
  ASSUME FormsInv,
         \/ ShowMore \/ Refresh
         \/ (\E e \in UserEvents : RemoveItem(e)) \/ (\E n \in Notes : MarkRead(n))
  PROVE  FormsInv'
<1>1. ASSUME NEW call, IsCall(call), call.open, call.op \in OpsOf(page), Request(call),
             DOMAIN view' = ViewFields, UNCHANGED page
      PROVE  TabInv'
  <2>1. \A c \in DOMAIN calls' : IsCall(calls'[c])
    BY <1>1, RequestJoins DEF FormsInv, TabInv
  <2>2. \A c \in Live' : calls'[c].op \in OpsOf(page)
    BY <1>1, RequestJoins, RequestLive, LiveCalls DEF FormsInv, TabInv
  <2>3. QED
    BY <1>1, <2>1, <2>2 DEF TabInv
<1> DOMAIN view = ViewFields
  BY DEF FormsInv, TabInv
<1>2. CASE ShowMore
  <2> DEFINE call == [NoCall EXCEPT !.op = "saved", !.offset = NextOffset(view.items)]
  <2>1. Request(call) /\ UNCHANGED page /\ page = "saved" /\ DOMAIN view' = ViewFields
    BY <1>2 DEF ShowMore
  <2>2. IsCall(call) /\ call.open /\ call.op = "saved"
    BY NewCall DEF IsCall, CallFields
  <2> HIDE DEF call
  <2>3. QED
    BY <1>1, <2>1, <2>2, ListPages DEF OpsOf
<1>3. CASE Refresh
  <2> DEFINE call == [NoCall EXCEPT !.op = "inbox"]
  <2>1. Request(call) /\ UNCHANGED page /\ page = "inbox" /\ DOMAIN view' = ViewFields
    BY <1>3 DEF Refresh
  <2>2. IsCall(call) /\ call.open /\ call.op = "inbox"
    BY NewCall DEF IsCall, CallFields
  <2> HIDE DEF call
  <2>3. QED
    BY <1>1, <2>1, <2>2, ListPages DEF OpsOf
<1>4. ASSUME NEW e \in UserEvents, RemoveItem(e)
      PROVE  FormsInv'
  <2> DEFINE call == [NoCall EXCEPT !.op = "remove", !.event = {e}]
  <2>1. Request(call) /\ UNCHANGED page /\ page = "saved" /\ UNCHANGED view
    BY <1>4 DEF RemoveItem
  <2>2. IsCall(call) /\ call.open /\ call.op = "remove"
    BY NewCall DEF IsCall, CallFields
  <2> HIDE DEF call
  <2>3. QED
    BY <1>1, <2>1, <2>2, ListPages DEF OpsOf
<1>5. ASSUME NEW n \in Notes, MarkRead(n)
      PROVE  FormsInv'
  <2> DEFINE call == [NoCall EXCEPT !.op = "read", !.note = {n}]
  <2>1. Request(call) /\ UNCHANGED page /\ page = "inbox" /\ UNCHANGED view
    BY <1>5 DEF MarkRead
  <2>2. IsCall(call) /\ call.open /\ call.op = "read"
    BY NewCall DEF IsCall, CallFields
  <2> HIDE DEF call
  <2>3. QED
    BY <1>1, <2>1, <2>2, ListPages DEF OpsOf
<1>6. QED
  BY <1>2, <1>3, <1>4, <1>5

(* A query is sent off while no other is under way.                        *)
LEMMA SubmitForms ==
  ASSUME FormsInv, NEW q, Submit(q)
  PROVE  FormsInv'
<1> DEFINE call == [NoCall EXCEPT !.op = "search", !.text = q]
<1>1. Request(call) /\ UNCHANGED page /\ page = "search" /\ ~view.busy
  BY DEF Submit
<1>2. IsCall(call) /\ call.open /\ call.op = "search" /\ call.text = q
  BY NewCall DEF IsCall, CallFields
<1>3. DOMAIN view' = ViewFields /\ view'.busy /\ view'.text = q
  BY DEF Submit, FormsInv, TabInv, ViewFields
<1> HIDE DEF call
<1>4. Live = {}
  BY <1>1 DEF FormsInv, SearchInv
<1>5. \A c \in Live' : c = sent
  BY <1>1, <1>2, <1>4, RequestLive
<1>6. calls'[sent] = call /\ \A c \in DOMAIN calls' : IsCall(calls'[c])
  BY <1>1, <1>2, RequestJoins DEF FormsInv, TabInv
<1>7. TabInv'
  BY <1>1, <1>2, <1>3, <1>5, <1>6 DEF TabInv, OpsOf
<1>8. SearchInv'
  BY <1>2, <1>3, <1>5, <1>6 DEF SearchInv, SearchAgrees
<1>9. SettingsInv'
  BY <1>1 DEF SettingsInv
<1>10. QED
  BY <1>7, <1>8, <1>9 DEF FormsInv

(* So is a profile.                                                        *)
LEMMA SaveForms ==
  ASSUME FormsInv, NEW about, DOMAIN about = CallFields, about.at = "sent", about.open,
         SaveAbout(about), UNCHANGED <<page, profile>>
  PROVE  FormsInv'
<1> DEFINE call == [about EXCEPT !.op = "put", !.text = view.text]
<1>1. Request(call) /\ page = "settings" /\ view.loaded /\ ~view.busy
  BY DEF SaveAbout
<1>2. IsCall(call) /\ call.open /\ call.op = "put" /\ call.at = "sent"
  BY DEF IsCall, CallFields
<1>3. DOMAIN view' = ViewFields /\ view'.busy
  BY DEF SaveAbout, FormsInv, TabInv, ViewFields
<1> HIDE DEF call
<1>4. Live = {}
  BY <1>1 DEF FormsInv, SettingsInv
<1>5. \A c : c \in Live' <=> c = sent
  BY <1>1, <1>2, <1>4, RequestLive
<1>6. calls'[sent] = call /\ \A c \in DOMAIN calls' : IsCall(calls'[c])
  BY <1>1, <1>2, RequestJoins DEF FormsInv, TabInv
<1>7. TabInv'
  BY <1>1, <1>2, <1>3, <1>5, <1>6 DEF TabInv, OpsOf
<1>8. SearchInv'
  BY <1>1 DEF SearchInv
<1>9. ~disturbed' => DOMAIN calls' = Live'
  <2>1. ~disturbed' => DOMAIN calls = {}
    BY <1>1, <1>4, RequestJoins DEF FormsInv, SettingsInv
  <2>2. ~disturbed' => DOMAIN calls' = {sent}
    BY <1>1, <2>1, RequestJoins
  <2>3. Live' = {sent}
    BY <1>5
  <2>4. QED
    BY <2>2, <2>3
<1>10. SettingsInv'
  BY <1>2, <1>3, <1>5, <1>6, <1>9 DEF SettingsInv
<1>11. QED
  BY <1>7, <1>8, <1>10 DEF FormsInv

(* What the page makes of an answer.                                       *)
LEMMA ShownForms ==
  ASSUME DOMAIN view = ViewFields, NEW call, call.op \in OpsOf(page)
  PROVE  /\ DOMAIN Shown(call) = ViewFields
         /\ call.op = "search" =>
              /\ Shown(call).text = view.text
              /\ Shown(call).error = ~call.ok
              /\ call.ok => Shown(call).shows = call.text
         /\ call.op \in {"profile", "put"} /\ call.ok =>
              /\ Shown(call).profile = call.profile
              /\ Shown(call).text = call.profile.about
         /\ call.op \in {"profile", "put"} /\ ~call.ok => Shown(call).error
<1>1. CASE call.op = "saved"
  BY <1>1 DEF Shown, Loaded, ViewFields
<1>2. CASE call.op = "remove"
  BY <1>2 DEF Shown, Removed, ViewFields
<1>3. CASE call.op = "inbox"
  BY <1>3 DEF Shown, Listed, ViewFields
<1>4. CASE call.op = "read"
  BY <1>4 DEF Shown, Marked, ViewFields
<1>5. CASE call.op = "search"
  BY <1>5 DEF Shown, Found, ViewFields
<1>6. CASE call.op \in {"profile", "put"}
  BY <1>6 DEF Shown, Profiled, ViewFields
<1>7. QED
  BY <1>1, <1>2, <1>3, <1>4, <1>5, <1>6 DEF OpsOf

(* A call of the page is over, answered or failed.                         *)
LEMMA OverForms ==
  ASSUME FormsInv, NEW c \in Live, NEW call, call.op = calls[c].op, call.text = calls[c].text,
         DOMAIN calls' \subseteq DOMAIN calls,
         \A d \in DOMAIN calls' : IsCall(calls'[d]),
         \A d : d \in Live' <=> d \in Live /\ d # c,
         \A d \in Live' : calls'[d] = calls[d],
         view' = Shown(call), UNCHANGED <<page, profile>>,
         \/ disturbed'
         \/ ~disturbed /\ c \notin DOMAIN calls'
            /\ (call.op \in {"profile", "put"} /\ call.ok => call.profile = profile)
  PROVE  FormsInv'
<1>1. DOMAIN view = ViewFields /\ call.op \in OpsOf(page) /\ c \in DOMAIN calls
  BY LiveCalls DEF FormsInv, TabInv
<1>2. /\ DOMAIN view' = ViewFields
      /\ call.op = "search" =>
           /\ view'.text = view.text
           /\ view'.error = ~call.ok
           /\ call.ok => view'.shows = call.text
      /\ call.op \in {"profile", "put"} /\ call.ok =>
           /\ view'.profile = call.profile
           /\ view'.text = call.profile.about
      /\ call.op \in {"profile", "put"} /\ ~call.ok => view'.error
  BY <1>1, ShownForms
<1>3. TabInv'
  BY <1>2 DEF FormsInv, TabInv
<1>4. SearchInv'
  <2> SUFFICES ASSUME page = "search"
               PROVE  SearchInv'
    BY DEF SearchInv
  <2>1. Live' = {}
    BY DEF FormsInv, SearchInv
  <2>2. call.op = "search" /\ call.text = view.text
    BY <1>1 DEF FormsInv, SearchInv, OpsOf
  <2>3. QED
    BY <1>2, <2>1, <2>2 DEF SearchInv, SearchAgrees
<1>5. SettingsInv'
  <2> SUFFICES ASSUME page = "settings"
               PROVE  SettingsInv'
    BY DEF SettingsInv
  <2>1. Live' = {}
    BY DEF FormsInv, SettingsInv
  <2>2. call.op \in {"profile", "put"}
    BY <1>1 DEF OpsOf
  <2>3. ASSUME ~disturbed'
        PROVE  DOMAIN calls' = {}
    BY <2>1, <2>3 DEF FormsInv, SettingsInv
  <2>4. ~disturbed' => /\ view'.error \/ view'.profile = profile
                       /\ view'.error \/ view'.text = profile.about
    BY <1>2, <2>2
  <2>5. QED
    BY <2>1, <2>3, <2>4 DEF SettingsInv
<1>6. QED
  BY <1>3, <1>4, <1>5 DEF FormsInv

LEMMA AnswerForms ==
  ASSUME FormsInv, NEW c \in DOMAIN calls, Serve(c) \/ Answer(c) \/ CallFails(c)
  PROVE  FormsInv'
<1> \A d \in DOMAIN calls : IsCall(calls[d])
  BY DEF FormsInv, TabInv
<1>1. CASE Serve(c)
  <2>1. /\ DOMAIN calls' = DOMAIN calls
        /\ \A d \in DOMAIN calls : d # c => calls'[d] = calls[d]
        /\ IsCall(calls'[c])
        /\ calls'[c].open = calls[c].open
        /\ calls'[c].op = calls[c].op /\ calls'[c].text = calls[c].text
        /\ calls[c].op \in {"profile", "put"} /\ calls'[c].ok => calls'[c].profile = profile'
    BY <1>1, ServeAnswers DEF FormsInv
  <2>2. UNCHANGED <<page, view, disturbed>>
    BY <1>1 DEF Serve
  <2>3. Live' = Live
    BY <2>1, LiveCalls, LiveCallsNext
  <2>4. TabInv'
    BY <2>1, <2>2, <2>3, LiveCalls DEF FormsInv, TabInv
  <2>5. SearchInv'
    BY <2>1, <2>2, <2>3, LiveCalls DEF FormsInv, SearchInv, SearchAgrees
  <2>6. SettingsInv'
    <3> SUFFICES ASSUME page = "settings"
                 PROVE  SettingsInv'
      BY <2>2 DEF SettingsInv
    <3>1. ASSUME ~disturbed
          PROVE  /\ Live # {}
                 /\ \A d \in Live : calls'[d].ok => calls'[d].profile = profile'
      <4>1. Live = {c} /\ calls[c].op \in {"profile", "put"}
        BY <2>2, <3>1 DEF FormsInv, SettingsInv, TabInv, OpsOf
      <4>2. QED
        BY <2>1, <4>1
    <3>2. QED
      BY <2>1, <2>2, <2>3, <3>1 DEF FormsInv, SettingsInv
  <2>7. QED
    BY <2>4, <2>5, <2>6 DEF FormsInv
<1>2. CASE Answer(c)
  <2>1. /\ UNCHANGED <<page, profile, disturbed>>
        /\ calls' = CallsBut(c)
        /\ view' = IF calls[c].open THEN Shown(calls[c]) ELSE view
        /\ calls[c].at = "done"
    BY <1>2 DEF Answer, server
  <2>2. DOMAIN calls' = DOMAIN calls \ {c} /\ \A d \in DOMAIN calls' : calls'[d] = calls[d]
    BY <2>1 DEF CallsBut
  <2>3. \A d : d \in Live' <=> d \in Live /\ d # c
    BY <2>2, LiveCalls, LiveCallsNext
  <2>4. CASE calls[c].open
    <3>1. c \in Live
      BY <2>4, LiveCalls
    <3>2. ~disturbed => \/ calls[c].op \notin {"profile", "put"}
                        \/ calls[c].ok => calls[c].profile = profile
      <4>1. CASE page = "settings"
        BY <2>1, <3>1, <4>1 DEF FormsInv, SettingsInv
      <4>2. CASE page # "settings"
        <5>1. calls[c].op \in OpsOf(page)
          BY <3>1 DEF FormsInv, TabInv
        <5>2. QED
          BY <4>2, <5>1 DEF OpsOf
      <4>3. QED
        BY <4>1, <4>2
    <3> DEFINE x == calls[c]
    <3>3. view' = Shown(x)
      BY <2>1, <2>4
    <3>4. x.op = calls[c].op /\ x.text = calls[c].text
      OBVIOUS
    <3>5. ~disturbed /\ x.op \in {"profile", "put"} /\ x.ok => x.profile = profile
      BY <3>2
    <3> HIDE DEF x
    <3>6. /\ DOMAIN calls' \subseteq DOMAIN calls /\ c \notin DOMAIN calls'
          /\ \A d \in DOMAIN calls' : IsCall(calls'[d])
          /\ \A d \in Live' : calls'[d] = calls[d]
      BY <2>2, LiveCallsNext
    <3>7. \/ disturbed'
          \/ ~disturbed /\ c \notin DOMAIN calls'
             /\ (x.op \in {"profile", "put"} /\ x.ok => x.profile = profile)
      BY <2>1, <3>5, <3>6
    <3>8. UNCHANGED <<page, profile>>
      BY <2>1
    <3>9. QED
      BY <2>3, <3>1, <3>3, <3>4, <3>6, <3>7, <3>8, OverForms
  <2>5. CASE ~calls[c].open
    <3>1. Live' = Live /\ UNCHANGED view
      BY <2>1, <2>3, <2>5, LiveCalls
    <3>2. \A d \in Live : calls'[d] = calls[d]
      BY <2>2, <3>1, LiveCallsNext
    <3>3. disturbed \/ page # "settings"
      BY <2>5, LiveCalls DEF FormsInv, SettingsInv
    <3>4. TabInv'
      BY <2>1, <2>2, <3>1, <3>2 DEF FormsInv, TabInv
    <3>5. SearchInv'
      BY <2>1, <3>1, <3>2 DEF FormsInv, SearchInv, SearchAgrees
    <3>6. SettingsInv'
      BY <2>1, <3>1, <3>3 DEF FormsInv, SettingsInv
    <3>7. QED
      BY <3>4, <3>5, <3>6 DEF FormsInv
  <2>6. QED
    BY <2>4, <2>5
<1>3. CASE CallFails(c)
  <2> DEFINE call == [calls[c] EXCEPT !.ok = FALSE]
             shut == [calls[c] EXCEPT !.open = FALSE]
  <2>1. /\ UNCHANGED <<page, profile>> /\ disturbed'
        /\ calls[c].open
        /\ calls' = IF calls[c].at = "done" THEN CallsBut(c)
                    ELSE [calls EXCEPT ![c] = shut]
        /\ view' = Shown(call)
    BY <1>3 DEF CallFails, server
  <2>2. /\ call.op = calls[c].op /\ call.text = calls[c].text
        /\ IsCall(shut) /\ ~shut.open
    BY DEF IsCall, CallFields
  <2>3. c \in Live
    BY <2>1, LiveCalls
  <2> HIDE DEF call, shut
  <2>4. /\ DOMAIN calls' \subseteq DOMAIN calls
        /\ \A d \in DOMAIN calls' : IsCall(calls'[d])
        /\ \A d \in DOMAIN calls : d # c => d \in DOMAIN calls' /\ calls'[d] = calls[d]
        /\ c \notin Live'
    <3>1. CASE calls[c].at = "done"
      BY <2>1, <3>1, LiveCallsNext DEF CallsBut
    <3>2. CASE calls[c].at # "done"
      BY <2>1, <2>2, <3>2, LiveCallsNext
    <3>3. QED
      BY <3>1, <3>2
  <2>5. \A d : d \in Live' <=> d \in Live /\ d # c
    BY <2>4, LiveCalls, LiveCallsNext
  <2>6. \A d \in Live' : calls'[d] = calls[d]
    BY <2>4, <2>5, LiveCalls
  <2>7. QED
    BY <2>1, <2>2, <2>3, <2>4, <2>5, <2>6, OverForms
<1>4. QED
  BY <1>1, <1>2, <1>3

LEMMA FormsStep ==
  ASSUME FormsInv, [WebNext]_webVars
  PROVE  FormsInv'
<1>1. CASE Login \/ CookieExpires \/ UNCHANGED webVars
  <2>1. UNCHANGED <<page, view, calls, profile, disturbed>>
    BY <1>1 DEF Login, CookieExpires, webVars, server
  <2>2. QED
    BY <2>1 DEF FormsInv, TabInv, SearchInv, SettingsInv, SearchAgrees, Live
<1>2. CASE Logout
  <2>1. Enter("login", <<>>)
    BY <1>2 DEF Logout
  <2>2. QED
    BY <2>1, EnterForms
<1>3. ASSUME NEW p \in {"saved", "settings", "search", "inbox"}, Open(p)
      PROVE  FormsInv'
  <2>1. CASE cookie
    <3> DEFINE first == CASE p = "saved"    -> <<[NoCall EXCEPT !.op = "saved"]>>
                          [] p = "settings" -> <<[NoCall EXCEPT !.op = "profile"]>>
                          [] p = "inbox"    -> <<[NoCall EXCEPT !.op = "inbox"]>>
                          [] OTHER          -> <<>>
    <3>1. Enter(p, first)
      BY <1>3, <2>1 DEF Open
    <3>2. \/ first = <<>>
          \/ p = "saved" /\ first = <<[NoCall EXCEPT !.op = "saved"]>>
          \/ p = "settings" /\ first = <<[NoCall EXCEPT !.op = "profile"]>>
          \/ p = "inbox" /\ first = <<[NoCall EXCEPT !.op = "inbox"]>>
      OBVIOUS
    <3> HIDE DEF first
    <3>3. QED
      BY <3>1, <3>2, EnterForms DEF OpsOf
  <2>2. CASE ~cookie
    <3>1. Enter("login", <<>>)
      BY <1>3, <2>2 DEF Open
    <3>2. QED
      BY <3>1, EnterForms
  <2>3. QED
    BY <2>1, <2>2
<1>4. CASE ShowMore \/ Refresh
  BY <1>4, ListRequests
<1>5. CASE (\E e \in UserEvents : RemoveItem(e)) \/ (\E n \in Notes : MarkRead(n))
  BY <1>5, ListRequests
<1>6. ASSUME NEW text \in Texts, Type(text)
      PROVE  FormsInv'
  <2>1. UNCHANGED <<page, calls, profile, disturbed>> /\ page = "settings"
    BY <1>6 DEF Type, server
  <2>2. Live' = Live
    BY <2>1 DEF Live
  <2>3. /\ DOMAIN view' = ViewFields /\ view'.loaded = view.loaded /\ view'.busy = view.busy
        /\ view'.error = view.error /\ view'.profile = view.profile /\ view'.typed
    BY <1>6 DEF Type, FormsInv, TabInv, ViewFields
  <2>4. TabInv'
    BY <2>1, <2>2, <2>3 DEF FormsInv, TabInv
  <2>5. SearchInv'
    BY <2>1 DEF SearchInv
  <2>6. SettingsInv'
    BY <2>1, <2>2, <2>3 DEF FormsInv, SettingsInv
  <2>7. QED
    BY <2>4, <2>5, <2>6 DEF FormsInv
<1>7. ASSUME NEW text \in Texts, Submit(text)
      PROVE  FormsInv'
  BY <1>7, SubmitForms
<1>8. CASE SaveText
  BY <1>8, NewCall, SaveForms DEF SaveText, server
<1>9. ASSUME NEW t \in Topics, RemoveTopic(t)
      PROVE  FormsInv'
  <2>1. PICK kind \in {k \in {"interests", "anti"} : t \in view.profile[k]} :
          SaveAbout([NoCall EXCEPT !.given = TRUE,
            !.interests = view.profile.interests \ (IF kind = "interests" THEN {t} ELSE {}),
            !.anti = view.profile.anti \ (IF kind = "anti" THEN {t} ELSE {})])
    BY <1>9 DEF RemoveTopic
  <2>2. UNCHANGED <<page, profile>>
    BY <1>9 DEF RemoveTopic, server
  <2> DEFINE about == [NoCall EXCEPT !.given = TRUE,
            !.interests = view.profile.interests \ (IF kind = "interests" THEN {t} ELSE {}),
            !.anti = view.profile.anti \ (IF kind = "anti" THEN {t} ELSE {})]
  <2>3. DOMAIN about = CallFields /\ about.at = "sent" /\ about.open
    BY NewCall DEF CallFields
  <2>4. SaveAbout(about)
    BY <2>1
  <2> HIDE DEF about
  <2>5. QED
    BY <2>2, <2>3, <2>4, SaveForms
<1>10. ASSUME NEW c \in DOMAIN calls, Serve(c) \/ Answer(c) \/ CallFails(c)
       PROVE  FormsInv'
  BY <1>10, AnswerForms
<1>11. CASE OtherClient
  <2>1. UNCHANGED <<page, view, calls>> /\ disturbed'
    BY <1>11 DEF OtherClient
  <2>2. Live' = Live
    BY <2>1 DEF Live
  <2>3. QED
    BY <2>1, <2>2 DEF FormsInv, TabInv, SearchInv, SettingsInv, SearchAgrees
<1>12. QED
  BY <1>1, <1>2, <1>3, <1>4, <1>5, <1>6, <1>7, <1>8, <1>9, <1>10, <1>11 DEF WebNext

LEMMA FormsInvHolds == WebSpec => []FormsInv
<1>1. WebInit => FormsInv
  <2> SUFFICES ASSUME WebInit
               PROVE  FormsInv
    OBVIOUS
  <2>1. page = "login" /\ view = NoView /\ DOMAIN calls = {}
    BY DEF WebInit
  <2>2. Live = {}
    BY <2>1 DEF Live
  <2>3. TabInv
    BY <2>1, <2>2, NewView DEF TabInv
  <2>4. SearchInv /\ SettingsInv
    BY <2>1 DEF SearchInv, SettingsInv
  <2>5. QED
    BY <2>3, <2>4 DEF FormsInv
<1>2. FormsInv /\ [WebNext]_webVars => FormsInv'
  BY FormsStep
<1>3. QED
  BY <1>1, <1>2, PTL DEF WebSpec

(* The results on the search page are those of the query asked last, in    *)
(* whatever order calls are answered, fail and outlive their page.         *)
THEOREM SearchIsAnswered == WebSpec => []SearchAgrees
<1>1. FormsInv => SearchAgrees
  BY DEF FormsInv, SearchInv, SearchAgrees
<1>2. QED
  BY <1>1, FormsInvHolds, PTL

(* The settings show the profile that is kept, and its text unless the     *)
(* user has gone on writing, however saves and removals follow each other. *)
THEOREM ProfileIsShown == WebSpec => []ProfileAgrees
<1>1. FormsInv => ProfileAgrees
  BY DEF FormsInv, SettingsInv, ProfileAgrees
<1>2. QED
  BY <1>1, FormsInvHolds, PTL

-----------------------------------------------------------------------------
(* Retrieval.                                                              *)

SearchFields == {"at", "phrase", "asked", "now", "text", "failed", "filters", "before",
                 "rankings", "level", "results"}

(* The filters of a search that has begun.                                 *)
Understood(r) ==
  r.at \notin {"idle", "extract"} =>
    r.filters = Canonicalize(IF r.failed THEN JustText ELSE Meaning(r.phrase, r.asked))

AskedInv ==
  /\ DOMAIN req = Requests
  /\ \A q \in Requests : /\ DOMAIN req[q] = SearchFields
                         /\ req[q].at = "extract" => ~req[q].failed
                         /\ Understood(req[q])
  /\ \A p, d : FiltersKey(p, d) \in DOMAIN cache => cache[FiltersKey(p, d)] = Meaning(p, d)

LEMMA SearchIdle == DOMAIN Idle = SearchFields /\ Idle.at = "idle" /\ ~Idle.failed
BY DEF Idle, SearchFields

(* Phrase and day can be read off a key of the cache.                      *)
LEMMA KeysDiffer ==
  ASSUME NEW p, NEW d, NEW o, NEW c, FiltersKey(p, d) = FiltersKey(o, c)
  PROVE  p = o /\ d = c
BY DEF FiltersKey

(* One search moves on.                                                    *)
LEMMA OneSearch ==
  ASSUME AskedInv, NEW q \in Requests, NEW r, Becomes(q, r), UNCHANGED cache,
         DOMAIN r = SearchFields, r.at = "extract" => ~r.failed, Understood(r)
  PROVE  AskedInv'
<1>1. /\ DOMAIN req' = Requests /\ req'[q] = r
      /\ \A p \in Requests : p # q => req'[p] = req[p]
  BY DEF Becomes, AskedInv
<1>2. \A p \in Requests : /\ DOMAIN req'[p] = SearchFields
                          /\ req'[p].at = "extract" => ~req'[p].failed
                          /\ Understood(req'[p])
  <2> SUFFICES ASSUME NEW p \in Requests
               PROVE  /\ DOMAIN req'[p] = SearchFields
                      /\ req'[p].at = "extract" => ~req'[p].failed
                      /\ Understood(req'[p])
    OBVIOUS
  <2>1. CASE p = q
    BY <1>1, <2>1
  <2>2. CASE p # q
    BY <1>1, <2>2 DEF AskedInv
  <2>3. QED
    BY <2>1, <2>2
<1>3. QED
  BY <1>1, <1>2 DEF AskedInv, Understood

(* It begins with what its phrase means.                                   *)
LEMMA BegunUnderstood ==
  ASSUME NEW r, DOMAIN r = SearchFields, NEW raw,
         raw = IF r.failed THEN JustText ELSE Meaning(r.phrase, r.asked)
  PROVE  /\ DOMAIN Begun(r, raw) = SearchFields
         /\ Begun(r, raw).at = "strict"
         /\ Understood(Begun(r, raw))
BY DEF Begun, Understood, SearchFields

(* It goes on with the filters it began with.                              *)
LEMMA SearchGoesOn ==
  ASSUME AskedInv, NEW q \in Requests, NEW r, Becomes(q, r), UNCHANGED cache,
         req[q].at \notin {"idle", "extract"}, DOMAIN r = SearchFields,
         r.at \notin {"idle", "extract"}, r.failed = req[q].failed,
         r.filters = req[q].filters, r.phrase = req[q].phrase, r.asked = req[q].asked
  PROVE  AskedInv'
<1>1. Understood(r)
  BY DEF AskedInv, Understood
<1>2. QED
  BY <1>1, OneSearch

LEMMA AskSteps ==
  ASSUME AskedInv, NEW q \in Requests, NEW p, Ask(q, p) \/ SearchFilters(q, p)
  PROVE  AskedInv'
<1>1. CASE Ask(q, p)
  <2> DEFINE r == [Idle EXCEPT !.phrase = p, !.asked = day, !.text = TRUE]
             key == FiltersKey(p, day)
             s == [r EXCEPT !.at = "extract"]
  <2>1. DOMAIN r = SearchFields /\ ~r.failed /\ r.phrase = p /\ r.asked = day
    BY DEF Idle, SearchFields
  <2>2. DOMAIN s = SearchFields /\ ~s.failed /\ s.at = "extract"
    BY DEF Idle, SearchFields
  <2>3. UNCHANGED cache /\ Becomes(q, IF key \in DOMAIN cache THEN Begun(r, cache[key]) ELSE s)
    BY <1>1 DEF Ask
  <2> HIDE DEF r, s
  <2>4. CASE key \in DOMAIN cache
    <3>1. cache[key] = Meaning(r.phrase, r.asked)
      BY <2>1, <2>4 DEF AskedInv
    <3>2. /\ DOMAIN Begun(r, cache[key]) = SearchFields
          /\ Begun(r, cache[key]).at = "strict"
          /\ Understood(Begun(r, cache[key]))
      BY <2>1, <3>1, BegunUnderstood
    <3>3. Becomes(q, Begun(r, cache[key]))
      BY <2>3, <2>4
    <3>4. QED
      BY <2>3, <3>2, <3>3, OneSearch
  <2>5. CASE key \notin DOMAIN cache
    <3>1. Becomes(q, s)
      BY <2>3, <2>5
    <3>2. Understood(s)
      BY <2>2 DEF Understood
    <3>3. QED
      BY <2>2, <2>3, <3>1, <3>2, OneSearch
  <2>6. QED
    BY <2>4, <2>5
<1>2. CASE SearchFilters(q, p)
  <2> DEFINE r == [Idle EXCEPT !.phrase = p, !.asked = day]
  <2>1. DOMAIN r = SearchFields /\ ~r.failed /\ r.phrase = p /\ r.asked = day
    BY DEF Idle, SearchFields
  <2>2. UNCHANGED cache /\ Becomes(q, Begun(r, Meaning(p, day)))
    BY <1>2 DEF SearchFilters
  <2> HIDE DEF r
  <2>3. /\ DOMAIN Begun(r, Meaning(p, day)) = SearchFields
        /\ Begun(r, Meaning(p, day)).at = "strict"
        /\ Understood(Begun(r, Meaning(p, day)))
    BY <2>1, BegunUnderstood
  <2>4. QED
    BY <2>2, <2>3, OneSearch
<1>3. QED
  BY <1>1, <1>2

LEMMA LlmSteps ==
  ASSUME AskedInv, NEW q \in Requests, LlmAnswers(q) \/ LlmFails(q)
  PROVE  AskedInv'
<1> DEFINE r == req[q]
<1>1. DOMAIN r = SearchFields /\ ~r.failed /\ r.at = "extract"
  BY DEF AskedInv, LlmAnswers, LlmFails, At
<1>2. CASE LlmAnswers(q)
  <2> DEFINE raw == Meaning(r.phrase, r.asked)
             key == FiltersKey(r.phrase, r.asked)
             b == Begun(r, raw)
  <2>1. Becomes(q, b) /\ cache' = [k \in DOMAIN cache \cup {key} |->
                                     IF k = key THEN raw ELSE cache[k]]
    BY <1>2 DEF LlmAnswers
  <2>2. DOMAIN b = SearchFields /\ b.at = "strict" /\ Understood(b)
    BY <1>1, BegunUnderstood
  <2>3. /\ DOMAIN req' = Requests /\ req'[q] = b
        /\ \A p \in Requests : p # q => req'[p] = req[p]
    BY <2>1 DEF Becomes, AskedInv
  <2> HIDE DEF b
  <2>4. \A p \in Requests : /\ DOMAIN req'[p] = SearchFields
                            /\ req'[p].at = "extract" => ~req'[p].failed
                            /\ Understood(req'[p])
    <3> SUFFICES ASSUME NEW p \in Requests
                 PROVE  /\ DOMAIN req'[p] = SearchFields
                        /\ req'[p].at = "extract" => ~req'[p].failed
                        /\ Understood(req'[p])
      OBVIOUS
    <3>1. CASE p = q
      BY <2>2, <2>3, <3>1
    <3>2. CASE p # q
      BY <2>3, <3>2 DEF AskedInv
    <3>3. QED
      BY <3>1, <3>2
  <2>5. ASSUME NEW p, NEW d, FiltersKey(p, d) \in DOMAIN cache'
        PROVE  cache'[FiltersKey(p, d)] = Meaning(p, d)
    <3>1. CASE FiltersKey(p, d) = key
      BY <2>1, <3>1, KeysDiffer
    <3>2. CASE FiltersKey(p, d) # key
      BY <2>1, <2>5, <3>2 DEF AskedInv
    <3>3. QED
      BY <3>1, <3>2
  <2>6. QED
    BY <2>3, <2>4, <2>5 DEF AskedInv, Understood, FiltersKey
<1>3. CASE LlmFails(q)
  <2> DEFINE f == [r EXCEPT !.failed = TRUE]
  <2>1. DOMAIN f = SearchFields /\ f.failed
    BY <1>1 DEF SearchFields
  <2>2. UNCHANGED cache /\ Becomes(q, Begun(f, JustText))
    BY <1>3 DEF LlmFails
  <2> HIDE DEF f
  <2>3. /\ DOMAIN Begun(f, JustText) = SearchFields
        /\ Begun(f, JustText).at = "strict" /\ Understood(Begun(f, JustText))
    BY <2>1, BegunUnderstood
  <2>4. QED
    BY <2>2, <2>3, OneSearch
<1>4. QED
  BY <1>2, <1>3

LEMMA RetrieverSteps ==
  ASSUME AskedInv, NEW q \in Requests,
         Strict(q) \/ TextSearch(q) \/ SemanticSearch(q) \/ Fuse(q) \/ Relax(q)
  PROVE  AskedInv'
<1> DEFINE r == req[q]
<1>1. DOMAIN r = SearchFields /\ r.at \notin {"idle", "extract"} /\ UNCHANGED cache
  BY DEF AskedInv, Strict, TextSearch, SemanticSearch, Fuse, Relax, At
<1>2. CASE Strict(q)
  <2>1. \/ \E s : Becomes(q, [r EXCEPT !.at = IF Words(r) THEN "text" ELSE "semantic",
                                       !.rankings = <<s>>])
        \/ \E s : Becomes(q, [r EXCEPT !.at = IF s = <<>> THEN "relax" ELSE "done",
                                       !.results = s])
    BY <1>2 DEF Strict
  <2>2. ASSUME NEW s, Becomes(q, [r EXCEPT !.at = IF Words(r) THEN "text" ELSE "semantic",
                                           !.rankings = <<s>>])
        PROVE  AskedInv'
    BY <1>1, <2>2, SearchGoesOn DEF SearchFields
  <2>3. ASSUME NEW s, Becomes(q, [r EXCEPT !.at = IF s = <<>> THEN "relax" ELSE "done",
                                           !.results = s])
        PROVE  AskedInv'
    BY <1>1, <2>3, SearchGoesOn DEF SearchFields
  <2>4. QED
    BY <2>1, <2>2, <2>3
<1>3. CASE TextSearch(q)
  <2>1. PICK s : Becomes(q, [r EXCEPT !.at = "semantic", !.rankings = Append(@, s)])
    BY <1>3 DEF TextSearch
  <2>2. QED
    BY <1>1, <2>1, SearchGoesOn DEF SearchFields
<1>4. CASE SemanticSearch(q)
  <2>1. \/ Becomes(q, [r EXCEPT !.at = "fuse"])
        \/ \E s : Becomes(q, [r EXCEPT !.at = "fuse", !.rankings = Append(@, s)])
    BY <1>4 DEF SemanticSearch
  <2>2. CASE Becomes(q, [r EXCEPT !.at = "fuse"])
    BY <1>1, <2>2, SearchGoesOn DEF SearchFields
  <2>3. ASSUME NEW s, Becomes(q, [r EXCEPT !.at = "fuse", !.rankings = Append(@, s)])
        PROVE  AskedInv'
    BY <1>1, <2>3, SearchGoesOn DEF SearchFields
  <2>4. QED
    BY <2>1, <2>2, <2>3
<1>5. CASE Fuse(q)
  <2> DEFINE results == Take(Fused(r.rankings), Limit)
  <2>1. Becomes(q, [r EXCEPT !.at = IF results = <<>> THEN "relax" ELSE "done",
                             !.results = results])
    BY <1>5 DEF Fuse
  <2> HIDE DEF results
  <2>2. QED
    BY <1>1, <2>1, SearchGoesOn DEF SearchFields
<1>6. CASE Relax(q)
  <2> DEFINE level == r.level + 1
  <2>1. PICK s : Becomes(q, [r EXCEPT !.level = level, !.results = s,
                               !.at = IF s = <<>> /\ level < Len(RelaxOrder) THEN "relax"
                                      ELSE "done"])
    BY <1>6 DEF Relax
  <2> DEFINE more == level < Len(RelaxOrder)
  <2>2. Becomes(q, [r EXCEPT !.level = level, !.results = s,
                             !.at = IF s = <<>> /\ more THEN "relax" ELSE "done"])
    BY <2>1
  <2> HIDE DEF level, more
  <2>3. QED
    BY <1>1, <2>2, SearchGoesOn DEF SearchFields
<1>7. QED
  BY <1>2, <1>3, <1>4, <1>5, <1>6

LEMMA AskedStep ==
  ASSUME AskedInv, [RetrievalNext]_retrievalVars
  PROVE  AskedInv'
<1>1. ASSUME UNCHANGED <<req, cache>>
      PROVE  AskedInv'
  BY <1>1 DEF AskedInv, Understood
<1>2. ASSUME NEW q \in Requests, SendAnswer(q)
      PROVE  AskedInv'
  <2>1. Becomes(q, Idle) /\ UNCHANGED cache
    BY <1>2 DEF SendAnswer
  <2>2. QED
    BY <2>1, SearchIdle, OneSearch DEF Understood
<1>3. ASSUME NEW k \in DOMAIN cache, Expire(k)
      PROVE  AskedInv'
  <2>1. UNCHANGED req /\ cache' = [l \in DOMAIN cache \ {k} |-> cache[l]]
    BY <1>3 DEF Expire
  <2>2. \A p, d : FiltersKey(p, d) \in DOMAIN cache' =>
                    cache'[FiltersKey(p, d)] = Meaning(p, d)
    BY <2>1 DEF AskedInv
  <2>3. QED
    BY <2>1, <2>2 DEF AskedInv, Understood, FiltersKey
<1>4. QED
  BY <1>1, <1>2, <1>3, AskSteps, LlmSteps, RetrieverSteps
  DEF RetrievalNext, retrievalVars, Arrive, Midnight, FindNear, Find, SimilarEvents, FindCandidate,
      RankCandidates, Announce, Fetch, ExplainEvent

(* Every search uses the filters its phrase had on the day it was said,    *)
(* or the bare text when the model failed for it: the cache never brings   *)
(* in those of another day or of a failure.                                *)
THEOREM SearchesAreAsAsked == RetrievalSpec => []AsAsked
<1>1. RetrievalInit => AskedInv
  BY SearchIdle DEF RetrievalInit, AskedInv, Understood
<1>2. AskedInv /\ [RetrievalNext]_retrievalVars => AskedInv'
  BY AskedStep
<1>3. AskedInv => AsAsked
  BY DEF AskedInv, AsAsked, Understood
<1>4. QED
  BY <1>1, <1>2, <1>3, PTL DEF RetrievalSpec

-----------------------------------------------------------------------------
(* Similar events.                                                         *)

NearItems == [id : Nat, kind : {"self", "edition", "other"}]

SimilarOf(seq) ==
  LET near == Take(seq, SimilarDepth(Limit))
  IN Take(Pick(near, Kinds(near, "other")), Limit)

NearInv ==
  use = "similar" =>
    /\ found \in Seq(NearItems)
    /\ \A i, j \in Kinds(found, "self") : i = j
    /\ answer # <<>> => answer = <<SimilarOf(found)>>

LEMMA Limits == Limit \in Nat \ {0} /\ Depth \in Nat \ {0}
<1>1. Limit \in Nat /\ Depth \in Nat
  BY RetrievalAssumption
<1>2. 1 <= Limit /\ Limit <= Depth
  BY RetrievalAssumption
<1>3. QED
  BY <1>1, <1>2

LEMMA MinOfTwo ==
  ASSUME NEW m \in Nat, NEW n \in Nat
  PROVE  Min({m, n}) = IF n < m THEN n ELSE m
<1>1. \E x \in {m, n} : \A y \in {m, n} : x <= y
  OBVIOUS
<1>2. Min({m, n}) \in {m, n} /\ \A y \in {m, n} : Min({m, n}) <= y
  BY <1>1 DEF Min
<1>3. QED
  BY <1>2

(* The event itself takes one place at most and its editions no more than  *)
(* the limit: what is left of twice the limit and one is enough.           *)
LEMMA SimilarCounts ==
  ASSUME NEW seq \in Seq(NearItems), \A i, j \in Kinds(seq, "self") : i = j,
         Cardinality(Kinds(seq, "edition")) <= Limit
  PROVE  Len(SimilarOf(seq)) = Min({Limit, Cardinality(Kinds(seq, "other"))})
<1> DEFINE depth == 2 * Limit + 1
           near == Take(seq, depth)
           n == Len(near)
           others == Kinds(near, "other")
           editions == Kinds(near, "edition")
           selves == Kinds(near, "self")
<1> Limit \in Nat /\ depth \in Nat /\ SimilarDepth(Limit) = depth
  BY Limits DEF SimilarDepth
<1>1. /\ near \in Seq(NearItems)
      /\ n = IF Len(seq) < depth THEN Len(seq) ELSE depth
      /\ \A i \in 1..n : near[i] = seq[i]
  BY DEF Take
<1>2. /\ Len(seq) \in Nat /\ DOMAIN seq = 1..Len(seq)
      /\ n \in Nat /\ DOMAIN near = 1..n /\ n <= Len(seq)
      /\ \A i \in 1..n : near[i] \in NearItems
  BY <1>1
<1>3. /\ IsFiniteSet(1..n) /\ Cardinality(1..n) = n
      /\ IsFiniteSet(1..Len(seq)) /\ Cardinality(1..Len(seq)) = Len(seq)
  BY <1>2, UptoFinite
<1> HIDE DEF near, n, depth
<1>4. \A kind : Kinds(near, kind) = Kinds(seq, kind) \cap (1..n)
  <2> SUFFICES ASSUME NEW kind
               PROVE  Kinds(near, kind) = Kinds(seq, kind) \cap (1..n)
    OBVIOUS
  <2>1. Kinds(near, kind) = {i \in 1..n : near[i].kind = kind}
    BY <1>2 DEF Kinds
  <2>2. Kinds(seq, kind) = {i \in 1..Len(seq) : seq[i].kind = kind}
    BY <1>2 DEF Kinds
  <2>3. \A i \in 1..n : i \in 1..Len(seq)
    BY <1>2
  <2>4. QED
    BY <1>1, <2>1, <2>2, <2>3
<1>5. /\ IsFiniteSet(others) /\ IsFiniteSet(editions) /\ IsFiniteSet(selves)
      /\ Cardinality(others) \in Nat /\ Cardinality(editions) \in Nat
      /\ Cardinality(selves) \in Nat
  <2>1. others \in SUBSET (1..n) /\ editions \in SUBSET (1..n) /\ selves \in SUBSET (1..n)
    BY <1>4
  <2>2. QED
    BY <1>3, <2>1, FS_Subset, FS_CardinalityType
<1>6. /\ IsFiniteSet(Kinds(seq, "other")) /\ Cardinality(Kinds(seq, "other")) \in Nat
      /\ Cardinality(others) <= Cardinality(Kinds(seq, "other"))
      /\ Cardinality(editions) <= Limit
  <2>1. /\ Kinds(seq, "other") \in SUBSET (1..Len(seq))
        /\ Kinds(seq, "edition") \in SUBSET (1..Len(seq))
    BY <1>2 DEF Kinds
  <2>2. /\ IsFiniteSet(Kinds(seq, "other")) /\ IsFiniteSet(Kinds(seq, "edition"))
        /\ Cardinality(Kinds(seq, "other")) \in Nat
        /\ Cardinality(Kinds(seq, "edition")) \in Nat
    BY <1>3, <2>1, FS_Subset, FS_CardinalityType
  <2>3. others \in SUBSET Kinds(seq, "other") /\ editions \in SUBSET Kinds(seq, "edition")
    BY <1>4
  <2>4. /\ Cardinality(others) <= Cardinality(Kinds(seq, "other"))
        /\ Cardinality(editions) <= Cardinality(Kinds(seq, "edition"))
    BY <2>2, <2>3, FS_Subset
  <2>5. QED
    BY <1>5, <2>2, <2>4
<1>7. Cardinality(selves) <= 1
  <2>1. \A i, j \in selves : i = j
    BY <1>4
  <2> HIDE DEF selves
  <2>2. CASE selves = {}
    <3>1. Cardinality(selves) = 0
      BY <1>5, <2>2, FS_EmptySet
    <3>2. QED
      BY <3>1
  <2>3. ASSUME NEW i \in selves
        PROVE  Cardinality(selves) = 1
    <3>1. selves = {i}
      BY <2>1
    <3>2. QED
      BY <3>1, FS_Singleton
  <2>4. QED
    BY <2>2, <2>3
<1>8. n = Cardinality(others) + Cardinality(editions) + Cardinality(selves)
  <2>1. 1..n = (others \cup editions) \cup selves
    <3>1. \A i \in 1..n : near[i].kind \in {"self", "edition", "other"}
      BY <1>2 DEF NearItems
    <3>2. /\ others = {i \in 1..n : near[i].kind = "other"}
          /\ editions = {i \in 1..n : near[i].kind = "edition"}
          /\ selves = {i \in 1..n : near[i].kind = "self"}
      BY <1>2 DEF Kinds
    <3> HIDE DEF others, editions, selves
    <3>3. QED
      BY <3>1, <3>2
  <2>2. others \cap editions = {} /\ (others \cup editions) \cap selves = {}
    BY DEF Kinds
  <2> HIDE DEF others, editions, selves
  <2>3. /\ IsFiniteSet(others \cup editions)
        /\ Cardinality(others \cup editions) =
             Cardinality(others) + Cardinality(editions) - Cardinality(others \cap editions)
    BY <1>5, FS_Union
  <2>4. Cardinality((others \cup editions) \cup selves) =
          Cardinality(others \cup editions) + Cardinality(selves)
            - Cardinality((others \cup editions) \cap selves)
    BY <1>5, <2>3, FS_Union
  <2>5. Cardinality(others \cap editions) = 0
    BY <2>2, FS_EmptySet
  <2>6. Cardinality((others \cup editions) \cap selves) = 0
    BY <2>2, FS_EmptySet
  <2>7. n = Cardinality((others \cup editions) \cup selves)
    BY <1>3, <2>1
  <2>8. QED
    BY <1>5, <2>3, <2>4, <2>5, <2>6, <2>7
<1> DEFINE picked == Pick(near, others)
<1>9. picked \in Seq(NearItems) /\ Len(picked) = Cardinality(others)
  <2>1. others \in SUBSET DOMAIN near
    BY DEF Kinds
  <2>2. QED
    BY <1>1, <2>1, PickProperties
<1>10. SimilarOf(seq) = Take(picked, Limit)
  BY DEF SimilarOf, near
<1> HIDE DEF picked
<1>11. Len(SimilarOf(seq)) = IF Cardinality(others) < Limit THEN Cardinality(others) ELSE Limit
  BY <1>9, <1>10 DEF Take
<1>12. CASE Len(seq) < depth
  <2>1. others = Kinds(seq, "other")
    BY <1>1, <1>2, <1>4, <1>12 DEF Kinds
  <2>2. QED
    BY <1>5, <1>11, <2>1, MinOfTwo
<1>13. CASE ~(Len(seq) < depth)
  <2>1. n = 2 * Limit + 1
    BY <1>1, <1>13 DEF depth
  <2>2. Cardinality(others) >= Limit
    BY <1>5, <1>6, <1>7, <1>8, <2>1
  <2>3. QED
    BY <1>5, <1>6, <1>11, <2>2, MinOfTwo
<1>14. QED
  BY <1>12, <1>13

LEMMA NearStep ==
  ASSUME NearInv, [RetrievalNext]_retrievalVars
  PROVE  NearInv'
<1>1. ASSUME UNCHANGED <<use, found, answer>>
      PROVE  NearInv'
  BY <1>1 DEF NearInv, SimilarOf
<1>2. ASSUME use # "similar", UNCHANGED use
      PROVE  NearInv'
  BY <1>2 DEF NearInv
<1>3. CASE FindNear
  <2>1. PICK kind \in {"self", "edition", "other"} :
          /\ use = "similar"
          /\ (kind = "self" => \A i \in DOMAIN found : found[i].kind # "self")
          /\ Find([id |-> Len(found) + 1, kind |-> kind])
    BY <1>3 DEF FindNear
  <2> DEFINE item == [id |-> Len(found) + 1, kind |-> kind]
  <2>2. /\ answer = <<>> /\ found' = Append(found, item)
        /\ UNCHANGED <<use, answer>>
    BY <2>1 DEF Find, facts
  <2>3. found \in Seq(NearItems) /\ \A i, j \in Kinds(found, "self") : i = j
    BY <2>1 DEF NearInv
  <2>4. item \in NearItems /\ item.kind = kind
    BY <2>3 DEF NearItems
  <2> HIDE DEF item
  <2>5. /\ found' \in Seq(NearItems)
        /\ DOMAIN found' = 1..Len(found) + 1
        /\ found'[Len(found) + 1] = item
        /\ \A i \in 1..Len(found) : found'[i] = found[i]
    BY <2>2, <2>3, <2>4
  <2>6. \A i, j \in Kinds(found', "self") : i = j
    <3>1. Len(found) \in Nat /\ DOMAIN found = 1..Len(found)
      BY <2>3
    <3>2. \A i \in Kinds(found', "self") :
            \/ i \in Kinds(found, "self") /\ kind # "self"
            \/ i = Len(found) + 1 /\ kind = "self"
      BY <2>1, <2>4, <2>5, <3>1 DEF Kinds
    <3>3. QED
      BY <2>3, <3>2
  <2>7. QED
    BY <2>2, <2>5, <2>6 DEF NearInv, Kinds
<1>4. CASE SimilarEvents
  <2>1. UNCHANGED <<use, found>> /\ answer' = <<SimilarOf(found)>>
    BY <1>4 DEF SimilarEvents, SimilarOf, facts
  <2>2. QED
    BY <2>1 DEF NearInv, Kinds, SimilarOf
<1>5. CASE \/ RankCandidates \/ Fetch \/ ExplainEvent
           \/ \E score \in Scores, vector \in Vectors \cup {NoVector}, series \in Series,
                 distance \in Distances : FindCandidate(score, vector, series, distance)
           \/ \E raw \in Announcements, vector \in BOOLEAN : Announce(raw, vector)
  BY <1>2, <1>5 DEF RankCandidates, Fetch, ExplainEvent, FindCandidate, Announce, Find, facts
<1>6. CASE \/ \E q \in Requests :
                \/ \E p \in Phrases : Ask(q, p) \/ SearchFilters(q, p)
                \/ LlmAnswers(q) \/ LlmFails(q) \/ Strict(q) \/ TextSearch(q)
                \/ SemanticSearch(q) \/ Fuse(q) \/ Relax(q) \/ SendAnswer(q)
           \/ (\E e \in Events : Arrive(e)) \/ (\E k \in DOMAIN cache : Expire(k)) \/ Midnight
           \/ UNCHANGED retrievalVars
  BY <1>1, <1>6 DEF Ask, SearchFilters, LlmAnswers, LlmFails, Strict, TextSearch, SemanticSearch,
     Fuse, Relax, SendAnswer, Arrive, Expire, Midnight, retrievalVars, facts, lists
<1>7. QED
  BY <1>3, <1>4, <1>5, <1>6 DEF RetrievalNext

(* As many similar events are shown as there are, up to the limit, for any *)
(* limit: what is fetched leaves room for the event itself and for as many *)
(* editions of its series.                                                 *)
THEOREM SimilarIsComplete == RetrievalSpec => []SimilarComplete
<1>1. RetrievalInit => NearInv
  <2>1. RetrievalInit => found = <<>> /\ answer = <<>>
    BY DEF RetrievalInit
  <2>2. found = <<>> => found \in Seq(NearItems) /\ Kinds(found, "self") = {}
    BY DEF Kinds
  <2>3. QED
    BY <2>1, <2>2 DEF NearInv
<1>2. NearInv /\ [RetrievalNext]_retrievalVars => NearInv'
  BY NearStep
<1>3. NearInv => SimilarComplete
  <2> SUFFICES ASSUME NearInv, use = "similar", answer # <<>>,
                      Cardinality(Kinds(found, "edition")) <= Limit
               PROVE  Len(answer[1]) = Min({Limit, Cardinality(Kinds(found, "other"))})
    BY DEF SimilarComplete
  <2>1. answer[1] = SimilarOf(found) /\ found \in Seq(NearItems)
    BY DEF NearInv
  <2>2. QED
    BY <2>1, SimilarCounts DEF NearInv
<1>4. QED
  BY <1>1, <1>2, <1>3, PTL DEF RetrievalSpec

-----------------------------------------------------------------------------
(* Announcements.                                                          *)

AnnouncedItems == [text : {raw.text : raw \in Announcements}, date : ValidDates \cup {NoDate},
                   city : {City(raw.city) : raw \in Announcements}, vector : BOOLEAN, of : Nat]

(* The arbiter, or the policy, may say that event is another, or the same. *)
MayDiffer(a, event) == FALSE \in Answers(a, event)
MayMatch(a, event) == TRUE \in Answers(a, event)

(* None of the events looked at is certain to be the same.                 *)
NoneIsSame(seq, a) == \E S \in FindSimilar(seq, a) : \A k \in S : MayDiffer(a, seq[k])

LEMMA Verdicts ==
  ASSUME NEW a, NEW event
  PROVE  /\ JudgeDuplicate(a, event) = "duplicate" => ~MayDiffer(a, event)
         /\ JudgeDuplicate(a, event) = "distinct" => ~MayMatch(a, event)
<1>1. ASSUME JudgeDuplicate(a, event) = "duplicate"
      PROVE  ~MayDiffer(a, event)
  <2>1. Answers(a, event) = {TRUE}
    BY <1>1 DEF Answers
  <2>2. QED
    BY <2>1 DEF MayDiffer
<1>2. ASSUME JudgeDuplicate(a, event) = "distinct"
      PROVE  ~MayMatch(a, event)
  <2>1. Answers(a, event) = {FALSE}
    BY <1>2 DEF Answers
  <2>2. QED
    BY <2>1 DEF MayMatch
<1>3. QED
  BY <1>1, <1>2

(* Event i is the same as a in all respects.                               *)
SameInAll(seq, a, i) ==
  /\ IsEvent(seq, i) /\ seq[i].vector /\ Alike[a.text, seq[i].text] >= DuplicateFrom
  /\ DatesAgree(a, seq[i]) /\ CitiesAgree(a, seq[i])

(* What the announcement n was found to repeat is as it says itself.       *)
FollowsIn(seq, n) ==
  \/ seq[n].of \in {0, n}
  \/ seq[n].of \in 1..n - 1 /\ DatesAgree(seq[n], seq[seq[n].of]) /\ CitiesAgree(seq[n], seq[seq[n].of])

AnnouncedInv ==
  use = "announce" =>
    /\ found \in Seq(AnnouncedItems)
    /\ \A n \in DOMAIN found : /\ FollowsIn(found, n)
                               /\ \A i \in 1..n - 1 : RepeatIsRecognised(i, n)

(* An event that is the same in all respects is not among those looked at  *)
(* when it is not recognised: enough others are.                           *)
LEMMA LookedAtOthers ==
  ASSUME NEW seq \in Seq(AnnouncedItems), NEW a, a.text \in {raw.text : raw \in Announcements},
         NoneIsSame(seq, a), NEW i \in DOMAIN seq, SameInAll(seq, a, i)
  PROVE  DedupCandidates <= Cardinality({k \in Near(seq, a) \ {i} : NoFarther(seq, a, k, i)})
<1> DEFINE alike == Alike[a.text, seq[i].text]
<1>1. alike \in Int
  <2>1. seq[i] \in AnnouncedItems
    OBVIOUS
  <2>2. seq[i].text \in {raw.text : raw \in Announcements}
    BY <2>1 DEF AnnouncedItems
  <2>3. PICK raw \in Announcements : seq[i].text = raw.text
    BY <2>2
  <2>4. PICK other \in Announcements : a.text = other.text
    OBVIOUS
  <2>5. \A b, c \in Announcements : Alike[b.text, c.text] \in Int
    BY Zenon, RetrievalAssumption
  <2>6. Alike[other.text, raw.text] \in Int
    BY Zenon, <2>5
  <2>7. QED
    BY Zenon, <2>3, <2>4, <2>6
<1>2. alike >= DuplicateFrom /\ alike >= UncertainFrom /\ ~(alike < UncertainFrom)
  <2>1. DuplicateFrom \in Nat /\ UncertainFrom \in Nat /\ UncertainFrom <= DuplicateFrom
    BY CatalogueAssumption
  <2>2. alike >= DuplicateFrom
    BY DEF SameInAll
  <2> HIDE DEF alike
  <2>3. QED
    BY <1>1, <2>1, <2>2
<1>3. i \in Near(seq, a)
  BY <1>2 DEF Near, SameInAll
<1>4. JudgeDuplicate(a, seq[i]) = "duplicate"
  BY <1>2 DEF JudgeDuplicate, SameInAll
<1> PICK S \in FindSimilar(seq, a) : \A k \in S : MayDiffer(a, seq[k])
  BY DEF NoneIsSame
<1>5. i \notin S
  BY <1>4, Verdicts
<1> DEFINE T == {k \in Near(seq, a) \ {i} : NoFarther(seq, a, k, i)}
<1>6. /\ S \in SUBSET Near(seq, a)
      /\ Cardinality(S) = DedupCandidates
      /\ \A j \in S : NoFarther(seq, a, j, i)
  BY <1>3, <1>5 DEF FindSimilar
<1>7. S \in SUBSET T
  BY <1>5, <1>6
<1>8. IsFiniteSet(T)
  <2>1. IsFiniteSet(1..Len(seq)) /\ DOMAIN seq = 1..Len(seq)
    BY UptoFinite
  <2>2. T \in SUBSET (1..Len(seq))
    BY <2>1 DEF Near
  <2>3. QED
    BY <2>1, <2>2, FS_Subset
<1> HIDE DEF T
<1>9. Cardinality(S) <= Cardinality(T)
  BY <1>7, <1>8, FS_Subset
<1>10. QED
  BY <1>6, <1>9 DEF T

(* One more announcement: no event, an event of its own, for which it is   *)
(* compared when it has an embedding, or one that is there.                *)
LEMMA OneMore ==
  ASSUME NEW seq \in Seq(AnnouncedItems), NEW raw \in Announcements, NEW vector \in BOOLEAN,
         NEW item \in Processed(seq, raw, vector)
  PROVE  /\ item \in AnnouncedItems /\ item.vector = vector
         /\ \/ item.of = 0
            \/ /\ item.of = Len(seq) + 1
               /\ ~vector \/ NoneIsSame(seq, item)
            \/ /\ item.of \in 1..Len(seq)
               /\ DatesAgree(item, seq[item.of]) /\ CitiesAgree(item, seq[item.of])
<1> DEFINE a == Postprocess(raw)
           made(of) == [text |-> a.text, date |-> a.date, city |-> a.city, vector |-> vector,
                        of |-> of]
           Outcome ==
             /\ item \in AnnouncedItems /\ item.vector = vector
             /\ \/ item.of = 0
                \/ /\ item.of = Len(seq) + 1
                   /\ ~vector \/ NoneIsSame(seq, item)
                \/ /\ item.of \in 1..Len(seq)
                   /\ DatesAgree(item, seq[item.of]) /\ CitiesAgree(item, seq[item.of])
<1>1. Len(seq) \in Nat /\ DOMAIN seq = 1..Len(seq) /\ Cardinality(DOMAIN seq) = Len(seq)
  BY UptoFinite
<1>2. /\ a.text = raw.text /\ a.date = ValidDate(raw.date) /\ a.city = City(raw.city)
  BY DEF Postprocess
<1>3. a.date \in ValidDates \cup {NoDate}
  BY <1>2 DEF ValidDate
<1>4. \/ item = made(0)
      \/ item = made(Len(seq) + 1) /\ ~vector
      \/ \E k \in FindDuplicate(seq, a) : item = made(IF k = 0 THEN Len(seq) + 1 ELSE k)
  BY <1>1 DEF Processed
<1> HIDE DEF a
<1>5. \A of \in Nat :
        /\ made(of) \in AnnouncedItems /\ made(of).vector = vector /\ made(of).of = of
        /\ made(of).text = a.text /\ made(of).date = a.date /\ made(of).city = a.city
  BY <1>2, <1>3 DEF AnnouncedItems
<1> HIDE DEF made
<1>6. \A of \in Nat :
        /\ \A event : DatesAgree(made(of), event) <=> DatesAgree(a, event)
        /\ \A event : CitiesAgree(made(of), event) <=> CitiesAgree(a, event)
        /\ NoneIsSame(seq, made(of)) <=> NoneIsSame(seq, a)
  <2> SUFFICES ASSUME NEW of \in Nat
               PROVE  /\ \A event : DatesAgree(made(of), event) <=> DatesAgree(a, event)
                      /\ \A event : CitiesAgree(made(of), event) <=> CitiesAgree(a, event)
                      /\ NoneIsSame(seq, made(of)) <=> NoneIsSame(seq, a)
    OBVIOUS
  <2> DEFINE m == made(of)
  <2>1. m.text = a.text /\ m.date = a.date /\ m.city = a.city
    BY <1>5
  <2> HIDE DEF m
  <2>2. \A event : DatesAgree(m, event) <=> DatesAgree(a, event)
    BY <2>1 DEF DatesAgree
  <2>3. \A event : CitiesAgree(m, event) <=> CitiesAgree(a, event)
    BY <2>1 DEF CitiesAgree
  <2>4. \A event : JudgeDuplicate(m, event) = JudgeDuplicate(a, event)
    BY <2>1, <2>2, <2>3 DEF JudgeDuplicate
  <2>5. \A event : Answers(m, event) = Answers(a, event)
    BY <2>4 DEF Answers, SameEvent
  <2>6. Near(seq, m) = Near(seq, a)
    BY <2>1, <2>2 DEF Near
  <2>7. \A j, k : NoFarther(seq, m, j, k) <=> NoFarther(seq, a, j, k)
    BY <2>1 DEF NoFarther
  <2>8. FindSimilar(seq, m) = FindSimilar(seq, a)
    BY <2>6, <2>7 DEF FindSimilar
  <2>9. \A event : MayDiffer(m, event) <=> MayDiffer(a, event)
    BY <2>5 DEF MayDiffer
  <2>10. NoneIsSame(seq, m) <=> NoneIsSame(seq, a)
    BY <2>8, <2>9 DEF NoneIsSame
  <2>11. QED
    BY <2>2, <2>3, <2>10 DEF m
<1>7. ASSUME item = made(0) PROVE Outcome
  BY <1>5, <1>7
<1>8. ASSUME item = made(Len(seq) + 1), ~vector PROVE Outcome
  BY <1>1, <1>5, <1>8
<1>9. ASSUME NEW k \in FindDuplicate(seq, a), item = made(IF k = 0 THEN Len(seq) + 1 ELSE k)
      PROVE  Outcome
  <2>1. PICK S \in FindSimilar(seq, a) :
          \/ k \in S /\ MayMatch(a, seq[k])
          \/ k = 0 /\ S = {j \in S : MayDiffer(a, seq[j])}
    BY <1>9 DEF FindDuplicate, MayMatch, MayDiffer
  <2>2. S \subseteq 1..Len(seq)
    BY <1>1 DEF FindSimilar, Near
  <2>3. CASE k \in S /\ MayMatch(a, seq[k])
    <3>1. k \in 1..Len(seq) /\ k # 0 /\ item = made(k)
      BY <1>1, <1>9, <2>2, <2>3
    <3>2. DatesAgree(a, seq[k]) /\ CitiesAgree(a, seq[k])
      <4>1. JudgeDuplicate(a, seq[k]) # "distinct"
        BY <2>3, Verdicts
      <4>2. QED
        BY <4>1 DEF JudgeDuplicate
    <3>3. QED
      BY <1>5, <1>6, <3>1, <3>2
  <2>4. CASE k = 0 /\ S = {j \in S : MayDiffer(a, seq[j])}
    <3>1. item = made(Len(seq) + 1) /\ Len(seq) + 1 \in Nat
      BY <1>1, <1>9, <2>4
    <3>2. NoneIsSame(seq, a)
      BY <2>4 DEF NoneIsSame
    <3>3. QED
      BY <1>5, <1>6, <3>1, <3>2
  <2>5. QED
    BY <2>1, <2>3, <2>4
<1>10. Outcome
  <2> HIDE DEF Outcome
  <2>1. QED
    BY <1>4, <1>7, <1>8, <1>9
<1>11. QED
  BY <1>10

LEMMA AnnounceFollows ==
  ASSUME AnnouncedInv, NEW raw \in Announcements, NEW vector \in BOOLEAN, Announce(raw, vector)
  PROVE  AnnouncedInv'
<1>1. use = "announce" /\ found \in Seq(AnnouncedItems)
  BY DEF Announce, AnnouncedInv
<1>2. PICK item \in Processed(found, raw, vector) : Find(item)
  BY DEF Announce
<1> PICK n \in Nat : n = Len(found) + 1
  BY <1>1
<1>3. /\ item \in AnnouncedItems /\ item.vector = vector
      /\ \/ item.of = 0
         \/ /\ item.of = n
            /\ ~vector \/ NoneIsSame(found, item)
         \/ /\ item.of \in 1..Len(found)
            /\ DatesAgree(item, found[item.of]) /\ CitiesAgree(item, found[item.of])
  BY <1>1, <1>2, OneMore
<1>4. found' = Append(found, item) /\ UNCHANGED use
  BY <1>2 DEF Find, facts
<1>5. /\ Len(found) \in Nat /\ DOMAIN found = 1..Len(found)
      /\ found' \in Seq(AnnouncedItems) /\ DOMAIN found' = 1..n /\ found'[n] = item
      /\ \A k \in 1..Len(found) : found'[k] = found[k]
  BY <1>1, <1>3, <1>4
<1>6. \A k \in 1..n : \/ k = n
                      \/ k \in DOMAIN found /\ 1..k - 1 \subseteq 1..Len(found)
  BY <1>5
<1>7. FollowsIn(found', n)
  BY <1>3, <1>5 DEF FollowsIn
<1>8. ASSUME NEW k \in DOMAIN found
      PROVE  FollowsIn(found', k)
  <2>1. FollowsIn(found, k) /\ 1..k - 1 \subseteq 1..Len(found) /\ k \in 1..Len(found)
    BY <1>1, <1>5, <1>6, <1>8 DEF AnnouncedInv
  <2>2. found'[k] = found[k] /\ \A j \in 1..k - 1 : found'[j] = found[j]
    BY <1>5, <2>1
  <2>3. QED
    BY <2>1, <2>2 DEF FollowsIn
<1>9. ASSUME NEW k \in DOMAIN found, NEW i \in 1..k - 1
      PROVE  RepeatIsRecognised(i, k)'
  <2>1. RepeatIsRecognised(i, k) /\ 1..k - 1 \subseteq 1..Len(found) /\ k \in 1..Len(found)
    BY <1>1, <1>5, <1>6, <1>9 DEF AnnouncedInv
  <2>2. found'[k] = found[k] /\ \A j \in 1..k - 1 : found'[j] = found[j]
    BY <1>5, <2>1
  <2>3. [j \in 1..k - 1 |-> found'[j]] = [j \in 1..k - 1 |-> found[j]]
    BY <2>2
  <2>4. found'[i] = found[i] /\ (IsEvent(found', i) <=> IsEvent(found, i))
        /\ (IsEvent(found', k) <=> IsEvent(found, k))
    BY <2>2 DEF IsEvent
  <2> DEFINE before == [j \in 1..k - 1 |-> found[j]]
             others == {j \in Near(before, found[k]) \ {i} : NoFarther(before, found[k], j, i)}
             same == /\ IsEvent(found, i) /\ IsEvent(found, k)
                     /\ found[i].vector /\ found[k].vector
                     /\ Alike[found[k].text, found[i].text] >= DuplicateFrom
                     /\ DatesAgree(found[k], found[i]) /\ CitiesAgree(found[k], found[i])
  <2>5. same => DedupCandidates <= Cardinality(others)
    BY <2>1 DEF RepeatIsRecognised
  <2>6. RepeatIsRecognised(i, k)' <=> (same => DedupCandidates <= Cardinality(others))
    BY <2>2, <2>3, <2>4 DEF RepeatIsRecognised
  <2>7. QED
    BY <2>5, <2>6
<1>10. ASSUME NEW i \in 1..n - 1
       PROVE  RepeatIsRecognised(i, n)'
  <2>1. i \in DOMAIN found /\ i # n /\ n - 1 = Len(found)
    BY <1>5
  <2>2. [j \in 1..n - 1 |-> found'[j]] = found
    BY <1>1, <1>5, <2>1
  <2>3. ASSUME IsEvent(found', i), IsEvent(found', n), found'[i].vector, found'[n].vector,
               Alike[found'[n].text, found'[i].text] >= DuplicateFrom,
               DatesAgree(found'[n], found'[i]), CitiesAgree(found'[n], found'[i])
        PROVE  DedupCandidates <=
                 Cardinality({k \in Near(found, item) \ {i} : NoFarther(found, item, k, i)})
    <3>1. item.of = n /\ vector /\ found'[i] = found[i] /\ IsEvent(found, i)
      BY <1>3, <1>5, <2>1, <2>3 DEF IsEvent
    <3>2. NoneIsSame(found, item)
      BY <1>3, <1>5, <3>1
    <3>3. item.text \in {r.text : r \in Announcements}
      BY <1>3 DEF AnnouncedItems
    <3>4. SameInAll(found, item, i)
      BY <1>5, <2>3, <3>1 DEF SameInAll
    <3>5. QED
      BY <1>1, <2>1, <3>1, <3>2, <3>3, <3>4, LookedAtOthers
  <2> DEFINE same == /\ IsEvent(found', i) /\ IsEvent(found', n)
                     /\ found'[i].vector /\ found'[n].vector
                     /\ Alike[found'[n].text, found'[i].text] >= DuplicateFrom
                     /\ DatesAgree(found'[n], found'[i]) /\ CitiesAgree(found'[n], found'[i])
             others == {k \in Near(found, item) \ {i} : NoFarther(found, item, k, i)}
  <2>4. same => DedupCandidates <= Cardinality(others)
    BY <2>3
  <2>5. RepeatIsRecognised(i, n)' <=> (same => DedupCandidates <= Cardinality(others))
    <3>1. found'[n] = item
      BY <1>5
    <3>2. QED
      BY <2>2, <3>1 DEF RepeatIsRecognised
  <2>6. QED
    BY <2>4, <2>5
<1>11. QED
  <2>1. \A k \in DOMAIN found' : FollowsIn(found', k)
    BY <1>5, <1>6, <1>7, <1>8
  <2>2. ASSUME NEW k \in DOMAIN found', NEW i \in 1..k - 1
        PROVE  RepeatIsRecognised(i, k)'
    <3>1. CASE k = n
      BY <1>10, <3>1
    <3>2. CASE k # n
      <4>1. k \in DOMAIN found
        BY <1>5, <1>6, <3>2
      <4>2. QED
        BY <1>9, <4>1
    <3>3. QED
      BY <3>1, <3>2
  <2>3. QED
    BY <1>5, <2>1, <2>2 DEF AnnouncedInv

LEMMA AgreesWithItself ==
  ASSUME NEW x \in AnnouncedItems
  PROVE  DatesAgree(x, x) /\ CitiesAgree(x, x)
<1>1. MaxDaysApart \in Nat /\ ValidDates \subseteq Nat
  BY CatalogueAssumption
<1>2. x.date \in ValidDates \cup {NoDate}
  BY DEF AnnouncedItems
<1> PICK d : d = x.date
  OBVIOUS
<1>3. d = NoDate \/ d - d \in -MaxDaysApart..MaxDaysApart
  <2>1. d = NoDate \/ d \in Nat
    BY <1>1, <1>2
  <2>2. d \in Nat => d - d = 0
    OBVIOUS
  <2>3. 0 \in -MaxDaysApart..MaxDaysApart
    BY <1>1
  <2>4. QED
    BY <2>1, <2>2, <2>3
<1>4. DatesAgree(x, x)
  BY Zenon, <1>3 DEF DatesAgree
<1>5. QED
  BY <1>4 DEF CitiesAgree

(* Two announcements that agree with one event agree with each other, but  *)
(* for what that event leaves open.                                        *)
LEMMA AgreeThrough ==
  ASSUME NEW x \in AnnouncedItems, NEW y \in AnnouncedItems, NEW event \in AnnouncedItems,
         DatesAgree(x, event), CitiesAgree(x, event), DatesAgree(y, event), CitiesAgree(y, event)
  PROVE  /\ DatesAgree(x, y) \/ event.date = NoDate \/ event.date \notin {x.date, y.date}
         /\ CitiesAgree(x, y) \/ event.city \in NoCity
<1>1. MaxDaysApart \in Nat /\ ValidDates \subseteq Nat
  BY CatalogueAssumption
<1>2. {x.date, y.date, event.date} \subseteq ValidDates \cup {NoDate}
  BY DEF AnnouncedItems
<1>3. ASSUME event.date # NoDate, event.date \in {x.date, y.date}
      PROVE  DatesAgree(x, y)
  <2> PICK dx, dy, d : dx = x.date /\ dy = y.date /\ d = event.date
    OBVIOUS
  <2>1. /\ NoDate \in {dx, d} \/ (dx - d) \in -MaxDaysApart..MaxDaysApart
        /\ NoDate \in {dy, d} \/ (dy - d) \in -MaxDaysApart..MaxDaysApart
    BY DEF DatesAgree
  <2>2. NoDate \in {dx, dy} \/ (dx - dy) \in -MaxDaysApart..MaxDaysApart
    <3>1. CASE NoDate \in {dx, dy}
      BY <3>1
    <3>2. CASE NoDate \notin {dx, dy}
      <4>1. dx \in Nat /\ dy \in Nat /\ d \in Nat /\ NoDate \notin {dx, d} /\ NoDate \notin {dy, d}
        BY <1>1, <1>2, <1>3, <3>2
      <4>2. d = dx \/ d = dy
        BY <1>3
      <4>3. dx - d \in -MaxDaysApart..MaxDaysApart /\ dy - d \in -MaxDaysApart..MaxDaysApart
        BY <2>1, <4>1
      <4>4. QED
        BY <1>1, <4>1, <4>2, <4>3
    <3>3. QED
      BY <3>1, <3>2
  <2>3. QED
    BY <2>2 DEF DatesAgree
<1>4. CitiesAgree(x, y) \/ event.city \in NoCity
  BY DEF CitiesAgree
<1>5. QED
  BY <1>3, <1>4

LEMMA NoneSwallowed ==
  ASSUME AnnouncedInv, use = "announce", NEW j \in DOMAIN found, NEW i \in 1..j - 1
  PROVE  NothingIsSwallowed(i, j)
<1>1. /\ found \in Seq(AnnouncedItems)
      /\ \A n \in DOMAIN found : FollowsIn(found, n)
  BY DEF AnnouncedInv
<1>2. /\ i \in DOMAIN found /\ i < j /\ i \in Nat /\ j \in Nat /\ DOMAIN found = 1..Len(found)
  BY <1>1
<1> SUFFICES ASSUME found[i].of = found[j].of, found[i].of # 0
             PROVE  LET event == found[found[i].of]
                    IN /\ DatesAgree(found[i], found[j]) \/ event.date = NoDate
                          \/ event.date \notin {found[i].date, found[j].date}
                       /\ CitiesAgree(found[i], found[j]) \/ event.city \in NoCity
  BY DEF NothingIsSwallowed
<1> PICK m : m = found[i].of
  OBVIOUS
<1>3. FollowsIn(found, i) /\ FollowsIn(found, j)
  BY <1>1, <1>2
<1>4. /\ \/ m = i
         \/ m \in 1..i - 1 /\ DatesAgree(found[i], found[m]) /\ CitiesAgree(found[i], found[m])
      /\ \/ m = j
         \/ m \in 1..j - 1 /\ DatesAgree(found[j], found[m]) /\ CitiesAgree(found[j], found[m])
  <2>1. m # 0 /\ found[i].of = m /\ found[j].of = m
    OBVIOUS
  <2>2. \A k : FollowsIn(found, k) /\ found[k].of = m =>
          \/ m = k
          \/ /\ m \in 1..k - 1
             /\ DatesAgree(found[k], found[m])
             /\ CitiesAgree(found[k], found[m])
    <3> SUFFICES ASSUME NEW k, FollowsIn(found, k), found[k].of = m
                 PROVE  \/ m = k
                        \/ /\ m \in 1..k - 1
                           /\ DatesAgree(found[k], found[m])
                           /\ CitiesAgree(found[k], found[m])
      OBVIOUS
    <3>1. \/ m \in {0, k}
          \/ /\ m \in 1..k - 1
             /\ DatesAgree(found[k], found[m])
             /\ CitiesAgree(found[k], found[m])
      BY Zenon DEF FollowsIn
    <3>2. QED
      BY <2>1, <3>1
  <2>3. QED
    BY <1>3, <2>1, <2>2
<1>5. m \in DOMAIN found /\ m # j
  BY <1>2, <1>4
<1>6. {found[i], found[j], found[m]} \subseteq AnnouncedItems
  BY <1>1, <1>2, <1>5
<1>7. DatesAgree(found[j], found[m]) /\ CitiesAgree(found[j], found[m])
  BY <1>4, <1>5
<1>8. DatesAgree(found[i], found[m]) /\ CitiesAgree(found[i], found[m])
  BY <1>4, <1>6, AgreesWithItself
<1>9. QED
  BY <1>6, <1>7, <1>8, AgreeThrough

LEMMA AnnouncedStep ==
  ASSUME AnnouncedInv, [RetrievalNext]_retrievalVars
  PROVE  AnnouncedInv'
<1>1. ASSUME UNCHANGED <<use, found>>
      PROVE  AnnouncedInv'
  <2>1. \A i, j : RepeatIsRecognised(i, j)' <=> RepeatIsRecognised(i, j)
    BY <1>1 DEF RepeatIsRecognised
  <2>2. QED
    BY <1>1, <2>1 DEF AnnouncedInv
<1>2. ASSUME use # "announce", UNCHANGED use
      PROVE  AnnouncedInv'
  BY <1>2 DEF AnnouncedInv
<1>3. CASE \E raw \in Announcements, vector \in BOOLEAN : Announce(raw, vector)
  BY <1>3, AnnounceFollows
<1>4. CASE \/ FindNear \/ SimilarEvents \/ RankCandidates \/ Fetch \/ ExplainEvent
           \/ \E score \in Scores, vector \in Vectors \cup {NoVector}, series \in Series,
                 distance \in Distances : FindCandidate(score, vector, series, distance)
  BY <1>2, <1>4 DEF FindNear, SimilarEvents, RankCandidates, Fetch, ExplainEvent, FindCandidate,
     Find, facts
<1>5. CASE \/ \E q \in Requests :
                \/ \E p \in Phrases : Ask(q, p) \/ SearchFilters(q, p)
                \/ LlmAnswers(q) \/ LlmFails(q) \/ Strict(q) \/ TextSearch(q)
                \/ SemanticSearch(q) \/ Fuse(q) \/ Relax(q) \/ SendAnswer(q)
           \/ (\E e \in Events : Arrive(e)) \/ (\E k \in DOMAIN cache : Expire(k)) \/ Midnight
           \/ UNCHANGED retrievalVars
  BY <1>1, <1>5 DEF Ask, SearchFilters, LlmAnswers, LlmFails, Strict, TextSearch, SemanticSearch,
     Fuse, Relax, SendAnswer, Arrive, Expire, Midnight, retrievalVars, facts, lists
<1>6. QED
  BY <1>3, <1>4, <1>5 DEF RetrievalNext

(* Of an event that is announced again no second one is made, unless so    *)
(* many others are as near that it is not among those looked at; and what  *)
(* announcements of one event say differently the event itself leaves      *)
(* open: whatever the arbiter answers, for any thresholds and any number   *)
(* of candidates.                                                          *)
THEOREM EventsAreAnnouncedOnce == RetrievalSpec => []AnnouncedOnce
<1>1. RetrievalInit => AnnouncedInv
  <2>1. RetrievalInit => found = <<>>
    BY DEF RetrievalInit
  <2>2. found = <<>> => found \in Seq(AnnouncedItems) /\ DOMAIN found = {}
    OBVIOUS
  <2>3. QED
    BY <2>1, <2>2 DEF AnnouncedInv
<1>2. AnnouncedInv /\ [RetrievalNext]_retrievalVars => AnnouncedInv'
  BY AnnouncedStep
<1>3. AnnouncedInv => AnnouncedOnce
  <2> SUFFICES ASSUME AnnouncedInv, use = "announce",
                      NEW j \in DOMAIN found, NEW i \in 1..j - 1
               PROVE  RepeatIsRecognised(i, j) /\ NothingIsSwallowed(i, j)
    BY DEF AnnouncedOnce
  <2>1. RepeatIsRecognised(i, j)
    BY DEF AnnouncedInv
  <2>2. NothingIsSwallowed(i, j)
    BY NoneSwallowed
  <2>3. QED
    BY <2>1, <2>2
<1>4. QED
  BY <1>1, <1>2, <1>3, PTL DEF RetrievalSpec

-----------------------------------------------------------------------------
(* The nearest event.                                                      *)

(* No event that was there meets the filters that level leaves.            *)
NoneFits(r, level) == Matching(r.before, Relaxed(r.filters, level), r.now) = {}

(* The answer is as near as there is one.                                  *)
IsNearest(r) ==
  /\ r.level > 0 => \A level \in 0..r.level - 1 : NoneFits(r, level)
  /\ r.results = <<>> => NoneFits(r, Len(RelaxOrder))
  /\ r.level > 0 /\ r.results # <<>> =>
       \A e \in Matching(r.before, Relaxed(r.filters, r.level), r.now) : NotLater(r.results[1], e)

(* What a search knows at each of its steps.                               *)
Sought(r) ==
  /\ DOMAIN r = SearchFields
  /\ r.at \in {"idle", "extract", "strict", "text", "semantic", "fuse"} => r.level = 0
  /\ r.at \notin {"idle", "extract"} =>
       r.before \subseteq catalogue /\ DOMAIN r.filters = {"keys", "date"}
  /\ r.at \in {"text", "semantic", "fuse"} =>
       /\ r.rankings \in Seq(Seq(Events)) /\ Len(r.rankings) >= 1
       /\ r.rankings[1] = <<>> => NoneFits(r, 0)
  /\ r.at = "relax" =>
       r.level \in 0..Len(RelaxOrder) - 1 /\ \A level \in 0..r.level : NoneFits(r, level)
  /\ r.at = "done" => r.level \in Nat /\ IsNearest(r)

NearestInv ==
  /\ catalogue \subseteq Events /\ start \in [Events -> Dates]
  /\ DOMAIN req = Requests
  /\ \A q \in Requests : \A r \in {req[q]} : Sought(r)

LEMMA SixFilters == Len(RelaxOrder) = 6
BY DEF RelaxOrder

(* All of a finite set in some order.                                      *)
LEMMA AllInOrder ==
  ASSUME NEW S, IsFiniteSet(S), NEW t \in SetToSeqs(S)
  PROVE  /\ t \in Seq(S) /\ Len(t) = Cardinality(S) /\ Cardinality(S) \in Nat
         /\ \A e \in S : \E i \in DOMAIN t : t[i] = e
<1> DEFINE D == 1..Cardinality(S)
<1>1. Cardinality(S) \in Nat
  BY FS_CardinalityType
<1>2. t \in [D -> S] /\ \A i, j \in D : i # j => t[i] # t[j]
  BY DEF SetToSeqs
<1>3. t \in Injection(D, S)
  BY <1>2 DEF Injection, IsInjective
<1>4. Cardinality(D) = Cardinality(S)
  BY <1>1, UptoFinite
<1>5. t \in Surjection(D, S)
  BY <1>3, <1>4, FS_Injection
<1>6. \A e \in S : \E i \in D : t[i] = e
  BY <1>5 DEF Surjection
<1>7. QED
  BY <1>1, <1>2, <1>6

LEMMA SomeAreRankings ==
  ASSUME NEW S \in SUBSET Events, NEW n \in Nat, NEW s \in InSomeOrder(S, n)
  PROVE  s \in Seq(Events)
<1>1. PICK es \in SUBSET S : \E t \in SetToSeqs(es) : s = Take(t, n)
  BY DEF InSomeOrder
<1>2. PICK t \in SetToSeqs(es) : s = Take(t, n)
  BY <1>1
<1>3. IsFiniteSet(es)
  BY RetrievalAssumption, FS_Subset
<1>4. t \in Seq(es)
  BY <1>3, AllInOrder
<1>5. t \in Seq(Events)
  BY <1>4
<1>6. QED
  BY <1>2, <1>5, TakeProperties

(* The first of the events by date, and there is one if there are any.     *)
LEMMA FirstByDate ==
  ASSUME start \in [Events -> Dates],
         NEW S \in SUBSET Events, NEW n \in Nat \ {0}, NEW s \in ByDate(S, n)
  PROVE  /\ s \in Seq(Events)
         /\ s = <<>> => S = {}
         /\ s # <<>> => \A e \in S : NotLater(s[1], e)
<1>1. PICK t \in SetToSeqs(S) : /\ s = Take(t, n)
                                /\ \A i, j \in DOMAIN t : i < j => NotLater(t[i], t[j])
  BY DEF ByDate
<1>2. IsFiniteSet(S)
  BY RetrievalAssumption, FS_Subset
<1>3. /\ t \in Seq(S) /\ Len(t) = Cardinality(S) /\ Cardinality(S) \in Nat
      /\ \A e \in S : \E i \in DOMAIN t : t[i] = e
  BY <1>2, AllInOrder
<1>4. /\ s \in Seq(Events) /\ Len(s) = IF Len(t) < n THEN Len(t) ELSE n
      /\ \A i \in DOMAIN s : i \in DOMAIN t /\ s[i] = t[i]
  <2>1. t \in Seq(Events)
    BY <1>3
  <2>2. QED
    BY <1>1, <2>1, TakeProperties
<1>5. s = <<>> => S = {}
  <2>1. s = <<>> => Cardinality(S) = 0
    BY <1>3, <1>4
  <2>2. QED
    BY <1>2, <2>1, FS_EmptySet
<1>6. ASSUME s # <<>>, NEW e \in S
      PROVE  NotLater(s[1], e)
  <2>1. 1 \in DOMAIN s /\ s[1] = t[1] /\ 1 \in DOMAIN t
    BY <1>4, <1>6
  <2>2. PICK i \in DOMAIN t : t[i] = e
    BY <1>3
  <2>3. CASE i = 1
    <3>1. start[e] \in Dates /\ LastDay \in Nat
      BY RetrievalAssumption
    <3>2. start[e] = NoDate \/ start[e] <= start[e]
      BY <3>1 DEF Dates, Days
    <3>3. NotLater(e, e)
      BY <3>2 DEF NotLater
    <3>4. QED
      BY <2>1, <2>2, <2>3, <3>3
  <2>4. CASE i # 1
    <3>1. 1 < i
      BY <1>3, <2>4
    <3>2. QED
      BY <1>1, <2>1, <2>2, <3>1
  <2>5. QED
    BY <2>3, <2>4
<1>7. QED
  BY <1>4, <1>5, <1>6

LEMMA NothingTaken ==
  ASSUME NEW f, NEW n \in Nat, DOMAIN f = 1..n, NEW m \in Nat \ {0}, Take(f, m) = <<>>
  PROVE  n = 0
BY DEF Take

(* Fusion finds something when a ranking does.                             *)
LEMMA FusedIsEmpty ==
  ASSUME NEW rankings \in Seq(Seq(Events)), Len(rankings) >= 1,
         Take(Fused(rankings), Limit) = <<>>
  PROVE  rankings[1] = <<>>
<1> DEFINE S == UNION {Range(rankings[i]) : i \in DOMAIN rankings}
<1>1. IsFiniteSet(S)
  <2>1. \A i \in DOMAIN rankings : Range(rankings[i]) \subseteq Events
    BY DEF Range
  <2>2. S \in SUBSET Events
    BY <2>1
  <2>3. QED
    BY <2>2, RetrievalAssumption, FS_Subset
<1>2. DOMAIN Fused(rankings) = 1..Cardinality(S)
  BY Zenon DEF Fused, Ordered
<1>3. Cardinality(S) \in Nat /\ (Cardinality(S) = 0 <=> S = {})
  BY <1>1, FS_CardinalityType, FS_EmptySet
<1>4. 1 \in DOMAIN rankings /\ rankings[1] \in Seq(Events)
  OBVIOUS
<1>5. rankings[1] # <<>> => S # {}
  <2>1. rankings[1] # <<>> => rankings[1][1] \in Range(rankings[1])
    BY <1>4 DEF Range
  <2>2. QED
    BY <1>4, <2>1
<1> HIDE DEF S
<1>6. Cardinality(S) = 0
  BY <1>2, <1>3, Limits, NothingTaken
<1>7. QED
  BY <1>3, <1>5, <1>6

(* Less is asked of the same events, or of more of them.                   *)
LEMMA MatchingProperties ==
  /\ \A S, f, n : Matching(S, f, n) \subseteq S
  /\ \A S, T, f, n : S \subseteq T => Matching(S, f, n) \subseteq Matching(T, f, n)
  /\ \A S, f, n : DOMAIN f = {"keys", "date"} => Matching(S, Relaxed(f, 0), n) = Matching(S, f, n)
<1>1. \A S, f, n : Matching(S, f, n) \subseteq S
  BY DEF Matching
<1>2. \A S, T, f, n : S \subseteq T => Matching(S, f, n) \subseteq Matching(T, f, n)
  BY DEF Matching
<1>3. ASSUME NEW f, DOMAIN f = {"keys", "date"}
      PROVE  Relaxed(f, 0).keys = f.keys /\ Relaxed(f, 0).date = f.date
  BY <1>3 DEF Relaxed
<1>4. ASSUME NEW f, NEW g, g.keys = f.keys, g.date = f.date, NEW S, NEW n
      PROVE  Matching(S, g, n) = Matching(S, f, n)
  BY <1>4 DEF Matching, InTime
<1>5. QED
  BY <1>1, <1>2, <1>3, <1>4

(* What a search knows stays true while events come in.                    *)
LEMMA SoughtStays ==
  ASSUME NEW r, Sought(r), UNCHANGED <<meets, start>>, catalogue \subseteq catalogue'
  PROVE  Sought(r)'
<1>1. \A S, f, n : Matching(S, f, n)' = Matching(S, f, n)
  BY DEF Matching, InTime
<1>2. \A level : NoneFits(r, level)' <=> NoneFits(r, level)
  BY <1>1 DEF NoneFits
<1>3. \A e, f : NotLater(e, f)' <=> NotLater(e, f)
  BY DEF NotLater
<1>4. IsNearest(r)' <=> IsNearest(r)
  BY <1>1, <1>2, <1>3 DEF IsNearest
<1>5. QED
  BY <1>2, <1>4 DEF Sought

LEMMA SearchMoves ==
  ASSUME NearestInv, NEW q \in Requests, NEW s, Becomes(q, s), Sought(s),
         UNCHANGED <<meets, start, catalogue>>
  PROVE  NearestInv'
<1>1. /\ DOMAIN req' = Requests /\ req'[q] = s
      /\ \A p \in Requests : p # q => req'[p] = req[p]
  BY DEF Becomes, NearestInv
<1>2. ASSUME NEW p \in Requests, NEW r \in {req'[p]}
      PROVE  Sought(r)'
  <2>1. Sought(r)
    <3>1. CASE p = q
      BY <1>1, <3>1
    <3>2. CASE p # q
      BY <1>1, <3>2 DEF NearestInv
    <3>3. QED
      BY <3>1, <3>2
  <2>2. QED
    BY <2>1, SoughtStays
<1>3. QED
  BY <1>1, <1>2 DEF NearestInv

LEMMA SearchesStay ==
  ASSUME NearestInv, UNCHANGED <<meets, start, req>>, catalogue \subseteq catalogue',
         catalogue' \subseteq Events
  PROVE  NearestInv'
<1>1. ASSUME NEW p \in Requests, NEW r \in {req[p]}
      PROVE  Sought(r)'
  BY SoughtStays DEF NearestInv
<1>2. QED
  BY <1>1 DEF NearestInv

LEMMA BeginsAtStrict ==
  ASSUME NEW r, DOMAIN r = SearchFields, r.level = 0, NEW raw
  PROVE  Sought(Begun(r, raw))
<1> DEFINE f == Canonicalize(raw)
           s == Begun(r, raw)
<1>1. DOMAIN f = {"keys", "date"}
  BY DEF Canonicalize
<1>2. s = [r EXCEPT !.at = "strict", !.filters = f, !.now = day, !.before = catalogue]
  BY DEF Begun
<1> HIDE DEF f, s
<1>3. /\ DOMAIN s = SearchFields /\ s.at = "strict" /\ s.level = 0
      /\ s.filters = f /\ s.before = catalogue
  BY <1>2 DEF SearchFields
<1>4. Sought(s)
  BY <1>1, <1>3 DEF Sought
<1>5. QED
  BY <1>4 DEF s

LEMMA IdleSought == Sought(Idle)
<1>1. Idle.at = "idle" /\ Idle.level = 0
  BY DEF Idle
<1>2. QED
  BY <1>1, SearchIdle DEF Sought

LEMMA BeginSteps ==
  ASSUME NearestInv, NEW q \in Requests,
         \/ \E p \in Phrases : Ask(q, p) \/ SearchFilters(q, p)
         \/ LlmAnswers(q) \/ LlmFails(q)
  PROVE  NearestInv'
<1>1. ASSUME NEW p \in Phrases, Ask(q, p)
      PROVE  NearestInv'
  <2> DEFINE r == [Idle EXCEPT !.phrase = p, !.asked = day, !.text = TRUE]
             key == FiltersKey(p, day)
             s == [r EXCEPT !.at = "extract"]
  <2>1. DOMAIN r = SearchFields /\ r.level = 0
    BY DEF Idle, SearchFields
  <2>2. DOMAIN s = SearchFields /\ s.level = 0 /\ s.at = "extract"
    BY DEF Idle, SearchFields
  <2>3. /\ Becomes(q, IF key \in DOMAIN cache THEN Begun(r, cache[key]) ELSE s)
        /\ UNCHANGED <<meets, start, catalogue>>
    BY <1>1 DEF Ask, facts
  <2> HIDE DEF r, s
  <2>4. CASE key \in DOMAIN cache
    BY <2>1, <2>3, <2>4, BeginsAtStrict, SearchMoves
  <2>5. CASE key \notin DOMAIN cache
    <3>1. Sought(s)
      BY <2>2 DEF Sought
    <3>2. QED
      BY <2>3, <2>5, <3>1, SearchMoves
  <2>6. QED
    BY <2>4, <2>5
<1>2. ASSUME NEW p \in Phrases, SearchFilters(q, p)
      PROVE  NearestInv'
  <2> DEFINE r == [Idle EXCEPT !.phrase = p, !.asked = day]
  <2>1. DOMAIN r = SearchFields /\ r.level = 0
    BY DEF Idle, SearchFields
  <2>2. Becomes(q, Begun(r, Meaning(p, day))) /\ UNCHANGED <<meets, start, catalogue>>
    BY <1>2 DEF SearchFilters, facts
  <2> HIDE DEF r
  <2>3. QED
    BY <2>1, <2>2, BeginsAtStrict, SearchMoves
<1> PICK r : r = req[q]
  OBVIOUS
<1>3. Sought(r)
  BY DEF NearestInv
<1>4. CASE LlmAnswers(q)
  <2>1. r.at = "extract"
    BY <1>4 DEF LlmAnswers, At
  <2>2. \E raw : Becomes(q, Begun(r, raw)) /\ UNCHANGED <<meets, start, catalogue>>
    BY <1>4 DEF LlmAnswers, facts
  <2>3. DOMAIN r = SearchFields /\ r.level = 0
    BY <1>3, <2>1 DEF Sought
  <2>4. QED
    BY <2>2, <2>3, BeginsAtStrict, SearchMoves
<1>5. CASE LlmFails(q)
  <2> DEFINE f == [r EXCEPT !.failed = TRUE]
  <2>1. r.at = "extract"
    BY <1>5 DEF LlmFails, At
  <2>2. Becomes(q, Begun(f, JustText)) /\ UNCHANGED <<meets, start, catalogue>>
    BY <1>5 DEF LlmFails, facts
  <2>3. DOMAIN f = SearchFields /\ f.level = 0
    BY <1>3, <2>1 DEF Sought, SearchFields
  <2> HIDE DEF f
  <2>4. QED
    BY <2>2, <2>3, BeginsAtStrict, SearchMoves
<1>6. QED
  BY <1>1, <1>2, <1>4, <1>5

LEMMA StrictSought ==
  ASSUME NearestInv, NEW q \in Requests, Strict(q)
  PROVE  NearestInv'
<1> PICK r : r = req[q]
  OBVIOUS
<1> DEFINE matching == Matching(catalogue, r.filters, r.now)
<1>1. Sought(r) /\ r.at = "strict" /\ UNCHANGED <<meets, start, catalogue>>
  BY DEF NearestInv, Strict, At, facts
<1>2. /\ DOMAIN r = SearchFields /\ r.level = 0
      /\ r.before \subseteq catalogue /\ DOMAIN r.filters = {"keys", "date"}
  BY <1>1 DEF Sought
<1>3. matching \in SUBSET Events /\ start \in [Events -> Dates]
  BY MatchingProperties DEF NearestInv
<1>4. matching = {} => \A s : s.before = r.before /\ s.filters = r.filters /\ s.now = r.now =>
                               NoneFits(s, 0)
  <2>1. Matching(r.before, r.filters, r.now) \subseteq matching
    BY <1>2, MatchingProperties
  <2>2. Matching(r.before, Relaxed(r.filters, 0), r.now) = Matching(r.before, r.filters, r.now)
    <3>1. DOMAIN r.filters = {"keys", "date"}
      BY <1>2
    <3>2. \A S, f, n : DOMAIN f = {"keys", "date"} =>
                        Matching(S, Relaxed(f, 0), n) = Matching(S, f, n)
      BY MatchingProperties
    <3>3. QED
      BY Zenon, <3>1, <3>2
  <2>3. QED
    BY <2>1, <2>2 DEF NoneFits
<1>5. \/ \E s \in ByDate(matching, Depth) :
           Becomes(q, [r EXCEPT !.at = IF Words(r) THEN "text" ELSE "semantic",
                                !.rankings = <<s>>])
      \/ \E s \in ByDate(matching, Limit) :
           Becomes(q, [r EXCEPT !.at = IF s = <<>> THEN "relax" ELSE "done", !.results = s])
  BY DEF Strict
<1>6. \A n \in Nat \ {0} : \A s \in ByDate(matching, n) :
        s \in Seq(Events) /\ (s = <<>> => matching = {})
  BY <1>3, FirstByDate
<1> HIDE DEF matching
<1>7. ASSUME NEW s \in ByDate(matching, Depth),
             Becomes(q, [r EXCEPT !.at = IF Words(r) THEN "text" ELSE "semantic",
                                  !.rankings = <<s>>])
      PROVE  NearestInv'
  <2> DEFINE n == [r EXCEPT !.at = IF Words(r) THEN "text" ELSE "semantic", !.rankings = <<s>>]
  <2>1. /\ DOMAIN n = SearchFields /\ n.at \in {"text", "semantic"} /\ n.level = 0
        /\ n.before = r.before /\ n.filters = r.filters /\ n.now = r.now /\ n.rankings = <<s>>
    BY <1>2 DEF SearchFields
  <2> HIDE DEF n
  <2>2. s \in Seq(Events) /\ (s = <<>> => matching = {})
    BY <1>6, Limits
  <2>3. <<s>> \in Seq(Seq(Events)) /\ Len(<<s>>) = 1 /\ <<s>>[1] = s
    BY <2>2
  <2>4. s = <<>> => NoneFits(n, 0)
    BY <1>4, <2>1, <2>2
  <2>5. Sought(n)
    BY <1>2, <2>1, <2>3, <2>4 DEF Sought
  <2>6. QED
    BY <1>1, <1>7, <2>5, SearchMoves DEF n
<1>8. ASSUME NEW s \in ByDate(matching, Limit),
             Becomes(q, [r EXCEPT !.at = IF s = <<>> THEN "relax" ELSE "done", !.results = s])
      PROVE  NearestInv'
  <2> DEFINE n == [r EXCEPT !.at = IF s = <<>> THEN "relax" ELSE "done", !.results = s]
  <2>1. /\ DOMAIN n = SearchFields /\ n.at = (IF s = <<>> THEN "relax" ELSE "done") /\ n.level = 0
        /\ n.before = r.before /\ n.filters = r.filters /\ n.now = r.now /\ n.results = s
    BY <1>2 DEF SearchFields
  <2> HIDE DEF n
  <2>2. s = <<>> => NoneFits(n, 0)
    BY <1>4, <1>6, <2>1, Limits
  <2>3. s = <<>> => \A level \in 0..n.level : NoneFits(n, level)
    BY <2>1, <2>2
  <2>4. s # <<>> => IsNearest(n)
    BY <2>1 DEF IsNearest
  <2>5. Sought(n)
    BY <1>2, <2>1, <2>3, <2>4, SixFilters DEF Sought
  <2>6. QED
    BY <1>1, <1>8, <2>5, SearchMoves DEF n
<1>9. QED
  BY <1>5, <1>7, <1>8

LEMMA RankingSteps ==
  ASSUME NearestInv, NEW q \in Requests, TextSearch(q) \/ SemanticSearch(q)
  PROVE  NearestInv'
<1> PICK r : r = req[q]
  OBVIOUS
<1> DEFINE some == InSomeOrder(Matching(catalogue, HardOf(r.filters), r.now), Depth)
<1>1. Sought(r) /\ r.at \in {"text", "semantic"} /\ UNCHANGED <<meets, start, catalogue>>
  BY DEF NearestInv, TextSearch, SemanticSearch, At, facts
<1>2. /\ DOMAIN r = SearchFields /\ r.level = 0
      /\ r.before \subseteq catalogue /\ DOMAIN r.filters = {"keys", "date"}
      /\ r.rankings \in Seq(Seq(Events)) /\ Len(r.rankings) >= 1
      /\ r.rankings[1] = <<>> => NoneFits(r, 0)
  BY <1>1 DEF Sought
<1>3. \A s \in some : s \in Seq(Events)
  <2>1. Matching(catalogue, HardOf(r.filters), r.now) \in SUBSET Events
    BY MatchingProperties DEF NearestInv
  <2>2. QED
    BY <2>1, Limits, SomeAreRankings
<1>4. \/ \E s \in some, at \in {"semantic", "fuse"} :
           Becomes(q, [r EXCEPT !.at = at, !.rankings = Append(@, s)])
      \/ Becomes(q, [r EXCEPT !.at = "fuse"])
  <2>1. CASE TextSearch(q)
    BY <2>1 DEF TextSearch
  <2>2. CASE SemanticSearch(q)
    BY <2>2 DEF SemanticSearch
  <2>3. QED
    BY <2>1, <2>2
<1> HIDE DEF some
<1>5. ASSUME NEW s \in some, NEW at \in {"semantic", "fuse"},
             Becomes(q, [r EXCEPT !.at = at, !.rankings = Append(@, s)])
      PROVE  NearestInv'
  <2> DEFINE more == Append(r.rankings, s)
             n == [r EXCEPT !.at = at, !.rankings = more]
  <2>1. more \in Seq(Seq(Events)) /\ Len(more) >= 1 /\ more[1] = r.rankings[1]
    BY <1>2, <1>3
  <2> HIDE DEF more
  <2>2. /\ DOMAIN n = SearchFields /\ n.at = at /\ n.level = 0
        /\ n.before = r.before /\ n.filters = r.filters /\ n.now = r.now /\ n.rankings = more
    BY <1>2 DEF SearchFields
  <2>3. Becomes(q, n)
    BY <1>5 DEF more
  <2> HIDE DEF n
  <2>4. NoneFits(r, 0) => NoneFits(n, 0)
    BY <2>2 DEF NoneFits
  <2>5. Sought(n)
    BY <1>2, <2>1, <2>2, <2>4 DEF Sought
  <2>6. QED
    BY <1>1, <2>3, <2>5, SearchMoves
<1>6. CASE Becomes(q, [r EXCEPT !.at = "fuse"])
  <2> DEFINE n == [r EXCEPT !.at = "fuse"]
  <2>1. /\ DOMAIN n = SearchFields /\ n.at = "fuse" /\ n.level = 0 /\ n.rankings = r.rankings
        /\ n.before = r.before /\ n.filters = r.filters /\ n.now = r.now
    BY <1>2 DEF SearchFields
  <2> HIDE DEF n
  <2>2. NoneFits(r, 0) => NoneFits(n, 0)
    BY <2>1 DEF NoneFits
  <2>3. Sought(n)
    BY <1>2, <2>1, <2>2 DEF Sought
  <2>4. QED
    BY <1>1, <1>6, <2>3, SearchMoves DEF n
<1>7. QED
  BY <1>4, <1>5, <1>6

LEMMA FuseSought ==
  ASSUME NearestInv, NEW q \in Requests, Fuse(q)
  PROVE  NearestInv'
<1> PICK r : r = req[q]
  OBVIOUS
<1> DEFINE results == Take(Fused(r.rankings), Limit)
           n == [r EXCEPT !.at = IF results = <<>> THEN "relax" ELSE "done", !.results = results]
<1>1. Sought(r) /\ r.at = "fuse" /\ UNCHANGED <<meets, start, catalogue>>
  BY DEF NearestInv, Fuse, At, facts
<1>2. /\ DOMAIN r = SearchFields /\ r.level = 0
      /\ r.before \subseteq catalogue /\ DOMAIN r.filters = {"keys", "date"}
      /\ r.rankings \in Seq(Seq(Events)) /\ Len(r.rankings) >= 1
      /\ r.rankings[1] = <<>> => NoneFits(r, 0)
  BY <1>1 DEF Sought
<1>3. results = <<>> => NoneFits(r, 0)
  BY <1>2, FusedIsEmpty
<1>4. Becomes(q, n)
  BY DEF Fuse
<1> HIDE DEF results
<1>5. /\ DOMAIN n = SearchFields /\ n.level = 0
      /\ n.at = IF results = <<>> THEN "relax" ELSE "done"
      /\ n.before = r.before /\ n.filters = r.filters /\ n.now = r.now /\ n.results = results
  BY <1>2 DEF SearchFields
<1> HIDE DEF n
<1>6. results = <<>> => \A level \in 0..n.level : NoneFits(n, level)
  BY <1>3, <1>5 DEF NoneFits
<1>7. results # <<>> => IsNearest(n)
  BY <1>5 DEF IsNearest
<1>8. Sought(n)
  BY <1>2, <1>5, <1>6, <1>7, SixFilters DEF Sought
<1>9. QED
  BY <1>1, <1>4, <1>8, SearchMoves

LEMMA RelaxSought ==
  ASSUME NearestInv, NEW q \in Requests, Relax(q)
  PROVE  NearestInv'
<1> PICK r : r = req[q]
  OBVIOUS
<1> PICK level : level = r.level + 1
  OBVIOUS
<1> DEFINE left == Relaxed(r.filters, level)
           matching == Matching(catalogue, left, r.now)
<1>1. Sought(r) /\ r.at = "relax" /\ UNCHANGED <<meets, start, catalogue>>
  BY DEF NearestInv, Relax, At, facts
<1>2. /\ DOMAIN r = SearchFields /\ r.level \in 0..5
      /\ r.before \subseteq catalogue /\ DOMAIN r.filters = {"keys", "date"}
      /\ \A l \in 0..r.level : NoneFits(r, l)
  BY <1>1, SixFilters DEF Sought
<1>3. level \in 1..6 /\ level - 1 = r.level
  BY <1>2
<1>4. PICK s \in ByDate(matching, 1) :
        Becomes(q, [r EXCEPT !.level = level, !.results = s,
                             !.at = IF s = <<>> /\ level < Len(RelaxOrder) THEN "relax"
                                    ELSE "done"])
  BY DEF Relax
<1>5. matching \in SUBSET Events /\ start \in [Events -> Dates]
  BY MatchingProperties DEF NearestInv
<1>6. /\ s = <<>> => matching = {}
      /\ s # <<>> => \A e \in matching : NotLater(s[1], e)
  BY <1>5, FirstByDate
<1>7. Matching(r.before, left, r.now) \subseteq matching
  BY <1>2, MatchingProperties
<1> DEFINE more == s = <<>> /\ level < 6
           n == [r EXCEPT !.level = level, !.results = s, !.at = IF more THEN "relax" ELSE "done"]
<1>8. Becomes(q, n)
  BY <1>4, SixFilters
<1> HIDE DEF more, matching
<1>9. /\ DOMAIN n = SearchFields /\ n.level = level /\ n.at = (IF more THEN "relax" ELSE "done")
      /\ n.before = r.before /\ n.filters = r.filters /\ n.now = r.now /\ n.results = s
  BY <1>2 DEF SearchFields
<1> HIDE DEF n
<1>10. \A l : NoneFits(r, l) => NoneFits(n, l)
  BY <1>9 DEF NoneFits
<1>11. \A l \in 0..level - 1 : NoneFits(n, l)
  BY <1>2, <1>3, <1>10
<1>12. s = <<>> => NoneFits(n, level)
  BY <1>6, <1>7, <1>9 DEF NoneFits
<1>13. s = <<>> => \A l \in 0..level : NoneFits(n, l)
  BY <1>3, <1>11, <1>12
<1>14. s # <<>> => \A e \in Matching(n.before, Relaxed(n.filters, level), n.now) : NotLater(s[1], e)
  BY <1>6, <1>7, <1>9
<1>15. more => s = <<>> /\ level \in 0..5
  BY <1>3 DEF more
<1>16. ~more => IsNearest(n)
  <2>1. ~more /\ s = <<>> => level = 6
    BY <1>3 DEF more
  <2>2. QED
    BY <1>9, <1>11, <1>12, <1>14, <2>1, SixFilters DEF IsNearest
<1>17. Sought(n)
  <2>1. CASE more
    BY <1>2, <1>9, <1>13, <1>15, <2>1, SixFilters DEF Sought
  <2>2. CASE ~more
    BY <1>2, <1>3, <1>9, <1>16, <2>2 DEF Sought
  <2>3. QED
    BY <2>1, <2>2
<1>18. QED
  BY <1>1, <1>8, <1>17, SearchMoves

LEMMA NearestStep ==
  ASSUME NearestInv, [RetrievalNext]_retrievalVars
  PROVE  NearestInv'
<1>1. ASSUME NEW q \in Requests,
             \/ \E p \in Phrases : Ask(q, p) \/ SearchFilters(q, p)
             \/ LlmAnswers(q) \/ LlmFails(q) \/ Strict(q) \/ TextSearch(q) \/ SemanticSearch(q)
             \/ Fuse(q) \/ Relax(q)
      PROVE  NearestInv'
  BY <1>1, BeginSteps, StrictSought, RankingSteps, FuseSought, RelaxSought
<1>2. ASSUME NEW q \in Requests, SendAnswer(q)
      PROVE  NearestInv'
  <2>1. Becomes(q, Idle) /\ UNCHANGED <<meets, start, catalogue>>
    BY <1>2 DEF SendAnswer, facts
  <2>2. QED
    BY <2>1, IdleSought, SearchMoves
<1>3. ASSUME NEW e \in Events, Arrive(e)
      PROVE  NearestInv'
  <2>1. UNCHANGED <<meets, start, req>> /\ catalogue' = catalogue \cup {e}
    BY <1>3 DEF Arrive, facts
  <2>2. QED
    BY <2>1, SearchesStay DEF NearestInv
<1>4. ASSUME UNCHANGED <<meets, start, req, catalogue>>
      PROVE  NearestInv'
  BY <1>4, SearchesStay DEF NearestInv
<1>5. QED
  BY <1>1, <1>2, <1>3, <1>4
  DEF RetrievalNext, retrievalVars, facts, Expire, Midnight, FindNear, Find, SimilarEvents,
      FindCandidate, RankCandidates, Announce, Fetch, ExplainEvent

(* Filters are dropped only while nothing else would do: whatever arrives  *)
(* during a search, and whatever the other retrievers and their failures   *)
(* bring, an event that was there all along is not passed over.            *)
THEOREM TheNearestIsFound == RetrievalSpec => []NearestIsFound
<1>1. RetrievalInit => NearestInv
  <2> SUFFICES ASSUME RetrievalInit PROVE NearestInv
    OBVIOUS
  <2>1. catalogue \subseteq Events /\ start \in [Events -> Dates] /\ DOMAIN req = Requests
    BY DEF RetrievalInit
  <2>2. \A q \in Requests : req[q] = Idle
    BY DEF RetrievalInit
  <2>3. QED
    BY <2>1, <2>2, IdleSought DEF NearestInv
<1>2. NearestInv /\ [RetrievalNext]_retrievalVars => NearestInv'
  BY NearestStep
<1>3. NearestInv => NearestIsFound
  <2> SUFFICES ASSUME NearestInv, NEW q \in Requests, NEW r, r = req[q], r.at = "done",
                      NEW e \in r.before
               PROVE  /\ r.level > 0 => ~\E level \in 0..r.level - 1 :
                                           e \in Matching(r.before, Relaxed(r.filters, level), r.now)
                      /\ r.results = <<>> =>
                           e \notin Matching(r.before, Relaxed(r.filters, Len(RelaxOrder)), r.now)
                      /\ r.level > 0 /\ r.results # <<>> =>
                           (e \in Matching(r.before, Relaxed(r.filters, r.level), r.now) =>
                              NotLater(r.results[1], e))
    BY DEF NearestIsFound, Relaxed
  <2>1. IsNearest(r)
    BY DEF NearestInv, Sought
  <2>2. QED
    BY <2>1 DEF IsNearest, NoneFits
<1>4. QED
  BY <1>1, <1>2, <1>3, PTL DEF RetrievalSpec

-----------------------------------------------------------------------------
(* Induction, from the least of a set of numbers.                          *)

LEMMA LeastOf ==
  ASSUME NEW T \in SUBSET Nat, T # {}
  PROVE  \E x \in T : \A y \in T : x <= y
<1> DEFINE R == OpToRel(<, Nat)
<1>1. IsWellFoundedOn(R, Nat)
  BY NatLessThanWellFounded
<1>2. \A x, y \in Nat : y < x => <<y, x>> \in R
  BY DEF OpToRel
<1> HIDE DEF R
<1>3. \E x \in T : \A y \in T : ~(<<y, x>> \in R)
  BY <1>1, WFMin
<1>4. PICK x \in T : \A y \in T : ~(<<y, x>> \in R)
  BY <1>3
<1>5. \A y \in T : y \in Nat /\ x \in Nat /\ ~(y < x)
  BY <1>2, <1>4
<1>6. \A y \in T : x <= y
  BY <1>5
<1>7. QED
  BY <1>6

LEMMA Induction ==
  ASSUME NEW T, 0 \in T, \A n \in Nat : n \in T => n + 1 \in T
  PROVE  Nat \subseteq T
<1> SUFFICES ASSUME ~(Nat \subseteq T) PROVE FALSE
  OBVIOUS
<1>1. Nat \ T # {}
  OBVIOUS
<1>2. PICK x \in Nat \ T : \A y \in Nat \ T : x <= y
  BY <1>1, LeastOf
<1>3. x # 0 /\ x - 1 \in Nat
  BY <1>2
<1>4. x - 1 \in T
  BY <1>2, <1>3
<1>5. QED
  BY <1>3, <1>4

(* What holds of the empty set, and of a set when it holds of the set      *)
(* without any one of its elements, holds of every part of a finite set.   *)
LEMMA SetsInduction ==
  ASSUME NEW D, IsFiniteSet(D), NEW T, {} \in T,
         \A s \in SUBSET D : s # {} /\ (\A x \in s : s \ {x} \in T) => s \in T
  PROVE  SUBSET D \subseteq T
<1> DEFINE K == {k \in Nat : \A s \in SUBSET D : Cardinality(s) = k => s \in T}
<1>1. \A s \in SUBSET D : IsFiniteSet(s) /\ Cardinality(s) \in Nat
  BY FS_Subset, FS_CardinalityType
<1>2. 0 \in K
  <2>1. \A s \in SUBSET D : Cardinality(s) = 0 => s = {}
    BY <1>1, FS_EmptySet
  <2>2. QED
    BY <2>1
<1>3. ASSUME NEW k \in Nat, k \in K
      PROVE  k + 1 \in K
  <2>1. ASSUME NEW s \in SUBSET D, Cardinality(s) = k + 1
        PROVE  s \in T
    <3>1. s # {}
      <4> SUFFICES ASSUME s = {} PROVE FALSE
        OBVIOUS
      <4>1. Cardinality(s) = 0
        BY FS_EmptySet
      <4>2. k + 1 = 0
        BY <2>1, <4>1
      <4>3. QED
        BY <4>2
    <3>2. ASSUME NEW x \in s
          PROVE  s \ {x} \in T
      <4>1. Cardinality(s \ {x}) = Cardinality(s) - 1
        BY <1>1, FS_RemoveElement
      <4>2. Cardinality(s \ {x}) = k
        BY <2>1, <4>1
      <4>3. QED
        BY <1>3, <4>2
    <3>3. QED
      BY <3>1, <3>2
  <2>2. QED
    BY <2>1
<1>4. Nat \subseteq K
  BY <1>2, <1>3, Induction
<1> HIDE DEF K
<1>5. ASSUME NEW s \in SUBSET D
      PROVE  s \in T
  <2>1. Cardinality(s) \in K
    BY <1>1, <1>4
  <2>2. QED
    BY <2>1 DEF K
<1>6. QED
  BY <1>5

(* What a fold computes exists: it takes the elements away one by one.     *)
Folds(g, D, a, F, c) ==
  \A s \in SUBSET D : g[s] = IF s = {} THEN a ELSE F[c[s]][g[s \ {c[s]}]]

LEMMA FoldExists ==
  ASSUME NEW D, IsFiniteSet(D), NEW A, NEW a \in A, NEW F \in [D -> [A -> A]],
         NEW c \in [(SUBSET D) \ {{}} -> D], \A s \in SUBSET D : s # {} => c[s] \in s
  PROVE  \E g \in [SUBSET D -> A] : Folds(g, D, a, F, c)
<1> DEFINE Upto(k) == {s \in SUBSET D : Cardinality(s) <= k}
           Is(g, k) == \A s \in Upto(k) :
                         g[s] = IF s = {} THEN a ELSE F[c[s]][g[s \ {c[s]}]]
           K == {k \in Nat : \E g \in [Upto(k) -> A] : Is(g, k)}
<1>1. /\ \A s \in SUBSET D : IsFiniteSet(s) /\ Cardinality(s) \in Nat
      /\ Cardinality({}) = 0
      /\ \A s \in SUBSET D : Cardinality(s) = 0 => s = {}
  BY FS_Subset, FS_CardinalityType, FS_EmptySet
<1>2. \A s \in SUBSET D : s # {} =>
        s \ {c[s]} \in SUBSET D /\ Cardinality(s \ {c[s]}) = Cardinality(s) - 1
  BY <1>1, FS_RemoveElement
<1>3. 0 \in K
  <2> DEFINE g == [s \in Upto(0) |-> a]
  <2>1. \A s \in Upto(0) : s = {}
    BY <1>1
  <2>2. g \in [Upto(0) -> A] /\ Is(g, 0)
    BY <2>1
  <2> HIDE DEF g, Is, Upto
  <2>3. QED
    BY <2>2
<1>4. ASSUME NEW k \in Nat, k \in K
      PROVE  k + 1 \in K
  <2>1. PICK g \in [Upto(k) -> A] : Is(g, k)
    BY <1>4
  <2> DEFINE Following(s) == F[c[s]][g[s \ {c[s]}]]
             h == [s \in Upto(k + 1) |-> IF s = {} THEN a ELSE Following(s)]
  <2>2. \A s \in Upto(k + 1) : s # {} => s \ {c[s]} \in Upto(k)
    BY <1>1, <1>2
  <2>3. \A s \in Upto(k + 1) : s # {} => Following(s) \in A
    <3> HIDE DEF Upto
    <3>1. \A s \in Upto(k + 1) : s # {} => c[s] \in D
      BY DEF Upto
    <3>2. \A s \in Upto(k + 1) : s # {} => g[s \ {c[s]}] \in A
      BY <2>2
    <3>3. \A x \in D : \A r \in A : F[x][r] \in A
      OBVIOUS
    <3>4. QED
      BY <3>1, <3>2, <3>3
  <2>4. \A s \in Upto(k) : s \in Upto(k + 1) /\ g[s] = IF s = {} THEN a ELSE Following(s)
    <3>1. Upto(k) \subseteq Upto(k + 1)
      BY <1>1
    <3>2. QED
      BY <2>1, <3>1
  <2> HIDE DEF Upto, Following
  <2>5. h \in [Upto(k + 1) -> A]
    BY <2>3
  <2>6. /\ \A s \in Upto(k) : h[s] = g[s]
        /\ \A s \in Upto(k + 1) : h[s] = IF s = {} THEN a ELSE Following(s)
    BY <2>4
  <2> HIDE DEF h
  <2>7. \A s \in Upto(k + 1) : s # {} => Following(s) = F[c[s]][h[s \ {c[s]}]]
    BY <2>2, <2>6 DEF Following
  <2>8. Is(h, k + 1)
    BY <2>6, <2>7
  <2> HIDE DEF Is
  <2>9. QED
    BY <2>5, <2>8
<1>5. Nat \subseteq K
  <2> HIDE DEF K
  <2>1. QED
    BY <1>3, <1>4, Induction
<1>6. Cardinality(D) \in K
  BY <1>1, <1>5
<1>7. PICK g \in [Upto(Cardinality(D)) -> A] : Is(g, Cardinality(D))
  BY <1>6
<1>8. Upto(Cardinality(D)) = SUBSET D
  <2>1. \A s \in SUBSET D : Cardinality(s) <= Cardinality(D)
    BY FS_Subset
  <2>2. QED
    BY <2>1
<1>9. g \in [SUBSET D -> A] /\ \A s \in SUBSET D : g[s] = IF s = {} THEN a ELSE F[c[s]][g[s \ {c[s]}]]
  BY <1>7, <1>8
<1>10. QED
  BY <1>9 DEF Folds

(* Things in a strict order have places from one on: better[x] are those   *)
(* before x.                                                               *)
LEMMA PlacesInOrder ==
  ASSUME NEW S, IsFiniteSet(S), NEW better \in [S -> SUBSET S],
         \A x \in S : x \notin better[x],
         \A x, y \in S : x # y => x \in better[y] \/ y \in better[x],
         \A x, y \in S : y \in better[x] => better[y] \subseteq better[x]
  PROVE  /\ \A x \in S : Cardinality(better[x]) \in 0..Cardinality(S) - 1
         /\ \A x, y \in S : y \in better[x] => Cardinality(better[y]) < Cardinality(better[x])
         /\ \A n \in 0..Cardinality(S) - 1 : \E x \in S : Cardinality(better[x]) = n
<1> DEFINE D == 0..Cardinality(S) - 1
           f == [x \in S |-> Cardinality(better[x])]
<1>1. Cardinality(S) \in Nat
  BY FS_CardinalityType
<1>2. \A x \in S : IsFiniteSet(better[x]) /\ Cardinality(better[x]) \in Nat
  BY FS_Subset, FS_CardinalityType
<1>3. ASSUME NEW x \in S, NEW y \in S, y \in better[x]
      PROVE  Cardinality(better[y]) < Cardinality(better[x])
  <2>1. better[y] \subseteq better[x] /\ better[y] # better[x]
    BY <1>3
  <2>2. Cardinality(better[y]) <= Cardinality(better[x])
        /\ Cardinality(better[y]) # Cardinality(better[x])
    BY <1>2, <2>1, FS_Subset
  <2>3. QED
    BY <1>2, <2>2
<1>4. ASSUME NEW x \in S
      PROVE  Cardinality(better[x]) \in D
  <2>1. better[x] \subseteq S /\ better[x] # S
    OBVIOUS
  <2>2. Cardinality(better[x]) <= Cardinality(S) /\ Cardinality(better[x]) # Cardinality(S)
    BY <2>1, FS_Subset
  <2>3. QED
    BY <1>1, <1>2, <2>2
<1>5. \A x \in S : f[x] \in D
  BY <1>4
<1>6. \A x, y \in S : f[x] = f[y] => x = y
  <2> SUFFICES ASSUME NEW x \in S, NEW y \in S, f[x] = f[y]
               PROVE  x = y
    OBVIOUS
  <2>1. Cardinality(better[x]) = Cardinality(better[y])
    OBVIOUS
  <2>2. ~(y \in better[x]) /\ ~(x \in better[y])
    BY <1>2, <1>3, <2>1
  <2>3. QED
    BY <2>2
<1>7. f \in Injection(S, D)
  BY <1>5, <1>6 DEF Injection, IsInjective
<1>8. Cardinality(D) = Cardinality(S) /\ IsFiniteSet(D)
  <2>1. 0 \in Int /\ Cardinality(S) - 1 \in Int
    BY <1>1
  <2>2. IsFiniteSet(D) /\ Cardinality(D) = IF 0 > Cardinality(S) - 1 THEN 0
                                           ELSE Cardinality(S) - 1 - 0 + 1
    BY <2>1, FS_Interval
  <2>3. QED
    BY <1>1, <2>2
<1>9. f \in Surjection(S, D)
  BY <1>7, <1>8, FS_Injection
<1>10. \A n \in D : \E x \in S : f[x] = n
  BY <1>9 DEF Surjection
<1>11. QED
  BY <1>3, <1>4, <1>10

(* A sum, one term taken away at a time; the order does not matter.        *)
SumsOf(f) ==
  CHOOSE sum : sum = [s \in SUBSET DOMAIN f |->
                        IF s = {} THEN 0
                        ELSE f[CHOOSE x \in s : TRUE] + sum[s \ {CHOOSE x \in s : TRUE}]]

IsSum(h, f, D) ==
  /\ h \in [SUBSET D -> Int] /\ h[{}] = 0
  /\ \A s \in SUBSET D : \A x \in s : h[s] = f[x] + h[s \ {x}]

LEMMA SumsExist ==
  ASSUME NEW D, IsFiniteSet(D), NEW f \in [D -> Int]
  PROVE  IsSum(SumsOf(f), f, D)
<1> DEFINE c == [s \in (SUBSET D) \ {{}} |-> CHOOSE x \in s : TRUE]
           F == [x \in D |-> [n \in Int |-> f[x] + n]]
           Is(g) == g = [s \in SUBSET D |-> IF s = {} THEN 0 ELSE f[c[s]] + g[s \ {c[s]}]]
<1>1. c \in [(SUBSET D) \ {{}} -> D] /\ \A s \in SUBSET D : s # {} => c[s] \in s
  OBVIOUS
<1>2. F \in [D -> [Int -> Int]] /\ \A x \in D : \A n \in Int : F[x][n] = f[x] + n
  OBVIOUS
<1>3. SumsOf(f) = CHOOSE g : Is(g)
  BY DEF SumsOf
<1> HIDE DEF c, F
<1>4. PICK g \in [SUBSET D -> Int] :
        \A s \in SUBSET D : g[s] = IF s = {} THEN 0 ELSE F[c[s]][g[s \ {c[s]}]]
  <2> DEFINE A == Int
             a == 0
  <2>1. a \in A
    OBVIOUS
  <2>2. F \in [D -> [A -> A]]
    BY <1>2
  <2> HIDE DEF A, a
  <2>3. \E g \in [SUBSET D -> A] : Folds(g, D, a, F, c)
    BY <1>1, <2>1, <2>2, FoldExists
  <2>4. QED
    BY <2>3 DEF A, a, Folds
<1>5. \A s \in SUBSET D : s # {} => F[c[s]][g[s \ {c[s]}]] = f[c[s]] + g[s \ {c[s]}]
  <2> SUFFICES ASSUME NEW s \in SUBSET D, s # {}
               PROVE  F[c[s]][g[s \ {c[s]}]] = f[c[s]] + g[s \ {c[s]}]
    OBVIOUS
  <2>1. c[s] \in D /\ g[s \ {c[s]}] \in Int
    BY <1>1
  <2>2. QED
    BY <1>2, <2>1
<1>6. Is(g)
  <2>1. \A s \in SUBSET D : g[s] = IF s = {} THEN 0 ELSE f[c[s]] + g[s \ {c[s]}]
    BY <1>4, <1>5
  <2>2. g = [s \in SUBSET D |-> g[s]]
    OBVIOUS
  <2>3. QED
    BY <2>1, <2>2
<1>7. Is(SumsOf(f))
  <2> HIDE DEF Is
  <2>1. QED
    BY <1>3, <1>6
<1> DEFINE h == SumsOf(f)
<1>8. \A s \in SUBSET D : h[s] = IF s = {} THEN 0 ELSE f[c[s]] + h[s \ {c[s]}]
  BY <1>7
<1>9. DOMAIN h = SUBSET D /\ h = [s \in SUBSET D |-> h[s]]
  BY <1>7
<1> HIDE DEF h, Is
<1>10. SUBSET D \subseteq {s \in SUBSET D : h[s] \in Int}
  <2> DEFINE T == {s \in SUBSET D : h[s] \in Int}
  <2>1. {} \in T
    <3>1. {} \in SUBSET D
      OBVIOUS
    <3>2. h[{}] = 0
      BY <1>8, <3>1
    <3>3. QED
      BY <3>1, <3>2
  <2>2. ASSUME NEW s \in SUBSET D, s # {}, \A x \in s : s \ {x} \in T
        PROVE  s \in T
    <3>1. c[s] \in s /\ c[s] \in D
      BY <1>1, <2>2
    <3>2. h[s \ {c[s]}] \in Int
      BY <2>2, <3>1
    <3>3. h[s] = f[c[s]] + h[s \ {c[s]}]
      BY <1>8, <2>2
    <3>4. QED
      BY <3>1, <3>2, <3>3
  <2> HIDE DEF T
  <2>3. SUBSET D \subseteq T
    BY <2>1, <2>2, SetsInduction
  <2>4. QED
    BY <2>3 DEF T
<1>11. h \in [SUBSET D -> Int]
  BY <1>9, <1>10
<1> DEFINE T == {s \in SUBSET D : \A x \in s : h[s] = f[x] + h[s \ {x}]}
<1>12. {} \in T
  OBVIOUS
<1>13. ASSUME NEW s \in SUBSET D, s # {}, \A x \in s : s \ {x} \in T
       PROVE  s \in T
  <2> SUFFICES ASSUME NEW x \in s
               PROVE  h[s] = f[x] + h[s \ {x}]
    OBVIOUS
  <2> DEFINE y == c[s]
  <2>1. y \in s /\ y \in D /\ x \in D
    BY <1>1
  <2>2. h[s] = f[y] + h[s \ {y}]
    BY <1>8, <1>13
  <2> HIDE DEF y
  <2>3. CASE x = y
    BY <2>2, <2>3
  <2>4. CASE x # y
    <3>1. h[s \ {y}] = f[x] + h[(s \ {y}) \ {x}]
      <4>1. s \ {y} \in T /\ x \in s \ {y}
        BY <1>13, <2>1, <2>4
      <4>2. QED
        BY <4>1
    <3>2. h[s \ {x}] = f[y] + h[(s \ {x}) \ {y}]
      <4>1. s \ {x} \in T /\ y \in s \ {x}
        BY <1>13, <2>1, <2>4
      <4>2. QED
        BY <4>1
    <3>3. (s \ {y}) \ {x} = (s \ {x}) \ {y} /\ (s \ {x}) \ {y} \in SUBSET D
      OBVIOUS
    <3>4. f[x] \in Int /\ f[y] \in Int /\ h[(s \ {x}) \ {y}] \in Int
      BY <1>11, <2>1, <3>3
    <3>5. \A l, m, n \in Int : l + (m + n) = m + (l + n)
      OBVIOUS
    <3>6. h[s] = f[y] + (f[x] + h[(s \ {x}) \ {y}])
      BY <2>2, <3>1, <3>3
    <3>7. f[x] + h[s \ {x}] = f[x] + (f[y] + h[(s \ {x}) \ {y}])
      BY <3>2
    <3>8. QED
      BY <3>4, <3>5, <3>6, <3>7
  <2>5. QED
    BY <2>3, <2>4
<1> HIDE DEF T
<1>14. SUBSET D \subseteq T
  BY <1>12, <1>13, SetsInduction
<1>15. h[{}] = 0
  <2>1. {} \in SUBSET D
    OBVIOUS
  <2>2. QED
    BY <1>8, <2>1
<1>16. QED
  BY <1>11, <1>14, <1>15 DEF T, h, IsSum

-----------------------------------------------------------------------------
(* The least and the greatest.                                             *)

LEMMA MinIs ==
  ASSUME NEW T \in SUBSET Nat, T # {}
  PROVE  Min(T) \in T /\ \A y \in T : Min(T) <= y
<1>1. \E x \in T : \A y \in T : x <= y
  BY LeastOf
<1>2. QED
  BY <1>1 DEF Min

LEMMA MaxIs ==
  ASSUME NEW S \in SUBSET Int, IsFiniteSet(S), S # {}
  PROVE  Max(S) \in S /\ \A y \in S : y <= Max(S)
<1> DEFINE T == {s \in SUBSET S : s # {} => \E x \in s : \A y \in s : y <= x}
<1>1. {} \in T
  OBVIOUS
<1>2. ASSUME NEW s \in SUBSET S, s # {}, \A x \in s : s \ {x} \in T
      PROVE  s \in T
  <2>1. PICK x \in s : TRUE
    BY <1>2
  <2>2. CASE s \ {x} = {}
    <3>1. \A y \in s : y = x /\ y \in Int
      BY <2>2
    <3>2. \A y \in s : y <= x
      BY <3>1
    <3>3. QED
      BY <3>2
  <2>3. CASE s \ {x} # {}
    <3>1. PICK z \in s \ {x} : \A y \in s \ {x} : y <= z
      BY <1>2, <2>3
    <3>2. CASE z <= x
      <4>1. \A y \in s : y <= x
        BY <3>1, <3>2
      <4>2. QED
        BY <4>1
    <3>3. CASE ~(z <= x)
      <4>1. \A y \in s : y <= z
        BY <3>1, <3>3
      <4>2. QED
        BY <4>1
    <3>4. QED
      BY <3>2, <3>3
  <2>4. QED
    BY <2>2, <2>3
<1> HIDE DEF T
<1>3. SUBSET S \subseteq T
  BY <1>1, <1>2, SetsInduction
<1>4. S \in T
  BY <1>3
<1>5. \E x \in S : \A y \in S : y <= x
  BY <1>4 DEF T
<1>6. QED
  BY <1>5 DEF Max

LEMMA LeastOfFinite ==
  ASSUME NEW S \in SUBSET Int, IsFiniteSet(S), S # {}
  PROVE  \E x \in S : \A y \in S : x <= y
<1> DEFINE c == [x \in S |-> 0 - x]
           negated == {c[x] : x \in S}
<1>1. \A x \in S : c[x] = 0 - x /\ c[x] \in Int
  OBVIOUS
<1>2. DOMAIN c = S /\ c = [x \in S |-> c[x]]
  OBVIOUS
<1> HIDE DEF c
<1>3. c \in Surjection(S, negated)
  BY <1>2 DEF Surjection
<1>4. IsFiniteSet(negated) /\ negated \in SUBSET Int /\ negated # {}
  BY <1>1, <1>3, FS_Surjection
<1>5. Max(negated) \in negated /\ \A y \in negated : y <= Max(negated)
  BY <1>4, MaxIs
<1>6. PICK x \in S : \A y \in S : c[y] <= c[x]
  BY <1>5
<1>7. \A y \in S : x <= y
  BY <1>1, <1>6
<1>8. QED
  BY <1>7

(* A sum over fewer things, each of which is worth no more, is no more.    *)
LEMMA SumsGrow ==
  ASSUME NEW D, IsFiniteSet(D), NEW f \in [D -> Int], \A x \in D : 0 <= f[x],
         NEW E \in SUBSET D, NEW g \in [E -> Int], \A x \in E : g[x] <= f[x]
  PROVE  SumsOf(g)[E] <= SumsOf(f)[D]
<1>1. IsSum(SumsOf(f), f, D)
  BY SumsExist
<1>2. IsFiniteSet(E)
  BY FS_Subset
<1>3. IsSum(SumsOf(g), g, E)
  BY <1>2, SumsExist
<1> DEFINE h == SumsOf(f)
           k == SumsOf(g)
           T == {s \in SUBSET D : k[s \cap E] <= h[s]}
<1> HIDE DEF h, k
<1>H. /\ h \in [SUBSET D -> Int] /\ h[{}] = 0
      /\ \A s \in SUBSET D : \A x \in s : h[s] = f[x] + h[s \ {x}]
  BY <1>1 DEF h, IsSum
<1>K. /\ k \in [SUBSET E -> Int] /\ k[{}] = 0
      /\ \A s \in SUBSET E : \A x \in s : k[s] = g[x] + k[s \ {x}]
  BY <1>3 DEF k, IsSum
<1>4. {} \in T
  <2>1. {} \in SUBSET D /\ {} \cap E = {}
    OBVIOUS
  <2>2. k[{} \cap E] <= h[{}]
    BY <1>H, <1>K, <2>1
  <2>3. QED
    BY <2>1, <2>2
<1>5. ASSUME NEW s \in SUBSET D, s # {}, \A x \in s : s \ {x} \in T
      PROVE  s \in T
  <2>1. PICK x \in s : TRUE
    BY <1>5
  <2> DEFINE t == s \ {x}
  <2>2. k[t \cap E] <= h[t] /\ t \in SUBSET D
    BY <1>5
  <2>3. h[s] = f[x] + h[t] /\ f[x] \in Int /\ 0 <= f[x] /\ h[t] \in Int
    BY <1>H, <2>2
  <2>4. k[t \cap E] \in Int
    BY <1>K
  <2>5. CASE x \in E
    <3>1. (s \cap E) \ {x} = t \cap E /\ x \in s \cap E /\ s \cap E \in SUBSET E
      BY <2>5
    <3>2. k[s \cap E] = g[x] + k[t \cap E]
      BY <1>K, <3>1
    <3>3. g[x] \in Int /\ g[x] <= f[x]
      BY <2>5
    <3> HIDE DEF t
    <3>4. k[s \cap E] <= h[s]
      BY <2>2, <2>3, <2>4, <3>2, <3>3
    <3>5. QED
      BY <3>4
  <2>6. CASE x \notin E
    <3>1. s \cap E = t \cap E
      BY <2>6
    <3> HIDE DEF t
    <3>2. k[s \cap E] <= h[s]
      BY <2>2, <2>3, <2>4, <3>1
    <3>3. QED
      BY <3>2
  <2>7. QED
    BY <2>5, <2>6
<1> HIDE DEF T
<1>6. SUBSET D \subseteq T
  BY <1>4, <1>5, SetsInduction
<1>7. D \in T /\ D \cap E = E
  BY <1>6
<1>8. QED
  BY <1>7 DEF T, h, k

(* A product, one factor taken away at a time.                             *)
ProductsOf(f) ==
  CHOOSE product : product = [s \in SUBSET DOMAIN f |->
                        IF s = {} THEN 1
                        ELSE f[CHOOSE x \in s : TRUE] * product[s \ {CHOOSE x \in s : TRUE}]]

LEMMA ProductsAreNatural ==
  ASSUME NEW D, IsFiniteSet(D), NEW f \in [D -> Nat]
  PROVE  ProductsOf(f)[D] \in Nat
<1> DEFINE c == [s \in (SUBSET D) \ {{}} |-> CHOOSE x \in s : TRUE]
           F == [x \in D |-> [n \in Nat |-> f[x] * n]]
           Is(g) == g = [s \in SUBSET D |-> IF s = {} THEN 1 ELSE f[c[s]] * g[s \ {c[s]}]]
<1>1. c \in [(SUBSET D) \ {{}} -> D] /\ \A s \in SUBSET D : s # {} => c[s] \in s
  OBVIOUS
<1>2. F \in [D -> [Nat -> Nat]] /\ \A x \in D : \A n \in Nat : F[x][n] = f[x] * n
  <2>1. \A m, n \in Nat : m * n \in Nat
    OBVIOUS
  <2>2. \A x \in D : f[x] \in Nat
    OBVIOUS
  <2>3. QED
    BY <2>1, <2>2
<1>3. ProductsOf(f) = CHOOSE g : Is(g)
  BY DEF ProductsOf
<1> HIDE DEF c, F
<1>4. PICK g \in [SUBSET D -> Nat] :
        \A s \in SUBSET D : g[s] = IF s = {} THEN 1 ELSE F[c[s]][g[s \ {c[s]}]]
  <2> DEFINE A == Nat
             a == 1
  <2>1. a \in A
    OBVIOUS
  <2>2. F \in [D -> [A -> A]]
    BY <1>2
  <2> HIDE DEF A, a
  <2>3. \E g \in [SUBSET D -> A] : Folds(g, D, a, F, c)
    BY <1>1, <2>1, <2>2, FoldExists
  <2>4. QED
    BY <2>3 DEF A, a, Folds
<1>5. \A s \in SUBSET D : s # {} => F[c[s]][g[s \ {c[s]}]] = f[c[s]] * g[s \ {c[s]}]
  <2> SUFFICES ASSUME NEW s \in SUBSET D, s # {}
               PROVE  F[c[s]][g[s \ {c[s]}]] = f[c[s]] * g[s \ {c[s]}]
    OBVIOUS
  <2>1. c[s] \in D /\ g[s \ {c[s]}] \in Nat
    BY <1>1
  <2>2. QED
    BY <1>2, <2>1
<1>6. Is(g)
  <2>1. \A s \in SUBSET D : g[s] = IF s = {} THEN 1 ELSE f[c[s]] * g[s \ {c[s]}]
    BY <1>4, <1>5
  <2>2. g = [s \in SUBSET D |-> g[s]]
    OBVIOUS
  <2>3. QED
    BY <2>1, <2>2
<1>7. Is(ProductsOf(f))
  <2> HIDE DEF Is
  <2>1. QED
    BY <1>3, <1>6
<1> DEFINE h == ProductsOf(f)
<1>8. \A s \in SUBSET D : h[s] = IF s = {} THEN 1 ELSE f[c[s]] * h[s \ {c[s]}]
  BY <1>7
<1> HIDE DEF h, Is
<1> DEFINE T == {s \in SUBSET D : h[s] \in Nat}
<1>9. {} \in T
  <2>1. {} \in SUBSET D
    OBVIOUS
  <2>2. h[{}] = 1
    BY <1>8, <2>1
  <2>3. QED
    BY <2>1, <2>2
<1>10. ASSUME NEW s \in SUBSET D, s # {}, \A x \in s : s \ {x} \in T
       PROVE  s \in T
  <2>1. c[s] \in s /\ c[s] \in D
    BY <1>1, <1>10
  <2>2. h[s \ {c[s]}] \in Nat /\ f[c[s]] \in Nat
    BY <1>10, <2>1
  <2>3. h[s] = f[c[s]] * h[s \ {c[s]}]
    BY <1>8, <1>10
  <2>4. \A m, n \in Nat : m * n \in Nat
    OBVIOUS
  <2>5. h[s] \in Nat
    BY <2>2, <2>3, <2>4
  <2>6. QED
    BY <2>5
<1> HIDE DEF T
<1>11. SUBSET D \subseteq T
  BY <1>9, <1>10, SetsInduction
<1>12. QED
  BY <1>11 DEF T, h

(* More shares, smaller ones.                                              *)
LEMMA Quotients ==
  ASSUME NEW n \in Nat, NEW a \in Nat \ {0}, NEW b \in Nat \ {0}, a <= b
  PROVE  n \div b \in Nat /\ n \div a \in Nat /\ n \div b <= n \div a
<1>1. PICK p \in Int : p = n \div a
  OBVIOUS
<1>2. PICK q \in Int : q = n \div b
  OBVIOUS
<1>3. a * p <= n /\ n < a * p + a
  BY <1>1
<1>4. b * q <= n /\ n < b * q + b
  BY <1>2
<1>5. p >= 0 /\ q >= 0
  <2>1. \A m \in Int : m < 0 => a * m + a <= 0 /\ b * m + b <= 0
    OBVIOUS
  <2>2. QED
    BY <1>3, <1>4, <2>1
<1>6. q <= p
  <2> SUFFICES ASSUME p + 1 <= q PROVE FALSE
    BY <1>1, <1>2
  <2>1. a * (p + 1) <= a * q
    OBVIOUS
  <2>2. a * q <= b * q
    BY <1>5
  <2>3. a * (p + 1) = a * p + a
    OBVIOUS
  <2>4. QED
    BY <1>3, <1>4, <2>1, <2>2, <2>3
<1>7. QED
  BY <1>1, <1>2, <1>5, <1>6

LEMMA GreaterOfTwo ==
  ASSUME NEW m \in Int, NEW n \in Int
  PROVE  Max({m, n}) = IF m < n THEN n ELSE m
<1>1. \E x \in {m, n} : \A y \in {m, n} : x >= y
  OBVIOUS
<1>2. Max({m, n}) \in {m, n} /\ \A y \in {m, n} : Max({m, n}) >= y
  BY <1>1 DEF Max
<1>3. QED
  BY <1>2

-----------------------------------------------------------------------------
(* Fusion.                                                                 *)

Mentioned(rankings) == UNION {Range(rankings[i]) : i \in DOMAIN rankings}

(* What the rankings say of an item.                                       *)
LEMMA Mentions ==
  ASSUME NEW rankings \in Seq(Seq(Events)), NEW x \in Mentioned(rankings)
  PROVE  /\ Lists(rankings, x) \subseteq DOMAIN rankings /\ Lists(rankings, x) \subseteq Nat
         /\ IsFiniteSet(Lists(rankings, x)) /\ Lists(rankings, x) # {}
         /\ \A i \in Lists(rankings, x) :
              /\ RankIn(rankings[i], x) \in Nat \ {0} /\ RankIn(rankings[i], x) \in DOMAIN rankings[i]
              /\ rankings[i][RankIn(rankings[i], x)] = x
<1>1. Lists(rankings, x) \subseteq DOMAIN rankings
  BY DEF Lists
<1>2. DOMAIN rankings = 1..Len(rankings) /\ Len(rankings) \in Nat
  OBVIOUS
<1>3. IsFiniteSet(DOMAIN rankings)
  BY <1>2, UptoFinite
<1>4. Lists(rankings, x) # {}
  BY DEF Mentioned, Lists
<1>5. ASSUME NEW i \in Lists(rankings, x)
      PROVE  /\ RankIn(rankings[i], x) \in Nat \ {0} /\ RankIn(rankings[i], x) \in DOMAIN rankings[i]
             /\ rankings[i][RankIn(rankings[i], x)] = x
  <2> DEFINE T == {n \in DOMAIN rankings[i] : rankings[i][n] = x}
  <2>1. rankings[i] \in Seq(Events)
    BY <1>1
  <2>2. T \in SUBSET (Nat \ {0}) /\ T \in SUBSET Nat /\ T \subseteq DOMAIN rankings[i]
    BY <2>1
  <2>3. T # {}
    BY DEF Lists, Range
  <2>4. Min(T) \in T
    BY <2>2, <2>3, MinIs
  <2>5. RankIn(rankings[i], x) = Min(T)
    BY DEF RankIn
  <2>6. QED
    BY <2>2, <2>4, <2>5
<1>6. QED
  BY <1>1, <1>2, <1>3, <1>4, <1>5, FS_Subset

LEMMA DenominatorIsNatural ==
  ASSUME NEW rankings \in Seq(Seq(Events))
  PROVE  Denominator(rankings) \in Nat
<1> DEFINE T == {0} \cup {Len(rankings[i]) : i \in DOMAIN rankings}
           D == 1..Longest(rankings)
           f == [r \in D |-> RrfK + r]
<1>1. T \in SUBSET Int /\ T # {} /\ \A n \in T : n \in Nat
  <2>1. \A i \in DOMAIN rankings : Len(rankings[i]) \in Nat
    OBVIOUS
  <2>2. QED
    BY <2>1
<1>2. IsFiniteSet(T)
  <2>1. IsFiniteSet(DOMAIN rankings)
    <3>1. DOMAIN rankings = 1..Len(rankings) /\ Len(rankings) \in Nat
      OBVIOUS
    <3>2. QED
      BY <3>1, UptoFinite
  <2> DEFINE L == [i \in DOMAIN rankings |-> Len(rankings[i])]
  <2>2. L \in Surjection(DOMAIN rankings, Range(L))
    BY DEF Surjection, Range
  <2>3. IsFiniteSet(Range(L))
    BY <2>1, <2>2, FS_Surjection
  <2>4. T = Range(L) \cup {0}
    BY DEF Range
  <2>5. QED
    BY <2>3, <2>4, FS_AddElement
<1>3. Longest(rankings) = Max(T)
  BY DEF Longest
<1> HIDE DEF T
<1>4. Longest(rankings) \in Nat
  BY <1>1, <1>2, <1>3, MaxIs
<1>5. IsFiniteSet(D)
  BY <1>4, UptoFinite
<1>6. f \in [D -> Nat]
  BY <1>4, RankingAssumption
<1>7. Denominator(rankings) = ProductsOf(f)[D]
  BY DEF Denominator, FoldFunction, FoldFunctionOnSet, MapThenFoldSet, ProductsOf
<1> HIDE DEF D, f
<1>8. QED
  BY <1>5, <1>6, <1>7, ProductsAreNatural

Share(rankings, x) ==
  [i \in Lists(rankings, x) |-> Denominator(rankings) \div (RrfK + RankIn(rankings[i], x))]

LEMMA ScoreIsSum ==
  ASSUME NEW rankings \in Seq(Seq(Events)), NEW x \in Mentioned(rankings)
  PROVE  /\ Share(rankings, x) \in [Lists(rankings, x) -> Int]
         /\ \A i \in Lists(rankings, x) : 0 <= Share(rankings, x)[i]
         /\ FusedScore(rankings, x) = SumsOf(Share(rankings, x))[Lists(rankings, x)]
         /\ FusedScore(rankings, x) \in Int
<1> DEFINE L == Lists(rankings, x)
<1>1. IsFiniteSet(L) /\ \A i \in L : RankIn(rankings[i], x) \in Nat \ {0}
  BY Mentions
<1>2. ASSUME NEW i \in L
      PROVE  Denominator(rankings) \div (RrfK + RankIn(rankings[i], x)) \in Nat
  <2>1. RrfK + RankIn(rankings[i], x) \in Nat \ {0}
    BY <1>1, RankingAssumption
  <2>2. PICK d \in Nat \ {0} : d = RrfK + RankIn(rankings[i], x) /\ d <= d
    BY <2>1
  <2>3. Denominator(rankings) \div d \in Nat
    BY <2>2, DenominatorIsNatural, Quotients
  <2>4. QED
    BY <2>2, <2>3
<1>3. FusedScore(rankings, x) = SumsOf(Share(rankings, x))[L]
  BY DEF FusedScore, FoldFunction, FoldFunctionOnSet, MapThenFoldSet, SumsOf, Share
<1>4. Share(rankings, x) \in [L -> Int] /\ \A i \in L : 0 <= Share(rankings, x)[i]
  BY <1>2 DEF Share
<1> HIDE DEF L
<1>5. IsSum(SumsOf(Share(rankings, x)), Share(rankings, x), L)
  BY <1>1, <1>4, SumsExist
<1>6. L \in SUBSET L
  OBVIOUS
<1>7. SumsOf(Share(rankings, x))[L] \in Int
  BY <1>5, <1>6 DEF IsSum
<1>8. QED
  BY <1>3, <1>4, <1>7 DEF L

LEMMA BestRankIs ==
  ASSUME NEW rankings \in Seq(Seq(Events)), NEW x \in Mentioned(rankings)
  PROVE  /\ BestRank(rankings, x) \in Nat
         /\ \A i \in Lists(rankings, x) : BestRank(rankings, x) <= RankIn(rankings[i], x)
         /\ \E i \in Lists(rankings, x) : BestRank(rankings, x) = RankIn(rankings[i], x)
<1> DEFINE T == {RankIn(rankings[i], x) : i \in Lists(rankings, x)}
<1>1. T \in SUBSET Nat /\ T # {}
  BY Mentions
<1>2. BestRank(rankings, x) = Min(T)
  BY DEF BestRank
<1>3. Min(T) \in T /\ \A n \in T : Min(T) <= n
  BY <1>1, MinIs
<1>4. QED
  BY <1>1, <1>2, <1>3

(* An item that all the rankings with another place before it.             *)
AgreedBefore(rankings, a, b) ==
  \A i \in Lists(rankings, b) :
    i \in Lists(rankings, a) /\ RankIn(rankings[i], a) < RankIn(rankings[i], b)

LEMMA AgreedScore ==
  ASSUME NEW rankings \in Seq(Seq(Events)), NEW a \in Mentioned(rankings),
         NEW b \in Mentioned(rankings), AgreedBefore(rankings, a, b)
  PROVE  /\ FusedScore(rankings, b) <= FusedScore(rankings, a)
         /\ BestRank(rankings, a) < BestRank(rankings, b)
<1> DEFINE A == Lists(rankings, a)
           B == Lists(rankings, b)
           f == Share(rankings, a)
           g == Share(rankings, b)
<1>1. B \in SUBSET A /\ \A i \in B : RankIn(rankings[i], a) < RankIn(rankings[i], b)
  BY DEF AgreedBefore
<1>2. IsFiniteSet(A)
  BY Mentions
<1>3. ASSUME NEW i \in B
      PROVE  g[i] <= f[i]
  <2>1. /\ RrfK + RankIn(rankings[i], a) \in Nat \ {0} /\ RrfK + RankIn(rankings[i], b) \in Nat \ {0}
        /\ RrfK + RankIn(rankings[i], a) <= RrfK + RankIn(rankings[i], b)
    <3>1. RankIn(rankings[i], a) \in Nat \ {0}
      BY <1>1, Mentions
    <3>2. RankIn(rankings[i], b) \in Nat \ {0}
      BY Mentions
    <3>3. QED
      BY <1>1, <3>1, <3>2, RankingAssumption
  <2>2. /\ f[i] = Denominator(rankings) \div (RrfK + RankIn(rankings[i], a))
        /\ g[i] = Denominator(rankings) \div (RrfK + RankIn(rankings[i], b))
    BY <1>1 DEF Share
  <2>3. QED
    BY <2>1, <2>2, DenominatorIsNatural, Quotients
<1>4. /\ f \in [A -> Int] /\ g \in [B -> Int] /\ \A i \in A : 0 <= f[i]
  BY ScoreIsSum
<1>5. SumsOf(g)[B] <= SumsOf(f)[A]
  <2> HIDE DEF A, B, f, g
  <2>1. QED
    BY <1>1, <1>2, <1>3, <1>4, SumsGrow
<1>6. FusedScore(rankings, b) <= FusedScore(rankings, a)
  BY <1>5, ScoreIsSum
<1>7. BestRank(rankings, a) < BestRank(rankings, b)
  <2>1. PICK i \in B : BestRank(rankings, b) = RankIn(rankings[i], b)
    BY BestRankIs
  <2>2. BestRank(rankings, a) <= RankIn(rankings[i], a)
    BY <1>1, BestRankIs
  <2>3. RankIn(rankings[i], a) \in Nat /\ RankIn(rankings[i], b) \in Nat
    BY <1>1, Mentions
  <2>4. RankIn(rankings[i], a) < RankIn(rankings[i], b)
    BY <1>1
  <2>5. BestRank(rankings, a) \in Nat
    BY BestRankIs
  <2>6. QED
    BY <2>1, <2>2, <2>3, <2>4, <2>5
<1>8. QED
  BY <1>6, <1>7

(* better[x] are those before x.                                           *)
StrictOrder(S, better) ==
  /\ better \in [S -> SUBSET S]
  /\ \A x \in S : x \notin better[x]
  /\ \A x, y \in S : x # y => x \in better[y] \/ y \in better[x]
  /\ \A x, y \in S : y \in better[x] => better[y] \subseteq better[x]

(* Four keys, compared one after the other, put things in a strict order.  *)
FirstByKeys(S, better, f, g, h, k) ==
  \A x, y \in S : y \in better[x] <=>
    \/ f[y] > f[x]
    \/ f[y] = f[x] /\ g[y] < g[x]
    \/ f[y] = f[x] /\ g[y] = g[x] /\ (h[y] < h[x] \/ (h[y] = h[x] /\ k[y] < k[x]))

KeysDistinguish(S, f, g, h, k) ==
  \A x, y \in S : f[x] = f[y] /\ g[x] = g[y] /\ h[x] = h[y] /\ k[x] = k[y] => x = y

LEMMA KeysOrder ==
  ASSUME NEW S, NEW f \in [S -> Int], NEW g \in [S -> Int], NEW h \in [S -> Int],
         NEW k \in [S -> Int],
         KeysDistinguish(S, f, g, h, k),
         NEW better \in [S -> SUBSET S], FirstByKeys(S, better, f, g, h, k)
  PROVE  StrictOrder(S, better)
<1> USE DEF KeysDistinguish, FirstByKeys
<1>1. \A x \in S : f[x] \in Int /\ g[x] \in Int /\ h[x] \in Int /\ k[x] \in Int
  OBVIOUS
<1>2. \A x \in S : x \notin better[x]
  BY <1>1
<1>3. ASSUME NEW x \in S, NEW y \in S, x # y
      PROVE  x \in better[y] \/ y \in better[x]
  <2>1. f[x] # f[y] \/ g[x] # g[y] \/ h[x] # h[y] \/ k[x] # k[y]
    BY <1>3
  <2>2. QED
    BY <1>1, <2>1
<1>4. ASSUME NEW x \in S, NEW y \in S, y \in better[x], NEW z \in better[y]
      PROVE  z \in better[x]
  <2>1. z \in S
    OBVIOUS
  <2>2. \/ f[y] > f[x]
        \/ f[y] = f[x] /\ g[y] < g[x]
        \/ f[y] = f[x] /\ g[y] = g[x] /\ (h[y] < h[x] \/ (h[y] = h[x] /\ k[y] < k[x]))
    BY <1>4
  <2>3. \/ f[z] > f[y]
        \/ f[z] = f[y] /\ g[z] < g[y]
        \/ f[z] = f[y] /\ g[z] = g[y] /\ (h[z] < h[y] \/ (h[z] = h[y] /\ k[z] < k[y]))
    BY <1>4, <2>1
  <2>4. \/ f[z] > f[x]
        \/ f[z] = f[x] /\ g[z] < g[x]
        \/ f[z] = f[x] /\ g[z] = g[x] /\ (h[z] < h[x] \/ (h[z] = h[x] /\ k[z] < k[x]))
    BY <1>1, <2>1, <2>2, <2>3
  <2>5. QED
    BY <2>1, <2>4
<1>5. QED
  BY <1>2, <1>3, <1>4 DEF StrictOrder

(* A list in which the item at place n has n - 1 better ones.              *)
ListedBy(list, S, better) ==
  list = [n \in 1..Cardinality(S) |-> CHOOSE x \in S : Cardinality(better[x]) = n - 1]

InOrder(list, S, better) ==
  /\ Cardinality(S) \in Nat /\ DOMAIN list = 1..Cardinality(S) /\ list \in Seq(S)
  /\ \A x \in S : \E n \in DOMAIN list : list[n] = x
  /\ \A m, n \in DOMAIN list : list[m] \in better[list[n]] <=> m < n

LEMMA ListInOrder ==
  ASSUME NEW S, IsFiniteSet(S), NEW better, StrictOrder(S, better),
         NEW list, ListedBy(list, S, better)
  PROVE  InOrder(list, S, better)
<1> DEFINE N == Cardinality(S)
<1>1. N \in Nat
  BY FS_CardinalityType
<1>2. /\ \A x \in S : Cardinality(better[x]) \in 0..N - 1
      /\ \A x, y \in S : y \in better[x] => Cardinality(better[y]) < Cardinality(better[x])
      /\ \A n \in 0..N - 1 : \E x \in S : Cardinality(better[x]) = n
  BY PlacesInOrder DEF StrictOrder
<1> HIDE DEF N
<1>0. /\ \A x, y \in S : x # y => x \in better[y] \/ y \in better[x]
      /\ list = [n \in 1..N |-> CHOOSE x \in S : Cardinality(better[x]) = n - 1]
  BY DEF N, StrictOrder, ListedBy
<1>3. DOMAIN list = 1..N
  BY <1>0
<1>4. ASSUME NEW n \in 1..N
      PROVE  list[n] \in S /\ Cardinality(better[list[n]]) = n - 1
  <2>1. n - 1 \in 0..N - 1
    BY <1>1
  <2>2. \E x \in S : Cardinality(better[x]) = n - 1
    BY <1>2, <2>1
  <2>3. list[n] = CHOOSE x \in S : Cardinality(better[x]) = n - 1
    BY <1>0
  <2>4. QED
    BY <2>2, <2>3
<1>5. ASSUME NEW x \in S
      PROVE  \E n \in 1..N : list[n] = x
  <2> DEFINE n == Cardinality(better[x]) + 1
  <2>1. n \in 1..N /\ n - 1 = Cardinality(better[x]) /\ Cardinality(better[x]) \in Int
    BY <1>1, <1>2
  <2>2. list[n] \in S /\ Cardinality(better[list[n]]) = n - 1
    BY <1>4, <2>1
  <2>3. Cardinality(better[list[n]]) = Cardinality(better[x])
    BY <2>1, <2>2
  <2> HIDE DEF n
  <2>4. list[n] = x
    <3> SUFFICES ASSUME list[n] # x PROVE FALSE
      OBVIOUS
    <3>1. list[n] \in better[x] \/ x \in better[list[n]]
      BY <1>0, <2>2
    <3>2. Cardinality(better[list[n]]) < Cardinality(better[x])
          \/ Cardinality(better[x]) < Cardinality(better[list[n]])
      BY <1>2, <2>2, <3>1
    <3>3. QED
      BY <2>1, <2>3, <3>2
  <2>5. QED
    BY <2>1, <2>4
<1>6. ASSUME NEW m \in 1..N, NEW n \in 1..N
      PROVE  list[m] \in better[list[n]] <=> m < n
  <2>1. /\ list[m] \in S /\ Cardinality(better[list[m]]) = m - 1
        /\ list[n] \in S /\ Cardinality(better[list[n]]) = n - 1
    BY <1>4
  <2>2. ASSUME list[m] \in better[list[n]]
        PROVE  m < n
    <3>1. Cardinality(better[list[m]]) < Cardinality(better[list[n]])
      BY <1>2, <2>1, <2>2
    <3>2. m - 1 < n - 1
      BY <2>1, <3>1
    <3>3. QED
      BY <3>2
  <2>3. ASSUME m < n, list[m] \notin better[list[n]]
        PROVE  FALSE
    <3>1. list[m] # list[n]
      <4>1. m - 1 # n - 1
        BY <2>3
      <4>2. QED
        BY <2>1, <4>1
    <3>2. list[n] \in better[list[m]]
      BY <1>0, <2>1, <2>3, <3>1
    <3>3. Cardinality(better[list[n]]) < Cardinality(better[list[m]])
      BY <1>2, <2>1, <3>2
    <3>4. n - 1 < m - 1
      BY <2>1, <3>3
    <3>5. QED
      BY <2>3, <3>4
  <2>4. QED
    BY <2>2, <2>3
<1>7. list \in Seq(S)
  <2>1. list = [n \in 1..N |-> list[n]]
    BY <1>0
  <2>2. \A n \in 1..N : list[n] \in S
    BY <1>4
  <2>3. list \in [1..N -> S]
    BY <2>1, <2>2
  <2>4. QED
    BY <1>1, <2>3
<1>8. QED
  BY <1>1, <1>3, <1>5, <1>6, <1>7 DEF N, InOrder

(* Fusion keeps what the rankings agree on.                                *)
BetterFused(rankings, y, x) ==
  \/ FusedScore(rankings, y) > FusedScore(rankings, x)
  \/ /\ FusedScore(rankings, y) = FusedScore(rankings, x)
     /\ BestRank(rankings, y) < BestRank(rankings, x)
  \/ /\ FusedScore(rankings, y) = FusedScore(rankings, x)
     /\ BestRank(rankings, y) = BestRank(rankings, x)
     /\ SeenBefore(rankings, y, x)

LEMMA FusedInOrder ==
  ASSUME NEW rankings \in Seq(Seq(Events))
  PROVE  /\ Fused(rankings) \in Seq(Mentioned(rankings))
         /\ \A x \in Mentioned(rankings) : \E n \in DOMAIN Fused(rankings) : Fused(rankings)[n] = x
         /\ \A m, n \in DOMAIN Fused(rankings) :
              BetterFused(rankings, Fused(rankings)[m], Fused(rankings)[n]) <=> m < n
<1> DEFINE S == Mentioned(rankings)
           list == Fused(rankings)
           First(x) == Min(Lists(rankings, x))
           f == [x \in S |-> FusedScore(rankings, x)]
           g == [x \in S |-> BestRank(rankings, x)]
           h == [x \in S |-> First(x)]
           k == [x \in S |-> RankIn(rankings[First(x)], x)]
           better == [x \in S |-> {y \in S : BetterFused(rankings, y, x)}]
<1>1. IsFiniteSet(S)
  <2>1. \A i \in DOMAIN rankings : Range(rankings[i]) \subseteq Events
    BY DEF Range
  <2>2. S \in SUBSET Events
    BY <2>1 DEF Mentioned
  <2>3. QED
    BY <2>2, RetrievalAssumption, FS_Subset
<1>2. \A x \in S : First(x) \in Lists(rankings, x) /\ First(x) \in Nat
  BY Mentions, MinIs
<1>3. \A x \in S : /\ RankIn(rankings[First(x)], x) \in Nat
                   /\ rankings[First(x)][RankIn(rankings[First(x)], x)] = x
  BY <1>2, Mentions
<1>4. /\ f \in [S -> Int] /\ g \in [S -> Int] /\ h \in [S -> Int] /\ k \in [S -> Int]
  BY <1>2, <1>3, ScoreIsSum, BestRankIs
<1>5. \A x, y \in S : h[x] = h[y] /\ k[x] = k[y] => x = y
  BY <1>3
<1>6. better \in [S -> SUBSET S]
  OBVIOUS
<1>7. \A x, y \in S : y \in better[x] <=>
        \/ f[y] > f[x]
        \/ f[y] = f[x] /\ g[y] < g[x]
        \/ f[y] = f[x] /\ g[y] = g[x] /\ (h[y] < h[x] \/ (h[y] = h[x] /\ k[y] < k[x]))
  <2> SUFFICES ASSUME NEW x \in S, NEW y \in S
               PROVE  y \in better[x] <=>
        \/ f[y] > f[x]
        \/ f[y] = f[x] /\ g[y] < g[x]
        \/ f[y] = f[x] /\ g[y] = g[x] /\ (h[y] < h[x] \/ (h[y] = h[x] /\ k[y] < k[x]))
    OBVIOUS
  <2>1. SeenBefore(rankings, y, x) <=> (h[y] < h[x] \/ (h[y] = h[x] /\ k[y] < k[x]))
    BY DEF SeenBefore
  <2>2. QED
    BY <2>1 DEF BetterFused
<1>8. list = [n \in 1..Cardinality(S) |-> CHOOSE x \in S : Cardinality(better[x]) = n - 1]
  <2> DEFINE Nth(n) == CHOOSE x \in S : Cardinality({y \in S : BetterFused(rankings, y, x)}) = n - 1
  <2>1. list = [n \in 1..Cardinality(S) |-> Nth(n)]
    BY DEF Fused, Ordered, BetterFused, Mentioned
  <2>2. \A x \in S : better[x] = {y \in S : BetterFused(rankings, y, x)}
    OBVIOUS
  <2> HIDE DEF better, S, list, Nth
  <2>3. ASSUME NEW n \in 1..Cardinality(S)
        PROVE  list[n] = CHOOSE x \in S : Cardinality(better[x]) = n - 1
    <3>1. list[n] = CHOOSE x \in S : Cardinality({y \in S : BetterFused(rankings, y, x)}) = n - 1
      BY <2>1 DEF Nth
    <3>2. QED
      BY <2>2, <3>1
  <2>4. list = [n \in 1..Cardinality(S) |-> list[n]]
    BY <2>1
  <2>5. QED
    BY <2>3, <2>4
<1> HIDE DEF f, g, h, k, list, S, First
<1>9. \A x, y \in S : y \in better[x] <=> BetterFused(rankings, y, x)
  OBVIOUS
<1> HIDE DEF better
<1>10. \A x, y \in S : f[x] = f[y] /\ g[x] = g[y] /\ h[x] = h[y] /\ k[x] = k[y] => x = y
  BY <1>5
<1>11. StrictOrder(S, better)
  <2>1. KeysDistinguish(S, f, g, h, k)
    BY <1>10 DEF KeysDistinguish
  <2>2. FirstByKeys(S, better, f, g, h, k)
    BY <1>7 DEF FirstByKeys
  <2>3. QED
    BY <1>4, <1>6, <2>1, <2>2, KeysOrder
<1>12. InOrder(list, S, better)
  <2>1. ListedBy(list, S, better)
    BY <1>8 DEF ListedBy
  <2>2. QED
    BY <1>1, <1>11, <2>1, ListInOrder
<1>13. /\ DOMAIN list = 1..Cardinality(S) /\ Cardinality(S) \in Nat /\ list \in Seq(S)
       /\ \A x \in S : \E n \in DOMAIN list : list[n] = x
       /\ \A m, n \in DOMAIN list : list[m] \in better[list[n]] <=> m < n
  BY <1>12 DEF InOrder
<1>14. \A n \in DOMAIN list : list[n] \in S
  BY <1>13
<1>15. QED
  BY <1>9, <1>13, <1>14 DEF S, list

(* An answer is what fusion makes of the rankings, unless filters were     *)
(* dropped or only the filters counted.                                    *)
Merged(r) ==
  /\ r.at \in {"idle", "extract", "strict"} => r.rankings = <<>>
  /\ r.at = "done" /\ r.level = 0 =>
       \/ r.rankings = <<>>
       \/ r.rankings \in Seq(Seq(Events)) /\ r.results = Take(Fused(r.rankings), Limit)

MergedInv == \A q \in Requests : \A r \in {req[q]} : Merged(r)

LEMMA MergeMoves ==
  ASSUME NearestInv, MergedInv, NEW q \in Requests, NEW s, Becomes(q, s), Merged(s)
  PROVE  MergedInv'
<1>1. req'[q] = s /\ \A p \in Requests : p # q => req'[p] = req[p]
  BY DEF Becomes, NearestInv
<1>2. \A r : Merged(r)' <=> Merged(r)
  BY DEF Merged
<1>3. ASSUME NEW p \in Requests, NEW r \in {req'[p]}
      PROVE  Merged(r)'
  <2>1. CASE p = q
    BY <1>1, <1>2, <2>1
  <2>2. CASE p # q
    BY <1>1, <1>2, <2>2 DEF MergedInv
  <2>3. QED
    BY <2>1, <2>2
<1>4. QED
  BY <1>3 DEF MergedInv

LEMMA MergeBegins ==
  ASSUME NEW r, DOMAIN r = SearchFields, r.rankings = <<>>, NEW raw
  PROVE  Merged(Begun(r, raw))
<1> DEFINE f == Canonicalize(raw)
           s == Begun(r, raw)
<1>1. s = [r EXCEPT !.at = "strict", !.filters = f, !.now = day, !.before = catalogue]
  BY DEF Begun
<1> HIDE DEF f, s
<1>2. s.at = "strict" /\ s.rankings = <<>>
  BY <1>1 DEF SearchFields
<1>3. Merged(s)
  BY <1>2 DEF Merged
<1>4. QED
  BY <1>3 DEF s

LEMMA IdleMerged == Idle.rankings = <<>> /\ Merged(Idle)
<1>1. Idle.at = "idle" /\ Idle.rankings = <<>>
  BY DEF Idle
<1>2. QED
  BY <1>1 DEF Merged

LEMMA MergeBeginSteps ==
  ASSUME NearestInv, MergedInv, NEW q \in Requests,
         \/ \E p \in Phrases : Ask(q, p) \/ SearchFilters(q, p)
         \/ LlmAnswers(q) \/ LlmFails(q)
  PROVE  MergedInv'
<1>1. ASSUME NEW p \in Phrases, Ask(q, p)
      PROVE  MergedInv'
  <2> DEFINE r == [Idle EXCEPT !.phrase = p, !.asked = day, !.text = TRUE]
             key == FiltersKey(p, day)
             s == [r EXCEPT !.at = "extract"]
  <2>1. DOMAIN r = SearchFields /\ r.rankings = <<>>
    BY DEF Idle, SearchFields
  <2>2. s.rankings = <<>> /\ s.at = "extract"
    BY DEF Idle, SearchFields
  <2>3. Becomes(q, IF key \in DOMAIN cache THEN Begun(r, cache[key]) ELSE s)
    BY <1>1 DEF Ask
  <2> HIDE DEF r, s
  <2>4. CASE key \in DOMAIN cache
    BY <2>1, <2>3, <2>4, MergeBegins, MergeMoves
  <2>5. CASE key \notin DOMAIN cache
    <3>1. Merged(s)
      BY <2>2 DEF Merged
    <3>2. QED
      BY <2>3, <2>5, <3>1, MergeMoves
  <2>6. QED
    BY <2>4, <2>5
<1>2. ASSUME NEW p \in Phrases, SearchFilters(q, p)
      PROVE  MergedInv'
  <2> DEFINE r == [Idle EXCEPT !.phrase = p, !.asked = day]
  <2>1. DOMAIN r = SearchFields /\ r.rankings = <<>>
    BY DEF Idle, SearchFields
  <2>2. Becomes(q, Begun(r, Meaning(p, day)))
    BY <1>2 DEF SearchFilters
  <2> HIDE DEF r
  <2>3. QED
    BY <2>1, <2>2, MergeBegins, MergeMoves
<1> PICK r : r = req[q]
  OBVIOUS
<1>3. Sought(r) /\ Merged(r)
  BY DEF NearestInv, MergedInv
<1>4. CASE LlmAnswers(q)
  <2>1. r.at = "extract"
    BY <1>4 DEF LlmAnswers, At
  <2>2. \E raw : Becomes(q, Begun(r, raw))
    BY <1>4 DEF LlmAnswers
  <2>3. DOMAIN r = SearchFields /\ r.rankings = <<>>
    BY <1>3, <2>1 DEF Sought, Merged
  <2>4. QED
    BY <2>2, <2>3, MergeBegins, MergeMoves
<1>5. CASE LlmFails(q)
  <2> DEFINE f == [r EXCEPT !.failed = TRUE]
  <2>1. r.at = "extract"
    BY <1>5 DEF LlmFails, At
  <2>2. Becomes(q, Begun(f, JustText))
    BY <1>5 DEF LlmFails
  <2>3. DOMAIN f = SearchFields /\ f.rankings = <<>>
    BY <1>3, <2>1 DEF Sought, Merged, SearchFields
  <2> HIDE DEF f
  <2>4. QED
    BY <2>2, <2>3, MergeBegins, MergeMoves
<1>6. QED
  BY <1>1, <1>2, <1>4, <1>5

LEMMA MergeRankingSteps ==
  ASSUME NearestInv, MergedInv, NEW q \in Requests,
         Strict(q) \/ TextSearch(q) \/ SemanticSearch(q) \/ Fuse(q) \/ Relax(q)
  PROVE  MergedInv'
<1> PICK r : r = req[q]
  OBVIOUS
<1>1. DOMAIN r = SearchFields /\ Sought(r) /\ Merged(r)
  BY DEF NearestInv, MergedInv, Sought
<1>2. ASSUME NEW s, s.at \in {"text", "semantic", "fuse", "relax"}, Becomes(q, s)
      PROVE  MergedInv'
  <2>1. Merged(s)
    BY <1>2 DEF Merged
  <2>2. QED
    BY <1>2, <2>1, MergeMoves
<1>3. CASE Strict(q)
  <2> DEFINE matching == Matching(catalogue, r.filters, r.now)
  <2>1. \/ \E s \in ByDate(matching, Depth) :
             Becomes(q, [r EXCEPT !.at = IF Words(r) THEN "text" ELSE "semantic",
                                  !.rankings = <<s>>])
        \/ \E s \in ByDate(matching, Limit) :
             Becomes(q, [r EXCEPT !.at = IF s = <<>> THEN "relax" ELSE "done", !.results = s])
    BY <1>3 DEF Strict
  <2>2. r.rankings = <<>>
    BY <1>1, <1>3 DEF Strict, At, Merged
  <2> HIDE DEF matching
  <2>3. ASSUME NEW s, Becomes(q, [r EXCEPT !.at = IF Words(r) THEN "text" ELSE "semantic",
                                           !.rankings = <<s>>])
        PROVE  MergedInv'
    <3> DEFINE n == [r EXCEPT !.at = IF Words(r) THEN "text" ELSE "semantic", !.rankings = <<s>>]
    <3>1. n.at \in {"text", "semantic"}
      BY <1>1 DEF SearchFields
    <3>2. Becomes(q, n)
      BY <2>3
    <3> HIDE DEF n
    <3>3. QED
      BY <1>2, <3>1, <3>2
  <2>4. ASSUME NEW s, Becomes(q, [r EXCEPT !.at = IF s = <<>> THEN "relax" ELSE "done",
                                           !.results = s])
        PROVE  MergedInv'
    <3> DEFINE n == [r EXCEPT !.at = IF s = <<>> THEN "relax" ELSE "done", !.results = s]
    <3>1. n.at \in {"relax", "done"} /\ n.rankings = <<>>
      BY <1>1, <2>2 DEF SearchFields
    <3>2. Becomes(q, n)
      BY <2>4
    <3> HIDE DEF n
    <3>3. Merged(n)
      BY <3>1 DEF Merged
    <3>4. QED
      BY <3>2, <3>3, MergeMoves
  <2>5. QED
    BY <2>1, <2>3, <2>4
<1>4. CASE TextSearch(q) \/ SemanticSearch(q)
  <2> DEFINE some == InSomeOrder(Matching(catalogue, HardOf(r.filters), r.now), Depth)
  <2>1. \/ \E s \in some, at \in {"semantic", "fuse"} :
             Becomes(q, [r EXCEPT !.at = at, !.rankings = Append(@, s)])
        \/ Becomes(q, [r EXCEPT !.at = "fuse"])
    <3>1. CASE TextSearch(q)
      BY <3>1 DEF TextSearch
    <3>2. CASE SemanticSearch(q)
      BY <3>2 DEF SemanticSearch
    <3>3. QED
      BY <1>4, <3>1, <3>2
  <2> HIDE DEF some
  <2>2. ASSUME NEW s, NEW at \in {"semantic", "fuse"},
               Becomes(q, [r EXCEPT !.at = at, !.rankings = Append(@, s)])
        PROVE  MergedInv'
    <3> DEFINE n == [r EXCEPT !.at = at, !.rankings = Append(@, s)]
    <3>1. n.at = at
      BY <1>1 DEF SearchFields
    <3>2. Becomes(q, n)
      BY <2>2
    <3> HIDE DEF n
    <3>3. QED
      BY <1>2, <3>1, <3>2
  <2>3. CASE Becomes(q, [r EXCEPT !.at = "fuse"])
    <3> DEFINE n == [r EXCEPT !.at = "fuse"]
    <3>1. n.at = "fuse"
      BY <1>1 DEF SearchFields
    <3>2. Becomes(q, n)
      BY <2>3
    <3> HIDE DEF n
    <3>3. QED
      BY <1>2, <3>1, <3>2
  <2>4. QED
    BY <2>1, <2>2, <2>3
<1>5. CASE Fuse(q)
  <2> DEFINE results == Take(Fused(r.rankings), Limit)
             n == [r EXCEPT !.at = IF results = <<>> THEN "relax" ELSE "done", !.results = results]
  <2>1. r.rankings \in Seq(Seq(Events))
    BY <1>1, <1>5 DEF Fuse, At, Sought
  <2>2. Becomes(q, n)
    BY <1>5 DEF Fuse
  <2> HIDE DEF results
  <2>3. n.at \in {"relax", "done"} /\ n.rankings = r.rankings /\ n.results = results
    BY <1>1 DEF SearchFields
  <2> HIDE DEF n
  <2>4. Merged(n)
    BY <2>1, <2>3 DEF Merged, results
  <2>5. QED
    BY <2>2, <2>4, MergeMoves
<1>6. CASE Relax(q)
  <2> PICK level : level = r.level + 1
    OBVIOUS
  <2>1. r.level \in Nat
    <3>1. r.at = "relax"
      BY <1>6 DEF Relax, At
    <3>2. r.level \in 0..Len(RelaxOrder) - 1
      BY <1>1, <3>1 DEF Sought
    <3>3. QED
      BY <3>2, SixFilters
  <2>2. PICK s \in ByDate(Matching(catalogue, Relaxed(r.filters, level), r.now), 1) :
          Becomes(q, [r EXCEPT !.level = level, !.results = s,
                               !.at = IF s = <<>> /\ level < Len(RelaxOrder) THEN "relax"
                                      ELSE "done"])
    BY <1>6 DEF Relax
  <2> DEFINE n == [r EXCEPT !.level = level, !.results = s,
                            !.at = IF s = <<>> /\ level < Len(RelaxOrder) THEN "relax"
                                   ELSE "done"]
  <2>3. n.at \in {"relax", "done"} /\ n.level = level
    BY <1>1 DEF SearchFields
  <2>4. Becomes(q, n)
    BY <2>2
  <2> HIDE DEF n
  <2>5. n.level # 0
    BY <2>1, <2>3
  <2>6. Merged(n)
    BY <2>3, <2>5 DEF Merged
  <2>7. QED
    BY <2>4, <2>6, MergeMoves
<1>7. QED
  BY <1>3, <1>4, <1>5, <1>6

LEMMA MergedStep ==
  ASSUME NearestInv, MergedInv, [RetrievalNext]_retrievalVars
  PROVE  MergedInv'
<1>1. ASSUME NEW q \in Requests,
             \/ \E p \in Phrases : Ask(q, p) \/ SearchFilters(q, p)
             \/ LlmAnswers(q) \/ LlmFails(q) \/ Strict(q) \/ TextSearch(q) \/ SemanticSearch(q)
             \/ Fuse(q) \/ Relax(q)
      PROVE  MergedInv'
  BY <1>1, MergeBeginSteps, MergeRankingSteps
<1>2. ASSUME NEW q \in Requests, SendAnswer(q)
      PROVE  MergedInv'
  BY <1>2, IdleMerged, MergeMoves DEF SendAnswer
<1>3. CASE UNCHANGED req
  BY <1>3 DEF MergedInv, Merged
<1>4. QED
  BY <1>1, <1>2, <1>3
  DEF RetrievalNext, retrievalVars, facts, Arrive, Expire, Midnight, FindNear, Find, SimilarEvents,
      FindCandidate, RankCandidates, Announce, Fetch, ExplainEvent

(* What all the retrievers that found an event place before it, the answer *)
(* places before it, whichever of them failed, however many found the      *)
(* other, and where the answer is cut off.                                 *)
THEOREM FusionKeepsAgreement == RetrievalSpec => []FusionAgrees
<1>1. RetrievalInit => NearestInv /\ MergedInv
  <2> SUFFICES ASSUME RetrievalInit PROVE NearestInv /\ MergedInv
    OBVIOUS
  <2>1. catalogue \subseteq Events /\ start \in [Events -> Dates] /\ DOMAIN req = Requests
    BY DEF RetrievalInit
  <2>2. \A q \in Requests : req[q] = Idle
    BY DEF RetrievalInit
  <2>3. QED
    BY <2>1, <2>2, IdleSought, IdleMerged DEF NearestInv, MergedInv
<1>2. NearestInv /\ MergedInv /\ [RetrievalNext]_retrievalVars => NearestInv' /\ MergedInv'
  BY NearestStep, MergedStep
<1>3. NearestInv /\ MergedInv => FusionAgrees
  <2> SUFFICES ASSUME MergedInv, NEW q \in Requests, NEW r, r = req[q], r.at = "done", r.level = 0,
                      NEW j \in DOMAIN r.results, NEW a \in Mentioned(r.rankings),
                      AgreedBefore(r.rankings, a, r.results[j])
               PROVE  \E i \in 1..j - 1 : r.results[i] = a
    BY DEF FusionAgrees, Mentioned, AgreedBefore
  <2> DEFINE fused == Fused(r.rankings)
             b == r.results[j]
  <2>1. Merged(r)
    BY DEF MergedInv
  <2>2. r.rankings # <<>>
    BY DEF Mentioned
  <2>3. r.rankings \in Seq(Seq(Events)) /\ r.results = Take(fused, Limit)
    BY <2>1, <2>2 DEF Merged
  <2>4. /\ fused \in Seq(Mentioned(r.rankings))
        /\ \A x \in Mentioned(r.rankings) : \E n \in DOMAIN fused : fused[n] = x
        /\ \A m, n \in DOMAIN fused : BetterFused(r.rankings, fused[m], fused[n]) <=> m < n
    BY <2>3, FusedInOrder
  <2> HIDE DEF fused
  <2>5. /\ Len(r.results) = IF Len(fused) < Limit THEN Len(fused) ELSE Limit
        /\ r.results \in Seq(Mentioned(r.rankings))
        /\ \A i \in DOMAIN r.results : i \in DOMAIN fused /\ r.results[i] = fused[i]
    BY <2>3, <2>4, Limits, TakeProperties
  <2>6. j \in DOMAIN fused /\ b = fused[j] /\ b \in Mentioned(r.rankings) /\ j \in 1..Len(r.results)
    BY <2>4, <2>5
  <2>7. PICK i \in DOMAIN fused : fused[i] = a
    BY <2>4
  <2>8. /\ FusedScore(r.rankings, b) <= FusedScore(r.rankings, a)
        /\ BestRank(r.rankings, a) < BestRank(r.rankings, b)
        /\ FusedScore(r.rankings, a) \in Int /\ FusedScore(r.rankings, b) \in Int
    BY <2>3, <2>6, AgreedScore, ScoreIsSum
  <2>9. BetterFused(r.rankings, a, b)
    BY <2>8 DEF BetterFused
  <2>10. i < j
    BY <2>4, <2>6, <2>7, <2>9
  <2>11. i \in 1..j - 1 /\ i \in DOMAIN r.results
    BY <2>4, <2>5, <2>6, <2>10
  <2>12. QED
    BY <2>5, <2>7, <2>11
<1>4. QED
  BY <1>1, <1>2, <1>3, PTL DEF RetrievalSpec

-----------------------------------------------------------------------------
(* What is told of an event.                                               *)

LEMMA TotalIsSum ==
  ASSUME NEW f
  PROVE  Total(f) = SumsOf(f)[DOMAIN f]
BY DEF Total, FoldFunction, FoldFunctionOnSet, MapThenFoldSet, SumsOf

LEMMA TotalProperties ==
  ASSUME NEW D, IsFiniteSet(D), NEW f \in [D -> Int]
  PROVE  /\ Total(f) \in Int
         /\ (\A x \in D : 0 <= f[x]) => 0 <= Total(f)
<1>1. IsSum(SumsOf(f), f, D)
  BY SumsExist
<1>2. Total(f) = SumsOf(f)[D] /\ D \in SUBSET D
  BY TotalIsSum
<1>3. Total(f) \in Int
  BY <1>1, <1>2 DEF IsSum
<1>4. ASSUME \A x \in D : 0 <= f[x]
      PROVE  0 <= Total(f)
  <2> DEFINE g == [x \in {} |-> 0]
  <2>1. {} \in SUBSET D /\ IsFiniteSet({})
    BY FS_EmptySet
  <2>2. g \in [{} -> Int] /\ \A x \in {} : g[x] <= f[x]
    OBVIOUS
  <2> HIDE DEF g
  <2>3. SumsOf(g)[{}] <= SumsOf(f)[D]
    BY <1>4, <2>1, <2>2, SumsGrow
  <2>4. IsSum(SumsOf(g), g, {})
    BY <2>1, <2>2, SumsExist
  <2>5. SumsOf(g)[{}] = 0
    BY <2>4 DEF IsSum
  <2>6. QED
    BY <1>2, <2>3, <2>5
<1>5. QED
  BY <1>3, <1>4

(* An anti-interest counts against an event, nothing else does.            *)
LEMMA WeightsAre ==
  ASSUME NEW user, IsUser(user), NEW t
  PROVE  /\ WeightOf(user, t) \in Int
         /\ WeightOf(user, t) < 0 <=> t \in user.anti
         /\ WeightOf(user, t) > 0 => t \in TopicsOf(user)
<1> DEFINE learned == Learned(user)
           was(s) == IF s \in DOMAIN learned THEN learned[s] ELSE 0
           weights == Weights(user)
<1>1. ASSUME NEW s \in DOMAIN learned
      PROVE  learned[s] \in Nat
  <2> DEFINE a == user.stats[s].alpha
             b == user.stats[s].beta
  <2>1. s \in DOMAIN user.stats /\ a > b /\ learned[s] = (a - b + 5) \div 10
    BY DEF Learned
  <2>2. a \in Nat /\ b \in Nat
    BY <2>1 DEF IsUser
  <2> HIDE DEF a, b
  <2>3. a - b + 5 \in Nat
    BY <2>1, <2>2
  <2>4. \A n \in Nat : n \div 10 \in Nat
    OBVIOUS
  <2>5. QED
    BY <2>1, <2>3, <2>4
<1> HIDE DEF learned
<1>2. \A s : was(s) \in Nat
  BY <1>1
<1>3. \A s : Max({was(s), DeclaredInterest}) \in Nat \ {0}
  <2> TAKE s
  <2> DEFINE n == was(s)
  <2>1. n \in Int /\ n \in Nat /\ 3 \in Int
    BY <1>2
  <2> HIDE DEF n
  <2>2. Max({n, 3}) = IF n < 3 THEN 3 ELSE n
    BY <2>1, GreaterOfTwo
  <2>3. Max({n, 3}) \in Nat \ {0}
    BY <2>1, <2>2
  <2>4. QED
    BY <2>3 DEF n, DeclaredInterest
<1>4. /\ DOMAIN weights = DOMAIN learned \cup user.interests \cup user.anti
      /\ \A s \in DOMAIN weights :
           weights[s] = IF s \in user.anti THEN 0 - AntiPenalty
                        ELSE IF s \in user.interests THEN Max({was(s), DeclaredInterest}) ELSE was(s)
  BY DEF Weights, MergeDeclaredTopics, learned
<1> HIDE DEF weights, was
<1>5. WeightOf(user, t) = IF t \in DOMAIN weights THEN weights[t] ELSE 0
  BY DEF WeightOf, weights
<1>6. CASE t \in user.anti
  <2>1. WeightOf(user, t) = 0 - 6
    BY <1>4, <1>5, <1>6 DEF AntiPenalty
  <2>2. QED
    BY <1>6, <2>1
<1>7. CASE t \notin user.anti /\ t \in user.interests
  <2>1. WeightOf(user, t) \in Nat \ {0}
    BY <1>3, <1>4, <1>5, <1>7
  <2>2. t \in TopicsOf(user)
    BY <1>7 DEF TopicsOf
  <2>3. QED
    BY <1>7, <2>1, <2>2
<1>8. CASE t \notin user.anti /\ t \notin user.interests
  <2>0. WeightOf(user, t) \in {0, was(t)}
    BY <1>4, <1>5, <1>8
  <2>1. WeightOf(user, t) \in Nat
    <3>1. was(t) \in Nat
      BY <1>2
    <3>2. QED
      BY <2>0, <3>1
  <2>2. t \notin DOMAIN learned => WeightOf(user, t) = 0
    <3>1. t \notin DOMAIN learned => was(t) = 0
      BY DEF was
    <3>2. QED
      BY <2>0, <3>1
  <2>3. t \in DOMAIN learned => t \in TopicsOf(user)
    BY <1>8 DEF TopicsOf, learned
  <2>4. QED
    BY <1>8, <2>1, <2>2, <2>3
<1>9. QED
  BY <1>6, <1>7, <1>8

(* The rule alone can speak against an event, and only a topic makes it.   *)
LEMMA RuleSpeaksOfTopics ==
  ASSUME NEW user, IsUser(user), NEW event, IsScored(event)
  PROVE  /\ RuleScore(user, event) \in Int
         /\ RuleScore(user, event) < 0 => Disliked(user, event) # {}
<1> DEFINE f == [t \in event.topics |-> WeightOf(user, t)]
           n == Cardinality(TopicsOf(user) \cap event.topics)
           g == FormatPoints(user, event)
           h == CityPoints(user, event)
<1>1. IsFiniteSet(event.topics) /\ f \in [event.topics -> Int]
  BY WeightsAre DEF IsScored
<1>2. n \in Nat
  BY <1>1, FS_Subset, FS_CardinalityType
<1>3. g \in Nat /\ h \in Nat
  BY DEF FormatPoints, CityPoints
<1>4. Total(f) \in Int /\ ((\A t \in event.topics : 0 <= f[t]) => 0 <= Total(f))
  <2> HIDE DEF f
  <2>1. QED
    BY <1>1, TotalProperties
<1>5. RuleScore(user, event) = Total(f) + 2 * n + g + h
  BY DEF RuleScore
<1>6. (\A t \in event.topics : 0 <= f[t]) \/ Disliked(user, event) # {}
  BY <1>1 DEF Disliked
<1> HIDE DEF f, n, g, h
<1>7. QED
  BY <1>2, <1>3, <1>4, <1>5, <1>6

LEMMA SevenComponents ==
  /\ DOMAIN Components = 1..7
  /\ Range(Components) = {"bayesian", "cosine", "freshness", "hype", "quality", "rule", "skill_gap"}
<1>1. DOMAIN Components = 1..7
  BY DEF Components
<1>2. /\ Components[1] = "bayesian" /\ Components[2] = "cosine" /\ Components[3] = "freshness"
      /\ Components[4] = "hype" /\ Components[5] = "quality" /\ Components[6] = "rule"
      /\ Components[7] = "skill_gap"
  BY DEF Components
<1>3. 1..7 = {1, 2, 3, 4, 5, 6, 7}
  OBVIOUS
<1> HIDE DEF Components
<1>4. QED
  BY <1>1, <1>2, <1>3 DEF Range

(* As many halves of a goal as there are gaps, two at most.                *)
LEMMA HalvesAre ==
  ASSUME NEW user, IsUser(user), NEW event
  PROVE  /\ SkillGapHalves(user, event) \in 0..2
         /\ SkillGapHalves(user, event) = 0 <=> SkillGapMatches(user, event) = {}
<1> DEFINE S == SkillGapMatches(user, event)
           n == Cardinality(S)
<1>1. IsFiniteSet(S)
  <2>1. S \subseteq user.gaps /\ IsFiniteSet(user.gaps)
    BY DEF SkillGapMatches, IsUser
  <2>2. QED
    BY <2>1, FS_Subset
<1>2. n \in Nat /\ (n = 0 <=> S = {})
  BY <1>1, FS_CardinalityType, FS_EmptySet
<1>3. SkillGapHalves(user, event) = Min({2, n})
  BY DEF SkillGapHalves
<1> HIDE DEF n
<1>4. Min({2, n}) \in {2, n} /\ \A y \in {2, n} : Min({2, n}) <= y
  <2>1. {2, n} \in SUBSET Nat /\ {2, n} # {}
    BY <1>2
  <2>2. QED
    BY <2>1, MinIs
<1>5. Min({2, n}) \in 0..2 /\ (Min({2, n}) = 0 <=> n = 0)
  BY <1>2, <1>4
<1>6. QED
  BY <1>2, <1>3, <1>5

LEMMA MeanIsWhole ==
  ASSUME NEW user, IsUser(user), NEW event, IsScored(event), NEW unit \in Nat
  PROVE  PosteriorMean(user, event, unit) \in Int
<1> DEFINE e == [t \in event.topics |->
                   IF t \in DOMAIN user.stats
                   THEN (unit * user.stats[t].alpha) \div (user.stats[t].alpha + user.stats[t].beta)
                   ELSE unit \div 2]
           S == {0} \cup Range(e)
<1>1. \A t \in event.topics : e[t] \in Int
  <2> SUFFICES ASSUME NEW t \in event.topics PROVE e[t] \in Int
    OBVIOUS
  <2>1. CASE t \in DOMAIN user.stats
    <3> PICK a \in Nat \ {0}, b \in Nat \ {0} : a = user.stats[t].alpha /\ b = user.stats[t].beta
      BY <2>1 DEF IsUser
    <3>1. e[t] = (unit * a) \div (a + b)
      BY <2>1
    <3>2. unit * a \in Int /\ a + b \in Nat \ {0}
      OBVIOUS
    <3>3. \A m \in Int : \A n \in Nat \ {0} : m \div n \in Int
      OBVIOUS
    <3>4. QED
      BY <3>1, <3>2, <3>3
  <2>2. CASE t \notin DOMAIN user.stats
    <3>1. e[t] = unit \div 2
      BY <2>2
    <3>2. QED
      BY <3>1
  <2>3. QED
    BY <2>1, <2>2
<1>2. PosteriorMean(user, event, unit) = IF DOMAIN user.stats = {} THEN 0 ELSE Max(S)
  <2>1. Range(e) = {IF t \in DOMAIN user.stats
                    THEN (unit * user.stats[t].alpha) \div (user.stats[t].alpha + user.stats[t].beta)
                    ELSE unit \div 2 : t \in event.topics}
    BY DEF Range
  <2>2. QED
    BY <2>1 DEF PosteriorMean
<1>3. DOMAIN e = event.topics
  OBVIOUS
<1> HIDE DEF e
<1>4. S \in SUBSET Int /\ S # {}
  BY <1>1, <1>3 DEF Range
<1>5. IsFiniteSet(S)
  <2>1. IsFiniteSet(event.topics)
    BY DEF IsScored
  <2>2. e \in [event.topics -> Int]
    <3>1. e = [t \in event.topics |-> e[t]]
      BY DEF e
    <3>2. QED
      BY <1>1, <3>1
  <2>3. e \in Surjection(event.topics, Range(e))
    BY <2>2 DEF Surjection, Range
  <2>4. IsFiniteSet(Range(e))
    BY <2>1, <2>3, FS_Surjection
  <2>5. S = Range(e) \cup {0}
    OBVIOUS
  <2>6. QED
    BY <2>4, <2>5, FS_AddElement
<1>6. Max(S) \in Int
  BY <1>4, <1>5, MaxIs
<1>7. QED
  BY <1>2, <1>6

LEMMA PartsAreWhole ==
  ASSUME NEW user, IsUser(user), NEW event, IsScored(event), NEW closeness \in Closenesses
  PROVE  LET parts == Breakdown(user, event, closeness)
         IN /\ \A c \in Range(Components) : parts[c] \in Int
            /\ parts["rule"] = Weight["rule"] * RuleScore(user, event)
            /\ parts["cosine"] = (Weight["cosine"] * closeness) \div 10
            /\ parts["skill_gap"] = (Weight["skill_gap"] * SkillGapHalves(user, event)) \div 2
<1> DEFINE parts == Breakdown(user, event, closeness)
           C == {"bayesian", "cosine", "freshness", "hype", "quality", "rule", "skill_gap"}
<1>1. \A c \in C : Weight[c] \in Nat
  BY SevenComponents, ScoringAssumption
<1>2. /\ parts["rule"] = Weight["rule"] * RuleScore(user, event)
      /\ parts["cosine"] = (Weight["cosine"] * closeness) \div 10
      /\ parts["bayesian"] = PosteriorMean(user, event, Weight["bayesian"])
      /\ parts["skill_gap"] = (Weight["skill_gap"] * SkillGapHalves(user, event)) \div 2
      /\ parts["quality"] = Weight["quality"] * event.quality
      /\ parts["hype"] = Weight["hype"] * event.hype
      /\ parts["freshness"] = (Weight["freshness"] * FreshnessOf(event)) \div 100
  BY SevenComponents DEF Breakdown
<1> HIDE DEF parts
<1>3. /\ RuleScore(user, event) \in Int /\ closeness \in Int
      /\ SkillGapHalves(user, event) \in Int /\ event.quality \in Int /\ event.hype \in Int
      /\ PosteriorMean(user, event, Weight["bayesian"]) \in Int
  BY <1>1, RuleSpeaksOfTopics, HalvesAre, MeanIsWhole DEF Closenesses, IsScored
<1>4. FreshnessOf(event) \in Int
  <2>1. event.days # Undated => Freshness[event.days] \in Nat
    BY DEF IsScored
  <2>2. QED
    BY <2>1 DEF FreshnessOf
<1>5. \A m, n \in Int : m * n \in Int /\ n \div 10 \in Int /\ n \div 2 \in Int /\ n \div 100 \in Int
  OBVIOUS
<1>6. \A c \in C : parts[c] \in Int
  <2>1. \A c \in C : Weight[c] \in Int
    BY <1>1
  <2>2. parts["rule"] \in Int /\ parts["quality"] \in Int /\ parts["hype"] \in Int
    BY <1>2, <1>3, <1>5, <2>1
  <2>3. parts["cosine"] \in Int /\ parts["skill_gap"] \in Int /\ parts["freshness"] \in Int
    BY <1>2, <1>3, <1>4, <1>5, <2>1
  <2>4. parts["bayesian"] \in Int
    BY <1>2, <1>3
  <2>5. QED
    BY <2>2, <2>3, <2>4
<1>7. QED
  BY <1>2, <1>6, SevenComponents DEF parts

(* All that counts is listed, and nothing else.                            *)
LEMMA ContributionsAre ==
  ASSUME NEW parts, \A c \in Range(Components) : parts[c] \in Int
  PROVE  LET list == Contributions(parts)
         IN /\ \A n \in DOMAIN list : /\ list[n].component \in Range(Components)
                                      /\ list[n].value = parts[list[n].component]
                                      /\ list[n].value # 0
            /\ \A c \in Range(Components) : parts[c] # 0 => \E n \in DOMAIN list : list[n].component = c
<1> DEFINE S == {i \in DOMAIN Components : parts[Components[i]] # 0}
           Heavy(i) == Abs(parts[Components[i]])
           Ahead(i, j) == Heavy(i) > Heavy(j) \/ (Heavy(i) = Heavy(j) /\ i < j)
           order == Ordered(S, Ahead)
           list == Contributions(parts)
           f == [i \in S |-> Heavy(i)]
           g == [i \in S |-> i]
           better == [i \in S |-> {j \in S : Ahead(j, i)}]
<1>1. /\ DOMAIN list = DOMAIN order
      /\ \A n \in DOMAIN order : /\ list[n].component = Components[order[n]]
                                 /\ list[n].value = parts[Components[order[n]]]
  BY Zenon DEF Contributions
<1>2. S \subseteq 1..7 /\ IsFiniteSet(S)
  <2>1. S \subseteq 1..7
    BY SevenComponents
  <2>2. IsFiniteSet(1..7)
    BY UptoFinite
  <2>3. QED
    BY <2>1, <2>2, FS_Subset
<1>3. \A i \in S : Heavy(i) \in Int
  BY DEF Range, Abs
<1>4. InOrder(order, S, better)
  <2>1. f \in [S -> Int] /\ g \in [S -> Int]
    BY <1>2, <1>3
  <2>2. KeysDistinguish(S, f, g, g, g)
    BY DEF KeysDistinguish
  <2>3. better \in [S -> SUBSET S]
    OBVIOUS
  <2>4. FirstByKeys(S, better, f, g, g, g)
    <3>1. \A i, j \in S : j \in better[i] <=> Heavy(j) > Heavy(i) \/ (Heavy(j) = Heavy(i) /\ j < i)
      OBVIOUS
    <3>2. \A i \in S : f[i] = Heavy(i) /\ g[i] = i
      OBVIOUS
    <3> HIDE DEF f, g, better, S
    <3>3. QED
      BY <3>1, <3>2 DEF FirstByKeys
  <2>5. ListedBy(order, S, better)
    <3> DEFINE Nth(n) == CHOOSE i \in S : Cardinality({j \in S : Ahead(j, i)}) = n - 1
    <3>1. order = [n \in 1..Cardinality(S) |-> Nth(n)]
      BY DEF Ordered
    <3>2. \A i \in S : better[i] = {j \in S : Ahead(j, i)}
      OBVIOUS
    <3> HIDE DEF better, S, order, Nth
    <3>3. ASSUME NEW n \in 1..Cardinality(S)
          PROVE  order[n] = CHOOSE i \in S : Cardinality(better[i]) = n - 1
      <4>1. order[n] = CHOOSE i \in S : Cardinality({j \in S : Ahead(j, i)}) = n - 1
        BY <3>1 DEF Nth
      <4>2. QED
        BY <3>2, <4>1
    <3>4. order = [n \in 1..Cardinality(S) |-> order[n]]
      BY <3>1
    <3>5. QED
      BY <3>3, <3>4 DEF ListedBy
  <2> HIDE DEF f, g, better, S, order
  <2>6. StrictOrder(S, better)
    BY <2>1, <2>2, <2>3, <2>4, KeysOrder
  <2>7. QED
    BY <1>2, <2>5, <2>6, ListInOrder
<1>5. /\ \A n \in DOMAIN order : order[n] \in S
      /\ \A i \in S : \E n \in DOMAIN order : order[n] = i
  <2> HIDE DEF order, S, better
  <2>1. QED
    BY <1>4 DEF InOrder
<1>6. /\ \A i \in S : Components[i] \in Range(Components) /\ parts[Components[i]] # 0
      /\ \A c \in Range(Components) : parts[c] # 0 => \E i \in S : Components[i] = c
  BY DEF Range
<1> HIDE DEF list, order, S
<1>7. QED
  BY <1>1, <1>5, <1>6 DEF list

(* What is told and what counts agree for one user and one event.          *)
ToldFits(user, event, told, list) ==
  LET adds(c) == {list[i].value : i \in {n \in DOMAIN list : list[n].component = c}}
      liked == {t \in event.topics : WeightOf(user, t) > 0}
  IN /\ "disliked" \in told <=> event.topics \cap user.anti # {}
     /\ TopicsOf(user) \cap Disliked(user, event) = {}
     /\ liked # {} => "topics" \in told
     /\ (\E n \in adds("rule") : n < 0) => "disliked" \in told
     /\ "goals" \in told <=> adds("skill_gap") # {}
     /\ {"close", "very close"} \cap told # {} => adds("cosine") # {}
     /\ "popular" \in told =>
          (user.interests \cup user.gaps) \cap event.topics \subseteq user.anti

LEMMA ToldAgrees ==
  ASSUME Weight["cosine"] >= 3, Weight["skill_gap"] >= 2,
         NEW user, IsUser(user), NEW event, IsScored(event), NEW closeness \in Closenesses,
         NEW told, told = ExplainMatch(user, event, closeness),
         NEW list, list = Contributions(Breakdown(user, event, closeness))
  PROVE  ToldFits(user, event, told, list)
<1> DEFINE parts == Breakdown(user, event, closeness)
           adds(c) == {list[i].value : i \in {n \in DOMAIN list : list[n].component = c}}
<1>1. /\ \A c \in Range(Components) : parts[c] \in Int
      /\ parts["rule"] = Weight["rule"] * RuleScore(user, event)
      /\ parts["cosine"] = (Weight["cosine"] * closeness) \div 10
      /\ parts["skill_gap"] = (Weight["skill_gap"] * SkillGapHalves(user, event)) \div 2
  BY PartsAreWhole
<1>2. /\ \A n \in DOMAIN list : /\ list[n].value = parts[list[n].component]
                                /\ list[n].value # 0
      /\ \A c \in Range(Components) : parts[c] # 0 => \E n \in DOMAIN list : list[n].component = c
  <2> HIDE DEF parts
  <2>1. QED
    BY <1>1, ContributionsAre DEF parts
<1> HIDE DEF parts
<1>3. /\ Weight["rule"] \in Nat /\ Weight["cosine"] \in Nat /\ Weight["skill_gap"] \in Nat
      /\ "cosine" \in Range(Components) /\ "skill_gap" \in Range(Components)
  BY SevenComponents, ScoringAssumption
<1>4. /\ "disliked" \in told <=> Disliked(user, event) # {}
      /\ "topics" \in told <=> TopicsOf(user) \cap event.topics # {}
      /\ "goals" \in told <=> SkillGapMatches(user, event) # {}
      /\ {"close", "very close"} \cap told # {} => closeness >= 4
      /\ "popular" \in told => "topics" \notin told /\ "goals" \notin told
  <2> DEFINE reasons == Reasons(user, event, closeness)
  <2>1. told = IF reasons \subseteq {"disliked"} THEN reasons \cup {"popular"} ELSE reasons
    BY DEF ExplainMatch
  <2>2. /\ "disliked" \in reasons <=> Disliked(user, event) # {}
        /\ "topics" \in reasons <=> TopicsOf(user) \cap event.topics # {}
        /\ "goals" \in reasons <=> SkillGapMatches(user, event) # {}
        /\ "close" \in reasons \/ "very close" \in reasons => closeness >= 4
        /\ "popular" \notin reasons
    BY DEF Reasons, Closenesses, Close, VeryClose
  <2> HIDE DEF reasons
  <2>3. QED
    BY <2>1, <2>2
<1>5. \A t \in event.topics : t \in Disliked(user, event) <=> t \in user.anti
  BY WeightsAre DEF Disliked
<1>6. Disliked(user, event) = event.topics \cap user.anti
  BY <1>5 DEF Disliked
<1>7. (\E n \in adds("rule") : n < 0) => "disliked" \in told
  <2> SUFFICES ASSUME NEW n \in DOMAIN list, list[n].component = "rule", list[n].value < 0
               PROVE  "disliked" \in told
    OBVIOUS
  <2>1. Weight["rule"] * RuleScore(user, event) < 0
    BY <1>1, <1>2
  <2>2. RuleScore(user, event) \in Int
    BY RuleSpeaksOfTopics
  <2>3. \A m \in Nat : \A k \in Int : m * k < 0 => k < 0
    OBVIOUS
  <2>4. RuleScore(user, event) < 0
    BY <1>3, <2>1, <2>2, <2>3
  <2>5. QED
    BY <1>4, <2>4, RuleSpeaksOfTopics
<1>8. "goals" \in told <=> adds("skill_gap") # {}
  <2> PICK h \in 0..2 : h = SkillGapHalves(user, event)
    BY HalvesAre
  <2> PICK w \in Nat : w = Weight["skill_gap"]
    BY <1>3
  <2>1. h = 0 <=> SkillGapMatches(user, event) = {}
    BY HalvesAre
  <2>2. parts["skill_gap"] = (w * h) \div 2
    BY <1>1
  <2>3. parts["skill_gap"] # 0 <=> h # 0
    <3>1. CASE h = 0
      BY <2>2, <3>1
    <3>2. CASE h = 1
      BY <2>2, <3>2
    <3>3. CASE h = 2
      BY <2>2, <3>3
    <3>4. QED
      BY <3>1, <3>2, <3>3
  <2>4. adds("skill_gap") # {} <=> parts["skill_gap"] # 0
    BY <1>2, <1>3
  <2>5. QED
    BY <1>4, <2>1, <2>3, <2>4
<1>9. {"close", "very close"} \cap told # {} => adds("cosine") # {}
  <2> SUFFICES ASSUME closeness >= 4 PROVE adds("cosine") # {}
    BY <1>4
  <2> PICK w \in Nat : w = Weight["cosine"]
    BY <1>3
  <2>1. closeness \in {4, 6}
    BY DEF Closenesses
  <2>2. (w * closeness) \div 10 # 0
    <3>1. CASE closeness = 4
      BY <3>1
    <3>2. CASE closeness = 6
      BY <3>2
    <3>3. QED
      BY <2>1, <3>1, <3>2
  <2>3. parts["cosine"] # 0
    BY <1>1, <2>2
  <2>4. QED
    BY <1>2, <1>3, <2>3
<1>10. /\ TopicsOf(user) \cap Disliked(user, event) = {}
       /\ {t \in event.topics : WeightOf(user, t) > 0} # {} => "topics" \in told
  BY <1>4, <1>6, WeightsAre DEF TopicsOf
<1>11. "popular" \in told => (user.interests \cup user.gaps) \cap event.topics \subseteq user.anti
  BY <1>4 DEF TopicsOf, SkillGapMatches
<1> HIDE DEF adds
<1>12. QED
  BY <1>4, <1>6, <1>7, <1>8, <1>9, <1>10, <1>11 DEF adds, ToldFits

(* What an explanation is made of.                                         *)
ExplainedInv ==
  use = "explain" /\ answer # <<>> =>
    \E user \in Users \cup {NoUser}, event \in Features, closeness \in Closenesses, source \in {"llm", "description"} :
      /\ found = <<[user |-> user, event |-> event, closeness |-> closeness]>>
      /\ answer = <<[source |-> source, why |-> Personal(user, event, closeness)]>>

LEMMA ExplainedStep ==
  ASSUME ExplainedInv, [RetrievalNext]_retrievalVars
  PROVE  ExplainedInv'
<1>1. CASE ExplainEvent
  <2>1. PICK user \in Users \cup {NoUser}, event \in Features, closeness \in Closenesses :
          /\ found' = <<[user |-> user, event |-> event, closeness |-> closeness]>>
          /\ \E kept, with_summary \in BOOLEAN :
               \E source \in IF with_summary THEN Summaries(kept) ELSE {"description"} :
                 answer' = <<[source |-> source, why |-> Personal(user, event, closeness)]>>
    BY <1>1 DEF ExplainEvent
  <2>2. \E source \in {"llm", "description"} :
          answer' = <<[source |-> source, why |-> Personal(user, event, closeness)]>>
    BY <2>1 DEF Summaries
  <2>3. QED
    BY <2>1, <2>2 DEF ExplainedInv
<1>2. CASE UNCHANGED <<use, found, answer>>
  BY <1>2 DEF ExplainedInv
<1>3. CASE UNCHANGED use /\ use # "explain"
  BY <1>3 DEF ExplainedInv
<1>4. CASE Fetch
  BY <1>3, <1>4 DEF Fetch, facts
<1>5. CASE UNCHANGED use /\ answer' = <<>>
  BY <1>5 DEF ExplainedInv
<1>6. ASSUME NEW q \in Requests,
             \/ \E p \in Phrases : Ask(q, p) \/ SearchFilters(q, p)
             \/ LlmAnswers(q) \/ LlmFails(q)
             \/ Strict(q) \/ TextSearch(q) \/ SemanticSearch(q) \/ Fuse(q) \/ Relax(q) \/ SendAnswer(q)
      PROVE  UNCHANGED <<use, found, answer>>
  BY <1>6 DEF Ask, SearchFilters, LlmAnswers, LlmFails, Strict, TextSearch, SemanticSearch, Fuse,
              Relax, SendAnswer, facts, lists
<1>7. QED
  BY <1>1, <1>2, <1>3, <1>4, <1>5, <1>6
  DEF RetrievalNext, retrievalVars, facts, lists, Arrive, Expire, Midnight, FindNear, Find,
      SimilarEvents, FindCandidate, RankCandidates, Announce

(* What a user is told about an event is what has moved it, whatever the   *)
(* user has said of the topics, done with events about them, and wants,    *)
(* as long as similarity and goals count for anything: their weights may   *)
(* be set to nothing, and the reason is given all the same.                *)
THEOREM ToldIsWhatCounts ==
  ASSUME Weight["cosine"] >= 3, Weight["skill_gap"] >= 2
  PROVE  RetrievalSpec => []ToldIsScored
<1>1. RetrievalInit => ExplainedInv
  BY DEF RetrievalInit, ExplainedInv
<1>2. ExplainedInv /\ [RetrievalNext]_retrievalVars => ExplainedInv'
  BY ExplainedStep
<1>3. ExplainedInv => ToldIsScored
  <2> SUFFICES ASSUME ExplainedInv, use = "explain", answer # <<>>, found[1].user # NoUser
               PROVE  ToldIsScored
    BY DEF ToldIsScored
  <2>1. PICK user \in Users \cup {NoUser}, event \in Features, closeness \in Closenesses,
             source \in {"llm", "description"} :
          /\ found = <<[user |-> user, event |-> event, closeness |-> closeness]>>
          /\ answer = <<[source |-> source, why |-> Personal(user, event, closeness)]>>
    BY DEF ExplainedInv
  <2>2. /\ found[1].user = user /\ found[1].event = event
        /\ answer[1].why = Personal(user, event, closeness)
    BY <2>1
  <2>3. user \in Users /\ user # NoUser
    BY <2>2
  <2>4. IsUser(user) /\ IsScored(event)
    BY <2>3, RetrievalAssumption
  <2> DEFINE told == ExplainMatch(user, event, closeness)
             list == Contributions(Breakdown(user, event, closeness))
  <2>5. answer[1].why.reasons = told /\ answer[1].why.parts = list
    BY <2>2, <2>3 DEF Personal
  <2>6. /\ told = ExplainMatch(user, event, closeness)
        /\ list = Contributions(Breakdown(user, event, closeness))
    OBVIOUS
  <2> HIDE DEF told, list
  <2>7. ToldFits(user, event, told, list)
    BY <2>4, <2>6, ToldAgrees
  <2>8. ToldFits(found[1].user, found[1].event, answer[1].why.reasons, answer[1].why.parts)
    BY <2>2, <2>5, <2>7
  <2>9. QED
    BY <2>8 DEF ToldIsScored, ToldFits
<1>4. QED
  BY <1>1, <1>2, <1>3, PTL DEF RetrievalSpec

-----------------------------------------------------------------------------
(* The feeds of a source.                                                  *)

LEMMA UptoMax ==
  ASSUME NEW k \in Nat \ {0}
  PROVE  Max(1..k) = k /\ (1..k) \ {k} = 1..k - 1 /\ 1..k # {}
<1>1. k \in 1..k /\ \A y \in 1..k : k >= y
  OBVIOUS
<1>2. Max(1..k) \in 1..k /\ \A y \in 1..k : Max(1..k) >= y
  BY <1>1 DEF Max
<1>3. Max(1..k) = k
  BY <1>1, <1>2
<1>4. QED
  BY <1>1, <1>3

LEMMA MaxOfPlaces ==
  ASSUME NEW n \in Nat
  PROVE  [s \in (SUBSET (1..n)) \ {{}} |-> Max(s)] \in [(SUBSET (1..n)) \ {{}} -> 1..n]
         /\ \A s \in SUBSET (1..n) : s # {} => Max(s) \in s
<1>1. ASSUME NEW s \in SUBSET (1..n), s # {}
      PROVE  Max(s) \in s
  <2>1. IsFiniteSet(1..n) /\ s \subseteq 1..n
    BY <1>1, UptoFinite
  <2>2. IsFiniteSet(s)
    BY <2>1, FS_Subset
  <2>3. s \in SUBSET Int
    BY <2>1
  <2>4. QED
    BY <1>1, <2>2, <2>3, MaxIs
<1>2. QED
  BY <1>1

LEMMA InjectiveCount ==
  ASSUME NEW L, NEW list \in Seq(L), IsInjective(list)
  PROVE  IsFiniteSet(Range(list)) /\ Cardinality(Range(list)) = Len(list)
<1> DEFINE D == 1..Len(list)
<1>1. Len(list) \in Nat /\ DOMAIN list = D /\ list \in [D -> Range(list)]
  BY DEF Range
<1>2. IsFiniteSet(D) /\ Cardinality(D) = Len(list)
  BY <1>1, UptoFinite
<1>3. list \in Surjection(D, Range(list)) /\ list \in Injection(D, Range(list))
  BY <1>1 DEF Surjection, Injection, Range
<1> HIDE DEF D
<1>4. QED
  BY <1>2, <1>3, FS_Surjection

(* One more entry of a feed.                                               *)
Entered(out, entry, most, limit) ==
  IF \/ Len(out) >= most \/ Len(out) >= limit
     \/ ~Usable(entry) \/ entry.link \in Range(out)
  THEN out ELSE Append(out, entry.link)

(* h[k]: what k entries of a feed make of the drafts.                      *)
EntriesRun(h, drafts, feed, share, limit) ==
  /\ h[0] = drafts
  /\ \A k \in 1..Len(feed) : h[k] = Entered(h[k - 1], feed[k], Len(drafts) + share, limit)
  /\ Entries(drafts, feed, share, limit) = h[Len(feed)]

LEMMA EntriesAre ==
  ASSUME NEW L, NEW drafts \in Seq(L), NEW feed \in Seq([title : BOOLEAN, link : L]),
         NEW share \in Nat, NEW limit \in Nat
  PROVE  \E h \in [0..Len(feed) -> Seq(L)] : EntriesRun(h, drafts, feed, share, limit)
<1> DEFINE N == Len(feed)
           D == 1..N
           A == Seq(L)
           Step(out, k) == Entered(out, feed[k], Len(drafts) + share, limit)
           c == [s \in (SUBSET D) \ {{}} |-> Max(s)]
           F == [k \in D |-> [out \in A |-> Step(out, k)]]
           Is(g) == g = [s \in SUBSET D |-> IF s = {} THEN drafts ELSE Step(g[s \ {Max(s)}], Max(s))]
           g == CHOOSE it : Is(it)
<1>1. N \in Nat /\ DOMAIN feed = D /\ IsFiniteSet(D) /\ drafts \in A
  BY UptoFinite
<1>2. \A k \in D : \A out \in A : Step(out, k) \in A
  <2>1. \A k \in D : feed[k].link \in L
    <3>1. ASSUME NEW k \in D
          PROVE  feed[k].link \in L
      <4> DEFINE C == [title : BOOLEAN, link : L]
      <4>1. \A card \in C : card.link \in L
        OBVIOUS
      <4>2. feed \in Seq(C) /\ k \in 1..Len(feed)
        OBVIOUS
      <4> HIDE DEF C
      <4>3. feed[k] \in C
        BY <4>2
      <4>4. QED
        BY <4>1, <4>3
    <3>2. QED
      BY <3>1
  <2>2. \A k \in D : \A out \in A : Append(out, feed[k].link) \in A
    BY <2>1
  <2>3. QED
    BY <2>2 DEF Entered
<1>3. Entries(drafts, feed, share, limit) = g[D]
  BY <1>1 DEF Entries, FoldLeft, MapThenFoldSet, Entered
<1>4. /\ c \in [(SUBSET D) \ {{}} -> D] /\ \A s \in SUBSET D : s # {} => c[s] = Max(s) /\ c[s] \in s
      /\ \A s \in SUBSET D : s # {} => Max(s) \in D /\ Max(s) \in s
  BY <1>1, MaxOfPlaces
<1> HIDE DEF Step, c, N, D, A
<1>5. F \in [D -> [A -> A]] /\ \A k \in D : \A out \in A : F[k][out] = Step(out, k)
  BY <1>2
<1> HIDE DEF F
<1>6. PICK f \in [SUBSET D -> A] : Folds(f, D, drafts, F, c)
  BY <1>1, <1>4, <1>5, FoldExists
<1>7. Is(f)
  <2>1. \A s \in SUBSET D : s # {} => f[s \ {Max(s)}] \in A
    OBVIOUS
  <2>2. ASSUME NEW s \in SUBSET D
        PROVE  f[s] = IF s = {} THEN drafts ELSE Step(f[s \ {Max(s)}], Max(s))
    <3>1. CASE s = {}
      BY <1>6, <3>1 DEF Folds
    <3>2. CASE s # {}
      <4>1. f[s] = F[c[s]][f[s \ {c[s]}]] /\ c[s] = Max(s) /\ Max(s) \in D
        BY <1>4, <1>6, <3>2 DEF Folds
      <4>2. QED
        BY <1>5, <2>1, <3>2, <4>1
    <3>3. QED
      BY <3>1, <3>2
  <2>3. f = [s \in SUBSET D |-> f[s]]
    OBVIOUS
  <2>4. QED
    BY <2>2, <2>3
<1>8. Is(g)
  <2> HIDE DEF Is
  <2>1. QED
    BY <1>7
<1> HIDE DEF g
<1>9. \A s \in SUBSET D : g[s] = IF s = {} THEN drafts ELSE Step(g[s \ {Max(s)}], Max(s))
  BY <1>8
<1> HIDE DEF Is
<1> DEFINE h == [k \in 0..N |-> g[1..k]]
<1>10. h[0] = drafts
  <2>1. 1..0 = {} /\ {} \in SUBSET D /\ 0 \in 0..N
    BY <1>1
  <2>2. QED
    BY <1>9, <2>1
<1>11. ASSUME NEW k \in 1..N
       PROVE  h[k] = Step(h[k - 1], k)
  <2>1. k \in Nat \ {0} /\ k \in 0..N /\ k - 1 \in 0..N /\ 1..k \in SUBSET D
    BY <1>1 DEF D
  <2>2. Max(1..k) = k /\ (1..k) \ {k} = 1..k - 1 /\ 1..k # {}
    BY <2>1, UptoMax
  <2>3. g[1..k] = Step(g[1..k - 1], k)
    BY <1>9, <2>1, <2>2
  <2>4. QED
    BY <2>1, <2>3
<1>12. h[N] = g[D]
  BY <1>1 DEF D
<1>13. DOMAIN h = 0..N /\ h = [k \in 0..N |-> h[k]]
  OBVIOUS
<1> HIDE DEF h
<1> DEFINE T == {k \in Nat : k \in 0..N => h[k] \in A}
<1>14. 0 \in T
  BY <1>1, <1>10
<1>15. ASSUME NEW k \in Nat, k \in T
       PROVE  k + 1 \in T
  <2> SUFFICES ASSUME k + 1 \in 0..N PROVE h[k + 1] \in A
    OBVIOUS
  <2>1. k \in 0..N /\ k + 1 \in 1..N /\ (k + 1) - 1 = k
    BY <1>1
  <2>2. h[k + 1] = Step(h[k], k + 1)
    BY <1>11, <2>1
  <2>3. QED
    BY <1>2, <1>15, <2>1, <2>2 DEF D
<1> HIDE DEF T
<1>16. Nat \subseteq T
  BY <1>14, <1>15, Induction
<1>17. \A k \in 0..N : h[k] \in A
  BY <1>1, <1>16 DEF T
<1>18. h \in [0..N -> A]
  BY <1>13, <1>17
<1>19. EntriesRun(h, drafts, feed, share, limit)
  BY <1>3, <1>10, <1>11, <1>12 DEF N, Step, EntriesRun
<1>20. QED
  BY <1>18, <1>19 DEF N, A

LEMMA AppendNew ==
  ASSUME NEW L, NEW list \in Seq(L), NEW x \in L, x \notin Range(list), IsInjective(list)
  PROVE  /\ Append(list, x) \in Seq(L) /\ Len(Append(list, x)) = Len(list) + 1
         /\ Range(Append(list, x)) = Range(list) \cup {x}
         /\ IsInjective(Append(list, x))
<1> DEFINE out == Append(list, x)
           n == Len(list)
<1>1. /\ n \in Nat /\ DOMAIN list = 1..n /\ out \in Seq(L) /\ Len(out) = n + 1
      /\ DOMAIN out = 1..n + 1
      /\ \A i \in 1..n : out[i] = list[i]
      /\ out[n + 1] = x
  OBVIOUS
<1> HIDE DEF out, n
<1>2. 1..n + 1 = (1..n) \cup {n + 1} /\ n + 1 \notin 1..n
  BY <1>1
<1>3. \A i \in 1..n : list[i] # x
  BY <1>1 DEF Range
<1>4. Range(out) = Range(list) \cup {x}
  BY <1>1, <1>2 DEF Range
<1>5. ASSUME NEW i \in DOMAIN out, NEW j \in DOMAIN out, out[i] = out[j]
      PROVE  i = j
  <2>1. CASE i = n + 1 \/ j = n + 1
    BY <1>1, <1>2, <1>3, <1>5, <2>1
  <2>2. CASE i \in 1..n /\ j \in 1..n
    BY <1>1, <1>5, <2>2 DEF IsInjective
  <2>3. QED
    BY <1>1, <1>2, <2>1, <2>2
<1>6. IsInjective(out)
  BY <1>5 DEF IsInjective
<1>7. QED
  BY <1>1, <1>4, <1>6 DEF out, n

(* What may lead somewhere of the first k entries of a feed.               *)
LinksUpto(feed, k) == {feed[i].link : i \in {n \in 1..k : Usable(feed[n])}}

(* out is drafts and what k entries of a feed add.                         *)
Filled(drafts, links, share, limit, out) ==
  /\ IsInjective(out)
  /\ Len(drafts) <= Len(out) /\ Len(out) <= limit /\ Len(out) <= Len(drafts) + share
  /\ Range(drafts) \subseteq Range(out) /\ Range(out) \subseteq Range(drafts) \cup links
  /\ Len(out) = limit \/ Len(out) = Len(drafts) + share \/ links \subseteq Range(out)

LEMMA OneMoreLink ==
  ASSUME NEW feed, NEW k \in Nat
  PROVE  LinksUpto(feed, k + 1) =
           LinksUpto(feed, k) \cup (IF Usable(feed[k + 1]) THEN {feed[k + 1].link} ELSE {})
<1>1. 1..k + 1 = (1..k) \cup {k + 1}
  OBVIOUS
<1>2. QED
  BY <1>1 DEF LinksUpto

LEMMA EnteredFills ==
  ASSUME NEW L, NEW drafts \in Seq(L), NEW feed, NEW k \in Nat, feed[k + 1].link \in L,
         NEW share \in Nat, NEW limit \in Nat, NEW out \in Seq(L),
         Filled(drafts, LinksUpto(feed, k), share, limit, out)
  PROVE  Filled(drafts, LinksUpto(feed, k + 1), share, limit,
                Entered(out, feed[k + 1], Len(drafts) + share, limit))
<1> DEFINE card == feed[k + 1]
           links == LinksUpto(feed, k)
           more == LinksUpto(feed, k + 1)
<1>1. more = links \cup (IF Usable(card) THEN {card.link} ELSE {})
  BY OneMoreLink
<1>2. Len(out) \in Nat /\ Len(drafts) \in Nat
  OBVIOUS
<1> HIDE DEF links, more, card
<1>3. Filled(drafts, links, share, limit, out) /\ card.link \in L
  BY DEF links, card
<1>4. CASE \/ Len(out) >= Len(drafts) + share \/ Len(out) >= limit
           \/ ~Usable(card) \/ card.link \in Range(out)
  <2>1. Entered(out, card, Len(drafts) + share, limit) = out
    BY <1>4 DEF Entered
  <2>2. Filled(drafts, more, share, limit, out)
    BY <1>1, <1>2, <1>3, <1>4 DEF Filled
  <2>3. QED
    BY <2>1, <2>2 DEF more, card
<1>5. CASE ~(\/ Len(out) >= Len(drafts) + share \/ Len(out) >= limit
             \/ ~Usable(card) \/ card.link \in Range(out))
  <2> DEFINE longer == Append(out, card.link)
  <2>1. Entered(out, card, Len(drafts) + share, limit) = longer
    BY <1>5 DEF Entered
  <2>2. IsInjective(out) /\ card.link \notin Range(out)
    BY <1>3, <1>5 DEF Filled
  <2>3. /\ Len(longer) = Len(out) + 1 /\ Range(longer) = Range(out) \cup {card.link}
        /\ IsInjective(longer)
    BY <1>3, <2>2, AppendNew
  <2> HIDE DEF longer
  <2>4. more = links \cup {card.link}
    BY <1>1, <1>5
  <2>5. ~(Len(out) >= Len(drafts) + share) /\ ~(Len(out) >= limit)
    BY <1>5
  <2>6. /\ Len(drafts) <= Len(longer) /\ Len(longer) <= limit
        /\ Len(longer) <= Len(drafts) + share
    BY <1>2, <1>3, <2>3, <2>5 DEF Filled
  <2>7. links \subseteq Range(out)
    BY <1>2, <1>3, <2>5 DEF Filled
  <2>8. /\ Range(drafts) \subseteq Range(longer) /\ Range(longer) \subseteq Range(drafts) \cup more
        /\ more \subseteq Range(longer)
    BY <1>3, <2>3, <2>4, <2>7 DEF Filled
  <2>9. Filled(drafts, more, share, limit, longer)
    BY <2>3, <2>6, <2>8 DEF Filled
  <2>10. QED
    BY <2>1, <2>9 DEF more, card
<1>6. QED
  BY <1>4, <1>5

LEMMA EntriesFill ==
  ASSUME NEW L, NEW drafts \in Seq(L), IsInjective(drafts), NEW feed \in Seq([title : BOOLEAN, link : L]),
         NEW share \in Nat, NEW limit \in Nat, Len(drafts) <= limit
  PROVE  /\ Entries(drafts, feed, share, limit) \in Seq(L)
         /\ Filled(drafts, LinksOf(feed), share, limit, Entries(drafts, feed, share, limit))
<1> DEFINE N == Len(feed)
           most == Len(drafts) + share
<1>1. PICK h \in [0..N -> Seq(L)] :
        /\ h[0] = drafts
        /\ \A k \in 1..N : h[k] = Entered(h[k - 1], feed[k], most, limit)
        /\ Entries(drafts, feed, share, limit) = h[N]
  <2>1. \E h \in [0..N -> Seq(L)] : EntriesRun(h, drafts, feed, share, limit)
    BY EntriesAre
  <2>2. QED
    BY <2>1 DEF EntriesRun
<1>2. \A k \in 1..N : feed[k].link \in L
  <2> DEFINE C == [title : BOOLEAN, link : L]
  <2>1. \A card \in C : card.link \in L
    OBVIOUS
  <2>2. feed \in Seq(C)
    OBVIOUS
  <2> HIDE DEF C
  <2>3. \A k \in 1..N : feed[k] \in C
    BY <2>2
  <2>4. QED
    BY <2>1, <2>3
<1>3. LinksOf(feed) = LinksUpto(feed, N) /\ N \in Nat
  BY DEF LinksOf, LinksUpto
<1> HIDE DEF N
<1> DEFINE T == {k \in Nat : k \in 0..N => Filled(drafts, LinksUpto(feed, k), share, limit, h[k])}
<1>4. 0 \in T
  <2>1. LinksUpto(feed, 0) = {}
    BY DEF LinksUpto
  <2>2. Len(drafts) \in Nat
    OBVIOUS
  <2>3. Filled(drafts, {}, share, limit, drafts)
    BY <2>2 DEF Filled
  <2>4. QED
    BY <1>1, <2>1, <2>3
<1>5. ASSUME NEW k \in Nat, k \in T
      PROVE  k + 1 \in T
  <2> SUFFICES ASSUME k + 1 \in 0..N
               PROVE  Filled(drafts, LinksUpto(feed, k + 1), share, limit, h[k + 1])
    OBVIOUS
  <2>1. k \in 0..N /\ k + 1 \in 1..N /\ (k + 1) - 1 = k
    BY <1>3
  <2>2. h[k + 1] = Entered(h[k], feed[k + 1], most, limit) /\ h[k] \in Seq(L)
    BY <1>1, <2>1
  <2>3. feed[k + 1].link \in L
    BY <1>2, <2>1
  <2>4. Filled(drafts, LinksUpto(feed, k), share, limit, h[k])
    BY <1>5, <2>1
  <2>5. QED
    BY <2>2, <2>3, <2>4, EnteredFills
<1> HIDE DEF T
<1>6. N \in T
  BY <1>3, <1>4, <1>5, Induction
<1>7. N \in 0..N
  BY <1>3
<1>8. QED
  BY <1>1, <1>3, <1>6, <1>7 DEF T

(* A feed for which there is room has its share, or all of it.             *)
LEMMA RoomForFeed ==
  ASSUME NEW L, NEW drafts \in Seq(L), IsInjective(drafts), NEW feed \in Seq([title : BOOLEAN, link : L]),
         NEW share \in Nat, NEW limit \in Nat, Len(drafts) + share <= limit,
         NEW out \in Seq(L), Filled(drafts, LinksOf(feed), share, limit, out)
  PROVE  share <= Cardinality(LinksOf(feed) \cap Range(out)) \/ LinksOf(feed) \subseteq Range(out)
<1> DEFINE links == LinksOf(feed)
           had == Range(drafts)
           has == Range(out)
<1> SUFFICES ASSUME ~(links \subseteq has)
             PROVE  share <= Cardinality(links \cap has)
  OBVIOUS
<1>1. Len(out) \in Nat /\ Len(drafts) \in Nat
  OBVIOUS
<1>2. /\ IsFiniteSet(had) /\ Cardinality(had) = Len(drafts)
      /\ IsFiniteSet(has) /\ Cardinality(has) = Len(out)
  BY InjectiveCount DEF Filled
<1> HIDE DEF links, had, has
<1>3. Filled(drafts, links, share, limit, out) /\ had = Range(drafts) /\ has = Range(out)
  BY DEF links, had, has
<1>4. Len(out) = Len(drafts) + share
  BY <1>1, <1>3 DEF Filled
<1>5. has = had \cup (links \cap has)
  BY <1>3 DEF Filled
<1>6. IsFiniteSet(links \cap has)
  BY <1>2, FS_Subset
<1>7. Cardinality(had \cup (links \cap has)) =
        Cardinality(had) + Cardinality(links \cap has) - Cardinality(had \cap (links \cap has))
  BY <1>2, <1>6, FS_Union
<1>8. IsFiniteSet(had \cap (links \cap has))
  BY <1>2, FS_Subset
<1>9. Cardinality(links \cap has) \in Nat /\ Cardinality(had \cap (links \cap has)) \in Nat
  BY <1>6, <1>8, FS_CardinalityType
<1>10. Cardinality(has) =
         Cardinality(had) + Cardinality(links \cap has) - Cardinality(had \cap (links \cap has))
  <2>1. Cardinality(has) = Cardinality(had \cup (links \cap has))
    BY <1>5
  <2>2. QED
    BY <1>7, <2>1
<1>11. Cardinality(has) = Len(drafts) + share /\ Cardinality(had) = Len(drafts)
  BY <1>2, <1>4
<1>12. QED
  BY <1>1, <1>9, <1>10, <1>11

LEMMA LesserOfTwoNumbers ==
  ASSUME NEW a \in Nat, NEW b \in Nat
  PROVE  Min({a, b}) <= a /\ Min({a, b}) <= b
<1>1. Min({a, b}) \in {a, b} /\ \A y \in {a, b} : Min({a, b}) <= y
  BY MinIs
<1>2. QED
  BY <1>1

(* The share of each of n feeds, when there is a place for each.           *)
LEMMA SharesFit ==
  ASSUME NEW feeds, Len(feeds) \in Nat \ {0}, NEW limit \in Nat \ {0}
  PROVE  /\ PerFeed(feeds, limit) \in Nat \ {0}
         /\ Len(feeds) <= limit =>
              /\ PerFeed(feeds, limit) = limit \div Len(feeds)
              /\ Len(feeds) * PerFeed(feeds, limit) <= limit
<1> DEFINE n == Len(feeds)
           q == limit \div n
           one == 1
<1>1. q \in Nat /\ n * q <= limit /\ limit < n * q + n
  OBVIOUS
<1>2. one \in Nat /\ n \in Nat /\ n >= one /\ one = 1
  OBVIOUS
<1> HIDE DEF one, n
<1>3. Max({one, n}) = n
  BY <1>2, GreaterOfTwo
<1>4. PerFeed(feeds, limit) = Max({one, q})
  BY <1>2, <1>3 DEF PerFeed, n
<1> HIDE DEF q
<1>5. Max({one, q}) = IF one <= q THEN q ELSE one
  BY <1>1, <1>2, GreaterOfTwo
<1>6. n <= limit => q >= 1
  <2> SUFFICES ASSUME n <= limit, q = 0 PROVE FALSE
    BY <1>1
  <2>1. n * q = 0
    BY <1>2
  <2>2. QED
    BY <1>1, <1>2, <2>1
<1>7. PerFeed(feeds, limit) \in Nat \ {0}
  BY <1>1, <1>2, <1>4, <1>5
<1>8. n <= limit => PerFeed(feeds, limit) = q
  BY <1>1, <1>2, <1>4, <1>5, <1>6
<1>9. QED
  BY <1>1, <1>7, <1>8 DEF n, q

(* h[k]: what the first k feeds bring.                                     *)
FetchRun(h, feeds, share, limit) ==
  /\ h[0] = <<>>
  /\ \A k \in 1..Len(feeds) : h[k] = Entries(h[k - 1], feeds[k], share, limit)
  /\ FetchRss(feeds, limit) = h[Len(feeds)]

Feeds(L) == Seq([title : BOOLEAN, link : L])

LEMMA FetchRuns ==
  ASSUME NEW L, NEW feeds \in Seq(Feeds(L)),
         NEW limit \in Nat, NEW share \in Nat, share = PerFeed(feeds, limit),
         \A out \in Seq(L) : \A k \in 1..Len(feeds) : Entries(out, feeds[k], share, limit) \in Seq(L)
  PROVE  \E h \in [0..Len(feeds) -> Seq(L)] : FetchRun(h, feeds, share, limit)
<1> DEFINE N == Len(feeds)
           D == 1..N
           A == Seq(L)
           none == <<>>
           Step(out, k) == Entries(out, feeds[k], share, limit)
           c == [s \in (SUBSET D) \ {{}} |-> Max(s)]
           F == [k \in D |-> [out \in A |-> Step(out, k)]]
           Is(g) == g = [s \in SUBSET D |-> IF s = {} THEN none ELSE Step(g[s \ {Max(s)}], Max(s))]
           g == CHOOSE it : Is(it)
<1>1. N \in Nat /\ DOMAIN feeds = D /\ IsFiniteSet(D) /\ none \in A
  BY UptoFinite
<1>2. \A k \in D : \A out \in A : Step(out, k) \in A
  OBVIOUS
<1>3. FetchRss(feeds, limit) = g[D]
  BY <1>1 DEF FetchRss, FoldLeft, MapThenFoldSet
<1>4. /\ c \in [(SUBSET D) \ {{}} -> D] /\ \A s \in SUBSET D : s # {} => c[s] = Max(s) /\ c[s] \in s
      /\ \A s \in SUBSET D : s # {} => Max(s) \in D /\ Max(s) \in s
  BY <1>1, MaxOfPlaces
<1> HIDE DEF Step, c, N, D, A, none
<1>5. F \in [D -> [A -> A]] /\ \A k \in D : \A out \in A : F[k][out] = Step(out, k)
  BY <1>2
<1> HIDE DEF F
<1>6. PICK f \in [SUBSET D -> A] : Folds(f, D, none, F, c)
  BY <1>1, <1>4, <1>5, FoldExists
<1>7. Is(f)
  <2>1. \A s \in SUBSET D : s # {} => f[s \ {Max(s)}] \in A
    OBVIOUS
  <2>2. ASSUME NEW s \in SUBSET D
        PROVE  f[s] = IF s = {} THEN none ELSE Step(f[s \ {Max(s)}], Max(s))
    <3>1. CASE s = {}
      BY <1>6, <3>1 DEF Folds
    <3>2. CASE s # {}
      <4>1. f[s] = F[c[s]][f[s \ {c[s]}]] /\ c[s] = Max(s) /\ Max(s) \in D
        BY <1>4, <1>6, <3>2 DEF Folds
      <4>2. QED
        BY <1>5, <2>1, <3>2, <4>1
    <3>3. QED
      BY <3>1, <3>2
  <2>3. f = [s \in SUBSET D |-> f[s]]
    OBVIOUS
  <2>4. QED
    BY <2>2, <2>3
<1>8. Is(g)
  <2> HIDE DEF Is
  <2>1. QED
    BY <1>7
<1> HIDE DEF g
<1>9. \A s \in SUBSET D : g[s] = IF s = {} THEN none ELSE Step(g[s \ {Max(s)}], Max(s))
  BY <1>8
<1> HIDE DEF Is
<1> DEFINE h == [k \in 0..N |-> g[1..k]]
<1>10. h[0] = none
  <2>1. 1..0 = {} /\ {} \in SUBSET D /\ 0 \in 0..N
    BY <1>1
  <2>2. QED
    BY <1>9, <2>1
<1>11. ASSUME NEW k \in 1..N
       PROVE  h[k] = Step(h[k - 1], k)
  <2>1. k \in Nat \ {0} /\ k \in 0..N /\ k - 1 \in 0..N /\ 1..k \in SUBSET D
    BY <1>1 DEF D
  <2>2. Max(1..k) = k /\ (1..k) \ {k} = 1..k - 1 /\ 1..k # {}
    BY <2>1, UptoMax
  <2>3. g[1..k] = Step(g[1..k - 1], k)
    BY <1>9, <2>1, <2>2
  <2>4. QED
    BY <2>1, <2>3
<1>12. h[N] = g[D]
  BY <1>1 DEF D
<1>13. DOMAIN h = 0..N /\ h = [k \in 0..N |-> h[k]]
  OBVIOUS
<1> HIDE DEF h
<1> DEFINE T == {k \in Nat : k \in 0..N => h[k] \in A}
<1>14. 0 \in T
  BY <1>1, <1>10
<1>15. ASSUME NEW k \in Nat, k \in T
       PROVE  k + 1 \in T
  <2> SUFFICES ASSUME k + 1 \in 0..N PROVE h[k + 1] \in A
    OBVIOUS
  <2>1. k \in 0..N /\ k + 1 \in 1..N /\ (k + 1) - 1 = k
    BY <1>1
  <2>2. h[k + 1] = Step(h[k], k + 1)
    BY <1>11, <2>1
  <2>3. QED
    BY <1>2, <1>15, <2>1, <2>2 DEF D
<1> HIDE DEF T
<1>16. Nat \subseteq T
  BY <1>14, <1>15, Induction
<1>17. \A k \in 0..N : h[k] \in A
  BY <1>1, <1>16 DEF T
<1>18. h \in [0..N -> A]
  BY <1>13, <1>17
<1>19. FetchRun(h, feeds, share, limit)
  BY <1>3, <1>10, <1>11, <1>12 DEF N, Step, FetchRun, none
<1>20. QED
  BY <1>18, <1>19 DEF N, A

(* The feeds up to k are served by what they bring.                        *)
Fed(feeds, k, share, limit, out) ==
  /\ IsInjective(out) /\ Len(out) <= limit
  /\ Len(feeds) <= limit =>
       /\ Len(out) <= k * share
       /\ \A i \in 1..k : \/ share <= Cardinality(LinksOf(feeds[i]) \cap Range(out))
                          \/ LinksOf(feeds[i]) \subseteq Range(out)

LEMMA OneMoreShare ==
  ASSUME NEW k \in Nat, NEW n \in Nat, k < n, NEW share \in Nat, NEW limit \in Nat, n * share <= limit
  PROVE  k * share + share = (k + 1) * share /\ k * share + share <= limit
<1>1. PICK m \in Nat : n = k + 1 + m
  <2>1. n - k - 1 \in Nat /\ n = k + 1 + (n - k - 1)
    OBVIOUS
  <2>2. QED
    BY <2>1
<1>2. k * share \in Nat /\ m * share \in Nat
  OBVIOUS
<1>3. n * share = k * share + share + m * share
  BY <1>1
<1>4. QED
  BY <1>2, <1>3

LEMMA OneMoreFeed ==
  ASSUME NEW L, NEW feeds \in Seq(Feeds(L)), NEW limit \in Nat \ {0}, NEW share \in Nat,
         Len(feeds) <= limit => Len(feeds) * share <= limit,
         NEW k \in Nat, k < Len(feeds), NEW out \in Seq(L), Fed(feeds, k, share, limit, out)
  PROVE  /\ Entries(out, feeds[k + 1], share, limit) \in Seq(L)
         /\ Fed(feeds, k + 1, share, limit, Entries(out, feeds[k + 1], share, limit))
<1> DEFINE feed == feeds[k + 1]
           more == Entries(out, feed, share, limit)
           n == Len(feeds)
<1>1. n \in Nat /\ k < n /\ Len(out) \in Nat /\ k + 1 \in 1..n
  OBVIOUS
<1>2. feed \in Feeds(L)
  <2> DEFINE C == Feeds(L)
  <2>1. feeds \in Seq(C)
    OBVIOUS
  <2> HIDE DEF C
  <2>2. QED
    BY <1>1, <2>1 DEF n, feed
<1> HIDE DEF n, feed
<1>3. feed \in Seq([title : BOOLEAN, link : L]) /\ IsInjective(out) /\ Len(out) <= limit
  BY <1>2 DEF Feeds, Fed
<1>4. more \in Seq(L) /\ Filled(out, LinksOf(feed), share, limit, more)
  BY <1>3, EntriesFill
<1>5. IsInjective(more) /\ Len(more) <= limit /\ Len(more) <= Len(out) + share
      /\ Range(out) \subseteq Range(more)
  BY <1>4 DEF Filled
<1>6. ASSUME n <= limit
      PROVE  /\ Len(more) <= (k + 1) * share
             /\ \A i \in 1..k + 1 : \/ share <= Cardinality(LinksOf(feeds[i]) \cap Range(more))
                                    \/ LinksOf(feeds[i]) \subseteq Range(more)
  <2>1. n * share <= limit
    BY <1>6 DEF n
  <2>2. k * share + share = (k + 1) * share /\ k * share + share <= limit
    BY <1>1, <2>1, OneMoreShare
  <2>3. /\ Len(out) <= k * share
        /\ \A i \in 1..k : \/ share <= Cardinality(LinksOf(feeds[i]) \cap Range(out))
                           \/ LinksOf(feeds[i]) \subseteq Range(out)
    BY <1>6 DEF Fed, n
  <2>4. k * share \in Nat /\ Len(more) \in Nat
    BY <1>4
  <2>5. Len(out) + share <= limit /\ Len(more) <= (k + 1) * share
    BY <1>1, <1>5, <2>2, <2>3, <2>4
  <2>6. \/ share <= Cardinality(LinksOf(feed) \cap Range(more))
        \/ LinksOf(feed) \subseteq Range(more)
    BY <1>3, <1>4, <2>5, RoomForFeed
  <2>7. ASSUME NEW i \in 1..k
        PROVE  \/ share <= Cardinality(LinksOf(feeds[i]) \cap Range(more))
               \/ LinksOf(feeds[i]) \subseteq Range(more)
    <3> DEFINE links == LinksOf(feeds[i])
    <3>1. CASE links \subseteq Range(out)
      BY <1>5, <3>1
    <3>2. CASE share <= Cardinality(links \cap Range(out))
      <4>1. IsFiniteSet(Range(more))
        BY <1>4, <1>5, InjectiveCount
      <4> HIDE DEF links, more
      <4>2. IsFiniteSet(links \cap Range(more))
        BY <4>1, FS_Subset
      <4>3. links \cap Range(out) \in SUBSET (links \cap Range(more))
        BY <1>5
      <4>4. /\ Cardinality(links \cap Range(out)) <= Cardinality(links \cap Range(more))
            /\ IsFiniteSet(links \cap Range(out))
        BY <4>2, <4>3, FS_Subset
      <4>5. /\ Cardinality(links \cap Range(out)) \in Nat
            /\ Cardinality(links \cap Range(more)) \in Nat
        BY <4>2, <4>4, FS_CardinalityType
      <4>6. QED
        BY <3>2, <4>4, <4>5 DEF links
    <3>3. QED
      BY <2>3, <3>1, <3>2
  <2>8. 1..k + 1 = (1..k) \cup {k + 1}
    OBVIOUS
  <2>9. QED
    BY <2>5, <2>6, <2>7, <2>8 DEF feed
<1>7. Fed(feeds, k + 1, share, limit, more)
  BY <1>5, <1>6 DEF Fed, n
<1>8. QED
  BY <1>4, <1>7 DEF feed

LEMMA FeedsAreServed ==
  ASSUME NEW L, NEW feeds \in Seq(Feeds(L)), feeds # <<>>, NEW limit \in Nat \ {0}
  PROVE  /\ FetchRss(feeds, limit) \in Seq(L)
         /\ Fed(feeds, Len(feeds), PerFeed(feeds, limit), limit, FetchRss(feeds, limit))
<1> DEFINE N == Len(feeds)
           share == PerFeed(feeds, limit)
<1>1. N \in Nat \ {0}
  OBVIOUS
<1>2. share \in Nat /\ (N <= limit => N * share <= limit)
  BY <1>1, SharesFit
<1>3. ASSUME NEW out \in Seq(L), NEW k \in 1..N
      PROVE  Entries(out, feeds[k], share, limit) \in Seq(L)
  <2> DEFINE C == Feeds(L)
  <2>1. feeds \in Seq(C)
    OBVIOUS
  <2> HIDE DEF C
  <2>2. feeds[k] \in C
    BY <2>1
  <2> HIDE DEF share
  <2>3. \E h \in [0..Len(feeds[k]) -> Seq(L)] : EntriesRun(h, out, feeds[k], share, limit)
    BY <1>2, <2>2, EntriesAre DEF C, Feeds
  <2>4. Len(feeds[k]) \in Nat
    BY <2>2 DEF C, Feeds
  <2>5. QED
    BY <2>3, <2>4 DEF EntriesRun
<1>4. \E h \in [0..N -> Seq(L)] : FetchRun(h, feeds, share, limit)
  <2> HIDE DEF share
  <2>1. share = PerFeed(feeds, limit)
    BY DEF share
  <2>2. QED
    BY <1>2, <1>3, <2>1, FetchRuns
<1>5. PICK h \in [0..N -> Seq(L)] :
        /\ h[0] = <<>>
        /\ \A k \in 1..N : h[k] = Entries(h[k - 1], feeds[k], share, limit)
        /\ FetchRss(feeds, limit) = h[N]
  BY <1>4 DEF FetchRun
<1> HIDE DEF share
<1> DEFINE T == {k \in Nat : k \in 0..N => Fed(feeds, k, share, limit, h[k])}
<1>6. 0 \in T
  <2> DEFINE none == <<>>
  <2>1. none \in Seq(L) /\ Len(none) = 0 /\ DOMAIN none = {}
    OBVIOUS
  <2>2. 0 * share = 0
    BY <1>2
  <2>3. 1..0 = {}
    OBVIOUS
  <2> HIDE DEF none
  <2>4. IsInjective(none)
    BY <2>1 DEF IsInjective
  <2>5. Fed(feeds, 0, share, limit, none)
    BY <2>1, <2>2, <2>3, <2>4 DEF Fed
  <2>6. QED
    BY <1>5, <2>5 DEF none
<1>7. ASSUME NEW k \in Nat, k \in T
      PROVE  k + 1 \in T
  <2> SUFFICES ASSUME k + 1 \in 0..N
               PROVE  Fed(feeds, k + 1, share, limit, h[k + 1])
    OBVIOUS
  <2>1. k \in 0..N /\ k + 1 \in 1..N /\ (k + 1) - 1 = k /\ k < Len(feeds)
    BY <1>1
  <2>2. h[k + 1] = Entries(h[k], feeds[k + 1], share, limit) /\ h[k] \in Seq(L)
    BY <1>5, <2>1
  <2>3. Fed(feeds, k, share, limit, h[k])
    BY <1>7, <2>1
  <2>4. QED
    BY <1>2, <2>1, <2>2, <2>3, OneMoreFeed
<1> HIDE DEF T
<1>8. N \in T
  BY <1>1, <1>6, <1>7, Induction
<1>9. N \in 0..N
  BY <1>1
<1>10. QED
  BY <1>5, <1>8, <1>9 DEF T, share

(* Nothing is fetched twice, and none of the feeds starves.                *)
LEMMA NoneStarves ==
  ASSUME NEW L, NEW feeds \in Seq(Feeds(L)), feeds # <<>>, NEW limit \in Nat \ {0}
  PROVE  NoFeedStarves(feeds, limit, FetchRss(feeds, limit))
<1> DEFINE out == FetchRss(feeds, limit)
           share == PerFeed(feeds, limit)
<1>1. Len(feeds) \in Nat \ {0}
  OBVIOUS
<1>2. out \in Seq(L) /\ Fed(feeds, Len(feeds), share, limit, out)
  BY FeedsAreServed
<1>3. share \in Nat \ {0} /\ (Len(feeds) <= limit => share = limit \div Len(feeds))
  BY <1>1, SharesFit
<1> HIDE DEF out, share
<1>4. IsInjective(out) /\ Len(out) <= limit
  BY <1>2 DEF Fed
<1>5. ASSUME Len(feeds) <= limit, NEW i \in DOMAIN feeds
      PROVE  Cardinality(LinksOf(feeds[i]) \cap Range(out)) >=
               Min({limit \div Len(feeds), Cardinality(LinksOf(feeds[i]))})
  <2> DEFINE feed == feeds[i]
             links == LinksOf(feed)
             spots == {n \in DOMAIN feed : Usable(feed[n])}
  <2>1. i \in 1..Len(feeds)
    OBVIOUS
  <2>2. \/ share <= Cardinality(links \cap Range(out))
        \/ links \subseteq Range(out)
    BY <1>2, <1>5, <2>1 DEF Fed
  <2>3. IsFiniteSet(links)
    <3> DEFINE C == Feeds(L)
    <3>1. feeds \in Seq(C)
      OBVIOUS
    <3> HIDE DEF C
    <3>2. feed \in C
      BY <3>1
    <3> HIDE DEF feed
    <3>3. Len(feed) \in Nat /\ DOMAIN feed = 1..Len(feed)
      BY <3>2 DEF C, Feeds
    <3>4. IsFiniteSet(DOMAIN feed)
      BY <3>3, UptoFinite
    <3>5. IsFiniteSet(spots)
      BY <3>4, FS_Subset
    <3>6. [n \in spots |-> feed[n].link] \in Surjection(spots, links)
      BY DEF LinksOf, Surjection
    <3>7. QED
      BY <3>5, <3>6, FS_Surjection
  <2>4. Cardinality(links) \in Nat /\ IsFiniteSet(links \cap Range(out))
    BY <2>3, FS_CardinalityType, FS_Subset
  <2>5. Cardinality(links \cap Range(out)) \in Nat
    BY <2>4, FS_CardinalityType
  <2>6. links \subseteq Range(out) => links \cap Range(out) = links
    OBVIOUS
  <2> HIDE DEF links
  <2>7. Min({share, Cardinality(links)}) <= share /\ Min({share, Cardinality(links)}) <= Cardinality(links)
    BY <1>3, <2>4, LesserOfTwoNumbers
  <2>8. Min({share, Cardinality(links)}) \in Nat
    <3>1. Min({share, Cardinality(links)}) \in {share, Cardinality(links)}
      BY <1>3, <2>4, MinIs
    <3>2. QED
      BY <1>3, <2>4, <3>1
  <2>9. Cardinality(links \cap Range(out)) >= Min({share, Cardinality(links)})
    <3>1. CASE share <= Cardinality(links \cap Range(out))
      BY <1>3, <2>5, <2>7, <2>8, <3>1
    <3>2. CASE links \subseteq Range(out)
      <4>1. Cardinality(links \cap Range(out)) = Cardinality(links)
        BY <2>6, <3>2
      <4>2. QED
        BY <2>4, <2>7, <2>8, <4>1
    <3>3. QED
      <4>1. share <= Cardinality(links \cap Range(out)) \/ links \subseteq Range(out)
        BY <2>2 DEF links
      <4>2. QED
        BY <3>1, <3>2, <4>1
  <2>10. QED
    BY <1>3, <1>5, <2>9 DEF links
<1>6. QED
  BY <1>4, <1>5 DEF NoFeedStarves, out

(* What has been fetched, and from where.                                  *)
FetchedInv ==
  use = "fetch" /\ answer # <<>> =>
    \E pages \in Pages, limit \in Fetches : \E source \in Registry(pages) :
      /\ found = <<[source |-> source, pages |-> pages, limit |-> limit]>>
      /\ \E drafts \in Fetched(source, pages, limit) : answer = <<drafts>>

LEMMA FetchedStep ==
  ASSUME FetchedInv, [RetrievalNext]_retrievalVars
  PROVE  FetchedInv'
<1>1. CASE Fetch
  BY <1>1 DEF Fetch, FetchedInv
<1>2. CASE UNCHANGED <<use, found, answer>>
  BY <1>2 DEF FetchedInv
<1>3. CASE UNCHANGED use /\ use # "fetch"
  BY <1>3 DEF FetchedInv
<1>4. CASE ExplainEvent
  BY <1>3, <1>4 DEF ExplainEvent, facts
<1>5. CASE UNCHANGED use /\ answer' = <<>>
  BY <1>5 DEF FetchedInv
<1>6. ASSUME NEW q \in Requests,
             \/ \E p \in Phrases : Ask(q, p) \/ SearchFilters(q, p)
             \/ LlmAnswers(q) \/ LlmFails(q)
             \/ Strict(q) \/ TextSearch(q) \/ SemanticSearch(q) \/ Fuse(q) \/ Relax(q) \/ SendAnswer(q)
      PROVE  UNCHANGED <<use, found, answer>>
  BY <1>6 DEF Ask, SearchFilters, LlmAnswers, LlmFails, Strict, TextSearch, SemanticSearch, Fuse,
              Relax, SendAnswer, facts, lists
<1>7. QED
  BY <1>1, <1>2, <1>3, <1>4, <1>5, <1>6
  DEF RetrievalNext, retrievalVars, facts, lists, Arrive, Expire, Midnight, FindNear, Find,
      SimilarEvents, FindCandidate, RankCandidates, Announce

(* The catalogue agrees with what is announced, as EventsAreAnnouncedOnce  *)
(* says, and of any number of feeds, however long and whatever they repeat *)
(* of one another, each has its share of what is fetched when there is a   *)
(* place for each.                                                         *)
THEOREM CatalogueIsRight == RetrievalSpec => []CatalogueAgrees
<1>1. RetrievalInit => FetchedInv
  BY DEF RetrievalInit, FetchedInv
<1>2. FetchedInv /\ [RetrievalNext]_retrievalVars => FetchedInv'
  BY FetchedStep
<1>3. AnnouncedOnce /\ FetchedInv => CatalogueAgrees
  <2> SUFFICES ASSUME FetchedInv, use = "fetch", answer # <<>>, found[1].source = "rss"
               PROVE  NoFeedStarves(found[1].pages, found[1].limit, answer[1])
    BY DEF CatalogueAgrees
  <2>1. PICK pages \in Pages, limit \in Fetches : \E source \in Registry(pages) :
          /\ found = <<[source |-> source, pages |-> pages, limit |-> limit]>>
          /\ \E drafts \in Fetched(source, pages, limit) : answer = <<drafts>>
    BY DEF FetchedInv
  <2>2. PICK source \in Registry(pages) :
          /\ found = <<[source |-> source, pages |-> pages, limit |-> limit]>>
          /\ \E drafts \in Fetched(source, pages, limit) : answer = <<drafts>>
    BY <2>1
  <2>3. found[1].source = source /\ found[1].pages = pages /\ found[1].limit = limit
    BY <2>2
  <2>4. source = "rss" /\ answer[1] \in Fetched(source, pages, limit)
    BY <2>2, <2>3
  <2>5. pages # <<>>
    BY <2>2, <2>4 DEF Registry
  <2>6. answer[1] = FetchRss(pages, limit)
    BY <2>4 DEF Fetched
  <2> DEFINE L == DOMAIN Address \cup {NoLink}
  <2>7. pages \in Seq(Feeds(L)) /\ limit \in Nat \ {0}
    BY RetrievalAssumption DEF Feeds
  <2> HIDE DEF L
  <2>8. NoFeedStarves(pages, limit, FetchRss(pages, limit))
    BY <2>5, <2>7, NoneStarves
  <2>9. QED
    BY <2>3, <2>6, <2>8
<1>4. QED
  BY <1>1, <1>2, <1>3, EventsAreAnnouncedOnce, PTL DEF RetrievalSpec

-----------------------------------------------------------------------------
(* The feed.                                                               *)

(* h[k]: what k steps of F make of a.                                      *)
Runs(h, a, F, N) == h[0] = a /\ \A k \in 1..N : h[k] = F[h[k - 1]]

LEMMA StepByStep ==
  ASSUME NEW A, NEW a \in A, NEW F \in [A -> A], NEW N \in Nat
  PROVE  \E h \in [0..N -> A] : Runs(h, a, F, N)
<1> DEFINE T == {n \in Nat : \E h \in [0..n -> A] : Runs(h, a, F, n)}
<1>1. 0 \in T
  <2> DEFINE h == [k \in 0..0 |-> a]
  <2>1. h \in [0..0 -> A] /\ h[0] = a /\ 1..0 = {}
    OBVIOUS
  <2> HIDE DEF h
  <2>2. QED
    BY <2>1 DEF Runs
<1>2. ASSUME NEW n \in Nat, n \in T
      PROVE  n + 1 \in T
  <2>1. PICK g \in [0..n -> A] : Runs(g, a, F, n)
    BY <1>2
  <2> DEFINE more == F[g[n]]
             h == [k \in 0..n + 1 |-> IF k = n + 1 THEN more ELSE g[k]]
  <2>2. n \in 0..n /\ g[n] \in A /\ more \in A
    OBVIOUS
  <2> HIDE DEF more
  <2>3. \A k \in 0..n + 1 : k # n + 1 => k \in 0..n
    OBVIOUS
  <2>4. h \in [0..n + 1 -> A]
    BY <2>2, <2>3
  <2>5. h[n + 1] = more /\ \A k \in 0..n : h[k] = g[k]
    OBVIOUS
  <2> HIDE DEF h
  <2>6. 0 \in 0..n /\ h[0] = a
    BY <2>1, <2>5 DEF Runs
  <2>7. ASSUME NEW k \in 1..n + 1
        PROVE  h[k] = F[h[k - 1]]
    <3>1. CASE k = n + 1
      <4>1. k - 1 = n
        BY <3>1
      <4>2. h[k - 1] = g[n] /\ h[k] = F[g[n]]
        BY <2>2, <2>5, <3>1, <4>1 DEF more
      <4>3. QED
        BY <4>2
    <3>2. CASE k # n + 1
      <4>1. k \in 1..n /\ k \in 0..n /\ k - 1 \in 0..n
        BY <3>2
      <4>2. QED
        BY <2>1, <2>5, <4>1 DEF Runs
    <3>3. QED
      BY <3>1, <3>2
  <2>8. Runs(h, a, F, n + 1)
    BY <2>6, <2>7 DEF Runs
  <2>9. QED
    BY <2>4, <2>8
<1> HIDE DEF T
<1>3. N \in T
  BY <1>1, <1>2, Induction
<1>4. QED
  BY <1>3 DEF T

(* Events that are told apart by their id.                                 *)
Candidates(E) ==
  /\ IsFiniteSet(E)
  /\ \A x \in E : /\ x.score \in Int /\ x.id \in Int /\ x.distance \in Nat
                  /\ x.vector \in Vectors \cup {NoVector}
  /\ \A x, y \in E : x.id = y.id => x = y

(* a has the better score, or the same and is the earlier candidate.       *)
Earlier(a, b) == a.score > b.score \/ (a.score = b.score /\ a.id < b.id)

(* Nor is a more similar than b to any other.                              *)
Worthier(E, a, b) ==
  Earlier(a, b) /\ \A c \in E \ {a, b} : Cosine(a, c) <= Cosine(b, c)

Sorted(list) == \A i, j \in DOMAIN list : i < j => Earlier(list[i], list[j])

LEMMA SortedOnce ==
  ASSUME NEW E, Candidates(E), NEW list \in Seq(E), Sorted(list)
  PROVE  /\ IsInjective(list)
         /\ \A i, j \in DOMAIN list : Earlier(list[i], list[j]) => i < j
<1>1. /\ DOMAIN list \subseteq Nat /\ \A i \in DOMAIN list : list[i] \in E
  OBVIOUS
<1>2. \A x, y \in E : ~(Earlier(x, y) /\ Earlier(y, x)) /\ ~Earlier(x, x)
  BY DEF Candidates, Earlier
<1>3. ASSUME NEW i \in DOMAIN list, NEW j \in DOMAIN list
      PROVE  (list[i] = list[j] => i = j) /\ (Earlier(list[i], list[j]) => i < j)
  <2>1. i \in Nat /\ j \in Nat /\ list[i] \in E /\ list[j] \in E
    BY <1>1
  <2>2. i < j => Earlier(list[i], list[j])
    BY DEF Sorted
  <2>3. j < i => Earlier(list[j], list[i])
    BY DEF Sorted
  <2>4. QED
    BY <1>2, <2>1, <2>2, <2>3
<1>4. QED
  BY <1>3 DEF IsInjective

(* A part of a list in order is in order.                                  *)
LEMMA PickInOrder ==
  ASSUME NEW S, NEW list \in Seq(S), NEW I \in SUBSET DOMAIN list,
         NEW m \in DOMAIN Pick(list, I), NEW n \in DOMAIN Pick(list, I), m < n
  PROVE  \E i, j \in I : i < j /\ Pick(list, I)[m] = list[i] /\ Pick(list, I)[n] = list[j]
<1> DEFINE part == Pick(list, I)
<1>1. /\ IsFiniteSet(I) /\ Cardinality(I) \in Nat /\ part \in Seq(S) /\ Len(part) = Cardinality(I)
      /\ \A k \in 1..Cardinality(I) : \E i \in I : Place(I, i) = k /\ part[k] = list[i]
  BY PickProperties
<1>2. I \in SUBSET Nat
  OBVIOUS
<1>3. \A i, j \in I : i < j => Place(I, i) < Place(I, j)
  BY <1>1, <1>2, Places
<1> HIDE DEF part
<1>4. m \in 1..Cardinality(I) /\ n \in 1..Cardinality(I)
  BY <1>1 DEF part
<1>5. PICK i \in I : Place(I, i) = m /\ part[m] = list[i]
  BY <1>1, <1>4
<1>6. PICK j \in I : Place(I, j) = n /\ part[n] = list[j]
  BY <1>1, <1>4
<1>7. i < j
  <2> SUFFICES ASSUME ~(i < j) PROVE FALSE
    OBVIOUS
  <2>1. i \in Nat /\ j \in Nat
    BY <1>2
  <2>2. CASE i = j
    BY <1>4, <1>5, <1>6, <2>2
  <2>3. CASE j < i
    <3>1. n < m
      BY <1>3, <1>5, <1>6, <2>3
    <3>2. QED
      BY <1>1, <1>4, <3>1
  <2>4. QED
    BY <2>1, <2>2, <2>3
<1>8. QED
  BY <1>5, <1>6, <1>7 DEF part

LEMMA PickRange ==
  ASSUME NEW S, NEW list \in Seq(S), NEW I \in SUBSET DOMAIN list
  PROVE  Range(Pick(list, I)) = {list[i] : i \in I}
<1> DEFINE part == Pick(list, I)
<1>1. /\ IsFiniteSet(I) /\ Cardinality(I) \in Nat /\ part \in Seq(S) /\ Len(part) = Cardinality(I)
      /\ \A k \in 1..Cardinality(I) : \E i \in I : Place(I, i) = k /\ part[k] = list[i]
      /\ \A i \in I : Place(I, i) \in 1..Cardinality(I) /\ part[Place(I, i)] = list[i]
  BY PickProperties
<1> HIDE DEF part
<1>2. DOMAIN part = 1..Cardinality(I)
  BY <1>1
<1>3. \A i \in I : list[i] \in Range(part)
  BY <1>1, <1>2 DEF Range
<1>4. \A k \in DOMAIN part : part[k] \in {list[i] : i \in I}
  BY <1>1, <1>2
<1>5. QED
  BY <1>3, <1>4 DEF Range, part

(* A list in order without one of its items.                               *)
IsWithout(part, list, b, E) ==
  /\ part \in Seq(E) /\ Len(part) = Len(list) - 1 /\ Sorted(part)
  /\ Range(part) = Range(list) \ {list[b]}

LEMMA OneTaken ==
  ASSUME NEW E, Candidates(E), NEW list \in Seq(E), Sorted(list), NEW b \in DOMAIN list
  PROVE  IsWithout(Pick(list, DOMAIN list \ {b}), list, b, E)
<1> DEFINE I == DOMAIN list \ {b}
           part == Pick(list, I)
<1>1. I \in SUBSET DOMAIN list
  OBVIOUS
<1>2. part \in Seq(E) /\ Len(part) = Cardinality(I)
  BY <1>1, PickProperties
<1>3. Cardinality(I) = Len(list) - 1
  <2>1. DOMAIN list = 1..Len(list) /\ Len(list) \in Nat
    OBVIOUS
  <2>2. IsFiniteSet(DOMAIN list) /\ Cardinality(DOMAIN list) = Len(list)
    BY <2>1, UptoFinite
  <2>3. QED
    BY <2>2, FS_RemoveElement
<1>4. Sorted(part)
  <2> HIDE DEF I
  <2> SUFFICES ASSUME NEW m \in DOMAIN part, NEW n \in DOMAIN part, m < n
               PROVE  Earlier(part[m], part[n])
    BY DEF Sorted
  <2>1. PICK i, j \in I : i < j /\ part[m] = list[i] /\ part[n] = list[j]
    BY <1>1, PickInOrder
  <2>2. QED
    BY <1>1, <2>1 DEF Sorted
<1>5. Range(part) = {list[i] : i \in I}
  BY <1>1, PickRange
<1>6. \A i \in I : list[i] # list[b]
  BY SortedOnce DEF IsInjective
<1>7. Range(part) = Range(list) \ {list[b]}
  BY <1>5, <1>6 DEF Range
<1>8. QED
  BY <1>2, <1>3, <1>4, <1>7 DEF IsWithout

LEMMA CosinesAre ==
  ASSUME NEW E, Candidates(E), NEW a \in E, NEW c \in E
  PROVE  /\ Cosine(a, c) \in Int
         /\ a.vector # NoVector /\ c.vector # NoVector => Cosine(a, c) = Similar[a.vector, c.vector]
         /\ a.vector = NoVector \/ c.vector = NoVector => Cosine(a, c) = 0
<1> DEFINE known == Similar[a.vector, c.vector]
<1>1. a.vector # NoVector /\ c.vector # NoVector => known \in Int
  <2>1. a.vector \in Vectors \cup {NoVector} /\ c.vector \in Vectors \cup {NoVector}
    BY DEF Candidates
  <2>2. QED
    BY <2>1, SimilarAssumption
<1>2. Cosine(a, c) = IF NoVector \in {a.vector, c.vector} THEN 0 ELSE known
  BY DEF Cosine
<1> HIDE DEF known
<1>3. /\ Cosine(a, c) \in Int
      /\ a.vector # NoVector /\ c.vector # NoVector => Cosine(a, c) = known
      /\ a.vector = NoVector \/ c.vector = NoVector => Cosine(a, c) = 0
  BY <1>1, <1>2
<1>4. QED
  BY <1>3 DEF known

(* The penalty of an event is the greatest of its similarities, or nothing.*)
WithVector(picked) == {i \in DOMAIN picked : picked[i].vector # NoVector}

LEMMA PenaltyIs ==
  ASSUME NEW E, Candidates(E), NEW picked \in Seq(E), NEW a \in E
  PROVE  /\ Penalty(a, picked) \in Int
         /\ a.vector = NoVector \/ WithVector(picked) = {} => Penalty(a, picked) = 0
         /\ a.vector # NoVector /\ WithVector(picked) # {} =>
              /\ \E i \in WithVector(picked) : Penalty(a, picked) = Cosine(a, picked[i])
              /\ \A i \in WithVector(picked) : Cosine(a, picked[i]) <= Penalty(a, picked)
<1> DEFINE K == WithVector(picked)
           c == [i \in K |-> Cosine(a, picked[i])]
           values == {c[i] : i \in K}
<1>1. \A i \in K : picked[i] \in E /\ picked[i].vector # NoVector
  BY DEF WithVector
<1>2. \A i \in K : c[i] \in Int
  BY <1>1, CosinesAre
<1>3. IsFiniteSet(K)
  <2>1. DOMAIN picked = 1..Len(picked) /\ Len(picked) \in Nat
    OBVIOUS
  <2>2. IsFiniteSet(DOMAIN picked)
    BY <2>1, UptoFinite
  <2>3. K \in SUBSET DOMAIN picked
    BY DEF WithVector
  <2>4. QED
    BY <2>2, <2>3, FS_Subset
<1>4. CASE a.vector = NoVector \/ K = {}
  <2>1. Penalty(a, picked) = 0
    BY <1>4 DEF Penalty, WithVector
  <2>2. QED
    BY <1>4, <2>1
<1>5. CASE a.vector # NoVector /\ K # {}
  <2>1. Penalty(a, picked) = Max({Similar[a.vector, picked[i].vector] : i \in K})
    BY <1>5 DEF Penalty, WithVector
  <2>2. \A i \in K : Similar[a.vector, picked[i].vector] = c[i]
    BY <1>1, <1>5, CosinesAre
  <2>3. {Similar[a.vector, picked[i].vector] : i \in K} = values
    BY <2>2
  <2> HIDE DEF K, c
  <2>4. c \in Surjection(K, values)
    <3>1. DOMAIN c = K
      BY DEF c
    <3>2. c = [i \in K |-> c[i]]
      BY DEF c
    <3>3. QED
      BY <3>1, <3>2 DEF Surjection
  <2>5. IsFiniteSet(values)
    BY <1>3, <2>4, FS_Surjection
  <2>6. values \in SUBSET Int /\ values # {}
    BY <1>2, <1>5
  <2>7. Max(values) \in values /\ \A y \in values : y <= Max(values)
    BY <2>5, <2>6, MaxIs
  <2>8. \A i \in K : c[i] = Cosine(a, picked[i])
    BY DEF c
  <2>9. Penalty(a, picked) \in values /\ \A i \in K : c[i] <= Penalty(a, picked)
    BY <2>1, <2>3, <2>7
  <2>10. QED
    BY <1>5, <2>6, <2>8, <2>9 DEF K
<1>6. QED
  BY <1>4, <1>5

LEMMA PenaltyGrows ==
  ASSUME NEW E, Candidates(E), NEW picked \in Seq(E), NEW a \in E, NEW b \in E,
         \A i \in DOMAIN picked : Cosine(a, picked[i]) <= Cosine(b, picked[i])
  PROVE  Penalty(a, picked) <= Penalty(b, picked)
<1> DEFINE K == WithVector(picked)
           pa == Penalty(a, picked)
           pb == Penalty(b, picked)
<1>1. pa \in Int /\ pb \in Int
  BY PenaltyIs
<1>2. \A i \in K : i \in DOMAIN picked /\ picked[i] \in E /\ picked[i].vector # NoVector
  BY DEF WithVector
<1>3. \A i \in K : Cosine(a, picked[i]) \in Int /\ Cosine(b, picked[i]) \in Int
  BY <1>2, CosinesAre
<1>4. K = {} => pa = 0 /\ pb = 0
  BY PenaltyIs
<1>5. CASE K # {}
  <2>1. a.vector = NoVector => pa = 0 /\ \A i \in K : Cosine(a, picked[i]) = 0
    BY <1>2, PenaltyIs, CosinesAre
  <2>2. b.vector = NoVector => pb = 0 /\ \A i \in K : Cosine(b, picked[i]) = 0
    BY <1>2, PenaltyIs, CosinesAre
  <2>3. a.vector # NoVector => \E i \in K : pa = Cosine(a, picked[i])
    BY <1>5, PenaltyIs
  <2>4. b.vector # NoVector => \A i \in K : Cosine(b, picked[i]) <= pb
    BY <1>5, PenaltyIs
  <2> HIDE DEF K, pa, pb
  <2>5. \E i \in K : pa = Cosine(a, picked[i])
    BY <1>5, <2>1, <2>3
  <2>6. \A i \in K : Cosine(b, picked[i]) <= pb
    BY <1>1, <1>3, <2>2, <2>4
  <2>7. PICK i \in K : pa = Cosine(a, picked[i])
    BY <2>5
  <2>8. Cosine(a, picked[i]) <= Cosine(b, picked[i]) /\ Cosine(b, picked[i]) <= pb
    BY <1>2, <2>6
  <2>9. pa <= pb
    BY <1>1, <1>3, <2>7, <2>8
  <2>10. QED
    BY <2>9 DEF pa, pb
<1>6. QED
  BY <1>1, <1>4, <1>5

LEMMA TimesMore ==
  ASSUME NEW c \in Nat, NEW x \in Int, NEW y \in Int, x <= y
  PROVE  c * x \in Int /\ c * y \in Int /\ c * x <= c * y
<1>1. PICK d \in Nat : y = x + d
  <2>1. y - x \in Nat /\ y = x + (y - x)
    OBVIOUS
  <2>2. QED
    BY <2>1
<1>2. c * d \in Nat /\ c * x \in Int
  OBVIOUS
<1>3. c * y = c * x + c * d
  BY <1>1
<1>4. QED
  BY <1>2, <1>3

(* What is worth more and no more alike is worth more at the margin.       *)
LEMMA MarginalGrows ==
  ASSUME NEW E, Candidates(E), NEW head \in Seq(E), head # <<>>, NEW picked \in Seq(E),
         NEW a \in E, NEW b \in E
  PROVE  /\ Marginal(head, a, picked) \in Int
         /\ (/\ b.score <= a.score
             /\ \A i \in DOMAIN picked : Cosine(a, picked[i]) <= Cosine(b, picked[i])) =>
              Marginal(head, b, picked) <= Marginal(head, a, picked)
<1> DEFINE D == DOMAIN head
           c == [i \in D |-> head[i].score]
           scores == {c[i] : i \in D}
           low == Min(scores)
           spread == Max(scores) - Min(scores)
           range == IF spread = 0 THEN 1 ELSE spread
           rest == 10 - Lambda
           pa == Penalty(a, picked)
           pb == Penalty(b, picked)
<1>1. \A i \in D : c[i] \in Int /\ c[i] = head[i].score
  BY DEF Candidates
<1>2. IsFiniteSet(D) /\ D # {}
  <2>1. DOMAIN head = 1..Len(head) /\ Len(head) \in Nat /\ Len(head) # 0
    OBVIOUS
  <2>2. IsFiniteSet(1..Len(head)) /\ 1 \in 1..Len(head)
    BY <2>1, UptoFinite
  <2>3. QED
    BY <2>1, <2>2
<1>3. c = [i \in D |-> c[i]] /\ DOMAIN c = D
  OBVIOUS
<1>4. {head[i].score : i \in DOMAIN head} = scores
  OBVIOUS
<1> HIDE DEF c, D
<1>5. c \in Surjection(D, scores)
  BY <1>3 DEF Surjection
<1>6. IsFiniteSet(scores) /\ scores \in SUBSET Int /\ scores # {}
  BY <1>1, <1>2, <1>5, FS_Surjection
<1> HIDE DEF scores
<1>7. Max(scores) \in scores /\ \A y \in scores : y <= Max(scores)
  BY <1>6, MaxIs
<1>8. low \in scores /\ \A y \in scores : low <= y
  <2>1. \E x \in scores : \A y \in scores : x <= y
    BY <1>6, LeastOfFinite
  <2>2. QED
    BY <2>1 DEF Min
<1>9. low \in Int /\ spread \in Nat
  <2>1. spread = Max(scores) - low
    OBVIOUS
  <2> HIDE DEF low, spread
  <2>2. Max(scores) \in Int /\ low \in Int /\ low <= Max(scores)
    BY <1>6, <1>7, <1>8
  <2>3. QED
    BY <2>1, <2>2
<1> HIDE DEF low, spread
<1>10. range \in Nat /\ Lambda * 10 \in Nat /\ rest \in Nat
  <2>1. Lambda \in 0..10
    BY RankingAssumption
  <2>2. QED
    BY <1>9, <2>1
<1>11. pa \in Int /\ pb \in Int /\ a.score \in Int /\ b.score \in Int
  BY PenaltyIs DEF Candidates
<1>12. /\ Marginal(head, a, picked) = Lambda * 10 * (a.score - low) - rest * range * pa
       /\ Marginal(head, b, picked) = Lambda * 10 * (b.score - low) - rest * range * pb
  BY <1>4 DEF Marginal, low, spread
<1> DEFINE gain == Lambda * 10
           loss == rest * range
<1> HIDE DEF range, rest, pa, pb
<1>13. gain \in Nat /\ loss \in Nat
  BY <1>10
<1>14. /\ Marginal(head, a, picked) = gain * (a.score - low) - loss * pa
       /\ Marginal(head, b, picked) = gain * (b.score - low) - loss * pb
  BY <1>12
<1> HIDE DEF gain, loss
<1>15. a.score - low \in Int /\ b.score - low \in Int
  BY <1>9, <1>11
<1>16. gain * (a.score - low) \in Int /\ loss * pa \in Int
  BY <1>11, <1>13, <1>15
<1>17. ASSUME b.score <= a.score,
              \A i \in DOMAIN picked : Cosine(a, picked[i]) <= Cosine(b, picked[i])
       PROVE  Marginal(head, b, picked) <= Marginal(head, a, picked)
  <2>1. pa <= pb
    BY <1>17, PenaltyGrows DEF pa, pb
  <2>2. b.score - low <= a.score - low
    BY <1>9, <1>11, <1>17
  <2>3. /\ gain * (b.score - low) \in Int /\ gain * (b.score - low) <= gain * (a.score - low)
        /\ loss * pb \in Int /\ loss * pa <= loss * pb
    BY <1>11, <1>13, <1>15, <2>1, <2>2, TimesMore
  <2>4. QED
    BY <1>14, <1>16, <2>3
<1>18. QED
  BY <1>14, <1>16, <1>17

LEMMA BestIs ==
  ASSUME NEW n \in Nat \ {0}, NEW value \in [1..n -> Int]
  PROVE  /\ Best(value) \in 1..n
         /\ \A j \in 1..n : value[j] <= value[Best(value)]
         /\ \A j \in 1..n : value[Best(value)] <= value[j] => Best(value) <= j
<1> DEFINE D == 1..n
           values == {value[i] : i \in D}
           best == {i \in D : \A j \in D : value[j] <= value[i]}
<1>1. IsFiniteSet(D) /\ 1 \in D /\ D \subseteq Nat
  BY UptoFinite
<1>2. value \in Surjection(D, values)
  BY DEF Surjection
<1> HIDE DEF D
<1>3. DOMAIN value = D /\ \A i \in D : value[i] \in Int
  BY DEF D
<1>4. IsFiniteSet(values) /\ values \in SUBSET Int /\ values # {}
  BY <1>1, <1>2, <1>3, FS_Surjection
<1>5. Max(values) \in values /\ \A y \in values : y <= Max(values)
  BY <1>4, MaxIs
<1>6. PICK i \in D : \A j \in D : value[j] <= value[i]
  BY <1>5
<1>7. best \in SUBSET Nat /\ best # {}
  BY <1>1, <1>6
<1>8. Best(value) = Min(best)
  BY <1>3 DEF Best
<1>9. Best(value) \in best /\ \A j \in best : Best(value) <= j
  BY <1>7, <1>8, MinIs
<1> DEFINE b == Best(value)
<1> HIDE DEF b
<1>10. b \in best /\ \A j \in best : b <= j
  BY <1>9 DEF b
<1>11. b \in D /\ \A j \in D : value[j] <= value[b]
  BY <1>10
<1>12. ASSUME NEW j \in D, value[b] <= value[j]
       PROVE  b <= j
  <2>1. \A k \in D : value[k] <= value[j]
    BY <1>3, <1>11, <1>12
  <2>2. j \in best
    BY <2>1
  <2>3. QED
    BY <1>10, <2>2
<1>13. QED
  BY <1>11, <1>12 DEF b, D

(* s after k of the best are picked from the head.                         *)
Picking(E, head, s, k) ==
  /\ s.picked \in Seq(E) /\ s.rest \in Seq(E)
  /\ Len(s.picked) = k /\ Len(s.rest) = Len(head) - k
  /\ Sorted(s.rest) /\ IsInjective(s.picked)
  /\ Range(s.picked) \cap Range(s.rest) = {}
  /\ Range(s.picked) \cup Range(s.rest) = Range(head)
  /\ \A i, j \in DOMAIN s.picked : i < j => ~Worthier(E, s.picked[j], s.picked[i])
  /\ \A i \in DOMAIN s.picked : \A x \in Range(s.rest) : ~Worthier(E, x, s.picked[i])

(* Nothing that is left is worthier than what is picked.                   *)
LEMMA PickedIsWorthiest ==
  ASSUME NEW E, Candidates(E), NEW head \in Seq(E), head # <<>>, NEW picked \in Seq(E),
         NEW rest \in Seq(E), rest # <<>>, Sorted(rest), Range(picked) \cap Range(rest) = {},
         NEW b, b = Best([i \in DOMAIN rest |-> Marginal(head, rest[i], picked)])
  PROVE  b \in DOMAIN rest /\ \A x \in Range(rest) : ~Worthier(E, x, rest[b])
<1> DEFINE n == Len(rest)
           value == [i \in DOMAIN rest |-> Marginal(head, rest[i], picked)]
<1>1. n \in Nat \ {0} /\ DOMAIN rest = 1..n /\ \A i \in 1..n : rest[i] \in E
  OBVIOUS
<1>2. \A i \in 1..n : Marginal(head, rest[i], picked) \in Int
  BY <1>1, MarginalGrows
<1>3. /\ DOMAIN value = 1..n /\ value = [i \in 1..n |-> value[i]]
      /\ \A i \in 1..n : value[i] = Marginal(head, rest[i], picked)
  BY <1>1
<1>4. b = Best(value)
  OBVIOUS
<1> HIDE DEF value, n
<1>5. value \in [1..n -> Int]
  BY <1>2, <1>3
<1>6. b \in 1..n /\ \A j \in 1..n : value[b] <= value[j] => b <= j
  BY <1>1, <1>4, <1>5, BestIs
<1>7. ASSUME NEW j \in 1..n, Worthier(E, rest[j], rest[b])
      PROVE  FALSE
  <2> DEFINE a == rest[j]
             x == rest[b]
  <2>1. a \in E /\ x \in E /\ a \in Range(rest) /\ x \in Range(rest)
    BY <1>1, <1>6 DEF Range
  <2>2. Earlier(a, x) /\ \A c \in E \ {a, x} : Cosine(a, c) <= Cosine(x, c)
    BY <1>7 DEF Worthier
  <2>3. \A i \in DOMAIN picked : picked[i] \in E /\ picked[i] \in Range(picked)
    BY DEF Range
  <2> HIDE DEF a, x
  <2>4. \A i \in DOMAIN picked : Cosine(a, picked[i]) <= Cosine(x, picked[i])
    BY <2>1, <2>2, <2>3
  <2>5. x.score <= a.score
    BY <2>1, <2>2 DEF Earlier, Candidates
  <2>6. Marginal(head, x, picked) <= Marginal(head, a, picked)
    BY <2>1, <2>4, <2>5, MarginalGrows
  <2>7. value[b] <= value[j]
    BY <1>3, <1>6, <2>6 DEF a, x
  <2>8. b <= j
    BY <1>6, <2>7
  <2>9. j < b
    BY <1>1, <1>6, <2>2, SortedOnce DEF a, x
  <2>10. QED
    BY <1>1, <1>6, <2>8, <2>9
<1>8. QED
  BY <1>1, <1>6, <1>7 DEF Range

LEMMA PickOneMore ==
  ASSUME NEW E, Candidates(E), NEW head \in Seq(E), NEW k \in Nat, k < Len(head),
         NEW s, Picking(E, head, s, k)
  PROVE  Picking(E, head, PickNext(head, s), k + 1)
<1> DEFINE picked == s.picked
           rest == s.rest
           b == Best([i \in DOMAIN rest |-> Marginal(head, rest[i], picked)])
           x == rest[b]
           more == Append(picked, x)
           left == Pick(rest, DOMAIN rest \ {b})
           next == PickNext(head, s)
<1>1. next.picked = more /\ next.rest = left
  BY DEF PickNext
<1> HIDE DEF b, next
<1>2. b = Best([i \in DOMAIN rest |-> Marginal(head, rest[i], picked)])
  BY DEF b
<1> HIDE DEF picked, rest
<1>3. /\ picked \in Seq(E) /\ rest \in Seq(E) /\ Len(picked) = k /\ Len(rest) = Len(head) - k
      /\ Sorted(rest) /\ IsInjective(picked)
      /\ Range(picked) \cap Range(rest) = {} /\ Range(picked) \cup Range(rest) = Range(head)
      /\ \A i, j \in DOMAIN picked : i < j => ~Worthier(E, picked[j], picked[i])
      /\ \A i \in DOMAIN picked : \A y \in Range(rest) : ~Worthier(E, y, picked[i])
  BY DEF Picking, picked, rest
<1>4. head # <<>> /\ rest # <<>>
  <2>1. Len(head) \in Nat /\ Len(head) # 0 /\ Len(rest) # 0
    BY <1>3
  <2>2. QED
    BY <2>1
<1>5. b \in DOMAIN rest /\ \A y \in Range(rest) : ~Worthier(E, y, rest[b])
  BY <1>2, <1>3, <1>4, PickedIsWorthiest
<1>6. IsWithout(left, rest, b, E)
  BY <1>3, <1>5, OneTaken
<1>7. x \in E /\ x \in Range(rest) /\ x \notin Range(picked)
  BY <1>3, <1>5 DEF Range
<1> HIDE DEF left, x
<1>8. /\ left \in Seq(E) /\ Len(left) = Len(rest) - 1 /\ Sorted(left)
      /\ Range(left) = Range(rest) \ {x}
  BY <1>6 DEF IsWithout, x
<1>9. /\ more \in Seq(E) /\ Len(more) = Len(picked) + 1
      /\ Range(more) = Range(picked) \cup {x} /\ IsInjective(more)
  BY <1>3, <1>7, AppendNew
<1>10. /\ DOMAIN picked = 1..k /\ DOMAIN more = 1..k + 1
       /\ \A i \in 1..k : more[i] = picked[i]
       /\ more[k + 1] = x
  BY <1>3, <1>7
<1> HIDE DEF more
<1>11. Len(more) = k + 1 /\ Len(left) = Len(head) - (k + 1)
  BY <1>3, <1>8, <1>9
<1>12. Range(more) \cap Range(left) = {} /\ Range(more) \cup Range(left) = Range(head)
  BY <1>3, <1>7, <1>8, <1>9
<1>13. \A y \in Range(rest) : ~Worthier(E, y, x)
  BY <1>5 DEF x
<1>14. ASSUME NEW i \in 1..k + 1, NEW j \in 1..k + 1, i < j
       PROVE  ~Worthier(E, more[j], more[i])
  <2>1. i \in 1..k
    BY <1>14
  <2>2. CASE j \in 1..k
    BY <1>3, <1>10, <1>14, <2>1, <2>2
  <2>3. CASE j = k + 1
    BY <1>3, <1>7, <1>10, <2>1, <2>3
  <2>4. QED
    BY <2>2, <2>3
<1>15. ASSUME NEW i \in 1..k + 1, NEW y \in Range(left)
       PROVE  ~Worthier(E, y, more[i])
  <2>1. y \in Range(rest)
    BY <1>8
  <2>2. CASE i \in 1..k
    BY <1>3, <1>10, <2>1, <2>2
  <2>3. CASE i = k + 1
    BY <1>10, <1>13, <2>1, <2>3
  <2>4. QED
    BY <2>2, <2>3
<1>16. QED
  BY <1>1, <1>8, <1>9, <1>10, <1>11, <1>12, <1>14, <1>15 DEF Picking, next

LEMMA PickingAll ==
  ASSUME NEW E, Candidates(E), NEW head \in Seq(E), NEW h,
         Picking(E, head, h[0], 0),
         \A k \in 1..Len(head) : Picking(E, head, h[k - 1], k - 1) => h[k] = PickNext(head, h[k - 1])
  PROVE  \A k \in 0..Len(head) : Picking(E, head, h[k], k)
<1> DEFINE N == Len(head)
           T == {k \in Nat : k \in 0..N => Picking(E, head, h[k], k)}
<1>1. N \in Nat /\ 0 \in T
  OBVIOUS
<1>2. ASSUME NEW k \in Nat, k \in T
      PROVE  k + 1 \in T
  <2> SUFFICES ASSUME k + 1 \in 0..N
               PROVE  Picking(E, head, h[k + 1], k + 1)
    OBVIOUS
  <2>1. k \in 0..N /\ k + 1 \in 1..N /\ (k + 1) - 1 = k /\ k < Len(head)
    BY <1>1
  <2>2. Picking(E, head, h[k], k)
    BY <1>2, <2>1
  <2>3. h[k + 1] = PickNext(head, h[k])
    BY <2>1, <2>2
  <2>4. QED
    BY <2>1, <2>2, <2>3, PickOneMore
<1> HIDE DEF T
<1>3. Nat \subseteq T
  BY <1>1, <1>2, Induction
<1>4. QED
  BY <1>1, <1>3 DEF T

(* The head in the order in which it is picked.                            *)
PickedFrom(E, head, s) == Picking(E, head, s, Len(head))

LEMMA HeadIsPicked ==
  ASSUME NEW E, Candidates(E), NEW head \in Seq(E), Sorted(head), NEW pick,
         pick = CHOOSE it : it = [n \in 0..Len(head) |->
                                    IF n = 0 THEN [picked |-> <<>>, rest |-> head]
                                    ELSE PickNext(head, it[n - 1])]
  PROVE  PickedFrom(E, head, pick[Len(head)])
<1> DEFINE N == Len(head)
           base == [picked |-> <<>>, rest |-> head]
           A == [picked : Seq(E), rest : Seq(E)]
           Early(s) == \E k \in 0..N - 1 : Picking(E, head, s, k)
           F == [s \in A |-> IF Early(s) THEN PickNext(head, s) ELSE s]
           Is(p) == p = [n \in 0..N |-> IF n = 0 THEN base ELSE PickNext(head, p[n - 1])]
<1>1. N \in Nat /\ base \in A
  OBVIOUS
<1>2. Picking(E, head, base, 0)
  <2> DEFINE none == <<>>
  <2>1. none \in Seq(E) /\ Len(none) = 0 /\ DOMAIN none = {}
    OBVIOUS
  <2>2. base.picked = none /\ base.rest = head
    OBVIOUS
  <2> HIDE DEF none, base
  <2>3. IsInjective(none) /\ Range(none) = {}
    BY <2>1 DEF IsInjective, Range
  <2>4. Len(head) - 0 = Len(head)
    BY <1>1
  <2>5. QED
    BY <2>1, <2>2, <2>3, <2>4 DEF Picking
<1>3. ASSUME NEW s \in A, Early(s)
      PROVE  PickNext(head, s) \in A
  <2>1. PICK k \in 0..N - 1 : Picking(E, head, s, k)
    BY <1>3
  <2>2. k \in Nat /\ k < Len(head)
    BY <1>1
  <2> DEFINE next == PickNext(head, s)
  <2>3. Picking(E, head, next, k + 1)
    BY <2>1, <2>2, PickOneMore
  <2>4. next.picked \in Seq(E) /\ next.rest \in Seq(E)
    BY <2>3 DEF Picking
  <2>5. next = [picked |-> next.picked, rest |-> next.rest]
    BY DEF PickNext
  <2> HIDE DEF next
  <2>6. QED
    BY <2>4, <2>5 DEF next
<1> HIDE DEF Early, A, base
<1>4. F \in [A -> A] /\ \A s \in A : Early(s) => F[s] = PickNext(head, s)
  BY <1>3
<1> HIDE DEF F
<1>5. PICK h \in [0..N -> A] : Runs(h, base, F, N)
  BY <1>1, <1>4, StepByStep
<1>6. ASSUME NEW k \in 1..N, Picking(E, head, h[k - 1], k - 1)
      PROVE  h[k] = PickNext(head, h[k - 1])
  <2>1. k - 1 \in 0..N - 1 /\ k - 1 \in 0..N
    BY <1>1
  <2>2. Early(h[k - 1]) /\ h[k - 1] \in A
    BY <1>6, <2>1 DEF Early
  <2>3. QED
    BY <1>4, <1>5, <2>2 DEF Runs
<1>7. \A k \in 0..N : Picking(E, head, h[k], k)
  <2>1. Picking(E, head, h[0], 0)
    BY <1>2, <1>5 DEF Runs
  <2>2. QED
    BY <1>6, <2>1, PickingAll
<1>8. Is(h)
  <2>1. \A k \in 0..N : h[k] = IF k = 0 THEN base ELSE PickNext(head, h[k - 1])
    <3>1. ASSUME NEW k \in 0..N, k # 0
          PROVE  h[k] = PickNext(head, h[k - 1])
      <4>1. k \in 1..N /\ k - 1 \in 0..N
        BY <1>1, <3>1
      <4>2. QED
        BY <1>6, <1>7, <4>1
    <3>2. h[0] = base
      BY <1>5 DEF Runs
    <3>3. QED
      BY <3>1, <3>2
  <2>2. h = [k \in 0..N |-> h[k]]
    OBVIOUS
  <2>3. QED
    BY <2>1, <2>2
<1>9. pick = CHOOSE it : Is(it)
  BY DEF base
<1>10. Is(pick)
  <2> HIDE DEF Is
  <2>1. QED
    BY <1>8, <1>9
<1>11. \A k \in 0..N : pick[k] = IF k = 0 THEN base ELSE PickNext(head, pick[k - 1])
  BY <1>10
<1> HIDE DEF Is
<1>12. pick[0] = base /\ \A k \in 1..N : pick[k] = PickNext(head, pick[k - 1])
  BY <1>1, <1>11
<1>13. \A k \in 0..N : Picking(E, head, pick[k], k)
  BY <1>2, <1>12, PickingAll
<1>14. QED
  BY <1>1, <1>13 DEF PickedFrom

(* The items of a list, each once, none after a worthier one.              *)
Reranked(E, items, out) ==
  /\ out \in Seq(E) /\ IsInjective(out) /\ Range(out) = Range(items)
  /\ \A i, j \in DOMAIN out : i < j => ~Worthier(E, out[j], out[i])

LEMMA MmrReranks ==
  ASSUME NEW E, Candidates(E), NEW items \in Seq(E), Sorted(items)
  PROVE  Reranked(E, items, MmrRerank(items))
<1> DEFINE head == Take(items, MmrHead)
           tail == Drop(items, MmrHead)
           pick == CHOOSE it : it = [n \in 0..Len(head) |->
                                       IF n = 0 THEN [picked |-> <<>>, rest |-> head]
                                       ELSE PickNext(head, it[n - 1])]
           s == pick[Len(head)]
           picked == s.picked
           out == MmrRerank(items)
<1>1. out = picked \o tail
  BY DEF MmrRerank
<1>2. MmrHead \in Nat
  BY RankingAssumption
<1>3. /\ head \in Seq(E)
      /\ Len(head) = IF Len(items) < MmrHead THEN Len(items) ELSE MmrHead
      /\ \A i \in DOMAIN head : i \in DOMAIN items /\ head[i] = items[i]
  BY <1>2, TakeProperties
<1>4. /\ tail \in Seq(E)
      /\ Len(tail) = Len(items) - Len(head)
      /\ \A i \in 1..Len(tail) : tail[i] = items[Len(head) + i]
  <2>1. Len(items) \in Nat
    OBVIOUS
  <2>2. tail = SubSeq(items, MmrHead + 1, Len(items))
    BY DEF Drop
  <2>3. CASE Len(items) < MmrHead
    <3>1. tail = <<>> /\ Len(tail) = 0
      BY <1>2, <2>1, <2>2, <2>3
    <3>2. Len(head) = Len(items)
      BY <1>3, <2>3
    <3> HIDE DEF tail, head
    <3>3. QED
      BY <2>1, <3>1, <3>2
  <2>4. CASE ~(Len(items) < MmrHead)
    <3>1. Len(head) = MmrHead
      BY <1>3, <2>4
    <3>2. /\ SubSeq(items, MmrHead + 1, Len(items)) \in Seq(E)
          /\ Len(SubSeq(items, MmrHead + 1, Len(items))) = Len(items) - MmrHead
          /\ \A i \in 1..Len(items) - MmrHead :
               SubSeq(items, MmrHead + 1, Len(items))[i] = items[MmrHead + i]
      BY <1>2, <2>1, <2>4
    <3> HIDE DEF head, tail
    <3>3. QED
      BY <2>2, <3>1, <3>2
  <2>5. QED
    BY <2>3, <2>4
<1>5. Sorted(head)
  <2> HIDE DEF head
  <2>1. QED
    BY <1>3 DEF Sorted
<1>6. PickedFrom(E, head, s)
  <2> HIDE DEF head
  <2>1. QED
    BY <1>3, <1>5, HeadIsPicked
<1> HIDE DEF s, out, tail, head
<1> DEFINE N == Len(head)
<1>7. /\ picked \in Seq(E) /\ Len(picked) = N /\ IsInjective(picked)
      /\ \A i, j \in DOMAIN picked : i < j => ~Worthier(E, picked[j], picked[i])
  BY <1>6 DEF PickedFrom, Picking
<1>8. Range(picked) = Range(head)
  <2>1. s.rest \in Seq(E) /\ Len(s.rest) = N - N /\ N \in Nat
    BY <1>3, <1>6 DEF PickedFrom, Picking
  <2>2. DOMAIN s.rest = 1..Len(s.rest) /\ Len(s.rest) = 0
    BY <2>1
  <2>3. Range(s.rest) = {}
    BY <2>2 DEF Range
  <2>4. QED
    BY <1>6, <2>3 DEF PickedFrom, Picking
<1> HIDE DEF picked
<1>9. N \in Nat /\ N <= Len(items) /\ Len(items) \in Nat /\ DOMAIN head = 1..N
  BY <1>2, <1>3
<1>10. /\ out \in Seq(E) /\ Len(out) = Len(items)
       /\ \A i \in 1..N : out[i] = picked[i]
       /\ \A i \in N + 1..Len(items) : out[i] = items[i]
  <2>1. out \in Seq(E) /\ Len(out) = N + Len(tail) /\ Len(tail) \in Nat
    <3>1. picked \in Seq(E) /\ tail \in Seq(E)
      BY <1>4, <1>7
    <3>2. picked \o tail \in Seq(E) /\ Len(picked \o tail) = Len(picked) + Len(tail)
      BY <3>1
    <3>3. Len(tail) \in Nat
      BY <3>1
    <3>4. QED
      BY <1>1, <1>7, <3>2, <3>3
  <2>2. ASSUME NEW i \in 1..N
        PROVE  out[i] = picked[i]
    <3>1. i \in 1..Len(picked)
      BY <1>7
    <3>2. (picked \o tail)[i] = picked[i]
      BY <1>4, <1>7, <3>1
    <3>3. QED
      BY <1>1, <3>2
  <2>3. ASSUME NEW i \in N + 1..Len(items)
        PROVE  out[i] = items[i]
    <3>1. i - N \in 1..Len(tail) /\ N + (i - N) = i /\ i \in Nat /\ i > N
      BY <1>4, <1>9
    <3>2. out[i] = tail[i - N]
      BY <1>1, <1>4, <1>7, <3>1
    <3>3. QED
      BY <1>4, <3>1, <3>2
  <2>4. QED
    BY <1>4, <1>9, <2>1, <2>2, <2>3
<1>11. DOMAIN out = 1..Len(items) /\ DOMAIN items = 1..Len(items) /\ DOMAIN picked = 1..N
  BY <1>7, <1>9, <1>10
<1>12. \A i \in 1..N : \E m \in 1..N : out[i] = items[m]
  <2>1. \A i \in 1..N : picked[i] \in Range(head)
    BY <1>8, <1>11 DEF Range
  <2>2. QED
    BY <1>3, <1>9, <1>10, <2>1 DEF Range
<1>13. \A m \in 1..N : \E i \in 1..N : out[i] = items[m]
  <2>1. \A m \in 1..N : head[m] \in Range(picked) /\ head[m] = items[m]
    BY <1>3, <1>8, <1>9 DEF Range
  <2>2. QED
    BY <1>10, <1>11, <2>1 DEF Range
<1>14. /\ \A i, j \in DOMAIN items : items[i] = items[j] => i = j
       /\ \A i, j \in DOMAIN items : Earlier(items[i], items[j]) => i < j
  BY SortedOnce DEF IsInjective
<1>15. Range(out) = Range(items)
  <2>1. \A i \in DOMAIN out : i \in 1..N \/ i \in N + 1..Len(items)
    BY <1>9, <1>11
  <2>2. \A i \in DOMAIN out : out[i] \in Range(items)
    <3>1. ASSUME NEW i \in DOMAIN out
          PROVE  out[i] \in Range(items)
      <4>1. CASE i \in 1..N
        <5>1. PICK m \in 1..N : out[i] = items[m]
          BY <1>12, <4>1
        <5>2. m \in DOMAIN items
          BY <1>9, <1>11
        <5>3. QED
          BY <5>1, <5>2 DEF Range
      <4>2. CASE i \in N + 1..Len(items)
        BY <1>10, <1>11, <4>2 DEF Range
      <4>3. QED
        BY <2>1, <4>1, <4>2
    <3>2. QED
      BY <3>1
  <2>3. ASSUME NEW m \in DOMAIN items
        PROVE  items[m] \in Range(out)
    <3>1. CASE m \in 1..N
      <4>1. PICK i \in 1..N : out[i] = items[m]
        BY <1>13, <3>1
      <4>2. i \in DOMAIN out
        BY <1>9, <1>11
      <4>3. QED
        BY <4>1, <4>2 DEF Range
    <3>2. CASE m \notin 1..N
      <4>1. m \in N + 1..Len(items) /\ m \in DOMAIN out
        BY <1>9, <1>11, <3>2
      <4>2. QED
        BY <1>10, <4>1 DEF Range
    <3>3. QED
      BY <3>1, <3>2
  <2>4. QED
    BY <2>2, <2>3 DEF Range
<1>16. ASSUME NEW i \in DOMAIN out, NEW j \in DOMAIN out, i < j
       PROVE  out[i] # out[j] /\ ~Worthier(E, out[j], out[i])
  <2>1. i \in 1..Len(items) /\ j \in 1..Len(items)
    BY <1>11
  <2>2. CASE j \in 1..N
    <3>1. i \in 1..N
      BY <1>16, <2>1, <2>2
    <3>2. i # j
      BY <1>9, <1>16, <2>1
    <3>3. picked[i] # picked[j] /\ ~Worthier(E, picked[j], picked[i])
      BY <1>7, <1>11, <1>16, <2>2, <3>1, <3>2 DEF IsInjective
    <3>4. QED
      BY <1>10, <2>2, <3>1, <3>3
  <2>3. CASE j \notin 1..N
    <3>1. j \in N + 1..Len(items)
      BY <1>9, <2>1, <2>3
    <3>2. PICK m \in DOMAIN items : m < j /\ out[i] = items[m]
      <4>1. CASE i \in 1..N
        <5>1. PICK m \in 1..N : out[i] = items[m]
          BY <1>12, <4>1
        <5>2. m \in DOMAIN items /\ m < j
          BY <1>9, <1>11, <3>1
        <5>3. QED
          BY <5>1, <5>2
      <4>2. CASE i \notin 1..N
        <5>1. i \in N + 1..Len(items)
          BY <1>9, <2>1, <4>2
        <5>2. QED
          BY <1>10, <1>11, <1>16, <5>1
      <4>3. QED
        BY <4>1, <4>2
    <3>3. out[j] = items[j] /\ j \in DOMAIN items
      BY <1>10, <1>11, <3>1
    <3>4. m \in Nat /\ j \in Nat /\ ~(j < m) /\ m # j
      BY <1>9, <1>11, <3>2, <3>3
    <3>5. items[m] # items[j] /\ ~Earlier(items[j], items[m])
      BY <1>14, <3>3, <3>4
    <3>6. QED
      BY <3>2, <3>3, <3>5 DEF Worthier
  <2>4. QED
    BY <2>2, <2>3
<1>17. IsInjective(out)
  <2>1. ASSUME NEW i \in DOMAIN out, NEW j \in DOMAIN out, out[i] = out[j]
        PROVE  i = j
    <3>1. i \in Nat /\ j \in Nat
      BY <1>9, <1>11
    <3>2. ~(i < j) /\ ~(j < i)
      BY <1>16, <2>1
    <3>3. QED
      BY <3>1, <3>2
  <2>2. QED
    BY <2>1 DEF IsInjective
<1>18. QED
  BY <1>10, <1>15, <1>16, <1>17 DEF Reranked, out

(* The edition kept of a series is the nearest.                            *)
LEMMA WinnerIs ==
  ASSUME NEW E, Candidates(E), NEW items \in Seq(E), NEW k \in DOMAIN items
  PROVE  LET w == Winner(items, items[k].series)
         IN /\ w \in DOMAIN items /\ items[w].series = items[k].series
            /\ \A i \in DOMAIN items : items[i].series = items[k].series =>
                 items[w].distance <= items[i].distance
<1> DEFINE series == items[k].series
           editions == {i \in DOMAIN items : items[i].series = series}
           distances == {items[i].distance : i \in editions}
           nearest == Min(distances)
           best == {i \in editions : items[i].distance = nearest}
           w == Winner(items, series)
<1>1. \A i \in DOMAIN items : items[i] \in E /\ i \in Nat /\ items[i].distance \in Nat
  BY DEF Candidates
<1>2. distances \in SUBSET Nat /\ distances # {}
  BY <1>1
<1>3. nearest \in distances /\ \A y \in distances : nearest <= y
  BY <1>2, MinIs
<1> HIDE DEF nearest
<1>4. best \in SUBSET Nat /\ best # {}
  BY <1>1, <1>3
<1>5. w = Min(best)
  BY DEF Winner, nearest
<1> HIDE DEF w, best
<1>6. w \in best
  BY <1>4, <1>5, MinIs
<1>7. w \in editions /\ items[w].distance = nearest
  BY <1>6 DEF best
<1>8. /\ w \in DOMAIN items /\ items[w].series = series
      /\ \A i \in DOMAIN items : items[i].series = series => items[w].distance <= items[i].distance
  BY <1>3, <1>7
<1>9. QED
  BY <1>8 DEF w

(* Of a series the nearest edition is kept, of the rest everything.        *)
Thinned(E, items, out) ==
  /\ out \in Seq(E) /\ Range(out) \subseteq Range(items)
  /\ \A m, n \in DOMAIN out : m < n =>
       \E i, j \in DOMAIN items : i < j /\ out[m] = items[i] /\ out[n] = items[j]
  /\ \A a \in Range(out), b \in Range(items) :
       a.series # NoSeries /\ a.series = b.series =>
         a.distance <= b.distance /\ (b \in Range(out) => a = b)
  /\ \A b \in Range(items) : \E a \in Range(out) :
       a = b \/ (b.series # NoSeries /\ a.series = b.series)

LEMMA FloodStops ==
  ASSUME NEW E, Candidates(E), NEW items \in Seq(E)
  PROVE  Thinned(E, items, SeriesAntiFlood(items))
<1> DEFINE Best1(k) == Winner(items, items[k].series)
           I == {i \in DOMAIN items : items[i].series = NoSeries \/ items[i] = items[Best1(i)]}
           out == SeriesAntiFlood(items)
<1>1. \A k \in DOMAIN items :
        /\ Best1(k) \in DOMAIN items /\ items[Best1(k)].series = items[k].series
        /\ \A i \in DOMAIN items : items[i].series = items[k].series =>
             items[Best1(k)].distance <= items[i].distance
  BY WinnerIs
<1>2. \A i, k \in DOMAIN items : items[i].series = items[k].series => Best1(i) = Best1(k)
  OBVIOUS
<1>3. out = Pick(items, I)
  BY DEF SeriesAntiFlood
<1> HIDE DEF Best1, out
<1>4. I \in SUBSET DOMAIN items
  OBVIOUS
<1>5. out \in Seq(E) /\ Range(out) = {items[i] : i \in I}
  <2> HIDE DEF I
  <2>1. Pick(items, I) \in Seq(E)
    BY <1>4, PickProperties
  <2>2. Range(Pick(items, I)) = {items[i] : i \in I}
    BY <1>4, PickRange
  <2>3. QED
    BY <1>3, <2>1, <2>2
<1>6. Range(out) \subseteq Range(items)
  BY <1>4, <1>5 DEF Range
<1>7. ASSUME NEW m \in DOMAIN out, NEW n \in DOMAIN out, m < n
      PROVE  \E i, j \in DOMAIN items : i < j /\ out[m] = items[i] /\ out[n] = items[j]
  <2> HIDE DEF I
  <2>1. PICK i, j \in I : i < j /\ out[m] = items[i] /\ out[n] = items[j]
    BY <1>3, <1>4, <1>7, PickInOrder
  <2>2. QED
    BY <1>4, <2>1
<1>8. ASSUME NEW a \in Range(out), NEW b \in Range(items), a.series # NoSeries, a.series = b.series
      PROVE  a.distance <= b.distance /\ (b \in Range(out) => a = b)
  <2>1. PICK i \in I : a = items[i]
    BY <1>5
  <2>2. PICK j \in DOMAIN items : b = items[j]
    BY DEF Range
  <2>3. i \in DOMAIN items /\ a = items[Best1(i)]
    BY <1>8, <2>1
  <2>4. a.distance <= b.distance
    BY <1>1, <1>8, <2>1, <2>2, <2>3
  <2>5. ASSUME b \in Range(out)
        PROVE  a = b
    <3>1. PICK l \in I : b = items[l]
      BY <1>5, <2>5
    <3>2. l \in DOMAIN items /\ b = items[Best1(l)]
      BY <1>8, <3>1
    <3>3. Best1(i) = Best1(l)
      BY <1>2, <1>8, <2>1, <2>3, <3>1, <3>2
    <3>4. QED
      BY <2>3, <3>2, <3>3
  <2>6. QED
    BY <2>4, <2>5
<1>9. ASSUME NEW b \in Range(items)
      PROVE  \E a \in Range(out) : a = b \/ (b.series # NoSeries /\ a.series = b.series)
  <2>1. PICK j \in DOMAIN items : b = items[j]
    BY DEF Range
  <2>2. CASE b.series = NoSeries
    <3>1. j \in I
      BY <2>1, <2>2
    <3>2. b \in Range(out)
      BY <1>5, <2>1, <3>1
    <3>3. QED
      BY <3>2
  <2>3. CASE b.series # NoSeries
    <3> DEFINE w == Best1(j)
    <3>1. w \in DOMAIN items /\ items[w].series = b.series
      BY <1>1, <2>1
    <3>2. Best1(w) = w
      BY <1>2, <2>1, <3>1
    <3>3. w \in I
      BY <3>1, <3>2
    <3>4. items[w] \in Range(out)
      BY <1>5, <3>3
    <3>5. QED
      BY <2>3, <3>1, <3>4
  <2>4. QED
    BY <2>2, <2>3
<1>10. QED
  BY <1>5, <1>6, <1>7, <1>8, <1>9 DEF Thinned, out

(* Candidates are numbered as they are found.                              *)
CandidateItems ==
  [id : Nat, score : Scores, vector : Vectors \cup {NoVector}, series : Series, distance : Distances]

Numbered(items) == items \in Seq(CandidateItems) /\ \A i \in DOMAIN items : items[i].id = i

LEMMA NumberedAreCandidates ==
  ASSUME NEW items, Numbered(items)
  PROVE  Candidates(Range(items)) /\ items \in Seq(Range(items))
<1> DEFINE n == Len(items)
<1>1. n \in Nat /\ DOMAIN items = 1..n
  BY DEF Numbered
<1>2. \A x \in CandidateItems : /\ x.score \in Int /\ x.id \in Int /\ x.distance \in Nat
                                /\ x.vector \in Vectors \cup {NoVector}
  BY DEF CandidateItems, Scores, Distances
<1>3. Range(items) \subseteq CandidateItems
  <2> DEFINE C == CandidateItems
  <2>1. items \in Seq(C)
    BY DEF Numbered
  <2> HIDE DEF C
  <2>2. QED
    BY <2>1 DEF Range, C
<1>4. \A x, y \in Range(items) : x.id = y.id => x = y
  BY DEF Numbered, Range
<1>5. IsFiniteSet(Range(items))
  <2>1. items \in [DOMAIN items -> Range(items)]
    <3>1. items = [i \in DOMAIN items |-> items[i]]
      BY DEF Numbered
    <3>2. QED
      BY <3>1 DEF Range
  <2>2. items \in Surjection(DOMAIN items, Range(items))
    BY <2>1 DEF Surjection, Range
  <2>3. IsFiniteSet(DOMAIN items)
    BY <1>1, UptoFinite
  <2>4. QED
    BY <2>2, <2>3, FS_Surjection
<1>6. items \in Seq(Range(items))
  <2>1. \A i \in DOMAIN items : items[i] \in Range(items)
    BY DEF Range
  <2>2. QED
    BY <1>1, <2>1 DEF Numbered
<1>7. QED
  BY <1>2, <1>3, <1>4, <1>5, <1>6 DEF Candidates

FirstOf(candidates, i, j) ==
  \/ candidates[i].score > candidates[j].score
  \/ candidates[i].score = candidates[j].score /\ i < j

(* The candidates by their scores.                                         *)
LEMMA ScoredInOrder ==
  ASSUME NEW items, Numbered(items)
  PROVE  \E scored \in Seq(Range(items)) :
           /\ Sorted(scored) /\ Range(scored) = Range(items)
           /\ \A limit : Rank(items, limit) = Take(SeriesAntiFlood(MmrRerank(scored)), limit)
<1> DEFINE n == Len(items)
           D == 1..n
           zero == 0
           order == Ordered(D, LAMBDA i, j : FirstOf(items, i, j))
           f == [i \in D |-> items[i].score]
           g == [i \in D |-> i]
           h == [i \in D |-> zero]
           better == [x \in D |-> {y \in D : FirstOf(items, y, x)}]
           scored == [i \in D |-> items[order[i]]]
<1>1. n \in Nat /\ DOMAIN items = D
  BY DEF Numbered
<1>2. \A limit : Rank(items, limit) = Take(SeriesAntiFlood(MmrRerank(scored)), limit)
  BY <1>1 DEF Rank, FirstOf
<1>3. IsFiniteSet(D) /\ Cardinality(D) = n
  BY <1>1, UptoFinite
<1>4. Candidates(Range(items)) /\ items \in Seq(Range(items))
  BY NumberedAreCandidates
<1>5. \A i \in D : items[i] \in Range(items) /\ items[i].score \in Int /\ items[i].id = i /\ i \in Int
  BY <1>1, <1>4 DEF Candidates, Numbered, Range
<1>6. /\ f \in [D -> Int] /\ g \in [D -> Int] /\ h \in [D -> Int]
      /\ \A i \in D : f[i] = items[i].score /\ g[i] = i /\ h[i] = 0
  BY <1>5
<1>7. better \in [D -> SUBSET D] /\ \A x, y \in D : y \in better[x] <=> FirstOf(items, y, x)
  OBVIOUS
<1>8. order = [k \in 1..Cardinality(D) |-> CHOOSE x \in D : Cardinality(better[x]) = k - 1]
  <2> DEFINE Nth(k) == CHOOSE x \in D : Cardinality({y \in D : FirstOf(items, y, x)}) = k - 1
  <2>1. order = [k \in 1..Cardinality(D) |-> Nth(k)]
    BY DEF Ordered
  <2>2. \A x \in D : better[x] = {y \in D : FirstOf(items, y, x)}
    OBVIOUS
  <2> HIDE DEF better, D, order, Nth
  <2>3. ASSUME NEW k \in 1..Cardinality(D)
        PROVE  order[k] = CHOOSE x \in D : Cardinality(better[x]) = k - 1
    <3>1. order[k] = CHOOSE x \in D : Cardinality({y \in D : FirstOf(items, y, x)}) = k - 1
      BY <2>1 DEF Nth
    <3>2. QED
      BY <2>2, <3>1
  <2>4. order = [k \in 1..Cardinality(D) |-> order[k]]
    BY <2>1
  <2>5. QED
    BY <2>3, <2>4
<1> HIDE DEF f, g, h, better, order, D
<1>9. StrictOrder(D, better)
  <2>1. KeysDistinguish(D, f, g, h, h)
    BY <1>6 DEF KeysDistinguish
  <2>2. FirstByKeys(D, better, f, g, h, h)
    <3>1. \A x, y \in D : FirstOf(items, y, x) <=> f[y] > f[x] \/ (f[y] = f[x] /\ g[y] < g[x])
      BY <1>6 DEF FirstOf
    <3>2. \A x, y \in D : ~(h[y] < h[x])
      BY <1>6
    <3>3. QED
      BY <1>7, <3>1, <3>2 DEF FirstByKeys
  <2>3. QED
    BY <1>6, <1>7, <2>1, <2>2, KeysOrder
<1>10. InOrder(order, D, better)
  <2>1. ListedBy(order, D, better)
    BY <1>8 DEF ListedBy
  <2>2. QED
    BY <1>3, <1>9, <2>1, ListInOrder
<1>11. /\ DOMAIN order = D /\ \A k \in D : order[k] \in D
       /\ \A x \in D : \E k \in D : order[k] = x
       /\ \A k, m \in D : order[k] \in better[order[m]] <=> k < m
  <2>1. 1..n = D
    BY DEF D
  <2>2. DOMAIN order = D /\ order \in Seq(D)
    BY <1>3, <1>10, <2>1 DEF InOrder
  <2>3. \A k \in D : order[k] \in D
    BY <2>2
  <2>4. QED
    BY <1>10, <2>2, <2>3 DEF InOrder
<1>12. DOMAIN scored = D /\ \A k \in D : scored[k] = items[order[k]] /\ scored[k] \in Range(items)
  BY <1>5, <1>11
<1>13. scored \in Seq(Range(items))
  <2>1. scored = [k \in 1..n |-> scored[k]]
    BY <1>12 DEF D
  <2> HIDE DEF scored
  <2>2. QED
    BY <1>1, <1>12, <2>1 DEF D
<1> HIDE DEF scored
<1>14. Sorted(scored)
  <2> SUFFICES ASSUME NEW k \in D, NEW m \in D, k < m
               PROVE  Earlier(scored[k], scored[m])
    BY <1>12 DEF Sorted
  <2>1. order[k] \in D /\ order[m] \in D /\ FirstOf(items, order[k], order[m])
    BY <1>7, <1>11
  <2>2. QED
    BY <1>5, <1>12, <2>1 DEF FirstOf, Earlier
<1>15. Range(scored) = Range(items)
  <2>1. \A k \in D : scored[k] \in Range(items)
    BY <1>12
  <2>2. \A x \in D : \E k \in D : scored[k] = items[x]
    BY <1>11, <1>12
  <2>3. QED
    BY <1>1, <1>12, <2>1, <2>2 DEF Range
<1>16. QED
  BY <1>2, <1>13, <1>14, <1>15 DEF scored

(* What a feed is to be.                                                   *)
FeedFits(items, out, limit) ==
  /\ \A a \in Range(out), b \in Range(items) :
       a.series # NoSeries /\ a.series = b.series =>
         a.distance <= b.distance /\ (b \in Range(out) => a = b)
  /\ Len(out) < limit => \A b \in Range(items) :
       \E a \in Range(out) : a = b \/ (b.series # NoSeries /\ a.series = b.series)
  /\ \A i, j \in DOMAIN out : Worthier(Range(items), out[i], out[j]) => i < j

LEMMA RankFits ==
  ASSUME NEW items, Numbered(items), NEW limit \in Nat
  PROVE  FeedFits(items, Rank(items, limit), limit)
<1> DEFINE E == Range(items)
           out == Rank(items, limit)
<1>1. Candidates(E)
  BY NumberedAreCandidates
<1>2. PICK scored \in Seq(E) :
        /\ Sorted(scored) /\ Range(scored) = E
        /\ out = Take(SeriesAntiFlood(MmrRerank(scored)), limit)
  BY ScoredInOrder
<1> DEFINE reranked == MmrRerank(scored)
           thinned == SeriesAntiFlood(reranked)
<1> HIDE DEF E
<1>3. Reranked(E, scored, reranked)
  BY <1>1, <1>2, MmrReranks
<1> HIDE DEF reranked
<1>4. /\ reranked \in Seq(E) /\ Range(reranked) = E
      /\ \A i, j \in DOMAIN reranked : i < j => ~Worthier(E, reranked[j], reranked[i])
  BY <1>2, <1>3 DEF Reranked
<1>5. Thinned(E, reranked, thinned)
  BY <1>1, <1>4, FloodStops
<1>6. out = Take(thinned, limit)
  BY <1>2 DEF reranked
<1> HIDE DEF thinned, out
<1>7. thinned \in Seq(E)
  BY <1>5 DEF Thinned
<1>8. /\ out \in Seq(E)
      /\ Len(out) = IF Len(thinned) < limit THEN Len(thinned) ELSE limit
      /\ \A i \in DOMAIN out : i \in DOMAIN thinned /\ out[i] = thinned[i]
      /\ Range(out) \subseteq Range(thinned)
  BY <1>6, <1>7, TakeProperties
<1>9. \A a \in Range(out), b \in E :
        a.series # NoSeries /\ a.series = b.series =>
          a.distance <= b.distance /\ (b \in Range(out) => a = b)
  BY <1>4, <1>5, <1>8 DEF Thinned
<1>10. ASSUME Len(out) < limit
       PROVE  \A b \in E : \E a \in Range(out) : a = b \/ (b.series # NoSeries /\ a.series = b.series)
  <2>1. Len(out) = Len(thinned) /\ DOMAIN out = DOMAIN thinned
    BY <1>7, <1>8, <1>10
  <2>2. Range(out) = Range(thinned)
    BY <1>8, <2>1 DEF Range
  <2>3. QED
    BY <1>4, <1>5, <2>2 DEF Thinned
<1>11. ASSUME NEW i \in DOMAIN out, NEW j \in DOMAIN out, Worthier(E, out[i], out[j])
       PROVE  i < j
  <2>1. i \in Nat /\ j \in Nat /\ out[i] \in E /\ out[j] \in E
    BY <1>8
  <2>2. i # j
    <3>1. Earlier(out[i], out[j])
      BY <1>11 DEF Worthier
    <3>2. out[i].score \in Int /\ out[i].id \in Int
      BY <1>1, <2>1 DEF Candidates
    <3>3. QED
      BY <3>1, <3>2 DEF Earlier
  <2>3. ~(j < i)
    <3> SUFFICES ASSUME j < i PROVE FALSE
      OBVIOUS
    <3>1. j \in DOMAIN thinned /\ i \in DOMAIN thinned /\ out[i] = thinned[i] /\ out[j] = thinned[j]
      BY <1>8
    <3>2. PICK m, n \in DOMAIN reranked : m < n /\ thinned[j] = reranked[m] /\ thinned[i] = reranked[n]
      BY <1>5, <3>1 DEF Thinned
    <3>3. ~Worthier(E, reranked[n], reranked[m])
      BY <1>4, <3>2
    <3>4. QED
      BY <1>11, <3>1, <3>2, <3>3
  <2>4. QED
    BY <2>1, <2>2, <2>3
<1>12. QED
  BY <1>9, <1>10, <1>11 DEF FeedFits, E, out

(* What the feed is made of.                                               *)
FeedInv ==
  use = "rank" => /\ Numbered(found)
                  /\ answer # <<>> => answer = <<Rank(found, Limit)>>

LEMMA FeedStep ==
  ASSUME FeedInv, [RetrievalNext]_retrievalVars
  PROVE  FeedInv'
<1>1. ASSUME NEW score \in Scores, NEW vector \in Vectors \cup {NoVector}, NEW series \in Series,
             NEW distance \in Distances, FindCandidate(score, vector, series, distance)
      PROVE  FeedInv'
  <2> DEFINE n == Len(found)
             item == [id |-> n + 1, score |-> score, vector |-> vector, series |-> series,
                      distance |-> distance]
  <2>1. /\ Numbered(found) /\ answer = <<>> /\ answer' = <<>>
        /\ found' = Append(found, item)
    BY <1>1 DEF FindCandidate, Find, FeedInv
  <2>2. n \in Nat /\ DOMAIN found = 1..n /\ found \in Seq(CandidateItems)
        /\ \A i \in 1..n : found[i].id = i
    BY <2>1 DEF Numbered
  <2>3. item \in CandidateItems /\ item.id = n + 1
    BY <2>2 DEF CandidateItems
  <2> HIDE DEF item
  <2>4. /\ found' \in Seq(CandidateItems) /\ DOMAIN found' = 1..n + 1
        /\ \A i \in 1..n : found'[i] = found[i]
        /\ found'[n + 1] = item
    BY <2>1, <2>2, <2>3
  <2>5. \A i \in 1..n + 1 : i \in 1..n \/ i = n + 1
    BY <2>2
  <2>6. \A i \in DOMAIN found' : found'[i].id = i
    BY <2>2, <2>3, <2>4, <2>5
  <2>7. Numbered(found')
    BY <2>4, <2>6 DEF Numbered
  <2>8. QED
    BY <2>1, <2>7 DEF FeedInv
<1>2. CASE RankCandidates
  <2>1. use = "rank" /\ use' = use /\ found' = found /\ answer' = <<Rank(found, Limit)>>
    BY <1>2 DEF RankCandidates, facts
  <2>2. QED
    BY <2>1 DEF FeedInv
<1>3. CASE UNCHANGED <<use, found, answer>>
  BY <1>3 DEF FeedInv
<1>4. CASE UNCHANGED use /\ use # "rank"
  BY <1>4 DEF FeedInv
<1>5. CASE FindNear \/ SimilarEvents \/ Fetch \/ ExplainEvent
           \/ \E raw \in Announcements, vector \in BOOLEAN : Announce(raw, vector)
  BY <1>4, <1>5 DEF FindNear, SimilarEvents, Find, Fetch, ExplainEvent, Announce, facts
<1>6. ASSUME NEW q \in Requests,
             \/ \E p \in Phrases : Ask(q, p) \/ SearchFilters(q, p)
             \/ LlmAnswers(q) \/ LlmFails(q)
             \/ Strict(q) \/ TextSearch(q) \/ SemanticSearch(q) \/ Fuse(q) \/ Relax(q) \/ SendAnswer(q)
      PROVE  UNCHANGED <<use, found, answer>>
  BY <1>6 DEF Ask, SearchFilters, LlmAnswers, LlmFails, Strict, TextSearch, SemanticSearch, Fuse,
              Relax, SendAnswer, facts, lists
<1>7. CASE (\E e \in Events : Arrive(e)) \/ (\E k \in DOMAIN cache : Expire(k)) \/ Midnight
           \/ UNCHANGED retrievalVars
  BY <1>3, <1>7 DEF Arrive, Expire, Midnight, retrievalVars, facts, lists
<1>8. QED
  BY <1>1, <1>2, <1>3, <1>5, <1>6, <1>7 DEF RetrievalNext

(* The feed shows one edition of a series, the nearest, leaves nothing     *)
(* else out while there is room, and puts no event before a better one     *)
(* that is no more similar to any other: for any number of candidates, any *)
(* scores and embeddings, any weight of diversity and any part of the list *)
(* that is reranked.                                                       *)
THEOREM FeedIsWellOrdered == RetrievalSpec => []FeedWellOrdered
<1>1. RetrievalInit => FeedInv
  <2>1. RetrievalInit => found = <<>> /\ answer = <<>>
    BY DEF RetrievalInit
  <2>2. found = <<>> => Numbered(found)
    BY DEF Numbered
  <2>3. QED
    BY <2>1, <2>2 DEF FeedInv
<1>2. FeedInv /\ [RetrievalNext]_retrievalVars => FeedInv'
  BY FeedStep
<1>3. FeedInv => FeedWellOrdered
  <2> SUFFICES ASSUME FeedInv, use = "rank", answer # <<>>
               PROVE  FeedWellOrdered
    BY DEF FeedWellOrdered, OneNearestPerSeries, BetterComesFirst
  <2>1. Numbered(found) /\ answer = <<Rank(found, Limit)>>
    BY DEF FeedInv
  <2>2. Limit \in Nat
    BY RetrievalAssumption
  <2>3. FeedFits(found, Rank(found, Limit), Limit)
    BY <2>1, <2>2, RankFits
  <2> DEFINE out == answer[1]
  <2>4. out = Rank(found, Limit)
    BY <2>1
  <2> HIDE DEF out
  <2>5. FeedFits(found, out, Limit)
    BY <2>3, <2>4
  <2>6. OneNearestPerSeries
    BY <2>5 DEF FeedFits, OneNearestPerSeries, out
  <2>7. BetterComesFirst
    BY <2>5 DEF FeedFits, BetterComesFirst, Worthier, Earlier, out
  <2>8. QED
    BY <2>6, <2>7 DEF FeedWellOrdered
<1>4. QED
  BY <1>1, <1>2, <1>3, PTL DEF RetrievalSpec

-----------------------------------------------------------------------------
(* Lists of which something is left out.                                   *)

(* list is how more begins.                                                *)
Begins(list, more) ==
  Len(list) <= Len(more) /\ \A i \in 1..Len(list) : list[i] = more[i]

(* Two parts with the same items in the same order are the same.           *)
LEMMA PicksAlike ==
  ASSUME NEW S, NEW list \in Seq(S), NEW I \in SUBSET DOMAIN list,
         NEW other \in Seq(S), NEW J \in SUBSET DOMAIN other,
         NEW f \in [I -> J],
         \A j \in J : \E i \in I : f[i] = j,
         \A i, j \in I : i <= j <=> f[i] <= f[j],
         \A i \in I : other[f[i]] = list[i]
  PROVE  Pick(list, I) = Pick(other, J)
<1> DEFINE P == Pick(list, I)
           Q == Pick(other, J)
<1>1. /\ IsFiniteSet(I) /\ Cardinality(I) \in Nat /\ P \in Seq(S) /\ Len(P) = Cardinality(I)
      /\ \A n \in 1..Cardinality(I) : \E i \in I : Place(I, i) = n /\ P[n] = list[i]
  BY PickProperties
<1>2. /\ IsFiniteSet(J) /\ Q \in Seq(S) /\ Len(Q) = Cardinality(J)
      /\ \A j \in J : Q[Place(J, j)] = other[j]
  BY PickProperties
<1>3. /\ I \subseteq Nat /\ J \subseteq Nat
  OBVIOUS
<1>4. \A i, j \in I : f[i] = f[j] => i = j
  <2> SUFFICES ASSUME NEW i \in I, NEW j \in I, f[i] = f[j]
               PROVE  i = j
    OBVIOUS
  <2>1. f[i] <= f[j] /\ f[j] <= f[i]
    BY <1>3
  <2>2. i <= j /\ j <= i
    BY <2>1
  <2>3. QED
    BY <1>3, <2>2
<1>5. ASSUME NEW A \in SUBSET I, NEW B \in SUBSET J,
             \A i \in A : f[i] \in B, \A j \in B : \E i \in A : f[i] = j
      PROVE  Cardinality(A) = Cardinality(B)
  <2> DEFINE g == [i \in A |-> f[i]]
  <2>1. g \in [A -> B] /\ \A i \in A : g[i] = f[i]
    BY <1>5
  <2> HIDE DEF g
  <2>2. g \in Bijection(A, B)
    BY <1>4, <1>5, <2>1 DEF Bijection, Injection, Surjection, IsInjective
  <2>3. ExistsBijection(A, B)
    BY <2>2 DEF ExistsBijection
  <2>4. IsFiniteSet(A)
    BY <1>1, FS_Subset
  <2>5. QED
    BY <2>3, <2>4, FS_Bijection
<1>6. Cardinality(I) = Cardinality(J)
  BY <1>5
<1>7. ASSUME NEW i \in I
      PROVE  Place(I, i) = Place(J, f[i])
  <2> DEFINE A == {k \in I : k <= i}
             B == {k \in J : k <= f[i]}
  <2>1. A \in SUBSET I /\ B \in SUBSET J
    OBVIOUS
  <2>2. \A k \in A : f[k] \in B
    OBVIOUS
  <2>3. \A j \in B : \E k \in A : f[k] = j
    OBVIOUS
  <2>4. Cardinality(A) = Cardinality(B)
    BY <1>5, <2>1, <2>2, <2>3
  <2>5. QED
    BY <2>4 DEF Place
<1> HIDE DEF P, Q
<1>8. \A n \in 1..Len(P) : P[n] = Q[n]
  <2> SUFFICES ASSUME NEW n \in 1..Len(P)
               PROVE  P[n] = Q[n]
    OBVIOUS
  <2>1. PICK i \in I : Place(I, i) = n /\ P[n] = list[i]
    BY <1>1
  <2>2. QED
    BY <1>2, <1>7, <2>1
<1>9. P = Q
  BY <1>1, <1>2, <1>6, <1>8
<1>10. QED
  BY <1>9 DEF P, Q

(* Leaving out is done in parts or at once.                                *)
LEMMA WithoutTwice ==
  ASSUME NEW S, NEW list \in Seq(S), NEW T, NEW U
  PROVE  Without(Without(list, T), U) = Without(list, T \cup U)
<1> DEFINE I == {i \in DOMAIN list : list[i] \notin T}
           L == Pick(list, I)
           J == {n \in DOMAIN L : L[n] \notin U}
           K == {i \in DOMAIN list : list[i] \notin T \cup U}
           f == [i \in K |-> Place(I, i)]
<1>1. I \in SUBSET DOMAIN list /\ K \in SUBSET I /\ I \in SUBSET Nat
      /\ \A i \in I : i \in K <=> list[i] \notin U
  OBVIOUS
<1>2. /\ IsFiniteSet(I) /\ L \in Seq(S) /\ Len(L) = Cardinality(I)
      /\ \A n \in 1..Cardinality(I) : \E i \in I : Place(I, i) = n /\ L[n] = list[i]
      /\ \A i \in I : Place(I, i) \in 1..Cardinality(I) /\ L[Place(I, i)] = list[i]
  BY <1>1, PickProperties
<1>3. \A i, j \in I : i < j => Place(I, i) < Place(I, j)
  BY <1>1, <1>2, Places
<1>4. Without(list, T) = L /\ Without(L, U) = Pick(L, J) /\ Without(list, T \cup U) = Pick(list, K)
  BY DEF Without
<1> HIDE DEF I, L, K
<1>5. DOMAIN L = 1..Cardinality(I) /\ Cardinality(I) \in Nat
  BY <1>2
<1>6. \A i \in K : Place(I, i) \in J
  BY <1>1, <1>2, <1>5
<1>7. f \in [K -> J] /\ \A i \in K : f[i] = Place(I, i)
  BY <1>6
<1>8. \A n \in J : \E i \in K : Place(I, i) = n
  BY <1>1, <1>2, <1>5
<1>9. J \in SUBSET DOMAIN L
  OBVIOUS
<1> HIDE DEF f, J
<1>10. \A n \in J : \E i \in K : f[i] = n
  BY <1>7, <1>8
<1>11. \A i, j \in K : i <= j <=> f[i] <= f[j]
  <2> SUFFICES ASSUME NEW i \in K, NEW j \in K
               PROVE  i <= j <=> f[i] <= f[j]
    OBVIOUS
  <2>1. /\ i \in Nat /\ j \in Nat /\ f[i] \in Nat /\ f[j] \in Nat
        /\ i < j => f[i] < f[j]
        /\ j < i => f[j] < f[i]
    BY <1>1, <1>2, <1>3, <1>7
  <2>2. QED
    BY <2>1
<1>12. \A i \in K : L[f[i]] = list[i]
  BY <1>1, <1>2, <1>7
<1>13. K \in SUBSET DOMAIN list
  BY <1>1
<1>14. Pick(list, K) = Pick(L, J)
  BY <1>2, <1>7, <1>9, <1>10, <1>11, <1>12, <1>13, PicksAlike
<1>15. QED
  BY <1>4, <1>14

(* Nothing is left out of what has nothing of it.                          *)
LEMMA WithoutNone ==
  ASSUME NEW S, NEW list \in Seq(S), NEW T, Range(list) \cap T = {}
  PROVE  Without(list, T) = list
<1> DEFINE I == {i \in DOMAIN list : list[i] \notin T}
<1>1. I = DOMAIN list /\ DOMAIN list = 1..Len(list) /\ Len(list) \in Nat
  <2>1. \A i \in DOMAIN list : list[i] \in Range(list)
    BY DEF Range
  <2>2. \A i \in DOMAIN list : list[i] \notin T
    BY <2>1
  <2>3. I = DOMAIN list
    BY <2>2
  <2>4. QED
    BY <2>3
<1>2. Without(list, T) = Pick(list, I)
  BY DEF Without
<1> HIDE DEF I
<1>3. I \in SUBSET DOMAIN list
  BY <1>1
<1>4. /\ Pick(list, I) \in Seq(S) /\ Len(Pick(list, I)) = Cardinality(I)
      /\ \A i \in I : Pick(list, I)[Place(I, i)] = list[i]
  BY <1>3, PickProperties
<1>5. \A i \in I : Place(I, i) = i
  <2> SUFFICES ASSUME NEW i \in I
               PROVE  Place(I, i) = i
    OBVIOUS
  <2>1. {j \in I : j <= i} = 1..i /\ i \in Nat
    BY <1>1
  <2>2. QED
    BY <2>1, UptoFinite DEF Place
<1>6. Cardinality(I) = Len(list)
  BY <1>1, UptoFinite
<1>7. Pick(list, I) = list
  BY <1>1, <1>4, <1>5, <1>6
<1>8. QED
  BY <1>2, <1>7

(* What begins alike does so after leaving out the same.                   *)
LEMMA WithoutBegins ==
  ASSUME NEW S, NEW list \in Seq(S), NEW more \in Seq(S), NEW T, Begins(list, more)
  PROVE  Begins(Without(list, T), Without(more, T))
<1> DEFINE I == {i \in DOMAIN list : list[i] \notin T}
           J == {i \in DOMAIN more : more[i] \notin T}
           P == Pick(list, I)
           Q == Pick(more, J)
<1>1. P = Without(list, T) /\ Q = Without(more, T)
  BY DEF Without
<1>2. /\ I \in SUBSET DOMAIN list /\ J \in SUBSET DOMAIN more
      /\ \A i \in I : i \in Nat /\ i <= Len(list)
      /\ \A i \in J : i \in Nat /\ (i <= Len(list) => i \in I)
      /\ I \subseteq J
      /\ \A i \in I : list[i] = more[i]
  BY DEF Begins
<1>3. /\ IsFiniteSet(I) /\ P \in Seq(S) /\ Len(P) = Cardinality(I)
      /\ \A n \in 1..Cardinality(I) : \E i \in I : Place(I, i) = n /\ P[n] = list[i]
  BY <1>2, PickProperties
<1>4. /\ IsFiniteSet(J) /\ Q \in Seq(S) /\ Len(Q) = Cardinality(J)
      /\ \A j \in J : Q[Place(J, j)] = more[j]
  BY <1>2, PickProperties
<1> HIDE DEF I, J, P, Q
<1>5. Len(list) \in Nat
  OBVIOUS
<1>6. ASSUME NEW i \in I
      PROVE  Place(I, i) = Place(J, i)
  <2>1. {j \in I : j <= i} = {j \in J : j <= i}
    <3>1. \A j \in J : j <= i => j \in I
      BY <1>2, <1>5
    <3>2. QED
      BY <1>2, <3>1
  <2>2. QED
    BY <2>1 DEF Place
<1>7. Cardinality(I) <= Cardinality(J)
  BY <1>2, <1>4, FS_Subset
<1>8. \A n \in 1..Len(P) : P[n] = Q[n]
  <2> SUFFICES ASSUME NEW n \in 1..Len(P)
               PROVE  P[n] = Q[n]
    OBVIOUS
  <2>1. PICK i \in I : Place(I, i) = n /\ P[n] = list[i]
    BY <1>3
  <2>2. QED
    BY <1>2, <1>4, <1>6, <2>1
<1>9. QED
  BY <1>1, <1>3, <1>4, <1>7, <1>8 DEF Begins

(* Of what is in a list once one is left out.                              *)
LEMMA WithoutOne ==
  ASSUME NEW S, NEW list \in Seq(S), \A i, j \in DOMAIN list : list[i] = list[j] => i = j
  PROVE  /\ \A T : \A i, j \in DOMAIN Without(list, T) :
              Without(list, T)[i] = Without(list, T)[j] => i = j
         /\ \A e \in Range(list) : Len(Without(list, {e})) = Len(list) - 1
<1>1. ASSUME NEW T, NEW i \in DOMAIN Without(list, T), NEW j \in DOMAIN Without(list, T),
             Without(list, T)[i] = Without(list, T)[j]
      PROVE  i = j
  <2> DEFINE I == {k \in DOMAIN list : list[k] \notin T}
             P == Pick(list, I)
  <2>1. P = Without(list, T) /\ I \in SUBSET DOMAIN list
    BY DEF Without
  <2>2. /\ P \in Seq(S) /\ Len(P) = Cardinality(I)
        /\ \A n \in 1..Cardinality(I) : \E k \in I : Place(I, k) = n /\ P[n] = list[k]
    BY <2>1, PickProperties
  <2> HIDE DEF I, P
  <2>3. i \in 1..Cardinality(I) /\ j \in 1..Cardinality(I)
    BY <2>1, <2>2
  <2>4. PICK k \in I : Place(I, k) = i /\ P[i] = list[k]
    BY <2>2, <2>3
  <2>5. PICK m \in I : Place(I, m) = j /\ P[j] = list[m]
    BY <2>2, <2>3
  <2>6. k = m
    BY <1>1, <2>1, <2>4, <2>5
  <2>7. QED
    BY <2>4, <2>5, <2>6
<1>2. ASSUME NEW e \in Range(list)
      PROVE  Len(Without(list, {e})) = Len(list) - 1
  <2> DEFINE I == {k \in DOMAIN list : list[k] \notin {e}}
  <2>1. Without(list, {e}) = Pick(list, I) /\ I \in SUBSET DOMAIN list
    BY DEF Without
  <2>2. PICK k \in DOMAIN list : list[k] = e
    BY DEF Range
  <2>3. I = 1..Len(list) \ {k} /\ k \in 1..Len(list) /\ Len(list) \in Nat
    BY <2>2
  <2> HIDE DEF I
  <2>4. Len(Pick(list, I)) = Cardinality(I)
    BY <2>1, PickProperties
  <2>5. Cardinality(I) = Len(list) - 1
    BY <2>3, UptoFinite, FS_RemoveElement
  <2>6. QED
    BY <2>1, <2>4, <2>5
<1>3. QED
  BY <1>1, <1>2

-----------------------------------------------------------------------------
(* The lists of the web client.                                            *)

(* What the API keeps, and the calls that are under way.                   *)
KeptInv ==
  /\ saved \in Seq(UserEvents) /\ \A i, j \in DOMAIN saved : saved[i] = saved[j] => i = j
  /\ inbox \in [filed : SUBSET Notes, unread : SUBSET Notes]
  /\ sent \in Nat /\ \A c \in DOMAIN calls : c \in Nat /\ c < sent
  /\ \A c \in DOMAIN calls : calls[c].at = "sent" => calls[c].ok

PageOf(offset) == SubSeq(saved, offset + 1, Min({Len(saved), offset + Page}))

(* Removals that the page does not know of yet.                            *)
Gone(call) == call.op = "remove" /\ call.at = "done" /\ call.ok
GoneCalls == {c \in DOMAIN calls : Gone(calls[c])}
GoneEvents == UNION {calls[c].event : c \in GoneCalls}

(* The page shows the beginning of the list as it was before those.        *)
ItemsAgree ==
  /\ Begins(Without(view.items, GoneEvents), saved)
  /\ view.total = Len(saved) + Cardinality(GoneCalls)

(* Undisturbed, either one listing is under way or only removals are.      *)
SavedInv ==
  page = "saved" /\ ~disturbed =>
    /\ \A c \in DOMAIN calls : calls[c].open
    /\ \A c, d \in DOMAIN calls : calls[c].op = "saved" => c = d
    /\ \A c \in DOMAIN calls : calls[c].op = "saved" =>
         /\ calls[c].offset = Len(view.items)
         /\ calls[c].at = "done" /\ calls[c].ok =>
              calls[c].items = PageOf(calls[c].offset) /\ calls[c].total = Len(saved)
    /\ \A c \in DOMAIN calls : calls[c].op = "remove" =>
         view.loaded /\ \E e \in UserEvents : calls[c].event = {e}
    /\ view.items \in Seq(UserEvents) /\ view.total \in Nat
    /\ ~view.loaded => view.items = <<>> /\ view.total = 0
    /\ view.loaded => \/ ItemsAgree
                      \/ view.error /\ view.items = <<>> /\ view.total = 0 /\ DOMAIN calls = {}

(* Notifications that are read though the page does not know it yet.       *)
ReadCalls == {c \in DOMAIN calls : calls[c].op = "read" /\ calls[c].at = "done"}
ReadNotes == UNION {calls[c].note : c \in ReadCalls}

InboxShown ==
  /\ view.inbox = [filed |-> inbox.filed, unread |-> inbox.unread \cup ReadNotes]
  /\ view.total = Cardinality(view.inbox.unread)

(* Undisturbed and while the session lasts, either one listing is under    *)
(* way or notifications are marked, each once.                             *)
InboxInv ==
  page = "inbox" /\ ~disturbed /\ cookie =>
    /\ \A c \in DOMAIN calls : calls[c].open
    /\ \A c, d \in DOMAIN calls : calls[c].op = "inbox" => c = d
    /\ \A c \in DOMAIN calls : calls[c].op = "inbox" /\ calls[c].at = "done" =>
         calls[c].ok /\ calls[c].inbox = inbox /\ calls[c].total = Cardinality(inbox.unread)
    /\ \A c \in DOMAIN calls : calls[c].op = "read" =>
         /\ view.loaded /\ \E n \in Notes \cap view.inbox.unread : calls[c].note = {n}
         /\ calls[c].at = "done" => calls[c].note \cap inbox.unread = {}
    /\ \A c, d \in DOMAIN calls :
         calls[c].op = "read" /\ calls[d].op = "read" /\ calls[c].note = calls[d].note => c = d
    /\ view.loaded => InboxShown

ListsInv == KeptInv /\ SavedInv /\ InboxInv

(* Any page that is opened begins with its list.                           *)
LEMMA NewCallIs ==
  /\ NoCall.ok /\ NoCall.offset = 0 /\ NoCall.event = {} /\ NoCall.note = {}
  /\ NoView.items = <<>> /\ NoView.total = 0
BY DEF NoCall, NoView

LEMMA EnterLists ==
  ASSUME TabInv, ListsInv, NEW p, NEW op, NEW first, Enter(p, first), UNCHANGED <<saved, inbox>>,
         \/ first = <<>>
         \/ op \in OpsOf(p) \ {"remove", "read"} /\ first = <<[NoCall EXCEPT !.op = op]>>
  PROVE  ListsInv'
<1> DEFINE left == [c \in {d \in DOMAIN calls : calls[d].at = "sent"} |->
                      [calls[c] EXCEPT !.open = FALSE]]
           call == [NoCall EXCEPT !.op = op]
<1>1. /\ page' = p /\ view' = NoView
      /\ disturbed' = (DOMAIN left # {})
      /\ \/ first = <<>> /\ calls' = left /\ UNCHANGED sent
         \/ /\ first # <<>> /\ sent' = sent + 1
            /\ calls' = [c \in DOMAIN left \cup {sent} |-> IF c = sent THEN Head(first) ELSE left[c]]
  BY DEF Enter
<1>2. \A c \in DOMAIN left : c \in DOMAIN calls /\ left[c].at = "sent" /\ left[c].ok
  <2> SUFFICES ASSUME NEW c \in DOMAIN left
               PROVE  c \in DOMAIN calls /\ left[c].at = "sent" /\ left[c].ok
    OBVIOUS
  <2>1. c \in DOMAIN calls /\ calls[c].at = "sent" /\ calls[c].ok /\ DOMAIN calls[c] = CallFields
    BY DEF ListsInv, KeptInv, TabInv, IsCall
  <2>2. QED
    BY <2>1 DEF CallFields
<1>3. /\ call.at = "sent" /\ call.open /\ call.op = op /\ call.ok /\ call.offset = 0
  BY NewCall, NewCallIs DEF CallFields
<1>4. first = <<call>> => first # <<>> /\ Head(first) = call
  OBVIOUS
<1>5. sent \in Nat /\ \A c \in DOMAIN left : c \in Nat /\ c < sent
  BY <1>2 DEF ListsInv, KeptInv
<1>6. ~view'.loaded /\ view'.items = <<>> /\ view'.total = 0
  BY <1>1, NewView, NewCallIs
<1>7. ~disturbed' => DOMAIN left = {}
  BY DEF Enter
<1> HIDE DEF left, call
<1>8. CASE first = <<>>
  <2>1. calls' = left /\ UNCHANGED sent
    BY <1>1, <1>8
  <2>2. KeptInv'
    BY <1>2, <1>5, <2>1 DEF ListsInv, KeptInv
  <2>3. ~disturbed' => DOMAIN calls' = {}
    BY <1>7, <2>1
  <2>4. SavedInv'
    BY <1>6, <2>3 DEF SavedInv
  <2>5. InboxInv'
    BY <1>6, <2>3 DEF InboxInv
  <2>6. QED
    BY <2>2, <2>4, <2>5 DEF ListsInv
<1>9. CASE op \in OpsOf(p) \ {"remove", "read"} /\ first = <<call>>
  <2>1. /\ sent' = sent + 1
        /\ calls' = [c \in DOMAIN left \cup {sent} |-> IF c = sent THEN call ELSE left[c]]
    BY <1>1, <1>4, <1>9
  <2>2. /\ DOMAIN calls' = DOMAIN left \cup {sent} /\ calls'[sent] = call
        /\ \A c \in DOMAIN left : calls'[c] = left[c]
    <3>1. sent \notin DOMAIN left
      BY <1>5
    <3>2. QED
      BY <2>1, <3>1
  <2>3. KeptInv'
    BY <1>2, <1>3, <1>5, <2>1, <2>2 DEF ListsInv, KeptInv
  <2>4. ~disturbed' => DOMAIN calls' = {sent}
    BY <1>7, <2>2
  <2>5. op \notin {"remove", "read"}
    BY <1>9
  <2>6. SavedInv'
    BY <1>3, <1>6, <2>2, <2>4, <2>5 DEF SavedInv
  <2>7. InboxInv'
    BY <1>3, <1>6, <2>2, <2>4, <2>5 DEF InboxInv
  <2>8. QED
    BY <2>3, <2>6, <2>7 DEF ListsInv
<1>10. QED
  BY <1>8, <1>9 DEF call

(* What the API makes of a call.                                           *)
LEMMA ServeDoes ==
  ASSUME TabInv, NEW c \in DOMAIN calls, Serve(c)
  PROVE  LET x == calls[c]
             y == calls'[c]
         IN /\ DOMAIN calls' = DOMAIN calls
            /\ \A d \in DOMAIN calls : d # c => calls'[d] = calls[d]
            /\ x.at = "sent" /\ y.at = "done"
            /\ y.open = x.open /\ y.op = x.op /\ y.offset = x.offset
            /\ y.event = x.event /\ y.note = x.note
            /\ ~cookie /\ x.op # "search" => ~y.ok /\ UNCHANGED <<saved, inbox>>
            /\ cookie /\ x.op = "saved" =>
                 y.items = PageOf(x.offset) /\ y.total = Len(saved) /\ UNCHANGED <<saved, inbox>>
            /\ cookie /\ x.op = "remove" =>
                 /\ y.ok <=> x.event \subseteq Range(saved)
                 /\ saved' = Without(saved, x.event) /\ UNCHANGED inbox
            /\ cookie /\ x.op = "inbox" =>
                 /\ x.ok => y.ok
                 /\ y.inbox = inbox /\ y.total = Cardinality(inbox.unread)
                 /\ UNCHANGED <<saved, inbox>>
            /\ cookie /\ x.op = "read" =>
                 inbox' = [inbox EXCEPT !.unread = @ \ x.note] /\ UNCHANGED saved
            /\ x.op \notin {"saved", "remove", "inbox", "read"} => UNCHANGED <<saved, inbox>>
<1> DEFINE x == calls[c]
<1>1. DOMAIN x = CallFields
  BY DEF TabInv, IsCall
<1>2. \A a : Done(c, a) =>
        /\ DOMAIN calls' = DOMAIN calls
        /\ \A d \in DOMAIN calls : d # c => calls'[d] = calls[d]
        /\ calls'[c] = [a EXCEPT !.at = "done"]
  BY DEF Done
<1>3. x.at = "sent"
  BY DEF Serve
<1> HIDE DEF x
<1>4. CASE ~cookie /\ x.op # "search"
  <2> DEFINE a == [x EXCEPT !.ok = FALSE]
             y == [a EXCEPT !.at = "done"]
  <2>1. Done(c, a) /\ UNCHANGED <<saved, inbox>>
    BY <1>4 DEF Serve, Denied, server, x
  <2>2. /\ y.at = "done" /\ y.open = x.open /\ y.op = x.op /\ y.offset = x.offset
        /\ y.event = x.event /\ y.note = x.note /\ ~y.ok
    BY <1>1 DEF CallFields
  <2>3. calls'[c] = y
    BY <1>2, <2>1
  <2> HIDE DEF a, y
  <2>4. QED
    BY <1>2, <1>3, <1>4, <2>1, <2>2, <2>3 DEF x
<1>5. CASE cookie /\ x.op = "saved"
  <2> DEFINE a == [x EXCEPT !.items = PageOf(x.offset), !.total = Len(saved)]
             y == [a EXCEPT !.at = "done"]
  <2>1. Done(c, a) /\ UNCHANGED <<saved, inbox>>
    BY <1>5 DEF Serve, ListSaved, server, PageOf, x
  <2>2. /\ y.at = "done" /\ y.open = x.open /\ y.op = x.op /\ y.offset = x.offset
        /\ y.event = x.event /\ y.note = x.note
        /\ y.items = PageOf(x.offset) /\ y.total = Len(saved)
    BY <1>1 DEF CallFields
  <2>3. calls'[c] = y
    BY <1>2, <2>1
  <2> HIDE DEF a, y
  <2>4. QED
    BY <1>2, <1>3, <1>5, <2>1, <2>2, <2>3 DEF x
<1>6. CASE cookie /\ x.op = "remove"
  <2> DEFINE there == x.event \subseteq Range(saved)
             a == [x EXCEPT !.ok = there]
             y == [a EXCEPT !.at = "done"]
  <2>1. Done(c, a) /\ saved' = Without(saved, x.event) /\ UNCHANGED inbox
    BY <1>6 DEF Serve, RemoveSaved, server, x
  <2> HIDE DEF there
  <2>2. /\ y.at = "done" /\ y.open = x.open /\ y.op = x.op /\ y.offset = x.offset
        /\ y.event = x.event /\ y.note = x.note
    BY <1>1 DEF CallFields
  <2>3. y.ok = there
    BY <1>1 DEF CallFields
  <2>4. calls'[c] = y
    BY <1>2, <2>1
  <2> HIDE DEF a, y
  <2>5. calls'[c].ok <=> x.event \subseteq Range(saved)
    BY <2>3, <2>4 DEF there
  <2>6. QED
    BY <1>2, <1>3, <1>6, <2>1, <2>2, <2>4, <2>5 DEF x
<1>7. CASE cookie /\ x.op = "inbox"
  <2> DEFINE a == [x EXCEPT !.inbox = inbox, !.total = Cardinality(inbox.unread)]
             y == [a EXCEPT !.at = "done"]
  <2>1. Done(c, a) /\ UNCHANGED <<saved, inbox>>
    BY <1>7 DEF Serve, ListInbox, server, x
  <2>2. /\ y.at = "done" /\ y.open = x.open /\ y.op = x.op /\ y.offset = x.offset
        /\ y.event = x.event /\ y.note = x.note /\ y.ok = x.ok
        /\ y.inbox = inbox /\ y.total = Cardinality(inbox.unread)
    BY <1>1 DEF CallFields
  <2>3. calls'[c] = y
    BY <1>2, <2>1
  <2> HIDE DEF a, y
  <2>4. x.ok => calls'[c].ok
    BY <2>2, <2>3
  <2>5. QED
    BY <1>2, <1>3, <1>7, <2>1, <2>2, <2>3, <2>4 DEF x
<1>8. CASE cookie /\ x.op \in {"read", "profile"}
  <2>1. \E a : /\ Done(c, a)
              /\ \/ a = x
                 \/ a = [x EXCEPT !.profile = profile]
    BY <1>8 DEF Serve, MarkNotificationRead, GetProfile, x
  <2>2. /\ x.op = "read" => inbox' = [inbox EXCEPT !.unread = @ \ x.note] /\ UNCHANGED saved
        /\ x.op # "read" => UNCHANGED <<saved, inbox>>
    BY <1>8 DEF Serve, MarkNotificationRead, GetProfile, server, x
  <2>3. PICK a : /\ Done(c, a)
                 /\ \/ a = x
                    \/ a = [x EXCEPT !.profile = profile]
    BY <2>1
  <2> DEFINE y == [a EXCEPT !.at = "done"]
  <2>4. /\ y.at = "done" /\ y.open = x.open /\ y.op = x.op /\ y.offset = x.offset
        /\ y.event = x.event /\ y.note = x.note
    BY <1>1, <2>3 DEF CallFields
  <2>5. calls'[c] = y
    BY <1>2, <2>3
  <2> HIDE DEF y
  <2>6. QED
    BY <1>2, <1>3, <1>8, <2>2, <2>3, <2>4, <2>5 DEF x
<1>9. CASE cookie /\ x.op = "put"
  <2>1. \E made : Done(c, [x EXCEPT !.profile = made]) /\ UNCHANGED <<saved, inbox>>
    BY <1>9 DEF Serve, PutProfile, x
  <2>2. PICK made : Done(c, [x EXCEPT !.profile = made]) /\ UNCHANGED <<saved, inbox>>
    BY <2>1
  <2> DEFINE a == [x EXCEPT !.profile = made]
             y == [a EXCEPT !.at = "done"]
  <2>3. /\ y.at = "done" /\ y.open = x.open /\ y.op = x.op /\ y.offset = x.offset
        /\ y.event = x.event /\ y.note = x.note
    BY <1>1 DEF CallFields
  <2>4. Done(c, a) /\ calls'[c] = y
    BY <1>2, <2>2
  <2> HIDE DEF a, y
  <2>5. QED
    BY <1>2, <1>3, <1>9, <2>2, <2>3, <2>4 DEF x
<1>10. CASE x.op = "search"
  <2> DEFINE y == [x EXCEPT !.at = "done"]
  <2>1. Done(c, x) /\ UNCHANGED <<saved, inbox>>
    BY <1>10 DEF Serve, server, x
  <2>2. /\ y.at = "done" /\ y.open = x.open /\ y.op = x.op /\ y.offset = x.offset
        /\ y.event = x.event /\ y.note = x.note
    BY <1>1 DEF CallFields
  <2>3. calls'[c] = y
    BY <1>2, <2>1
  <2> HIDE DEF y
  <2>4. QED
    BY <1>2, <1>3, <1>10, <2>1, <2>2, <2>3 DEF x
<1>11. QED
  BY <1>4, <1>5, <1>6, <1>7, <1>8, <1>9, <1>10 DEF Serve, x

(* A call joins those under way: it is not done, and its number is new.    *)
LEMMA RequestKept ==
  ASSUME KeptInv, NEW call, call.at = "sent", call.ok, Request(call), UNCHANGED <<saved, inbox>>
  PROVE  /\ KeptInv'
         /\ sent \notin DOMAIN calls
         /\ DOMAIN calls' = DOMAIN calls \cup {sent} /\ calls'[sent] = call
         /\ \A c \in DOMAIN calls : calls'[c] = calls[c]
         /\ ~disturbed' => ~disturbed /\ ~Overlaps(call)
<1>1. sent \notin DOMAIN calls /\ sent \in Nat /\ sent' = sent + 1
  BY DEF KeptInv, Request
<1>2. /\ DOMAIN calls' = DOMAIN calls \cup {sent} /\ calls'[sent] = call
      /\ \A c \in DOMAIN calls : calls'[c] = calls[c]
  BY <1>1, RequestJoins
<1>3. ~disturbed' => ~disturbed /\ ~Overlaps(call)
  BY DEF Request
<1>4. KeptInv'
  BY <1>1, <1>2 DEF KeptInv
<1>5. QED
  BY <1>1, <1>2, <1>3, <1>4

LEMMA GoneStay ==
  ASSUME \A c : c \in DOMAIN calls' /\ Gone(calls'[c]) <=> c \in DOMAIN calls /\ Gone(calls[c]),
         \A c \in DOMAIN calls : c \in DOMAIN calls' => calls'[c].event = calls[c].event
  PROVE  GoneCalls' = GoneCalls /\ GoneEvents' = GoneEvents
<1>1. GoneCalls' = GoneCalls
  BY DEF GoneCalls
<1>2. \A c \in GoneCalls : calls'[c].event = calls[c].event
  BY DEF GoneCalls
<1>3. QED
  BY <1>1, <1>2 DEF GoneEvents

LEMMA ReadStay ==
  ASSUME \A c : c \in DOMAIN calls' /\ calls'[c].op = "read" /\ calls'[c].at = "done" <=>
                c \in DOMAIN calls /\ calls[c].op = "read" /\ calls[c].at = "done",
         \A c \in DOMAIN calls : c \in DOMAIN calls' => calls'[c].note = calls[c].note
  PROVE  ReadNotes' = ReadNotes
<1>1. ReadCalls' = ReadCalls
  BY DEF ReadCalls
<1>2. \A c \in ReadCalls : calls'[c].note = calls[c].note
  BY DEF ReadCalls
<1>3. QED
  BY <1>1, <1>2 DEF ReadNotes

(* A list is asked for: no other call is under way.                        *)
LEMMA ShowMoreLists ==
  ASSUME TabInv, ListsInv, ShowMore
  PROVE  ListsInv'
<1> DEFINE call == [NoCall EXCEPT !.op = "saved", !.offset = NextOffset(view.items)]
<1>1. /\ page = "saved" /\ view.loaded /\ Len(view.items) < view.total
      /\ view' = [view EXCEPT !.error = FALSE] /\ Request(call)
      /\ UNCHANGED <<page, saved, inbox>>
  BY DEF ShowMore, server
<1>2. /\ call.at = "sent" /\ call.ok /\ call.open /\ call.op = "saved"
      /\ call.offset = Len(view.items)
  BY NewCall, NewCallIs DEF CallFields, NextOffset
<1>3. view'.loaded /\ view'.items = view.items /\ view'.total = view.total
  BY <1>1 DEF TabInv, ViewFields
<1> HIDE DEF call
<1>4. /\ KeptInv'
      /\ DOMAIN calls' = DOMAIN calls \cup {sent} /\ calls'[sent] = call
      /\ ~disturbed' => ~disturbed /\ ~Overlaps(call)
  BY <1>1, <1>2, RequestKept DEF ListsInv
<1>5. ASSUME ~disturbed'
      PROVE  SavedInv'
  <2>1. ~disturbed /\ ~Overlaps(call)
    BY <1>4, <1>5
  <2>2. \A c \in DOMAIN calls : calls[c].open
    BY <1>1, <2>1 DEF ListsInv, SavedInv
  <2>3. Live = {}
    BY <1>2, <2>1 DEF Overlaps
  <2>4. DOMAIN calls = {} /\ DOMAIN calls' = {sent}
    BY <1>4, <2>2, <2>3, LiveCalls
  <2>5. view.items \in Seq(UserEvents) /\ view.total \in Nat /\ ItemsAgree
    BY <1>1, <2>1 DEF ListsInv, SavedInv
  <2>6. GoneCalls' = GoneCalls /\ GoneEvents' = GoneEvents
    <3>1. ~Gone(call)
      BY <1>2 DEF Gone
    <3>2. \A c : c \in DOMAIN calls' /\ Gone(calls'[c]) <=> c \in DOMAIN calls /\ Gone(calls[c])
      BY <1>4, <2>4, <3>1
    <3>3. QED
      BY <2>4, <3>2, GoneStay
  <2>7. ItemsAgree'
    BY <1>1, <1>3, <2>5, <2>6 DEF ItemsAgree
  <2>8. QED
    BY <1>2, <1>3, <1>4, <2>4, <2>5, <2>7 DEF SavedInv
<1>6. SavedInv'
  BY <1>5 DEF SavedInv
<1>7. InboxInv'
  BY <1>1 DEF InboxInv
<1>8. QED
  BY <1>4, <1>6, <1>7 DEF ListsInv

LEMMA RemoveItemLists ==
  ASSUME TabInv, ListsInv, NEW e \in UserEvents, RemoveItem(e)
  PROVE  ListsInv'
<1> DEFINE call == [NoCall EXCEPT !.op = "remove", !.event = {e}]
<1>1. /\ page = "saved" /\ view.loaded /\ (\E i \in DOMAIN view.items : view.items[i] = e)
      /\ Request(call) /\ UNCHANGED <<page, view, saved, inbox>>
  BY DEF RemoveItem, server
<1>2. call.at = "sent" /\ call.ok /\ call.open /\ call.op = "remove" /\ call.event = {e}
  BY NewCall, NewCallIs DEF CallFields
<1> HIDE DEF call
<1>3. /\ KeptInv' /\ sent \notin DOMAIN calls
      /\ DOMAIN calls' = DOMAIN calls \cup {sent} /\ calls'[sent] = call
      /\ \A c \in DOMAIN calls : calls'[c] = calls[c]
      /\ ~disturbed' => ~disturbed /\ ~Overlaps(call)
  BY <1>1, <1>2, RequestKept DEF ListsInv
<1>4. ASSUME ~disturbed'
      PROVE  SavedInv'
  <2>1. ~disturbed /\ ~Overlaps(call)
    BY <1>3, <1>4
  <2>2. /\ \A c \in DOMAIN calls : calls[c].open
        /\ \A c \in DOMAIN calls : calls[c].op = "remove" => \E d \in UserEvents : calls[c].event = {d}
        /\ view.items \in Seq(UserEvents) /\ view.total \in Nat
        /\ ItemsAgree
    BY <1>1, <2>1 DEF ListsInv, SavedInv
  <2>3. \A c \in DOMAIN calls : calls[c].op # "saved"
    BY <1>2, <2>1, <2>2, LiveCalls DEF Overlaps
  <2>4. GoneCalls' = GoneCalls /\ GoneEvents' = GoneEvents
    <3>1. ~Gone(call)
      BY <1>2 DEF Gone
    <3>2. \A c : c \in DOMAIN calls' /\ Gone(calls'[c]) <=> c \in DOMAIN calls /\ Gone(calls[c])
      BY <1>3, <3>1
    <3>3. QED
      BY <1>3, <3>2, GoneStay
  <2>5. ItemsAgree'
    BY <1>1, <2>2, <2>4 DEF ItemsAgree
  <2>6. \A c \in DOMAIN calls' : calls'[c].open /\ calls'[c].op # "saved"
    BY <1>2, <1>3, <2>2, <2>3
  <2>7. \A c \in DOMAIN calls' : calls'[c].op = "remove" => \E d \in UserEvents : calls'[c].event = {d}
    BY <1>2, <1>3, <2>2
  <2>8. QED
    BY <1>1, <2>2, <2>5, <2>6, <2>7 DEF SavedInv
<1>5. SavedInv'
  BY <1>4 DEF SavedInv
<1>6. InboxInv'
  BY <1>1 DEF InboxInv
<1>7. QED
  BY <1>3, <1>5, <1>6 DEF ListsInv

LEMMA RefreshLists ==
  ASSUME TabInv, ListsInv, Refresh
  PROVE  ListsInv'
<1> DEFINE call == [NoCall EXCEPT !.op = "inbox"]
<1>1. /\ page = "inbox" /\ view.loaded
      /\ view' = [view EXCEPT !.error = FALSE] /\ Request(call)
      /\ UNCHANGED <<cookie, page, saved, inbox>>
  BY DEF Refresh, server
<1>2. call.at = "sent" /\ call.ok /\ call.open /\ call.op = "inbox"
  BY NewCall, NewCallIs DEF CallFields
<1>3. view'.loaded /\ view'.inbox = view.inbox /\ view'.total = view.total
  BY <1>1 DEF TabInv, ViewFields
<1> HIDE DEF call
<1>4. /\ KeptInv'
      /\ DOMAIN calls' = DOMAIN calls \cup {sent} /\ calls'[sent] = call
      /\ ~disturbed' => ~disturbed /\ ~Overlaps(call)
  BY <1>1, <1>2, RequestKept DEF ListsInv
<1>5. ASSUME ~disturbed', cookie
      PROVE  InboxInv'
  <2>1. ~disturbed /\ ~Overlaps(call)
    BY <1>4, <1>5
  <2>2. (\A c \in DOMAIN calls : calls[c].open) /\ InboxShown
    BY <1>1, <1>5, <2>1 DEF ListsInv, InboxInv
  <2>3. Live = {}
    BY <1>2, <2>1 DEF Overlaps
  <2>4. DOMAIN calls = {} /\ DOMAIN calls' = {sent}
    BY <1>4, <2>2, <2>3, LiveCalls
  <2>5. ReadNotes' = ReadNotes
    <3>1. \A c : ~(c \in DOMAIN calls' /\ calls'[c].op = "read")
      BY <1>2, <1>4, <2>4
    <3>2. QED
      BY <2>4, <3>1, ReadStay
  <2>6. InboxShown'
    BY <1>1, <1>3, <2>2, <2>5 DEF InboxShown
  <2>7. QED
    BY <1>2, <1>4, <2>4, <2>6 DEF InboxInv
<1>6. InboxInv'
  BY <1>1, <1>5 DEF InboxInv
<1>7. SavedInv'
  BY <1>1 DEF SavedInv
<1>8. QED
  BY <1>4, <1>6, <1>7 DEF ListsInv

LEMMA MarkReadLists ==
  ASSUME TabInv, ListsInv, NEW n \in Notes, MarkRead(n)
  PROVE  ListsInv'
<1> DEFINE call == [NoCall EXCEPT !.op = "read", !.note = {n}]
<1>1. /\ page = "inbox" /\ view.loaded /\ n \in view.inbox.unread
      /\ Request(call) /\ UNCHANGED <<cookie, page, view, saved, inbox>>
  BY DEF MarkRead, server
<1>2. call.at = "sent" /\ call.ok /\ call.open /\ call.op = "read" /\ call.note = {n}
  BY NewCall, NewCallIs DEF CallFields
<1> HIDE DEF call
<1>3. /\ KeptInv' /\ sent \notin DOMAIN calls
      /\ DOMAIN calls' = DOMAIN calls \cup {sent} /\ calls'[sent] = call
      /\ \A c \in DOMAIN calls : calls'[c] = calls[c]
      /\ ~disturbed' => ~disturbed /\ ~Overlaps(call)
  BY <1>1, <1>2, RequestKept DEF ListsInv
<1>4. ASSUME ~disturbed', cookie
      PROVE  InboxInv'
  <2>1. ~disturbed /\ ~Overlaps(call)
    BY <1>3, <1>4
  <2>2. /\ \A c \in DOMAIN calls : calls[c].open
        /\ \A c \in DOMAIN calls : calls[c].op = "read" =>
             /\ \E m \in Notes \cap view.inbox.unread : calls[c].note = {m}
             /\ calls[c].at = "done" => calls[c].note \cap inbox.unread = {}
        /\ \A c, d \in DOMAIN calls :
             calls[c].op = "read" /\ calls[d].op = "read" /\ calls[c].note = calls[d].note => c = d
        /\ InboxShown
    BY <1>1, <1>4, <2>1 DEF ListsInv, InboxInv
  <2>3. \A c \in DOMAIN calls : calls[c].op # "inbox" /\ calls[c].note # call.note
    BY <1>2, <2>1, <2>2, LiveCalls DEF Overlaps
  <2>4. ReadNotes' = ReadNotes
    BY <1>2, <1>3, ReadStay
  <2>5. InboxShown'
    BY <1>1, <2>2, <2>4 DEF InboxShown
  <2>6. \A c \in DOMAIN calls' : calls'[c].open /\ calls'[c].op # "inbox"
    BY <1>2, <1>3, <2>2, <2>3
  <2>7. \A c \in DOMAIN calls' : calls'[c].op = "read" =>
          /\ \E m \in Notes \cap view.inbox.unread : calls'[c].note = {m}
          /\ calls'[c].at = "done" => calls'[c].note \cap inbox.unread = {}
    BY <1>1, <1>2, <1>3, <2>2
  <2>8. \A c, d \in DOMAIN calls' :
          calls'[c].op = "read" /\ calls'[d].op = "read" /\ calls'[c].note = calls'[d].note => c = d
    BY <1>2, <1>3, <2>2, <2>3
  <2>9. QED
    BY <1>1, <2>5, <2>6, <2>7, <2>8 DEF InboxInv
<1>5. InboxInv'
  BY <1>1, <1>4 DEF InboxInv
<1>6. SavedInv'
  BY <1>1 DEF SavedInv
<1>7. QED
  BY <1>3, <1>5, <1>6 DEF ListsInv

(* On the other pages the lists are not shown.                             *)
LEMMA OtherRequests ==
  ASSUME ListsInv, NEW call, Request(call), call.at = "sent", call.ok,
         page \notin {"saved", "inbox"}, UNCHANGED <<page, saved, inbox>>
  PROVE  ListsInv'
BY RequestKept DEF ListsInv, SavedInv, InboxInv

(* The API answers: what it keeps stays in order.                          *)
LEMMA ServeKept ==
  ASSUME TabInv, KeptInv, NEW c \in DOMAIN calls, Serve(c)
  PROVE  KeptInv'
<1>1. /\ saved' = saved \/ saved' = Without(saved, calls[c].event)
      /\ inbox' = inbox \/ inbox' = [inbox EXCEPT !.unread = @ \ calls[c].note]
  BY ServeDoes
<1>2. /\ DOMAIN calls' = DOMAIN calls
      /\ \A d \in DOMAIN calls : d # c => calls'[d] = calls[d]
      /\ calls'[c].at = "done"
  BY ServeDoes
<1>3. sent' = sent
  BY DEF Serve
<1>4. saved' \in Seq(UserEvents) /\ \A i, j \in DOMAIN saved' : saved'[i] = saved'[j] => i = j
  <2>1. saved \in Seq(UserEvents) /\ \A i, j \in DOMAIN saved : saved[i] = saved[j] => i = j
    BY DEF KeptInv
  <2>2. Without(saved, calls[c].event) \in Seq(UserEvents)
    BY <2>1, WithoutProperties
  <2>3. \A i, j \in DOMAIN Without(saved, calls[c].event) :
          Without(saved, calls[c].event)[i] = Without(saved, calls[c].event)[j] => i = j
    BY <2>1, WithoutOne
  <2>4. CASE saved' = saved
    BY <2>1, <2>4
  <2>5. CASE saved' = Without(saved, calls[c].event)
    BY <2>2, <2>3, <2>5
  <2>6. QED
    BY <1>1, <2>4, <2>5
<1>5. inbox' \in [filed : SUBSET Notes, unread : SUBSET Notes]
  BY <1>1 DEF KeptInv
<1>6. \A d \in DOMAIN calls' : calls'[d].at = "sent" => calls'[d].ok
  BY <1>2 DEF KeptInv
<1>7. \A d \in DOMAIN calls' : d \in Nat /\ d < sent'
  BY <1>2, <1>3 DEF KeptInv
<1>8. QED
  BY <1>3, <1>4, <1>5, <1>6, <1>7 DEF KeptInv

(* An event is taken off the list, and the page does not know of it yet.   *)
LEMMA ServeRemoval ==
  ASSUME KeptInv, ItemsAgree, view.items \in Seq(UserEvents),
         NEW c \in DOMAIN calls, calls[c].at = "sent", NEW e \in Range(saved), calls[c].event = {e},
         DOMAIN calls' = DOMAIN calls, \A d \in DOMAIN calls : d # c => calls'[d] = calls[d],
         Gone(calls'[c]), calls'[c].event = {e},
         saved' = Without(saved, {e}), UNCHANGED view
  PROVE  ItemsAgree'
<1>1. GoneCalls' = GoneCalls \cup {c} /\ c \notin GoneCalls
  BY DEF GoneCalls, Gone
<1>2. \A d \in GoneCalls : calls'[d].event = calls[d].event
  BY <1>1 DEF GoneCalls
<1>3. GoneEvents' = GoneEvents \cup {e}
  BY <1>1, <1>2 DEF GoneEvents
<1>4. saved \in Seq(UserEvents) /\ \A i, j \in DOMAIN saved : saved[i] = saved[j] => i = j
  BY DEF KeptInv
<1>5. Len(saved') = Len(saved) - 1
  BY <1>4, WithoutOne
<1>6. Cardinality(GoneCalls') = Cardinality(GoneCalls) + 1 /\ Cardinality(GoneCalls) \in Nat
  <2>1. GoneCalls \subseteq 0..(sent - 1) /\ sent - 1 \in Int
    BY DEF KeptInv, GoneCalls
  <2>2. IsFiniteSet(GoneCalls)
    <3>1. IsFiniteSet(0..(sent - 1))
      BY <2>1, FS_Interval
    <3>2. QED
      BY <2>1, <3>1, FS_Subset
  <2>3. QED
    BY <1>1, <2>2, FS_AddElement, FS_CardinalityType
<1>7. Begins(Without(view.items, GoneEvents), saved)
      /\ view.total = Len(saved) + Cardinality(GoneCalls)
  BY DEF ItemsAgree
<1>8. Without(view.items, GoneEvents) \in Seq(UserEvents)
  BY WithoutProperties
<1>9. Begins(Without(Without(view.items, GoneEvents), {e}), Without(saved, {e}))
  BY <1>4, <1>7, <1>8, WithoutBegins
<1>10. Without(Without(view.items, GoneEvents), {e}) = Without(view.items, GoneEvents \cup {e})
  BY WithoutTwice
<1>11. Begins(Without(view.items, GoneEvents'), saved')
  BY <1>3, <1>9, <1>10
<1>12. view.total = Len(saved') + Cardinality(GoneCalls')
  <2>1. Len(saved) \in Nat
    BY <1>4
  <2>2. QED
    BY <1>5, <1>6, <1>7, <2>1
<1>13. QED
  BY <1>11, <1>12 DEF ItemsAgree

LEMMA ServeSaved ==
  ASSUME TabInv, ListsInv, NEW c \in DOMAIN calls, Serve(c)
  PROVE  SavedInv'
<1> SUFFICES ASSUME page' = "saved", ~disturbed'
             PROVE  SavedInv'
  BY DEF SavedInv
<1>1. page = "saved" /\ ~disturbed /\ UNCHANGED <<page, view, disturbed>>
  BY DEF Serve
<1>2. /\ DOMAIN calls' = DOMAIN calls
      /\ \A d \in DOMAIN calls : d # c => calls'[d] = calls[d]
      /\ calls[c].at = "sent" /\ calls'[c].at = "done"
      /\ calls'[c].open = calls[c].open /\ calls'[c].op = calls[c].op
      /\ calls'[c].offset = calls[c].offset /\ calls'[c].event = calls[c].event
  BY ServeDoes
<1>3. /\ \A d \in DOMAIN calls : calls[d].open
      /\ \A a, d \in DOMAIN calls : calls[a].op = "saved" => a = d
      /\ \A d \in DOMAIN calls : calls[d].op = "saved" => calls[d].offset = Len(view.items)
      /\ \A d \in DOMAIN calls : calls[d].op = "remove" =>
           view.loaded /\ \E e \in UserEvents : calls[d].event = {e}
      /\ view.items \in Seq(UserEvents) /\ view.total \in Nat
      /\ ~view.loaded => view.items = <<>> /\ view.total = 0
      /\ view.loaded => ItemsAgree
  BY <1>1 DEF ListsInv, SavedInv
<1>4. c \in Live
  BY <1>3, LiveCalls
<1>5. calls[c].op \in {"saved", "remove"}
  BY <1>1, <1>4 DEF TabInv, OpsOf
<1>6. /\ \A d \in DOMAIN calls' : calls'[d].open
      /\ \A a, d \in DOMAIN calls' : calls'[a].op = "saved" => a = d
      /\ \A d \in DOMAIN calls' : calls'[d].op = "saved" => calls'[d].offset = Len(view'.items)
      /\ \A d \in DOMAIN calls' : calls'[d].op = "remove" =>
           view'.loaded /\ \E e \in UserEvents : calls'[d].event = {e}
      /\ view'.items \in Seq(UserEvents) /\ view'.total \in Nat
      /\ ~view'.loaded => view'.items = <<>> /\ view'.total = 0
  BY <1>1, <1>2, <1>3
<1>7. ASSUME ~Gone(calls'[c]), saved' = saved, view.loaded
      PROVE  ItemsAgree'
  <2>1. \A d : d \in DOMAIN calls' /\ Gone(calls'[d]) <=> d \in DOMAIN calls /\ Gone(calls[d])
    BY <1>2, <1>7 DEF Gone
  <2>2. GoneCalls' = GoneCalls /\ GoneEvents' = GoneEvents
    BY <1>2, <2>1, GoneStay
  <2>3. QED
    BY <1>1, <1>3, <1>7, <2>2 DEF ItemsAgree
<1>8. CASE calls[c].op = "saved"
  <2>1. UNCHANGED saved
    BY <1>8, ServeDoes
  <2>2. calls'[c].ok =>
          calls'[c].items = PageOf(calls[c].offset) /\ calls'[c].total = Len(saved)
    BY <1>8, ServeDoes
  <2>4. \A offset : PageOf(offset)' = PageOf(offset)
    BY <2>1 DEF PageOf
  <2>5. \A d \in DOMAIN calls' : d = c
    BY <1>2, <1>3, <1>8
  <2>6. \A d \in DOMAIN calls' : calls'[d].op = "saved" /\ calls'[d].at = "done" /\ calls'[d].ok =>
          calls'[d].items = PageOf(calls[d].offset) /\ calls'[d].total = Len(saved)
    BY <2>2, <2>5
  <2>7. ~Gone(calls'[c])
    BY <1>2, <1>8 DEF Gone
  <2>8. view'.loaded => ItemsAgree'
    BY <1>1, <1>7, <2>1, <2>7
  <2>9. \A d \in DOMAIN calls' : calls'[d].op = "saved" /\ calls'[d].at = "done" /\ calls'[d].ok =>
          /\ calls'[d].items = SubSeq(saved', calls'[d].offset + 1,
                                      Min({Len(saved'), calls'[d].offset + Page}))
          /\ calls'[d].total = Len(saved')
    BY <1>2, <2>1, <2>5, <2>6 DEF PageOf
  <2>10. QED
    BY <1>6, <2>8, <2>9 DEF SavedInv, PageOf
<1>9. CASE calls[c].op = "remove"
  <2>1. \A d \in DOMAIN calls' : calls'[d].op # "saved"
    BY <1>2, <1>3, <1>9
  <2>2. view.loaded /\ ItemsAgree
    BY <1>3, <1>9
  <2>3. PICK e \in UserEvents : calls[c].event = {e}
    BY <1>3, <1>9
  <2>4. ItemsAgree'
    <3>1. CASE ~cookie
      <4>1. saved' = saved /\ ~calls'[c].ok
        BY <1>9, <3>1, ServeDoes
      <4>2. QED
        BY <1>7, <2>2, <4>1 DEF Gone
    <3>2. CASE cookie /\ e \notin Range(saved)
      <4>1. saved' = Without(saved, {e}) /\ ~calls'[c].ok
        BY <1>9, <2>3, <3>2, ServeDoes
      <4>2. Range(saved) \cap {e} = {}
        BY <3>2
      <4>3. saved \in Seq(UserEvents)
        BY DEF ListsInv, KeptInv
      <4>4. saved' = saved
        BY <4>1, <4>2, <4>3, WithoutNone
      <4>5. QED
        BY <1>7, <2>2, <4>1, <4>4 DEF Gone
    <3>3. CASE cookie /\ e \in Range(saved)
      <4>1. saved' = Without(saved, {e}) /\ calls'[c].ok
        BY <1>9, <2>3, <3>3, ServeDoes
      <4>2. Gone(calls'[c])
        BY <1>2, <1>9, <4>1 DEF Gone
      <4>3. calls'[c].event = {e}
        BY <1>2, <2>3
      <4>4. QED
        BY <1>1, <1>2, <1>3, <2>2, <2>3, <3>3, <4>1, <4>2, <4>3, ServeRemoval DEF ListsInv
    <3>4. QED
      BY <3>1, <3>2, <3>3
  <2>5. QED
    BY <1>6, <2>1, <2>4 DEF SavedInv
<1>10. QED
  BY <1>5, <1>8, <1>9

(* A notification is read, and the page does not know of it yet.           *)
LEMMA ServeInbox ==
  ASSUME TabInv, ListsInv, NEW c \in DOMAIN calls, Serve(c)
  PROVE  InboxInv'
<1> SUFFICES ASSUME page' = "inbox", ~disturbed', cookie'
             PROVE  InboxInv'
  BY DEF InboxInv
<1>1. page = "inbox" /\ ~disturbed /\ cookie /\ UNCHANGED <<page, view, disturbed, cookie>>
  BY DEF Serve
<1>2. /\ DOMAIN calls' = DOMAIN calls
      /\ \A d \in DOMAIN calls : d # c => calls'[d] = calls[d]
      /\ calls[c].at = "sent" /\ calls'[c].at = "done"
      /\ calls'[c].open = calls[c].open /\ calls'[c].op = calls[c].op
      /\ calls'[c].note = calls[c].note
  BY ServeDoes
<1>3. /\ \A d \in DOMAIN calls : calls[d].open
      /\ \A a, d \in DOMAIN calls : calls[a].op = "inbox" => a = d
      /\ \A d \in DOMAIN calls : calls[d].op = "read" =>
           /\ view.loaded /\ \E n \in Notes \cap view.inbox.unread : calls[d].note = {n}
           /\ calls[d].at = "done" => calls[d].note \cap inbox.unread = {}
      /\ \A a, d \in DOMAIN calls :
           calls[a].op = "read" /\ calls[d].op = "read" /\ calls[a].note = calls[d].note => a = d
      /\ view.loaded => InboxShown
  BY <1>1 DEF ListsInv, InboxInv
<1>4. c \in Live
  BY <1>3, LiveCalls
<1>5. calls[c].op \in {"inbox", "read"}
  BY <1>1, <1>4 DEF TabInv, OpsOf
<1>6. /\ \A d \in DOMAIN calls' : calls'[d].open
      /\ \A a, d \in DOMAIN calls' : calls'[a].op = "inbox" => a = d
      /\ \A d \in DOMAIN calls' : calls'[d].op = "read" =>
           view'.loaded /\ \E n \in Notes \cap view'.inbox.unread : calls'[d].note = {n}
      /\ \A a, d \in DOMAIN calls' :
           calls'[a].op = "read" /\ calls'[d].op = "read" /\ calls'[a].note = calls'[d].note => a = d
  BY <1>1, <1>2, <1>3
<1>7. CASE calls[c].op = "inbox"
  <2>1. /\ inbox' = inbox
        /\ calls'[c].ok /\ calls'[c].inbox = inbox /\ calls'[c].total = Cardinality(inbox.unread)
    <3>1. calls[c].ok
      BY <1>2 DEF ListsInv, KeptInv
    <3>2. QED
      BY <1>1, <1>7, <3>1, ServeDoes
  <2>2. \A d \in DOMAIN calls' : d = c /\ calls'[d].op = "inbox"
    BY <1>2, <1>3, <1>7
  <2>3. ReadNotes' = ReadNotes
    <3>1. \A d : ~(d \in DOMAIN calls' /\ calls'[d].op = "read")
      BY <2>2
    <3>2. \A d : ~(d \in DOMAIN calls /\ calls[d].op = "read")
      BY <1>2, <1>7, <2>2
    <3>3. QED
      BY <1>2, <3>1, <3>2, ReadStay
  <2>4. view'.loaded => InboxShown'
    BY <1>1, <1>3, <2>1, <2>3 DEF InboxShown
  <2>5. QED
    BY <1>6, <2>1, <2>2, <2>4 DEF InboxInv
<1>8. CASE calls[c].op = "read"
  <2>1. PICK n \in Notes \cap view.inbox.unread : calls[c].note = {n}
    BY <1>3, <1>8
  <2>2. view.loaded /\ InboxShown
    BY <1>3, <1>8
  <2>3. inbox' = [inbox EXCEPT !.unread = @ \ {n}]
    BY <1>1, <1>8, <2>1, ServeDoes
  <2>4. inbox'.filed = inbox.filed /\ inbox'.unread = inbox.unread \ {n}
    BY <2>3 DEF ListsInv, KeptInv
  <2>5. ReadNotes' = ReadNotes \cup {n}
    <3>1. ReadCalls' = ReadCalls \cup {c} /\ c \notin ReadCalls
      BY <1>2, <1>8 DEF ReadCalls
    <3>2. \A d \in ReadCalls : calls'[d].note = calls[d].note
      BY <1>2, <3>1 DEF ReadCalls
    <3>3. calls'[c].note = {n}
      BY <1>2, <2>1
    <3>4. QED
      BY <3>1, <3>2, <3>3 DEF ReadNotes
  <2>6. InboxShown'
    <3>1. view'.inbox = view.inbox /\ view'.total = view.total
      BY <1>1
    <3>2. view.inbox.unread = inbox.unread \cup ReadNotes
      BY <2>2 DEF InboxShown
    <3>3. inbox'.unread \cup ReadNotes' = inbox.unread \cup ReadNotes
      BY <2>1, <2>4, <2>5, <3>2
    <3>4. QED
      BY <2>2, <2>4, <3>1, <3>2, <3>3 DEF InboxShown
  <2>7. \A d \in DOMAIN calls' : calls'[d].op # "inbox"
    BY <1>2, <1>3, <1>8
  <2>8. \A d \in DOMAIN calls' : calls'[d].op = "read" /\ calls'[d].at = "done" =>
          calls'[d].note \cap inbox'.unread = {}
    BY <1>2, <1>3, <2>1, <2>4
  <2>9. QED
    BY <1>6, <2>6, <2>7, <2>8 DEF InboxInv
<1>9. QED
  BY <1>5, <1>7, <1>8

LEMMA ServeLists ==
  ASSUME TabInv, ListsInv, NEW c \in DOMAIN calls, Serve(c)
  PROVE  ListsInv'
BY ServeKept, ServeSaved, ServeInbox DEF ListsInv

(* What the pages with a list make of an answer.                           *)
LEMMA LoadedShows ==
  ASSUME DOMAIN view = ViewFields, NEW call, call.op = "saved"
  PROVE  /\ Shown(call).loaded /\ Shown(call).error = ~call.ok
         /\ call.ok /\ (call.offset = 0 \/ ~view.loaded) =>
              Shown(call).items = call.items /\ Shown(call).total = call.total
         /\ call.ok /\ ~(call.offset = 0 \/ ~view.loaded) =>
              Shown(call).items = view.items \o call.items /\ Shown(call).total = call.total
         /\ ~call.ok => Shown(call).items = view.items /\ Shown(call).total = view.total
<1>1. Shown(call) = Loaded(call)
  BY DEF Shown
<1>2. DOMAIN Loaded(call) = ViewFields
  BY DEF Loaded
<1>3. Loaded(call).loaded /\ Loaded(call).error = ~call.ok
  BY DEF Loaded, ViewFields
<1>4. call.ok => Loaded(call).total = call.total
  BY DEF Loaded, ViewFields
<1>5. ~call.ok => Loaded(call).items = view.items /\ Loaded(call).total = view.total
  BY DEF Loaded, ViewFields
<1>6. call.ok /\ (call.offset = 0 \/ ~view.loaded) => Loaded(call).items = call.items
  BY DEF Loaded, ViewFields
<1>7. call.ok /\ ~(call.offset = 0 \/ ~view.loaded) =>
        Loaded(call).items = view.items \o call.items
  BY DEF Loaded, ViewFields
<1>8. QED
  BY <1>1, <1>3, <1>4, <1>5, <1>6, <1>7

LEMMA MaxOfTwo ==
  ASSUME NEW n \in Int
  PROVE  Max({0, n}) = IF n < 0 THEN 0 ELSE n
<1>1. \E x \in {0, n} : \A y \in {0, n} : x >= y
  OBVIOUS
<1>2. Max({0, n}) \in {0, n} /\ \A y \in {0, n} : Max({0, n}) >= y
  BY <1>1 DEF Max
<1>3. QED
  BY <1>2

LEMMA RemovedShows ==
  ASSUME DOMAIN view = ViewFields, view.total \in Nat, NEW call, call.op = "remove"
  PROVE  /\ Shown(call).loaded = view.loaded
         /\ call.ok => /\ Shown(call).items = Without(view.items, call.event)
                       /\ view.total > 0 => Shown(call).total = view.total - 1
         /\ ~call.ok => /\ Shown(call).items = view.items
                        /\ Shown(call).total = view.total
<1>1. Shown(call) = Removed(call)
  BY DEF Shown
<1>2. Removed(call).loaded = view.loaded
  BY DEF Removed, ViewFields
<1>3. call.ok => /\ Removed(call).items = Without(view.items, call.event)
                 /\ Removed(call).total = Max({0, view.total - 1})
  BY DEF Removed, ViewFields
<1>4. ~call.ok => /\ Removed(call).items = view.items
                  /\ Removed(call).total = view.total
  BY DEF Removed, ViewFields
<1>5. view.total > 0 => Max({0, view.total - 1}) = view.total - 1
  <2>1. view.total - 1 \in Int
    OBVIOUS
  <2>2. Max({0, view.total - 1}) = IF view.total - 1 < 0 THEN 0 ELSE view.total - 1
    BY <2>1, MaxOfTwo
  <2>3. QED
    BY <2>2
<1>6. QED
  BY <1>1, <1>2, <1>3, <1>4, <1>5

LEMMA ListedShows ==
  ASSUME DOMAIN view = ViewFields, NEW call, call.op = "inbox", call.ok
  PROVE  Shown(call).loaded /\ Shown(call).inbox = call.inbox /\ Shown(call).total = call.total
<1>1. Shown(call) = Listed(call)
  BY DEF Shown
<1>2. QED
  BY <1>1 DEF Listed, ViewFields

LEMMA MarkedShows ==
  ASSUME DOMAIN view = ViewFields, view.total \in Nat, view.total > 0,
         NEW call, call.op = "read"
  PROVE  /\ Shown(call).loaded = view.loaded
         /\ Shown(call).inbox = [view.inbox EXCEPT !.unread = @ \ call.note]
         /\ Shown(call).total = view.total - 1
<1> DEFINE marked == [view.inbox EXCEPT !.unread = @ \ call.note]
<1>1. Shown(call) = [view EXCEPT !.inbox = marked, !.total = Max({0, @ - 1})]
  BY DEF Shown, Marked
<1>2. Max({0, view.total - 1}) = view.total - 1
  <2>1. view.total - 1 \in Int
    OBVIOUS
  <2>2. Max({0, view.total - 1}) = IF view.total - 1 < 0 THEN 0 ELSE view.total - 1
    BY <2>1, MaxOfTwo
  <2>3. QED
    BY <2>2
<1> HIDE DEF marked
<1>3. /\ Shown(call).inbox = marked /\ Shown(call).loaded = view.loaded
      /\ Shown(call).total = Max({0, view.total - 1})
  BY <1>1 DEF ViewFields
<1>4. QED
  BY <1>2, <1>3 DEF marked

(* The next page goes on with the list where the first items end.          *)
LEMMA PageBegins ==
  ASSUME saved \in Seq(UserEvents), NEW items \in Seq(UserEvents), Begins(items, saved)
  PROVE  /\ PageOf(Len(items)) \in Seq(UserEvents)
         /\ items \o PageOf(Len(items)) \in Seq(UserEvents)
         /\ Begins(items \o PageOf(Len(items)), saved)
<1> DEFINE m == Len(items)
           n == Min({Len(saved), m + Page})
           rest == SubSeq(saved, m + 1, n)
<1>1. m \in Nat /\ Len(saved) \in Nat /\ Page \in Nat
  BY WebAssumption
<1>2. m <= Len(saved) /\ \A i \in 1..m : items[i] = saved[i]
  BY DEF Begins
<1>3. n \in Nat /\ m <= n /\ n <= Len(saved)
  <2>1. n = IF m + Page < Len(saved) THEN m + Page ELSE Len(saved)
    <3>1. m + Page \in Nat
      BY <1>1
    <3> HIDE DEF m
    <3>2. QED
      BY <1>1, <3>1, MinOfTwo
  <2>2. QED
    BY <1>1, <1>2, <2>1
<1>4. PageOf(Len(items)) = rest
  BY DEF PageOf
<1> HIDE DEF n
<1>5. rest \in Seq(UserEvents) /\ Len(rest) = n - m /\ \A i \in 1..n - m : rest[i] = saved[m + i]
  <2>1. \A i \in m + 1..n : saved[i] \in UserEvents
    BY <1>1, <1>3
  <2>2. rest = [i \in 1..n - m |-> saved[m + i]]
    BY <1>1, <1>3
  <2>3. n - m \in Nat /\ \A i \in 1..n - m : m + i \in m + 1..n
    BY <1>1, <1>3
  <2> HIDE DEF rest, m
  <2>4. rest \in [1..n - m -> UserEvents]
    BY <2>1, <2>2, <2>3
  <2>5. \A i \in 1..n - m : rest[i] = saved[m + i]
    BY <2>2
  <2>6. rest \in Seq(UserEvents) /\ Len(rest) = n - m
    BY <2>3, <2>4
  <2>7. QED
    BY <2>5, <2>6
<1> HIDE DEF rest
<1>6. items \o rest \in Seq(UserEvents) /\ Len(items \o rest) = n
  BY <1>1, <1>3, <1>5
<1>7. \A i \in 1..n : (items \o rest)[i] = saved[i]
  <2> SUFFICES ASSUME NEW i \in 1..n
               PROVE  (items \o rest)[i] = saved[i]
    OBVIOUS
  <2>1. CASE i <= m
    BY <1>1, <1>2, <1>3, <1>5, <2>1
  <2>2. CASE i > m
    <3>1. (items \o rest)[i] = rest[i - m]
      BY <1>1, <1>3, <1>5, <2>2
    <3>2. i - m \in 1..n - m /\ m + (i - m) = i
      BY <1>1, <1>3, <2>2
    <3>3. QED
      BY <1>5, <3>1, <3>2
  <2>3. i <= m \/ i > m
    <3> HIDE DEF m
    <3>1. i \in Nat
      BY <1>3
    <3>2. QED
      BY <1>1, <3>1
  <2>4. QED
    BY <2>1, <2>2, <2>3
<1>8. QED
  BY <1>3, <1>4, <1>5, <1>6, <1>7 DEF Begins

(* Nothing is left out when nothing is gone.                               *)
LEMMA NoneGone ==
  ASSUME GoneCalls = {}, saved \in Seq(UserEvents), view.items \in Seq(UserEvents)
  PROVE  ItemsAgree <=> Begins(view.items, saved) /\ view.total = Len(saved)
<1>1. GoneEvents = {}
  BY DEF GoneEvents
<1>2. Without(view.items, {}) = view.items
  <2>1. Range(view.items) \cap {} = {}
    OBVIOUS
  <2>2. QED
    BY <2>1, WithoutNone
<1>3. Cardinality(GoneCalls) = 0
  BY FS_EmptySet
<1>4. Len(saved) \in Nat
  OBVIOUS
<1>5. QED
  BY <1>1, <1>2, <1>3, <1>4 DEF ItemsAgree

(* An answer that comes takes its call away.                               *)
LEMMA AnswerOver ==
  ASSUME KeptInv, NEW c \in DOMAIN calls, Answer(c)
  PROVE  /\ KeptInv'
         /\ calls[c].at = "done"
         /\ DOMAIN calls' = DOMAIN calls \ {c}
         /\ \A d \in DOMAIN calls' : calls'[d] = calls[d]
         /\ calls[c].open => view' = Shown(calls[c])
         /\ UNCHANGED <<cookie, page, saved, inbox, disturbed>>
<1>1. /\ calls[c].at = "done"
      /\ DOMAIN calls' = DOMAIN calls \ {c}
      /\ \A d \in DOMAIN calls' : calls'[d] = calls[d]
      /\ UNCHANGED <<cookie, page, saved, inbox, disturbed, sent>>
  BY DEF Answer, CallsBut, server
<1>2. calls[c].open => view' = Shown(calls[c])
  BY DEF Answer
<1>3. KeptInv'
  BY <1>1 DEF KeptInv
<1>4. QED
  BY <1>1, <1>2, <1>3

(* A removal that the page knows of now.                                   *)
LEMMA AnswerRemoval ==
  ASSUME KeptInv, ItemsAgree, view.items \in Seq(UserEvents), view.total \in Nat,
         NEW c \in GoneCalls, NEW e, calls[c].event = {e},
         DOMAIN calls' = DOMAIN calls \ {c}, \A d \in DOMAIN calls' : calls'[d] = calls[d],
         view.total > 0 => view'.total = view.total - 1,
         view'.items = Without(view.items, {e}), UNCHANGED saved
  PROVE  ItemsAgree' /\ view'.total \in Nat /\ view'.items \in Seq(UserEvents)
<1>1. GoneCalls' = GoneCalls \ {c} /\ c \in DOMAIN calls
  BY DEF GoneCalls
<1>2. \A d \in GoneCalls' : calls'[d].event = calls[d].event
  BY <1>1 DEF GoneCalls
<1>3. GoneEvents = {e} \cup GoneEvents'
  BY <1>1, <1>2 DEF GoneEvents
<1>4. Without(view'.items, GoneEvents') = Without(view.items, GoneEvents)
  BY <1>3, WithoutTwice
<1>5. Cardinality(GoneCalls') = Cardinality(GoneCalls) - 1 /\ Cardinality(GoneCalls) \in Nat
      /\ Cardinality(GoneCalls') \in Nat
  <2>1. GoneCalls \subseteq 0..(sent - 1) /\ sent - 1 \in Int
    BY DEF KeptInv, GoneCalls
  <2>2. IsFiniteSet(GoneCalls)
    <3>1. IsFiniteSet(0..(sent - 1))
      BY <2>1, FS_Interval
    <3>2. QED
      BY <2>1, <3>1, FS_Subset
  <2>3. IsFiniteSet(GoneCalls')
    BY <1>1, <2>2, FS_RemoveElement
  <2>4. QED
    BY <1>1, <2>2, <2>3, FS_RemoveElement, FS_CardinalityType
<1>6. view.total = Len(saved) + Cardinality(GoneCalls) /\ Len(saved) \in Nat
  BY DEF ItemsAgree, KeptInv
<1>7. view'.total = Len(saved') + Cardinality(GoneCalls') /\ view'.total \in Nat
  BY <1>5, <1>6
<1>8. Begins(Without(view'.items, GoneEvents'), saved')
  BY <1>4 DEF ItemsAgree
<1>9. view'.items \in Seq(UserEvents)
  BY WithoutProperties
<1>10. QED
  BY <1>7, <1>8, <1>9 DEF ItemsAgree

LEMMA AnswerSaved ==
  ASSUME TabInv, ListsInv, NEW c \in DOMAIN calls, Answer(c)
  PROVE  SavedInv'
<1> SUFFICES ASSUME page' = "saved", ~disturbed'
             PROVE  SavedInv'
  BY DEF SavedInv
<1>1. KeptInv /\ saved \in Seq(UserEvents) /\ DOMAIN view = ViewFields
  BY DEF ListsInv, KeptInv, TabInv
<1>2. /\ calls[c].at = "done"
      /\ DOMAIN calls' = DOMAIN calls \ {c}
      /\ \A d \in DOMAIN calls' : calls'[d] = calls[d]
      /\ UNCHANGED <<page, saved, disturbed>>
  BY <1>1, AnswerOver
<1>3. page = "saved" /\ ~disturbed
  BY <1>2
<1>4. /\ \A d \in DOMAIN calls : calls[d].open
      /\ \A a, d \in DOMAIN calls : calls[a].op = "saved" => a = d
      /\ \A d \in DOMAIN calls : calls[d].op = "saved" =>
           /\ calls[d].offset = Len(view.items)
           /\ calls[d].at = "done" /\ calls[d].ok =>
                calls[d].items = PageOf(calls[d].offset) /\ calls[d].total = Len(saved)
      /\ \A d \in DOMAIN calls : calls[d].op = "remove" =>
           view.loaded /\ \E e \in UserEvents : calls[d].event = {e}
      /\ view.items \in Seq(UserEvents) /\ view.total \in Nat
      /\ ~view.loaded => view.items = <<>> /\ view.total = 0
      /\ view.loaded => ItemsAgree
  BY <1>3 DEF ListsInv, SavedInv
<1>5. view' = Shown(calls[c])
  BY <1>1, <1>4, AnswerOver
<1>6. calls[c].op \in {"saved", "remove"}
  BY <1>3, <1>4, LiveCalls DEF TabInv, OpsOf
<1>7. CASE calls[c].op = "saved"
  <2>1. DOMAIN calls = {c} /\ DOMAIN calls' = {}
    BY <1>2, <1>4, <1>7
  <2>2. GoneCalls = {} /\ GoneCalls' = {}
    BY <1>7, <2>1 DEF GoneCalls, Gone
  <2>3. view.loaded => Begins(view.items, saved) /\ view.total = Len(saved)
    BY <1>1, <1>4, <2>2, NoneGone
  <2>4. Begins(view.items, saved)
    <3>1. Begins(<<>>, saved)
      BY <1>1 DEF Begins
    <3>2. QED
      BY <1>4, <2>3, <3>1
  <2>5. CASE calls[c].ok
    <3>1. calls[c].offset = Len(view.items) /\ calls[c].items = PageOf(Len(view.items))
          /\ calls[c].total = Len(saved)
      BY <1>2, <1>4, <1>7, <2>5
    <3> DEFINE more == PageOf(Len(view.items))
    <3>2. /\ more \in Seq(UserEvents) /\ view.items \o more \in Seq(UserEvents)
          /\ Begins(view.items \o more, saved)
      BY <1>1, <1>4, <2>4, PageBegins
    <3> HIDE DEF more
    <3>3. view'.loaded /\ view'.total = Len(saved)
      BY <1>1, <1>5, <1>7, <2>5, <3>1, LoadedShows
    <3>4. view'.items = view.items \o more
      <4>1. CASE calls[c].offset = 0 \/ ~view.loaded
        <5>1. view'.items = more
          BY <1>1, <1>5, <1>7, <2>5, <3>1, <4>1, LoadedShows DEF more
        <5>2. view.items = <<>>
          BY <1>4, <3>1, <4>1
        <5>3. QED
          BY <3>2, <5>1, <5>2
      <4>2. CASE ~(calls[c].offset = 0 \/ ~view.loaded)
        BY <1>1, <1>5, <1>7, <2>5, <3>1, <4>2, LoadedShows DEF more
      <4>3. QED
        BY <4>1, <4>2
    <3>5. GoneEvents' = {}
      BY <2>2 DEF GoneEvents
    <3>6. Without(view'.items, GoneEvents') = view'.items
      <4>1. Range(view.items \o more) \cap {} = {}
        OBVIOUS
      <4>2. QED
        BY <3>2, <3>4, <3>5, <4>1, WithoutNone
    <3>7. ItemsAgree'
      <4>1. Cardinality(GoneCalls') = 0
        BY <2>2, FS_EmptySet
      <4>2. Len(saved) \in Nat
        BY <1>1
      <4>3. QED
        BY <1>2, <3>2, <3>3, <3>4, <3>6, <4>1, <4>2 DEF ItemsAgree
    <3>8. view'.items \in Seq(UserEvents) /\ view'.total \in Nat
      BY <1>1, <3>2, <3>3, <3>4
    <3>9. QED
      BY <2>1, <3>3, <3>7, <3>8 DEF SavedInv
  <2>6. CASE ~calls[c].ok
    <3>1. /\ view'.loaded /\ view'.error /\ view'.items = view.items /\ view'.total = view.total
      BY <1>1, <1>5, <1>7, <2>6, LoadedShows
    <3>2. CASE view.loaded
      <4>1. GoneEvents = {} /\ GoneEvents' = {}
        BY <2>2 DEF GoneEvents
      <4>2. ItemsAgree'
        BY <1>2, <1>4, <2>2, <3>1, <3>2, <4>1 DEF ItemsAgree
      <4>3. QED
        BY <1>4, <2>1, <3>1, <4>2 DEF SavedInv
    <3>3. CASE ~view.loaded
      BY <1>4, <2>1, <3>1, <3>3 DEF SavedInv
    <3>4. QED
      BY <3>2, <3>3
  <2>7. QED
    BY <2>5, <2>6
<1>8. CASE calls[c].op = "remove"
  <2>1. PICK e \in UserEvents : calls[c].event = {e}
    BY <1>4, <1>8
  <2>2. view.loaded /\ ItemsAgree
    BY <1>4, <1>8
  <2>3. view'.loaded
    BY <1>1, <1>4, <1>5, <1>8, <2>2, RemovedShows
  <2>4. \A d \in DOMAIN calls' : d \in DOMAIN calls /\ calls'[d] = calls[d] /\ calls'[d].op # "saved"
    BY <1>2, <1>4, <1>8
  <2>5. ItemsAgree' /\ view'.total \in Nat /\ view'.items \in Seq(UserEvents)
    <3>1. CASE calls[c].ok
      <4>1. c \in GoneCalls
        BY <1>2, <1>8, <3>1 DEF GoneCalls, Gone
      <4>2. /\ view'.items = Without(view.items, {e})
            /\ view.total > 0 => view'.total = view.total - 1
        BY <1>1, <1>4, <1>5, <1>8, <2>1, <3>1, RemovedShows
      <4>3. QED
        BY <1>1, <1>2, <1>4, <2>1, <2>2, <4>1, <4>2, AnswerRemoval
    <3>2. CASE ~calls[c].ok
      <4>1. view'.items = view.items /\ view'.total = view.total
        BY <1>1, <1>4, <1>5, <1>8, <3>2, RemovedShows
      <4>2. \A d : d \in DOMAIN calls' /\ Gone(calls'[d]) <=> d \in DOMAIN calls /\ Gone(calls[d])
        BY <1>2, <3>2 DEF Gone
      <4>3. GoneCalls' = GoneCalls /\ GoneEvents' = GoneEvents
        BY <1>2, <4>2, GoneStay
      <4>4. QED
        BY <1>2, <1>4, <2>2, <4>1, <4>3 DEF ItemsAgree
    <3>3. QED
      BY <3>1, <3>2
  <2>6. QED
    BY <1>4, <2>3, <2>4, <2>5 DEF SavedInv
<1>9. QED
  BY <1>6, <1>7, <1>8

LEMMA AnswerInbox ==
  ASSUME TabInv, ListsInv, NEW c \in DOMAIN calls, Answer(c)
  PROVE  InboxInv'
<1> SUFFICES ASSUME page' = "inbox", ~disturbed', cookie'
             PROVE  InboxInv'
  BY DEF InboxInv
<1>1. KeptInv /\ inbox \in [filed : SUBSET Notes, unread : SUBSET Notes]
      /\ DOMAIN view = ViewFields
  BY DEF ListsInv, KeptInv, TabInv
<1>2. /\ calls[c].at = "done"
      /\ DOMAIN calls' = DOMAIN calls \ {c}
      /\ \A d \in DOMAIN calls' : calls'[d] = calls[d]
      /\ UNCHANGED <<cookie, page, inbox, disturbed>>
  BY <1>1, AnswerOver
<1>3. page = "inbox" /\ ~disturbed /\ cookie
  BY <1>2
<1>4. /\ \A d \in DOMAIN calls : calls[d].open
      /\ \A a, d \in DOMAIN calls : calls[a].op = "inbox" => a = d
      /\ \A d \in DOMAIN calls : calls[d].op = "inbox" /\ calls[d].at = "done" =>
           calls[d].ok /\ calls[d].inbox = inbox /\ calls[d].total = Cardinality(inbox.unread)
      /\ \A d \in DOMAIN calls : calls[d].op = "read" =>
           /\ view.loaded /\ \E n \in Notes \cap view.inbox.unread : calls[d].note = {n}
           /\ calls[d].at = "done" => calls[d].note \cap inbox.unread = {}
      /\ \A a, d \in DOMAIN calls :
           calls[a].op = "read" /\ calls[d].op = "read" /\ calls[a].note = calls[d].note => a = d
      /\ view.loaded => InboxShown
  BY <1>3 DEF ListsInv, InboxInv
<1>5. view' = Shown(calls[c])
  BY <1>1, <1>4, AnswerOver
<1>6. calls[c].op \in {"inbox", "read"}
  BY <1>3, <1>4, LiveCalls DEF TabInv, OpsOf
<1>7. CASE calls[c].op = "inbox"
  <2>1. DOMAIN calls' = {}
    BY <1>2, <1>4, <1>7
  <2>2. view'.loaded /\ view'.inbox = inbox /\ view'.total = Cardinality(inbox.unread)
    BY <1>1, <1>2, <1>4, <1>5, <1>7, ListedShows
  <2>3. ReadNotes' = {}
    BY <2>1 DEF ReadNotes, ReadCalls
  <2>4. InboxShown'
    BY <1>1, <1>2, <2>2, <2>3 DEF InboxShown
  <2>5. QED
    BY <2>1, <2>4 DEF InboxInv
<1>8. CASE calls[c].op = "read"
  <2>1. PICK n \in Notes \cap view.inbox.unread : calls[c].note = {n}
    BY <1>4, <1>8
  <2>2. /\ view.loaded
        /\ view.inbox = [filed |-> inbox.filed, unread |-> inbox.unread \cup ReadNotes]
        /\ view.total = Cardinality(view.inbox.unread)
        /\ n \notin inbox.unread
    BY <1>2, <1>4, <1>8, <2>1 DEF InboxShown
  <2>3. ReadCalls = ReadCalls' \cup {c} /\ c \notin ReadCalls'
    BY <1>2, <1>8 DEF ReadCalls
  <2>4. \A d \in ReadCalls' : calls'[d].note = calls[d].note
    BY <1>2 DEF ReadCalls
  <2>5. ReadNotes = ReadNotes' \cup {n}
    BY <2>1, <2>3, <2>4 DEF ReadNotes
  <2>6. \A d \in DOMAIN calls' : calls'[d].op = "read" =>
          \E m \in Notes \cap view.inbox.unread : m # n /\ calls'[d].note = {m}
    <3> SUFFICES ASSUME NEW d \in DOMAIN calls', calls'[d].op = "read"
                 PROVE  \E m \in Notes \cap view.inbox.unread : m # n /\ calls'[d].note = {m}
      OBVIOUS
    <3>1. d \in DOMAIN calls /\ d # c /\ calls'[d] = calls[d] /\ calls[d].op = "read"
      BY <1>2
    <3>2. PICK m \in Notes \cap view.inbox.unread : calls[d].note = {m}
      BY <1>4, <3>1
    <3>3. m # n
      BY <1>4, <1>8, <2>1, <3>1, <3>2
    <3>4. QED
      BY <3>1, <3>2, <3>3
  <2>7. n \notin ReadNotes'
    BY <2>6 DEF ReadNotes, ReadCalls
  <2>8. Cardinality(view.inbox.unread \ {n}) = view.total - 1 /\ view.total \in Nat /\ view.total > 0
    <3>1. view.inbox.unread \subseteq Notes
      <4>1. \A d \in ReadCalls : calls[d].note \subseteq Notes
        BY <1>4 DEF ReadCalls
      <4>2. ReadNotes \subseteq Notes
        BY <4>1 DEF ReadNotes
      <4>3. QED
        BY <1>1, <2>2, <4>2
    <3>2. IsFiniteSet(view.inbox.unread)
      BY <3>1, WebAssumption, FS_Subset
    <3>3. Cardinality(view.inbox.unread) \in Nat
          /\ Cardinality(view.inbox.unread \ {n}) = Cardinality(view.inbox.unread) - 1
          /\ Cardinality(view.inbox.unread \ {n}) \in Nat
      <4>1. IsFiniteSet(view.inbox.unread \ {n})
        BY <3>2, FS_RemoveElement
      <4>2. QED
        BY <2>1, <3>2, <4>1, FS_RemoveElement, FS_CardinalityType
    <3>4. QED
      BY <2>2, <3>3
  <2>9. /\ view'.loaded
        /\ view'.inbox = [view.inbox EXCEPT !.unread = @ \ {n}]
        /\ view'.total = view.total - 1
    BY <1>1, <1>5, <1>8, <2>1, <2>2, <2>8, MarkedShows
  <2>10. InboxShown'
    <3>1. view'.inbox = [filed |-> inbox'.filed, unread |-> inbox'.unread \cup ReadNotes']
      BY <1>2, <2>2, <2>5, <2>7, <2>9
    <3>2. view'.total = Cardinality(view'.inbox.unread)
      BY <2>8, <2>9
    <3>3. QED
      BY <1>2, <2>2, <2>9, <3>1, <3>2 DEF InboxShown
  <2>11. \A d \in DOMAIN calls' : d \in DOMAIN calls /\ calls'[d] = calls[d] /\ calls'[d].op # "inbox"
    BY <1>2, <1>4, <1>8
  <2>12. \A d \in DOMAIN calls' : calls'[d].op = "read" =>
           /\ view'.loaded /\ \E m \in Notes \cap view'.inbox.unread : calls'[d].note = {m}
           /\ calls'[d].at = "done" => calls'[d].note \cap inbox'.unread = {}
    BY <1>2, <1>4, <2>6, <2>9, <2>11
  <2>13. QED
    BY <1>4, <2>9, <2>10, <2>11, <2>12 DEF InboxInv
<1>9. QED
  BY <1>6, <1>7, <1>8

LEMMA AnswerLists ==
  ASSUME TabInv, ListsInv, NEW c \in DOMAIN calls, Answer(c)
  PROVE  ListsInv'
BY AnswerOver, AnswerSaved, AnswerInbox DEF ListsInv

(* Once disturbed, only what the API keeps is at stake.                    *)
LEMMA DisturbedLists ==
  ASSUME KeptInv', disturbed'
  PROVE  ListsInv'
BY DEF ListsInv, SavedInv, InboxInv

LEMMA FailsLists ==
  ASSUME TabInv, ListsInv, NEW c \in DOMAIN calls, CallFails(c)
  PROVE  ListsInv'
<1>1. disturbed' /\ UNCHANGED <<saved, inbox, sent>>
  BY DEF CallFails, server
<1>2. /\ DOMAIN calls' \subseteq DOMAIN calls
      /\ \A d \in DOMAIN calls' : calls'[d].at = calls[d].at /\ calls'[d].ok = calls[d].ok
  <2>1. CASE calls[c].at = "done"
    BY <2>1 DEF CallFails, CallsBut
  <2>2. CASE calls[c].at # "done"
    <3>1. calls' = [calls EXCEPT ![c] = [calls[c] EXCEPT !.open = FALSE]]
      BY <2>2 DEF CallFails
    <3>2. DOMAIN calls[c] = CallFields
      BY DEF TabInv, IsCall
    <3> DEFINE dropped == [calls[c] EXCEPT !.open = FALSE]
    <3>3. dropped.at = calls[c].at /\ dropped.ok = calls[c].ok
      BY <3>2 DEF CallFields
    <3> HIDE DEF dropped
    <3>4. DOMAIN calls' = DOMAIN calls /\ calls'[c] = dropped
          /\ \A d \in DOMAIN calls : d # c => calls'[d] = calls[d]
      BY <3>1 DEF dropped
    <3>5. QED
      BY <3>3, <3>4
  <2>3. QED
    BY <2>1, <2>2
<1>3. KeptInv'
  BY <1>1, <1>2 DEF ListsInv, KeptInv
<1>4. QED
  BY <1>1, <1>3, DisturbedLists

LEMMA OthersLists ==
  ASSUME ListsInv, OtherClient
  PROVE  ListsInv'
<1>1. disturbed' /\ UNCHANGED <<calls, sent>>
  BY DEF OtherClient
<1>2. /\ saved \in Seq(UserEvents) /\ \A i, j \in DOMAIN saved : saved[i] = saved[j] => i = j
      /\ inbox \in [filed : SUBSET Notes, unread : SUBSET Notes]
  BY DEF ListsInv, KeptInv
<1>3. \/ \E e \in UserEvents : /\ saved' = IF e \in Range(saved) THEN Without(saved, {e})
                                           ELSE <<e>> \o saved
                               /\ inbox' = inbox
      \/ UNCHANGED <<saved, inbox>>
      \/ \E n \in Notes : /\ inbox' = [filed |-> inbox.filed \cup {n},
                                       unread |-> inbox.unread \cup {n}]
                          /\ saved' = saved
  BY DEF OtherClient
<1>4. ASSUME NEW e \in UserEvents, e \in Range(saved), saved' = Without(saved, {e})
      PROVE  saved' \in Seq(UserEvents)
             /\ \A i, j \in DOMAIN saved' : saved'[i] = saved'[j] => i = j
  <2>1. Without(saved, {e}) \in Seq(UserEvents)
    BY <1>2, WithoutProperties
  <2>2. \A i, j \in DOMAIN Without(saved, {e}) :
          Without(saved, {e})[i] = Without(saved, {e})[j] => i = j
    BY <1>2, WithoutOne
  <2>3. QED
    BY <1>4, <2>1, <2>2
<1>5. ASSUME NEW e \in UserEvents, e \notin Range(saved), saved' = <<e>> \o saved
      PROVE  saved' \in Seq(UserEvents)
             /\ \A i, j \in DOMAIN saved' : saved'[i] = saved'[j] => i = j
  <2>1. \A i \in DOMAIN saved : saved[i] # e
    BY <1>5 DEF Range
  <2>2. /\ saved' \in Seq(UserEvents) /\ DOMAIN saved' = 1..Len(saved) + 1 /\ Len(saved) \in Nat
        /\ saved'[1] = e
    BY <1>2, <1>5
  <2>3. \A i \in 2..Len(saved) + 1 : saved'[i] = saved[i - 1] /\ i - 1 \in DOMAIN saved
    BY <1>2, <1>5
  <2>4. QED
    BY <1>2, <2>1, <2>2, <2>3
<1>6. saved' \in Seq(UserEvents) /\ \A i, j \in DOMAIN saved' : saved'[i] = saved'[j] => i = j
  <2>1. CASE saved' = saved
    BY <1>2, <2>1
  <2>2. QED
    BY <1>3, <1>4, <1>5, <2>1
<1>7. inbox' \in [filed : SUBSET Notes, unread : SUBSET Notes]
  <2>1. CASE inbox' = inbox
    BY <1>2, <2>1
  <2>2. ASSUME NEW n \in Notes,
               inbox' = [filed |-> inbox.filed \cup {n}, unread |-> inbox.unread \cup {n}]
        PROVE  inbox' \in [filed : SUBSET Notes, unread : SUBSET Notes]
    BY <1>2, <2>2
  <2>3. QED
    BY <1>3, <2>1, <2>2
<1>8. KeptInv'
  BY <1>1, <1>6, <1>7 DEF ListsInv, KeptInv
<1>9. QED
  BY <1>1, <1>8, DisturbedLists

LEMMA ListsStep ==
  ASSUME TabInv, ListsInv, [WebNext]_webVars
  PROVE  ListsInv'
<1>1. CASE UNCHANGED webVars
  <2>1. UNCHANGED <<cookie, page, view, calls, saved, inbox, sent, disturbed>>
    BY <1>1 DEF webVars, server
  <2>2. KeptInv'
    BY <2>1 DEF ListsInv, KeptInv
  <2>3. GoneCalls' = GoneCalls /\ GoneEvents' = GoneEvents /\ ReadNotes' = ReadNotes
    BY <2>1 DEF GoneCalls, GoneEvents, ReadNotes, ReadCalls
  <2>4. SavedInv'
    BY <2>1, <2>3 DEF ListsInv, SavedInv, ItemsAgree, PageOf
  <2>5. InboxInv'
    BY <2>1, <2>3 DEF ListsInv, InboxInv, InboxShown
  <2>6. QED
    BY <2>2, <2>4, <2>5 DEF ListsInv
<1>2. CASE Login \/ CookieExpires
  <2>1. /\ UNCHANGED <<page, view, calls, saved, inbox, sent, disturbed>>
        /\ page # "inbox" \/ ~cookie'
    BY <1>2 DEF Login, CookieExpires, server
  <2>2. KeptInv'
    BY <2>1 DEF ListsInv, KeptInv
  <2>3. GoneCalls' = GoneCalls /\ GoneEvents' = GoneEvents
    BY <2>1 DEF GoneCalls, GoneEvents
  <2>4. SavedInv'
    BY <2>1, <2>3 DEF ListsInv, SavedInv, ItemsAgree, PageOf
  <2>5. InboxInv'
    BY <2>1 DEF InboxInv
  <2>6. QED
    BY <2>2, <2>4, <2>5 DEF ListsInv
<1>3. CASE Logout
  <2>1. Enter("login", <<>>) /\ UNCHANGED <<saved, inbox>>
    BY <1>3 DEF Logout, server
  <2>2. QED
    BY <2>1, EnterLists
<1>4. ASSUME NEW p \in {"saved", "settings", "search", "inbox"}, Open(p)
      PROVE  ListsInv'
  <2>1. UNCHANGED <<saved, inbox>>
    BY <1>4 DEF Open, server
  <2>2. CASE cookie
    <3> DEFINE first == CASE p = "saved"    -> <<[NoCall EXCEPT !.op = "saved"]>>
                          [] p = "settings" -> <<[NoCall EXCEPT !.op = "profile"]>>
                          [] p = "inbox"    -> <<[NoCall EXCEPT !.op = "inbox"]>>
                          [] OTHER          -> <<>>
    <3>1. Enter(p, first)
      BY <1>4, <2>2 DEF Open
    <3>2. \/ first = <<>>
          \/ p = "saved" /\ first = <<[NoCall EXCEPT !.op = "saved"]>>
          \/ p = "settings" /\ first = <<[NoCall EXCEPT !.op = "profile"]>>
          \/ p = "inbox" /\ first = <<[NoCall EXCEPT !.op = "inbox"]>>
      OBVIOUS
    <3> HIDE DEF first
    <3>3. QED
      BY <2>1, <3>1, <3>2, EnterLists DEF OpsOf
  <2>3. CASE ~cookie
    <3>1. Enter("login", <<>>)
      BY <1>4, <2>3 DEF Open
    <3>2. QED
      BY <2>1, <3>1, EnterLists
  <2>4. QED
    BY <2>2, <2>3
<1>5. CASE ShowMore \/ Refresh
  BY <1>5, ShowMoreLists, RefreshLists
<1>6. CASE (\E e \in UserEvents : RemoveItem(e)) \/ (\E n \in Notes : MarkRead(n))
  BY <1>6, RemoveItemLists, MarkReadLists
<1>7. ASSUME NEW text \in Texts, Type(text)
      PROVE  ListsInv'
  <2>1. UNCHANGED <<page, calls, saved, inbox, sent>> /\ page = "settings"
    BY <1>7 DEF Type, server
  <2>2. QED
    BY <2>1 DEF ListsInv, KeptInv, SavedInv, InboxInv
<1>8. ASSUME NEW text \in Texts, Submit(text)
      PROVE  ListsInv'
  <2> DEFINE call == [NoCall EXCEPT !.op = "search", !.text = text]
  <2>1. Request(call) /\ UNCHANGED <<page, saved, inbox>> /\ page = "search"
    BY <1>8 DEF Submit, server
  <2>2. call.at = "sent" /\ call.ok
    BY NewCall, NewCallIs DEF CallFields
  <2> HIDE DEF call
  <2>3. QED
    BY <2>1, <2>2, OtherRequests
<1>9. ASSUME NEW about, SaveAbout(about), DOMAIN about = CallFields, about.at = "sent", about.ok,
             UNCHANGED <<page, saved, inbox>>
      PROVE  ListsInv'
  <2> DEFINE call == [about EXCEPT !.op = "put", !.text = view.text]
  <2>1. Request(call) /\ page = "settings"
    BY <1>9 DEF SaveAbout
  <2>2. call.at = "sent" /\ call.ok
    BY <1>9 DEF CallFields
  <2> HIDE DEF call
  <2>3. QED
    BY <1>9, <2>1, <2>2, OtherRequests
<1>10. CASE SaveText
  <2>1. SaveAbout(NoCall) /\ UNCHANGED <<page, saved, inbox>>
    BY <1>10 DEF SaveText, server
  <2>2. QED
    BY <1>9, <2>1, NewCall, NewCallIs
<1>11. ASSUME NEW t \in Topics, RemoveTopic(t)
       PROVE  ListsInv'
  <2>1. PICK kind \in {k \in {"interests", "anti"} : t \in view.profile[k]} :
          SaveAbout([NoCall EXCEPT !.given = TRUE,
            !.interests = view.profile.interests \ (IF kind = "interests" THEN {t} ELSE {}),
            !.anti = view.profile.anti \ (IF kind = "anti" THEN {t} ELSE {})])
    BY <1>11 DEF RemoveTopic
  <2>2. UNCHANGED <<page, saved, inbox>>
    BY <1>11 DEF RemoveTopic, server
  <2> DEFINE about == [NoCall EXCEPT !.given = TRUE,
            !.interests = view.profile.interests \ (IF kind = "interests" THEN {t} ELSE {}),
            !.anti = view.profile.anti \ (IF kind = "anti" THEN {t} ELSE {})]
  <2>3. DOMAIN about = CallFields /\ about.at = "sent" /\ about.ok
    BY NewCall, NewCallIs DEF CallFields
  <2>4. SaveAbout(about)
    BY <2>1
  <2> HIDE DEF about
  <2>5. QED
    BY <1>9, <2>2, <2>3, <2>4
<1>12. ASSUME NEW c \in DOMAIN calls, Serve(c) \/ Answer(c) \/ CallFails(c)
       PROVE  ListsInv'
  BY <1>12, ServeLists, AnswerLists, FailsLists
<1>13. CASE OtherClient
  BY <1>13, OthersLists
<1>14. QED
  BY <1>1, <1>2, <1>3, <1>4, <1>5, <1>6, <1>7, <1>8, <1>10, <1>11, <1>12, <1>13 DEF WebNext

(* Nothing under way, the pages show what is kept.                         *)
LEMMA ListsShown ==
  ASSUME ListsInv
  PROVE  ListsAgree
<1>1. SavedAgrees
  <2> SUFFICES ASSUME page = "saved", view.loaded, Live = {}, ~view.error, ~disturbed
               PROVE  IsPrefix(view.items, saved) /\ view.total = Len(saved)
    BY DEF SavedAgrees
  <2>1. /\ \A c \in DOMAIN calls : calls[c].open
        /\ view.items \in Seq(UserEvents) /\ saved \in Seq(UserEvents)
        /\ ItemsAgree
    BY DEF ListsInv, SavedInv, KeptInv
  <2>2. GoneCalls = {}
    BY <2>1, LiveCalls DEF GoneCalls
  <2>3. Begins(view.items, saved) /\ view.total = Len(saved)
    BY <2>1, <2>2, NoneGone
  <2>4. IsPrefix(view.items, saved)
    BY <2>1, <2>3 DEF Begins, IsPrefix
  <2>5. QED
    BY <2>3, <2>4
<1>2. InboxAgrees
  <2> SUFFICES ASSUME page = "inbox", view.loaded, Live = {}, ~disturbed, cookie
               PROVE  view.inbox = inbox /\ view.total = Cardinality(inbox.unread)
    BY DEF InboxAgrees
  <2>1. /\ \A c \in DOMAIN calls : calls[c].open
        /\ InboxShown /\ inbox \in [filed : SUBSET Notes, unread : SUBSET Notes]
    BY DEF ListsInv, InboxInv, KeptInv
  <2>2. ReadNotes = {}
    BY <2>1, LiveCalls DEF ReadNotes, ReadCalls
  <2>3. QED
    BY <2>1, <2>2 DEF InboxShown
<1>3. QED
  BY <1>1, <1>2 DEF ListsAgree

(* The pages "Saved" and "Inbox" show what the API keeps when nothing is   *)
(* under way, in whatever order pages, removals and marks were asked for   *)
(* and answered.                                                           *)
THEOREM ListsAreTrue == WebSpec => []ListsAgree
<1>1. WebInit => ListsInv
  <2> SUFFICES ASSUME WebInit
               PROVE  ListsInv
    OBVIOUS
  <2>1. page = "login" /\ DOMAIN calls = {} /\ sent = 0 /\ saved \in SetToSeqs(UserEvents)
    BY DEF WebInit
  <2>2. inbox \in [filed : SUBSET Notes, unread : SUBSET Notes]
    BY DEF WebInit
  <2>3. saved \in Seq(UserEvents) /\ DOMAIN saved = 1..Cardinality(UserEvents)
    BY <2>1, WebAssumption, AllInOrder
  <2>4. \A i, j \in DOMAIN saved : saved[i] = saved[j] => i = j
    BY <2>1, <2>3 DEF SetToSeqs
  <2>5. KeptInv
    BY <2>1, <2>2, <2>3, <2>4 DEF KeptInv
  <2>6. QED
    BY <2>1, <2>5 DEF ListsInv, SavedInv, InboxInv
<1>2. FormsInv /\ ListsInv /\ [WebNext]_webVars => ListsInv'
  BY ListsStep DEF FormsInv
<1>3. ListsInv => ListsAgree
  BY ListsShown
<1>4. QED
  BY <1>1, <1>2, <1>3, FormsInvHolds, PTL DEF WebSpec
===============================================================================
