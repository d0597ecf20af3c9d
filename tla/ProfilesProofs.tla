--------------------------- MODULE ProfilesProofs ---------------------------
(***************************************************************************)
(* The properties of the profiles, for every behaviour of the run that     *)
(* MCProfiles checks and every value of its constants: of the catalogue    *)
(* and its worker (ProfileCatalog) and of the configurations that are made *)
(* of the profiles (EnhancementPipeline).                                  *)
(*                                                                         *)
(* That the runtime follows the catalogue is not inductive.  An operation  *)
(* changes the files first and deploys afterwards, and when the deployment *)
(* fails it restores what it has saved: JobRemembers says what the job has *)
(* saved and what it can have changed since, JobProceeds how far it is,    *)
(* and LinksOfSources, that only sources have links and none is to the     *)
(* global enhancement, what a deletion may take along.  CatalogInv is all  *)
(* of them.                                                                *)
(*                                                                         *)
(* Of the pipeline, the three properties of a runtime follow from how it   *)
(* was made, and that it can be made again (ActivationIsStable) from the   *)
(* second activation reading the same control plane and mode back from it: *)
(* PipelineInv adds what that needs.  The inputs are any that              *)
(* PipelineAssumption admits.                                              *)
(***************************************************************************)
EXTENDS MCProfiles, FiniteSetTheorems, FunctionTheorems, SequenceTheorems,
        WellFoundedInduction, TLAPS

-----------------------------------------------------------------------------
(* Subsequences                                                            *)

\* A position that is kept has a place, later than those of the positions before it.
LEMMA PlaceOrder ==
  ASSUME NEW I, IsFiniteSet(I), I \subseteq Nat, NEW i \in I
  PROVE  /\ Place(I, i) \in 1 .. Cardinality(I)
         /\ \A j \in I : j < i => Place(I, j) < Place(I, i)
<1> DEFINE Until(k) == {j \in I : j <= k}
<1>1. \A k \in I : IsFiniteSet(Until(k)) /\ Cardinality(Until(k)) \in Nat
  BY FS_Subset, FS_CardinalityType
<1>2. Cardinality(Until(i)) <= Cardinality(I) /\ Cardinality(I) \in Nat
  BY FS_Subset, FS_CardinalityType
<1>3. Cardinality(Until(i)) # 0
  <2>1. i \in Until(i)
    OBVIOUS
  <2> QED BY <1>1, <2>1, FS_EmptySet
<1>4. ASSUME NEW j \in I, j < i PROVE Cardinality(Until(j)) < Cardinality(Until(i))
  <2>1. Until(j) \subseteq Until(i) /\ i \in Until(i) /\ i \notin Until(j)
    <3>1. i \in Nat /\ j \in Nat /\ \A k \in I : k \in Nat
      OBVIOUS
    <3>2. \A k \in I : k <= j => k <= i
      BY <1>4, <3>1
    <3>3. ~(i <= j) /\ i <= i
      BY <1>4, <3>1
    <3> QED BY <3>2, <3>3
  <2> HIDE DEF Until
  <2>2. Cardinality(Until(j)) <= Cardinality(Until(i))
          /\ Cardinality(Until(j)) # Cardinality(Until(i))
    BY <1>1, <2>1, FS_Subset
  <2> QED BY <1>1, <2>2
<1> QED BY <1>1, <1>2, <1>3, <1>4 DEF Place

\* The places are those of the subsequence, and each is taken by one position.
LEMMA Places ==
  ASSUME NEW I, IsFiniteSet(I), I \subseteq Nat
  PROVE  /\ \A i, j \in I : Place(I, i) = Place(I, j) => i = j
         /\ \A n \in 1 .. Cardinality(I) : \E i \in I : Place(I, i) = n
<1> DEFINE place == [i \in I |-> Place(I, i)]
           c == Cardinality(I)
<1>1. ASSUME NEW i \in I, NEW j \in I, Place(I, i) = Place(I, j) PROVE i = j
  <2>1. Place(I, i) \in 1 .. c /\ (j < i => Place(I, j) < Place(I, i))
    BY PlaceOrder
  <2>2. Place(I, j) \in 1 .. c /\ (i < j => Place(I, i) < Place(I, j))
    BY PlaceOrder
  <2>3. i \in Nat /\ j \in Nat /\ c \in Nat
    BY FS_CardinalityType
  <2> HIDE DEF c
  <2> QED BY <1>1, <2>1, <2>2, <2>3
<1>2. place \in Injection(I, 1 .. c)
  <2>1. \A i \in I : place[i] \in 1 .. c
    BY PlaceOrder
  <2> QED BY <1>1, <2>1 DEF Injection, IsInjective
<1>3. c \in Nat /\ IsFiniteSet(1 .. c) /\ Cardinality(1 .. c) = c
  BY FS_CardinalityType, FS_Interval
<1>4. place \in Surjection(I, 1 .. c)
  BY <1>2, <1>3, FS_Injection
<1>5. \A n \in 1 .. c : \E i \in I : place[i] = n
  BY <1>4 DEF Surjection
<1> QED BY <1>1, <1>5

\* What is picked: the elements at the positions kept, each at the place of its position.
LEMMA PickedElements ==
  ASSUME NEW S, NEW s \in Seq(S), NEW I \in SUBSET DOMAIN s
  PROVE  /\ Cardinality(I) \in Nat
         /\ DOMAIN Picked(s, I) = 1 .. Cardinality(I)
         /\ \A i \in I : /\ Place(I, i) \in 1 .. Cardinality(I)
                         /\ Picked(s, I)[Place(I, i)] = s[i]
         /\ \A n \in 1 .. Cardinality(I) :
              \E i \in I : Place(I, i) = n /\ Picked(s, I)[n] = s[i]
         /\ Picked(s, I) \in Seq(S)
         /\ Len(Picked(s, I)) = Cardinality(I)
<1>1. DOMAIN s = 1 .. Len(s) /\ Len(s) \in Nat /\ \A i \in DOMAIN s : s[i] \in S
  BY LenProperties
<1>2. IsFiniteSet(I) /\ I \subseteq Nat /\ Cardinality(I) \in Nat
  <2>1. I \subseteq 1 .. Len(s) /\ IsFiniteSet(1 .. Len(s))
    BY <1>1, FS_Interval
  <2>2. IsFiniteSet(I)
    BY <2>1, FS_Subset
  <2> QED BY <2>1, <2>2, FS_CardinalityType
<1>3. \A i \in I : Place(I, i) \in 1 .. Cardinality(I)
  BY <1>2, PlaceOrder
<1>4. \A i \in I : (CHOOSE j \in I : Place(I, j) = Place(I, i)) = i
  BY <1>2, Places
<1>5. \A i \in I : Picked(s, I)[Place(I, i)] = s[i]
  BY <1>3, <1>4 DEF Picked
<1>6. DOMAIN Picked(s, I) = 1 .. Cardinality(I)
  BY DEF Picked
<1>7. \A n \in 1 .. Cardinality(I) : \E i \in I : Place(I, i) = n /\ Picked(s, I)[n] = s[i]
  BY <1>2, <1>5, Places
<1>8. Picked(s, I) \in [1 .. Cardinality(I) -> S]
  <2>1. \A n \in 1 .. Cardinality(I) : Picked(s, I)[n] \in S
    BY <1>1, <1>7
  <2> QED BY <2>1 DEF Picked
<1>9. Picked(s, I) \in Seq(S)
  BY <1>2, <1>8, SeqDef
<1> QED BY <1>2, <1>3, <1>5, <1>6, <1>7, <1>9, LenProperties

\* Nothing is picked twice from a sequence without duplicates.
LEMMA PickedOnce ==
  ASSUME NEW S, NEW s \in Seq(S), IsInjective(s), NEW I \in SUBSET DOMAIN s
  PROVE  IsInjective(Picked(s, I))
<1> SUFFICES ASSUME NEW m \in 1 .. Cardinality(I), NEW n \in 1 .. Cardinality(I),
                    Picked(s, I)[m] = Picked(s, I)[n]
             PROVE  m = n
  BY PickedElements DEF IsInjective
<1>1. PICK i \in I : Place(I, i) = m /\ Picked(s, I)[m] = s[i]
  BY PickedElements
<1>2. PICK j \in I : Place(I, j) = n /\ Picked(s, I)[n] = s[j]
  BY PickedElements
<1>3. i = j
  BY <1>1, <1>2 DEF IsInjective
<1> QED BY <1>1, <1>2, <1>3

\* The elements of a set, as a sequence.
LEMMA SetAsSequence ==
  ASSUME NEW S, IsFiniteSet(S)
  PROVE  SetToSeq(S) \in Seq(S) /\ IsInjective(SetToSeq(S)) /\ ToSet(SetToSeq(S)) = S
<1> DEFINE c == Cardinality(S)
           f == SetToSeq(S)
<1>1. c \in Nat /\ ExistsBijection(1 .. c, S)
  BY FS_CardinalityType
<1>2. \E g \in [1 .. c -> S] : IsInjective(g)
  BY <1>1 DEF ExistsBijection, Bijection, Injection, IsInjective
<1>3. f \in [1 .. c -> S] /\ IsInjective(f)
  BY <1>2 DEF SetToSeq
<1>4. f \in Surjection(1 .. c, S)
  <2>1. Cardinality(1 .. c) = c
    BY <1>1, FS_Interval
  <2>2. f \in Injection(1 .. c, S)
    BY <1>3 DEF Injection, IsInjective
  <2> QED BY <2>1, <2>2, FS_Injection
<1>5. ToSet(f) = S
  BY <1>3, <1>4 DEF ToSet, Surjection
<1>6. f \in Seq(S)
  BY <1>1, <1>3, SeqDef
<1> QED BY <1>3, <1>5, <1>6

\* What the removal of an element leaves, and where an insertion puts one.
LEMMA RemovedElements ==
  ASSUME NEW S, NEW s \in Seq(S), NEW old \in 1 .. Len(s)
  PROVE  /\ RemoveAt(s, old) \in Seq(S) /\ Len(RemoveAt(s, old)) = Len(s) - 1
         /\ \A k \in 1 .. Len(s) - 1 :
              RemoveAt(s, old)[k] = s[IF k < old THEN k ELSE k + 1]
<1> DEFINE n == Len(s)
           left == SubSeq(s, 1, old - 1)
           right == SubSeq(s, old + 1, n)
<1>1. n \in Nat /\ old \in 1 .. n /\ \A k \in 1 .. n : s[k] \in S
  BY LenProperties
<1>2. left \in Seq(S) /\ Len(left) = old - 1 /\ \A k \in 1 .. old - 1 : left[k] = s[k]
  <2>1. 1 \in Int /\ old - 1 \in Int /\ \A k \in 1 .. old - 1 : s[k] \in S
    BY <1>1
  <2>2. /\ left \in Seq(S) /\ Len(left) = IF 1 <= old - 1 THEN old - 1 - 1 + 1 ELSE 0
        /\ \A k \in 1 .. old - 1 - 1 + 1 : left[k] = s[1 + k - 1]
    BY <2>1, SubSeqProperties
  <2> HIDE DEF left, n
  <2> QED BY <1>1, <2>2
<1>3. right \in Seq(S) /\ Len(right) = n - old
        /\ \A k \in 1 .. n - old : right[k] = s[old + k]
  <2>1. old + 1 \in Int /\ n \in Int /\ \A k \in old + 1 .. n : s[k] \in S
    BY <1>1
  <2>2. /\ right \in Seq(S)
        /\ Len(right) = IF old + 1 <= n THEN n - (old + 1) + 1 ELSE 0
        /\ \A k \in 1 .. n - (old + 1) + 1 : right[k] = s[(old + 1) + k - 1]
    BY <2>1, SubSeqProperties
  <2> HIDE DEF right, n
  <2>3. n - (old + 1) + 1 = n - old /\ \A k \in 1 .. n - old : (old + 1) + k - 1 = old + k
    BY <1>1
  <2>4. (IF old + 1 <= n THEN n - (old + 1) + 1 ELSE 0) = n - old
    BY <1>1
  <2> QED BY <2>2, <2>3, <2>4
<1>4. /\ left \o right \in Seq(S) /\ Len(left \o right) = n - 1
      /\ \A k \in 1 .. n - 1 :
           (left \o right)[k] = IF k <= old - 1 THEN left[k] ELSE right[k - (old - 1)]
  <2> HIDE DEF left, right, n
  <2> DEFINE before == old - 1
             after == n - old
  <2>1. before \in Nat /\ after \in Nat /\ before + after = n - 1
    BY <1>1
  <2>2. left \in Seq(S) /\ Len(left) = before /\ right \in Seq(S) /\ Len(right) = after
    BY <1>2, <1>3
  <2>3. /\ left \o right \in Seq(S) /\ Len(left \o right) = before + after
        /\ \A k \in 1 .. before + after :
             (left \o right)[k] = IF k <= before THEN left[k] ELSE right[k - before]
    <3> HIDE DEF before, after
    <3> QED BY <2>1, <2>2, ConcatProperties
  <2> QED BY <2>1, <2>3
<1>5. ASSUME NEW k \in 1 .. n - 1
      PROVE  (left \o right)[k] = s[IF k < old THEN k ELSE k + 1]
  <2> HIDE DEF left, right, n
  <2>1. CASE k < old
    <3>1. k \in 1 .. old - 1 /\ k <= old - 1
      BY <1>1, <2>1
    <3> QED BY <1>2, <1>4, <2>1, <3>1
  <2>2. CASE ~(k < old)
    <3>1. ~(k <= old - 1) /\ k - (old - 1) \in 1 .. n - old /\ old + (k - (old - 1)) = k + 1
      BY <1>1, <2>2
    <3> QED BY <1>3, <1>4, <2>2, <3>1
  <2> QED BY <2>1, <2>2
<1> QED BY <1>4, <1>5 DEF RemoveAt

LEMMA InsertedElements ==
  ASSUME NEW S, NEW s \in Seq(S), NEW e \in S, NEW new \in 1 .. Len(s) + 1
  PROVE  /\ InsertAt(s, new, e) \in Seq(S) /\ Len(InsertAt(s, new, e)) = Len(s) + 1
         /\ \A k \in 1 .. Len(s) + 1 :
              InsertAt(s, new, e)[k] = IF k = new THEN e ELSE s[IF k < new THEN k ELSE k - 1]
<1> DEFINE n == Len(s)
           left == SubSeq(s, 1, new - 1)
           right == SubSeq(s, new, n)
<1>1. n \in Nat /\ new \in Nat \ {0} /\ new <= n + 1 /\ \A k \in 1 .. n : s[k] \in S
  BY LenProperties
<1>2. left \in Seq(S) /\ Len(left) = new - 1 /\ \A k \in 1 .. new - 1 : left[k] = s[k]
  <2>1. 1 \in Int /\ new - 1 \in Int /\ \A k \in 1 .. new - 1 : s[k] \in S
    BY <1>1
  <2>2. /\ left \in Seq(S) /\ Len(left) = IF 1 <= new - 1 THEN new - 1 - 1 + 1 ELSE 0
        /\ \A k \in 1 .. new - 1 - 1 + 1 : left[k] = s[1 + k - 1]
    BY <2>1, SubSeqProperties
  <2> HIDE DEF left, n
  <2> QED BY <1>1, <2>2
<1>3. right \in Seq(S) /\ Len(right) = n - new + 1
      /\ \A k \in 1 .. n - new + 1 : right[k] = s[new + k - 1]
  <2>1. new \in Int /\ n \in Int /\ \A k \in new .. n : s[k] \in S
    BY <1>1
  <2>2. /\ right \in Seq(S) /\ Len(right) = IF new <= n THEN n - new + 1 ELSE 0
        /\ \A k \in 1 .. n - new + 1 : right[k] = s[new + k - 1]
    BY <2>1, SubSeqProperties
  <2> HIDE DEF right, n
  <2> QED BY <1>1, <2>2
<1>4. <<e>> \in Seq(S) /\ Len(<<e>>) = 1 /\ <<e>>[1] = e
  OBVIOUS
<1> HIDE DEF left, right, n
<1>5. /\ left \o <<e>> \in Seq(S) /\ Len(left \o <<e>>) = new
      /\ \A k \in 1 .. new : (left \o <<e>>)[k] = IF k <= new - 1 THEN s[k] ELSE e
  <2> DEFINE one == <<e>>
  <2> HIDE DEF one
  <2>1. /\ left \o one \in Seq(S) /\ Len(left \o one) = new - 1 + 1
        /\ \A k \in 1 .. new - 1 + 1 :
             (left \o one)[k] = IF k <= new - 1 THEN left[k] ELSE one[k - (new - 1)]
    BY <1>1, <1>2, <1>4, ConcatProperties DEF one
  <2>2. new - 1 + 1 = new
    BY <1>1
  <2>3. ASSUME NEW k \in 1 .. new PROVE (left \o one)[k] = IF k <= new - 1 THEN s[k] ELSE e
    <3>1. CASE k <= new - 1
      <4>1. k \in 1 .. new - 1
        BY <1>1, <3>1
      <4> QED BY <1>2, <2>1, <2>2, <3>1, <4>1
    <3>2. CASE ~(k <= new - 1)
      <4>1. k - (new - 1) = 1
        BY <1>1, <3>2
      <4> QED BY <1>4, <2>1, <2>2, <3>2, <4>1 DEF one
    <3> QED BY <3>1, <3>2
  <2> QED BY <2>1, <2>2, <2>3 DEF one
<1> DEFINE front == left \o <<e>>
<1> HIDE DEF front
<1>6. /\ front \o right \in Seq(S) /\ Len(front \o right) = new + (n - new + 1)
      /\ \A k \in 1 .. new + (n - new + 1) :
           (front \o right)[k] = IF k <= new THEN front[k] ELSE right[k - new]
  <2> DEFINE after == n - new + 1
  <2>1. new \in Nat /\ after \in Nat
    BY <1>1
  <2>2. front \in Seq(S) /\ Len(front) = new /\ right \in Seq(S) /\ Len(right) = after
    BY <1>3, <1>5 DEF front
  <2> HIDE DEF after
  <2>3. /\ front \o right \in Seq(S) /\ Len(front \o right) = new + after
        /\ \A k \in 1 .. new + after :
             (front \o right)[k] = IF k <= new THEN front[k] ELSE right[k - new]
    BY <2>1, <2>2, ConcatProperties
  <2> QED BY <2>3 DEF after
<1>7. new + (n - new + 1) = n + 1
  BY <1>1
<1>8. ASSUME NEW k \in 1 .. n + 1
      PROVE  (front \o right)[k] = IF k = new THEN e ELSE s[IF k < new THEN k ELSE k - 1]
  <2>1. CASE k < new
    <3>1. k \in 1 .. new /\ k <= new - 1 /\ k <= new /\ k # new
      BY <1>1, <2>1
    <3> QED BY <1>5, <1>6, <1>7, <2>1, <3>1 DEF front
  <2>2. CASE k = new
    <3>1. k \in 1 .. new /\ ~(k <= new - 1) /\ k <= new
      BY <1>1, <2>2
    <3> QED BY <1>5, <1>6, <1>7, <2>2, <3>1 DEF front
  <2>3. CASE ~(k < new) /\ k # new
    <3>1. k - new \in 1 .. n - new + 1 /\ ~(k <= new) /\ new + (k - new) - 1 = k - 1
      BY <1>1, <2>3
    <3> QED BY <1>3, <1>6, <1>7, <2>3, <3>1
  <2> QED BY <2>1, <2>2, <2>3
<1> QED BY <1>6, <1>7, <1>8 DEF InsertAt, front, left, right, n

\* An element that is taken out and put in elsewhere: the same elements, each once.
LEMMA MovedElements ==
  ASSUME NEW S, NEW s \in Seq(S), IsInjective(s),
         NEW old \in 1 .. Len(s), NEW new \in 1 .. Len(s)
  PROVE  LET moved == InsertAt(RemoveAt(s, old), new, s[old])
         IN /\ moved \in [DOMAIN s -> ToSet(s)] /\ IsInjective(moved)
            /\ ToSet(moved) = ToSet(s)
<1> DEFINE n == Len(s)
           rest == RemoveAt(s, old)
           moved == InsertAt(rest, new, s[old])
           from == [k \in 1 .. n |-> IF k = new THEN old
                                    ELSE IF (IF k < new THEN k ELSE k - 1) < old
                                      THEN (IF k < new THEN k ELSE k - 1)
                                    ELSE (IF k < new THEN k ELSE k - 1) + 1]
<1>1. n \in Nat /\ DOMAIN s = 1 .. n /\ old \in 1 .. n /\ new \in 1 .. n /\ s[old] \in S
  BY LenProperties
<1>2. /\ rest \in Seq(S) /\ Len(rest) = n - 1
      /\ \A k \in 1 .. n - 1 : rest[k] = s[IF k < old THEN k ELSE k + 1]
  BY RemovedElements
<1> HIDE DEF rest, n
<1>3. /\ moved \in Seq(S) /\ Len(moved) = n
      /\ \A k \in 1 .. n : moved[k] = IF k = new THEN s[old]
                                      ELSE rest[IF k < new THEN k ELSE k - 1]
  <2>1. new \in 1 .. Len(rest) + 1 /\ Len(rest) + 1 = n
    BY <1>1, <1>2
  <2>2. /\ moved \in Seq(S) /\ Len(moved) = Len(rest) + 1
        /\ \A k \in 1 .. Len(rest) + 1 :
             moved[k] = IF k = new THEN s[old] ELSE rest[IF k < new THEN k ELSE k - 1]
    <3> DEFINE e == s[old]
    <3>1. rest \in Seq(S) /\ e \in S
      BY <1>1, <1>2
    <3> HIDE DEF e
    <3>2. InsertAt(rest, new, e) \in Seq(S) /\ Len(InsertAt(rest, new, e)) = Len(rest) + 1
      BY <2>1, <3>1, InsertedElements
    <3>3. ASSUME NEW k \in 1 .. Len(rest) + 1
          PROVE  InsertAt(rest, new, e)[k] = IF k = new THEN e
                                             ELSE rest[IF k < new THEN k ELSE k - 1]
      BY <2>1, <3>1, InsertedElements
    <3> QED BY <3>2, <3>3 DEF e
  <2> QED BY <2>1, <2>2
<1> HIDE DEF moved
<1>4. \A k \in 1 .. n : from[k] \in 1 .. n
  BY <1>1
<1>5. ASSUME NEW k \in 1 .. n PROVE moved[k] = s[from[k]]
  <2>1. CASE k = new
    BY <1>3, <2>1
  <2>2. CASE k < new
    <3>1. k \in 1 .. n - 1 /\ k # new
      BY <1>1, <2>2
    <3> QED BY <1>2, <1>3, <2>2, <3>1
  <2>3. CASE ~(k < new) /\ k # new
    <3>1. k - 1 \in 1 .. n - 1
      BY <1>1, <2>3
    <3> QED BY <1>2, <1>3, <2>3, <3>1
  <2> QED BY <2>1, <2>2, <2>3
<1>6. ASSUME NEW j \in 1 .. n, NEW k \in 1 .. n, from[j] = from[k] PROVE j = k
  BY <1>1, <1>6
<1>7. ASSUME NEW i \in 1 .. n PROVE \E k \in 1 .. n : from[k] = i
  <2> DEFINE r == IF i < old THEN i ELSE i - 1
             k == IF i = old THEN new ELSE IF r < new THEN r ELSE r + 1
  <2>1. k \in 1 .. n
    BY <1>1
  <2>2. from[k] = i
    <3>1. CASE i = old
      BY <1>1, <3>1
    <3>2. CASE i < old
      BY <1>1, <3>2
    <3>3. CASE i > old
      BY <1>1, <3>3
    <3> QED BY <1>1, <3>1, <3>2, <3>3
  <2> QED BY <2>1, <2>2
<1> HIDE DEF from
<1>8. DOMAIN moved = 1 .. n
  BY <1>3, LenProperties
<1>9. moved \in [DOMAIN s -> ToSet(s)]
  <2>1. \A k \in 1 .. n : moved[k] \in ToSet(s)
    BY <1>1, <1>4, <1>5 DEF ToSet
  <2>2. moved \in [1 .. n -> S]
    BY <1>3, LenProperties
  <2> QED BY <1>1, <2>1, <2>2
<1>10. IsInjective(moved)
  <2> SUFFICES ASSUME NEW j \in 1 .. n, NEW k \in 1 .. n, moved[j] = moved[k] PROVE j = k
    BY <1>8 DEF IsInjective
  <2>1. from[j] = from[k]
    BY <1>1, <1>4, <1>5 DEF IsInjective
  <2> QED BY <1>6, <2>1
<1>11. \A i \in DOMAIN s : \E k \in DOMAIN s : moved[k] = s[i]
  <2> TAKE i \in DOMAIN s
  <2>1. PICK k \in 1 .. n : from[k] = i
    BY <1>1, <1>7
  <2>2. moved[k] = s[i]
    BY <1>5, <2>1
  <2> QED BY <1>1, <2>1, <2>2
<1>12. ToSet(moved) = ToSet(s)
  BY <1>1, <1>8, <1>9, <1>11 DEF ToSet
<1> QED BY <1>9, <1>10, <1>12 DEF moved, rest

\* A set of numbers that is not empty has a least one.
LEMMA LeastOf ==
  ASSUME NEW S \in SUBSET Nat, S # {}
  PROVE  \E x \in S : \A y \in S : x <= y
<1> DEFINE R == OpToRel(<, Nat)
<1>1. IsWellFoundedOn(R, Nat)
  BY NatLessThanWellFounded
<1> HIDE DEF R
<1>2. PICK x \in S : \A y \in S : <<y, x>> \notin R
  BY <1>1, WFMin
<1>3. \A y \in S : ~(y < x)
  BY <1>2 DEF R, OpToRel
<1> QED BY <1>3

-----------------------------------------------------------------------------
(* The catalogue between its operations                                    *)

\* What TypeOK leaves open: a link is of a source, and the global enhancement is not linked.
LinksOfSources ==
  /\ \A u \in DOMAIN items : ~IsSource(items[u]) => items[u].links = NoLinks
  /\ \A u \in DOMAIN items, k \in LinkedKinds : items[u].links[k] # Global
  /\ Global \in DOMAIN items => ~IsSource(items[Global])

CurrentIsSource == current # None => current \in Sources

\* What is left to update are subscriptions, and nothing between two operations.
UpdatesLeft ==
  /\ \A i \in DOMAIN todo : todo[i] \in Remotes
  /\ todo = <<>> <=> ~(pc = "updating" \/ job.op = "update")

\* The runtime that the files of a job's beginning make of the current profile.
BuiltBefore ==
  [of |-> current, layers |-> [u \in Layers(current) |-> job.before.items[u].content]]

\* A job changes one file at most, and remembers the state it began in; until it deploys,
\* the runtime is that of its beginning.
JobRemembers ==
  /\ job.before = [items |-> job.before.items, order |-> order, current |-> current,
                   runtime |-> job.before.runtime]
  /\ job.before.items \in [DOMAIN items -> ProfileItem]
  /\ \A u \in DOMAIN items : u # job.uid => items[u] = job.before.items[u]
  /\ items[job.uid].kind = job.before.items[job.uid].kind
  /\ items[job.uid].links = job.before.items[job.uid].links
  /\ job.op \in {"activate", "chain"} => items = job.before.items
  /\ current # None /\ ~stale => job.before.runtime = BuiltBefore

JobProceeds ==
  /\ pc = "validate" => job.op = "save" /\ (current # None => ~Affects(job.uid, current))
  /\ pc = "deploy" => job.op = "activate" \/ (current # None /\ job.target = current)
  /\ pc \in {"catalog", "redeploy"} => job.op # "chain"
  /\ pc = "catalog" => runtime = Built(job.target)
  /\ pc = "restore" => job.op \in {"update", "save"}
  /\ pc \in {"validate", "deploy"} \/ (pc = "restore" /\ ~stale) =>
       runtime = job.before.runtime

\* The inductive invariant of the catalogue.
CatalogInv ==
  /\ TypeOK /\ LinksAreExact /\ RuntimeIsCurrentProfile
  /\ LinksOfSources /\ CurrentIsSource /\ UpdatesLeft
  /\ pc \notin {"idle", "updating"} => JobRemembers /\ JobProceeds

\* The files of a source are there, and make a runtime.
LEMMA LayersAreThere ==
  ASSUME CatalogAssumption, TypeOK, LinksAreExact, LinksOfSources, NEW uid \in Sources
  PROVE  /\ uid \in Uids /\ uid \in DOMAIN items /\ Layers(uid) \subseteq DOMAIN items
         /\ Built(uid) \in Runtimes
<1>1. uid \in Uids /\ uid \in DOMAIN items
  BY DEF TypeOK, Sources, AllUids, LinksOfSources
<1>2. Layers(uid) \subseteq DOMAIN items
  BY <1>1 DEF Layers, LinkedTo, LinksAreExact, LinksResolve
<1>3. \A u \in Layers(uid) : items[u].content \in Contents \cup {Blank}
  BY <1>2 DEF TypeOK, ProfileItem
<1>4. Layers(uid) \in SUBSET AllUids
  BY <1>2 DEF TypeOK
<1>5. [u \in Layers(uid) |-> items[u].content] \in Partial(AllUids)
  BY <1>3, <1>4 DEF Partial
<1> QED BY <1>1, <1>2, <1>5 DEF Built, Runtimes

\* Steps that change no kind and no link.
SameShape ==
  /\ items' \in [DOMAIN items -> ProfileItem]
  /\ \A u \in DOMAIN items : /\ items'[u].kind = items[u].kind
                             /\ items'[u].links = items[u].links

LEMMA ShapeKeeps ==
  ASSUME SameShape
  PROVE  /\ Sources' = Sources /\ Remotes' = Remotes
         /\ \A u \in DOMAIN items : Layers(u)' = Layers(u)
         /\ \A u, v \in DOMAIN items : Affects(v, u)' <=> Affects(v, u)
         /\ LinksAreExact => LinksAreExact'
         /\ LinksOfSources => LinksOfSources'
<1>1. Sources' = Sources /\ Remotes' = Remotes
  BY DEF SameShape, Sources, IsSource, Remotes
<1>2. \A S \in SUBSET DOMAIN items : LinkedTo(S)' = LinkedTo(S)
  BY DEF SameShape, LinkedTo
<1>3. \A u \in DOMAIN items : LinkedTo({u})' = LinkedTo({u})
  BY <1>2
<1>4. \A u \in DOMAIN items : LinksResolve(u) => LinksResolve(u)'
  BY DEF SameShape, LinksResolve
<1>5. \A u \in DOMAIN items : Layers(u)' = Layers(u)
  BY <1>3 DEF SameShape, Layers
<1>6. LinksAreExact => LinksAreExact'
  <2>1. LinkedTo(Sources)' = LinkedTo(Sources)
    <3>1. Sources \in SUBSET DOMAIN items
      BY DEF Sources
    <3>2. LinkedTo(Sources)'
            = UNION {{items'[u].links[k] : k \in LinkedKinds} \ {None} : u \in Sources}
      BY <1>1 DEF LinkedTo
    <3> QED BY <3>1, <3>2 DEF LinkedTo, SameShape
  <2> QED BY <1>1, <1>4, <2>1 DEF LinksAreExact, SameShape, Sources
<1>7. LinksOfSources => LinksOfSources'
  BY DEF SameShape, LinksOfSources, IsSource
<1>8. \A u, v \in DOMAIN items : Affects(v, u)' <=> Affects(v, u)
  BY <1>3 DEF Affects
<1> QED BY <1>1, <1>5, <1>6, <1>7, <1>8

\* Two sequences without a common element, one after the other.
LEMMA JoinedOnce ==
  ASSUME NEW S, NEW s \in Seq(S), NEW t \in Seq(S), IsInjective(s), IsInjective(t),
         ToSet(s) \cap ToSet(t) = {}
  PROVE  s \o t \in Seq(S) /\ IsInjective(s \o t) /\ ToSet(s \o t) = ToSet(s) \cup ToSet(t)
<1> DEFINE m == Len(s)
           n == Len(t)
           st == s \o t
<1>1. m \in Nat /\ n \in Nat /\ DOMAIN s = 1 .. m /\ DOMAIN t = 1 .. n
  BY LenProperties
<1>2. st \in Seq(S) /\ Len(st) = m + n
  BY ConcatProperties
<1>3. \A i \in 1 .. m + n : st[i] = IF i <= m THEN s[i] ELSE t[i - m]
  BY ConcatProperties
<1>4. DOMAIN st = 1 .. m + n
  BY <1>2, LenProperties
<1> HIDE DEF m, n, st
<1>5. \A i \in 1 .. m : i \in 1 .. m + n /\ st[i] = s[i] /\ st[i] \in ToSet(s)
  BY <1>1, <1>3 DEF ToSet
<1>6. \A i \in 1 .. n : m + i \in 1 .. m + n /\ st[m + i] = t[i]
  <2> TAKE i \in 1 .. n
  <2>1. m + i \in 1 .. m + n /\ ~(m + i <= m) /\ (m + i) - m = i
    BY <1>1
  <2> QED BY <1>3, <2>1
<1>7. \A i \in 1 .. m + n : ~(i <= m)
        => i - m \in 1 .. n /\ st[i] = t[i - m] /\ st[i] \in ToSet(t)
  BY <1>1, <1>3 DEF ToSet
<1>8. \A i \in 1 .. m + n : i <= m => i \in 1 .. m
  BY <1>1
<1>9. IsInjective(st)
  <2> SUFFICES ASSUME NEW i \in 1 .. m + n, NEW j \in 1 .. m + n, st[i] = st[j] PROVE i = j
    BY <1>4 DEF IsInjective
  <2>1. CASE i <= m /\ j <= m
    BY <1>1, <1>5, <1>8, <2>1 DEF IsInjective
  <2>2. CASE ~(i <= m) /\ ~(j <= m)
    <3>1. i - m = j - m
      BY <1>1, <1>7, <2>2 DEF IsInjective
    <3> QED BY <1>1, <3>1
  <2> QED BY <1>5, <1>7, <1>8, <2>1, <2>2
<1>10. ToSet(st) = ToSet(s) \cup ToSet(t)
  <2>1. ToSet(st) \subseteq ToSet(s) \cup ToSet(t)
    BY <1>4, <1>5, <1>7, <1>8 DEF ToSet
  <2>2. ToSet(s) \subseteq ToSet(st)
    BY <1>1, <1>4, <1>5 DEF ToSet
  <2>3. ToSet(t) \subseteq ToSet(st)
    BY <1>1, <1>4, <1>6 DEF ToSet
  <2> QED BY <2>1, <2>2, <2>3
<1> QED BY <1>2, <1>9, <1>10 DEF st

\* A new source with its enhancements, none of which has been there.
Addition(uid, source, linked) ==
  /\ uid \in Unused /\ DOMAIN linked \subseteq Unused \ {uid}
  /\ source \in ProfileItem /\ IsSource(source)
  /\ \A k \in LinkedKinds : source.links[k] # None =>
        source.links[k] \in DOMAIN linked /\ linked[source.links[k]].kind = k
  /\ \A u \in DOMAIN linked : /\ linked[u] \in ProfileItem /\ linked[u].kind \in LinkedKinds
                              /\ linked[u].links = NoLinks
                              /\ \E k \in LinkedKinds : source.links[k] = u

LEMMA AddKeeps ==
  ASSUME CatalogAssumption, CatalogInv, InOneCommit,
         NEW uid, NEW source, NEW linked, Addition(uid, source, linked),
         Add(uid, source, linked)
  PROVE  CatalogInv'
<1> DEFINE new == {uid} \cup DOMAIN linked
<1>1. new \subseteq Uids /\ new \cap DOMAIN items = {} /\ Global \notin new
        /\ None \notin new
  BY DEF Addition, Unused, CatalogAssumption
<1>2. /\ DOMAIN items' = DOMAIN items \cup new
      /\ \A u \in DOMAIN items : items'[u] = items[u]
      /\ items'[uid] = source
      /\ \A u \in DOMAIN linked : items'[u] = linked[u]
  BY <1>1 DEF Add, Addition
<1>3. /\ order' = order \o <<uid>> \o SetToSeq(DOMAIN linked)
      /\ UNCHANGED <<current, runtime, pc, job, todo, stale>> /\ pc = "idle"
  BY DEF Add, InOneCommit
<1>4. order' \in Seq(AllUids) /\ IsInjective(order') /\ ToSet(order') = DOMAIN items'
  <2>1. order \in Seq(AllUids) /\ IsInjective(order) /\ ToSet(order) = DOMAIN items
    BY DEF CatalogInv, TypeOK
  <2>2. <<uid>> \in Seq(AllUids) /\ IsInjective(<<uid>>) /\ ToSet(<<uid>>) = {uid}
    BY <1>1 DEF AllUids, IsInjective, ToSet
  <2>3. /\ order \o <<uid>> \in Seq(AllUids) /\ IsInjective(order \o <<uid>>)
        /\ ToSet(order \o <<uid>>) = DOMAIN items \cup {uid}
    <3> DEFINE one == <<uid>>
    <3>1. one \in Seq(AllUids) /\ IsInjective(one) /\ ToSet(one) = {uid}
      BY <2>2
    <3> HIDE DEF one
    <3>2. ToSet(order) \cap ToSet(one) = {}
      BY <1>1, <2>1, <3>1
    <3>3. /\ order \o one \in Seq(AllUids) /\ IsInjective(order \o one)
          /\ ToSet(order \o one) = ToSet(order) \cup ToSet(one)
      BY <2>1, <3>1, <3>2, JoinedOnce
    <3> QED BY <2>1, <3>1, <3>3 DEF one
  <2>4. /\ SetToSeq(DOMAIN linked) \in Seq(AllUids) /\ IsInjective(SetToSeq(DOMAIN linked))
        /\ ToSet(SetToSeq(DOMAIN linked)) = DOMAIN linked
    <3>1. IsFiniteSet(DOMAIN linked)
      BY <1>1, FS_Subset DEF CatalogAssumption
    <3>2. DOMAIN linked \subseteq AllUids
      BY <1>1 DEF AllUids
    <3> QED BY <3>1, <3>2, SetAsSequence, SeqMonotonic
  <2>5. ToSet(order \o <<uid>>) \cap ToSet(SetToSeq(DOMAIN linked)) = {}
    BY <1>1, <2>3, <2>4 DEF Addition
  <2> DEFINE front == order \o <<uid>>
             rest == SetToSeq(DOMAIN linked)
  <2>6. /\ order' = front \o rest /\ ToSet(front) \cap ToSet(rest) = {}
        /\ front \in Seq(AllUids) /\ IsInjective(front)
             /\ ToSet(front) = DOMAIN items \cup {uid}
        /\ rest \in Seq(AllUids) /\ IsInjective(rest) /\ ToSet(rest) = DOMAIN linked
    BY <1>3, <2>3, <2>4, <2>5
  <2> HIDE DEF front, rest
  <2>7. /\ front \o rest \in Seq(AllUids) /\ IsInjective(front \o rest)
        /\ ToSet(front \o rest) = ToSet(front) \cup ToSet(rest)
    BY <2>6, JoinedOnce
  <2> QED BY <1>2, <2>6, <2>7
<1>5. TypeOK'
  <2>1. DOMAIN items' \subseteq AllUids
    BY <1>1, <1>2 DEF CatalogInv, TypeOK, AllUids
  <2>2. items' \in [DOMAIN items' -> ProfileItem]
    <3>1. \A u \in DOMAIN items' : items'[u] \in ProfileItem
      BY <1>2 DEF CatalogInv, TypeOK, Addition
    <3>2. items' = [u \in DOMAIN items' |-> items'[u]]
      BY DEF Add
    <3> QED BY <3>1, <3>2
  <2> QED BY <1>3, <1>4, <2>1, <2>2 DEF CatalogInv, TypeOK
<1>6. Sources' = Sources \cup {uid}
  <2>1. \A u \in DOMAIN linked : ~IsSource(linked[u])
    BY DEF Addition, CatalogAssumption, IsSource, SourceKinds
  <2> QED BY <1>1, <1>2, <2>1 DEF Sources, Addition, IsSource
<1>7. LinkedTo(Sources)' = LinkedTo(Sources) \cup DOMAIN linked
  <2>1. LinkedTo(Sources)' =
          UNION {{items'[u].links[k] : k \in LinkedKinds} \ {None} :
                   u \in Sources \cup {uid}}
    BY <1>6 DEF LinkedTo
  <2>2. {items'[uid].links[k] : k \in LinkedKinds} \ {None} = DOMAIN linked
    BY <1>1, <1>2 DEF Addition
  <2>3. \A u \in Sources : items'[u] = items[u]
    BY <1>2 DEF Sources
  <2> QED BY <2>1, <2>2, <2>3 DEF LinkedTo
<1>8. LinksAreExact'
  <2>1. ASSUME NEW u \in Sources' PROVE LinksResolve(u)'
    <3>1. CASE u \in Sources
      <4>1. LinksResolve(u) /\ u \in DOMAIN items
        BY <3>1 DEF CatalogInv, LinksAreExact, Sources
      <4> QED BY <1>2, <4>1 DEF LinksResolve
    <3>2. CASE u = uid
      BY <1>2, <3>2 DEF LinksResolve, Addition
    <3> QED BY <1>6, <3>1, <3>2
  <2> QED BY <1>1, <1>2, <1>6, <1>7, <2>1 DEF CatalogInv, LinksAreExact
<1>9. LinksOfSources'
  <2>1. \A u \in DOMAIN linked : ~IsSource(linked[u]) /\ linked[u].links = NoLinks
    BY DEF Addition, CatalogAssumption, IsSource, SourceKinds
  <2>2. IsSource(source) /\ \A k \in LinkedKinds : source.links[k] # Global
    BY <1>1 DEF Addition, CatalogAssumption
  <2>3. \A k \in LinkedKinds : NoLinks[k] # Global
    BY DEF NoLinks, CatalogAssumption
  <2>4. /\ \A u \in DOMAIN items : ~IsSource(items[u]) => items[u].links = NoLinks
        /\ \A u \in DOMAIN items, k \in LinkedKinds : items[u].links[k] # Global
        /\ Global \in DOMAIN items => ~IsSource(items[Global])
    BY DEF CatalogInv, LinksOfSources
  <2>5. \A u \in DOMAIN items' : u \in DOMAIN items \/ u = uid \/ u \in DOMAIN linked
    BY <1>2
  <2>6. \A u \in DOMAIN items' : ~IsSource(items'[u]) => items'[u].links = NoLinks
    BY <1>2, <2>1, <2>2, <2>4, <2>5
  <2>7. \A u \in DOMAIN items', k \in LinkedKinds : items'[u].links[k] # Global
    BY <1>2, <2>1, <2>2, <2>3, <2>4, <2>5
  <2>8. Global \in DOMAIN items' => ~IsSource(items'[Global])
    BY <1>1, <1>2, <2>4
  <2> QED BY <2>6, <2>7, <2>8 DEF LinksOfSources
<1>10. CurrentIsSource' /\ UpdatesLeft'
  BY <1>2, <1>3, <1>6 DEF CatalogInv, CurrentIsSource, UpdatesLeft, Remotes
<1>11. RuntimeIsCurrentProfile'
  <2> SUFFICES ASSUME current # None, ~stale
               PROVE  current \in Sources' /\ runtime = Built(current)'
    BY <1>3 DEF RuntimeIsCurrentProfile
  <2>1. current \in Sources /\ runtime = Built(current)
          /\ Layers(current) \subseteq DOMAIN items
    BY <1>3, LayersAreThere DEF CatalogInv, RuntimeIsCurrentProfile
  <2>2. Layers(current)' = Layers(current)
    BY <1>1, <1>2, <1>3, <2>1 DEF Layers, LinkedTo, Sources
  <2>3. Built(current)' = Built(current)
    BY <1>2, <1>3, <2>1, <2>2 DEF Built
  <2> QED BY <1>6, <2>1, <2>3
<1> QED BY <1>3, <1>5, <1>8, <1>9, <1>10, <1>11 DEF CatalogInv

LEMMA ImportKeeps ==
  ASSUME CatalogAssumption, CatalogInv, InOneCommit, NEW kind \in SourceKinds,
         NEW interval \in Intervals, ImportContent(kind, interval)
  PROVE  CatalogInv'
<1> PICK uid \in Unused, content \in Contents, links \in NewIds(LinkedKinds) :
      /\ uid \notin Range(links)
      /\ Add(uid, [kind |-> kind, links |-> links, content |-> content,
                   interval |-> interval, fresh |-> TRUE],
             [u \in Range(links) |->
                Enhancement(CHOOSE k \in LinkedKinds : links[k] = u, Template)])
  BY DEF ImportContent
<1> DEFINE source == [kind |-> kind, links |-> links, content |-> content,
                      interval |-> interval, fresh |-> TRUE]
           linked == [u \in Range(links) |->
                        Enhancement(CHOOSE k \in LinkedKinds : links[k] = u, Template)]
<1>1. /\ links \in [LinkedKinds -> Unused] /\ IsInjective(links)
      /\ Range(links) = {links[k] : k \in LinkedKinds} /\ Unused \subseteq AllUids
  BY DEF NewIds, Range, Unused, AllUids
<1>2. /\ DOMAIN linked = Range(links)
      /\ \A k \in LinkedKinds : links[k] \in DOMAIN linked
                               /\ linked[links[k]] = Enhancement(k, Template)
  <2>1. DOMAIN linked = Range(links)
    OBVIOUS
  <2>2. \A k \in LinkedKinds : (CHOOSE j \in LinkedKinds : links[j] = links[k]) = k
    BY <1>1 DEF IsInjective
  <2> QED BY <1>1, <2>1, <2>2
<1>3. /\ source.links = links /\ source.kind = kind
      /\ source \in ProfileItem /\ IsSource(source)
  BY <1>1 DEF ProfileItem, IsSource
<1>4. \A k \in LinkedKinds : LET e == Enhancement(k, Template)
                            IN e \in ProfileItem /\ e.kind = k /\ e.links = NoLinks
  BY DEF Enhancement, ProfileItem, NoLinks, CatalogAssumption
<1>5. ASSUME NEW u \in DOMAIN linked
      PROVE  \E k \in LinkedKinds : u = links[k] /\ linked[u] = Enhancement(k, Template)
  <2> HIDE DEF linked
  <2>1. PICK k \in LinkedKinds : u = links[k]
    BY <1>1, <1>2
  <2> QED BY <1>2, <2>1
<1> HIDE DEF linked, source
<1>6. Addition(uid, source, linked)
  BY <1>1, <1>2, <1>3, <1>4, <1>5 DEF Addition
<1>7. Add(uid, source, linked)
  BY DEF source, linked
<1> QED BY <1>6, <1>7, AddKeeps

LEMMA DuplicateKeeps ==
  ASSUME CatalogAssumption, CatalogInv, Duplicate
  PROVE  CatalogInv'
<1> DEFINE Linked(uid) == {k \in LinkedKinds : items[uid].links[k] # None}
           LinksOf(uid, ids) ==
             [k \in LinkedKinds |-> IF k \in Linked(uid) THEN ids[k] ELSE None]
<1> PICK uid \in Sources, copy \in Unused :
      /\ LinksResolve(uid)
      /\ \E ids \in NewIds(Linked(uid)) :
           /\ copy \notin Range(ids)
           /\ Add(copy, [items[uid] EXCEPT !.links = LinksOf(uid, ids), !.fresh = TRUE],
                  Copies(uid, LinksOf(uid, ids)))
  BY DEF Duplicate
<1> PICK ids \in NewIds(Linked(uid)) :
      /\ copy \notin Range(ids)
      /\ Add(copy, [items[uid] EXCEPT !.links = LinksOf(uid, ids), !.fresh = TRUE],
             Copies(uid, LinksOf(uid, ids)))
  OBVIOUS
<1> DEFINE links == LinksOf(uid, ids)
           source == [items[uid] EXCEPT !.links = links, !.fresh = TRUE]
           linked == Copies(uid, links)
           Original(k) == items[items[uid].links[k]]
<1>1. /\ ids \in [Linked(uid) -> Unused] /\ IsInjective(ids)
      /\ Range(ids) = {ids[k] : k \in Linked(uid)}
      /\ Unused \subseteq AllUids /\ None \notin Unused
  BY DEF NewIds, Range, Unused, AllUids, CatalogAssumption
<1>2. /\ links \in [LinkedKinds -> AllUids \cup {None}]
      /\ \A k \in LinkedKinds : links[k] = IF k \in Linked(uid) THEN ids[k] ELSE None
      /\ Range(links) \ {None} = Range(ids)
  <2>1. \A k \in LinkedKinds : links[k] = IF k \in Linked(uid) THEN ids[k] ELSE None
    OBVIOUS
  <2>2. links \in [LinkedKinds -> AllUids \cup {None}]
    BY <1>1
  <2>3. Range(links) \ {None} = Range(ids)
    BY <1>1, <2>1, <2>2 DEF Range
  <2> QED BY <2>1, <2>2, <2>3
<1>3. \A k \in Linked(uid) : /\ (CHOOSE j \in LinkedKinds : links[j] = links[k]) = k
                            /\ links[k] = ids[k]
  <2> HIDE DEF links
  <2>1. \A j \in LinkedKinds, k \in Linked(uid) : links[j] = links[k] => j = k
    BY <1>1, <1>2 DEF IsInjective
  <2>2. \A k \in Linked(uid) : k \in LinkedKinds /\ links[k] = ids[k]
    BY <1>2
  <2> QED BY <2>1, <2>2
<1>4. \A k \in Linked(uid) : /\ Original(k) \in ProfileItem /\ Original(k).kind = k
                            /\ Original(k).links = NoLinks
  <2> TAKE k \in Linked(uid)
  <2>1. items[uid].links[k] \in DOMAIN items /\ Original(k).kind = k
    BY DEF LinksResolve
  <2>2. ~IsSource(Original(k))
    BY <2>1 DEF IsSource, SourceKinds, CatalogAssumption
  <2> QED BY <2>1, <2>2 DEF CatalogInv, TypeOK, LinksOfSources
<1>5. /\ DOMAIN linked = Range(ids)
      /\ \A k \in Linked(uid) : /\ ids[k] \in DOMAIN linked
                               /\ linked[ids[k]] = [Original(k) EXCEPT !.fresh = TRUE]
  <2> HIDE DEF links
  <2>1. DOMAIN linked = Range(ids)
    BY <1>2 DEF Copies
  <2>2. \A k \in Linked(uid) : ids[k] \in Range(links) \ {None}
    BY <1>1, <1>2
  <2>3. ASSUME NEW k \in Linked(uid)
        PROVE  ids[k] \in DOMAIN linked
                 /\ linked[ids[k]] = [Original(k) EXCEPT !.fresh = TRUE]
    <3>1. linked[ids[k]] =
            [items[items[uid].links[CHOOSE j \in LinkedKinds : links[j] = ids[k]]]
               EXCEPT !.fresh = TRUE]
      BY <2>2 DEF Copies
    <3>2. (CHOOSE j \in LinkedKinds : links[j] = ids[k]) = k
      BY <1>3
    <3>3. ids[k] \in DOMAIN linked
      BY <1>1, <2>1
    <3> HIDE DEF linked
    <3> QED BY <3>1, <3>2, <3>3
  <2> QED BY <2>1, <2>3
<1>6. items[uid] \in ProfileItem /\ IsSource(items[uid])
  BY DEF CatalogInv, TypeOK, Sources
<1>7. source \in ProfileItem /\ IsSource(source) /\ source.links = links
  <2> HIDE DEF links
  <2> QED BY <1>2, <1>6 DEF ProfileItem, IsSource
<1>8. \A u \in DOMAIN linked : \E k \in Linked(uid) : u = ids[k]
  BY <1>1, <1>5
<1>9. \A u \in DOMAIN linked : /\ linked[u] \in ProfileItem /\ linked[u].kind \in LinkedKinds
                              /\ linked[u].links = NoLinks
                              /\ \E k \in LinkedKinds : source.links[k] = u
  <2> TAKE u \in DOMAIN linked
  <2>1. PICK k \in Linked(uid) : u = ids[k]
    BY <1>8
  <2>2. linked[u] = [Original(k) EXCEPT !.fresh = TRUE] /\ links[k] = u
    BY <1>3, <1>5, <2>1
  <2>3. k \in LinkedKinds /\ source.links[k] = u
    BY <1>7, <2>2
  <2> HIDE DEF links, linked, source
  <2>4. linked[u] \in ProfileItem /\ linked[u].kind = k /\ linked[u].links = NoLinks
    BY <1>4, <2>2 DEF ProfileItem
  <2> HIDE DEF Linked, LinksOf, Original
  <2> QED BY <2>3, <2>4
<1>10. \A k \in LinkedKinds : source.links[k] # None =>
         source.links[k] \in DOMAIN linked /\ linked[source.links[k]].kind = k
  <2> TAKE k \in LinkedKinds
  <2> HAVE source.links[k] # None
  <2> HIDE DEF links, linked, source
  <2>1. k \in Linked(uid) /\ source.links[k] = ids[k]
    BY <1>2, <1>7
  <2>2. linked[ids[k]] = [Original(k) EXCEPT !.fresh = TRUE] /\ ids[k] \in DOMAIN linked
    BY <1>5, <2>1
  <2> QED BY <1>4, <2>1, <2>2 DEF ProfileItem
<1>11. Addition(copy, source, linked)
  <2>1. DOMAIN linked \subseteq Unused \ {copy}
    BY <1>1, <1>5
  <2> HIDE DEF links, linked, source, Linked, LinksOf, Original
  <2> QED BY <1>7, <1>9, <1>10, <2>1 DEF Addition
<1> HIDE DEF links, linked, source
<1>12. Add(copy, source, linked) /\ InOneCommit
  BY DEF source, linked, links, Duplicate
<1> QED BY <1>11, <1>12, AddKeeps

\* The profiles S of the catalog, in its order, are each there once.
LEMMA OrderOf ==
  ASSUME TypeOK, NEW S \in SUBSET DOMAIN items
  PROVE  /\ InOrder(S) \in Seq(AllUids) /\ IsInjective(InOrder(S)) /\ ToSet(InOrder(S)) = S
         /\ Positions(S) \in SUBSET DOMAIN order
         /\ DOMAIN InOrder(S) = 1 .. Len(InOrder(S))
         /\ \A i \in Positions(S) : Place(Positions(S), i) \in DOMAIN InOrder(S)
         /\ \A i, j \in Positions(S) :
              Place(Positions(S), i) = Place(Positions(S), j) => i = j
         /\ \A k \in DOMAIN InOrder(S) : \E i \in Positions(S) : Place(Positions(S), i) = k
<1>1. order \in Seq(AllUids) /\ IsInjective(order) /\ ToSet(order) = DOMAIN items
  BY DEF TypeOK
<1>2. Positions(S) \in SUBSET DOMAIN order
  BY DEF Positions
<1>3. /\ InOrder(S) \in Seq(AllUids) /\ DOMAIN InOrder(S) = 1 .. Cardinality(Positions(S))
      /\ Len(InOrder(S)) = Cardinality(Positions(S))
      /\ \A i \in Positions(S) : /\ Place(Positions(S), i) \in 1 .. Cardinality(Positions(S))
                                /\ InOrder(S)[Place(Positions(S), i)] = order[i]
      /\ \A n \in 1 .. Cardinality(Positions(S)) :
           \E i \in Positions(S) : Place(Positions(S), i) = n /\ InOrder(S)[n] = order[i]
  BY <1>1, <1>2, PickedElements DEF InOrder
<1>4. IsInjective(InOrder(S))
  BY <1>1, <1>2, PickedOnce DEF InOrder
<1>5. ToSet(InOrder(S)) = S
  <2>1. ToSet(InOrder(S)) = {order[i] : i \in Positions(S)}
    BY <1>3 DEF ToSet
  <2>2. \A u \in S : \E i \in DOMAIN order : order[i] = u
    BY <1>1 DEF ToSet
  <2> QED BY <2>1, <2>2 DEF Positions
<1>6. \A i, j \in Positions(S) : Place(Positions(S), i) = Place(Positions(S), j) => i = j
  BY <1>1, <1>2, <1>3 DEF IsInjective
<1> QED BY <1>2, <1>3, <1>4, <1>5, <1>6

\* Where a commit of the catalog leaves the rest: what remains to be shown of it.
LEMMA CommitKeeps ==
  ASSUME CatalogAssumption, CatalogInv, InOneCommit,
         DOMAIN items' \subseteq DOMAIN items, items' \in [DOMAIN items' -> ProfileItem],
         order' \in Seq(AllUids), IsInjective(order'), ToSet(order') = DOMAIN items',
         LinksAreExact', LinksOfSources',
         current' \in {None, current}, current' # None => current \in Sources',
         current' # None => Built(current)' = Built(current)
  PROVE  CatalogInv'
<1>1. pc = "idle" /\ UNCHANGED <<runtime, pc, job, todo, stale>>
  BY DEF InOneCommit
<1>2. TypeOK'
  BY <1>1 DEF CatalogInv, TypeOK
<1>3. CurrentIsSource'
  BY DEF CurrentIsSource
<1>4. UpdatesLeft'
  <2>1. todo = <<>> /\ DOMAIN <<>> = {}
    BY <1>1 DEF CatalogInv, TypeOK, NoJob, UpdatesLeft
  <2> QED BY <1>1, <2>1 DEF CatalogInv, UpdatesLeft
<1>5. RuntimeIsCurrentProfile'
  BY <1>1 DEF CatalogInv, RuntimeIsCurrentProfile
<1> QED BY <1>1, <1>2, <1>3, <1>4, <1>5 DEF CatalogInv

LEMMA DeleteKeeps ==
  ASSUME CatalogAssumption, CatalogInv, Delete
  PROVE  CatalogInv'
<1>0. PICK S \in SUBSET Sources \ {{}} :
      /\ items' = [u \in DOMAIN items \ Deleted(S) |-> items[u]]
      /\ order' = InOrder(DOMAIN items \ Deleted(S))
      /\ current' = IF current \in DOMAIN items \ Deleted(S) THEN current ELSE None
  BY DEF Delete
<1> DEFINE kept == DOMAIN items \ Deleted(S)
<1>1. /\ DOMAIN items' = kept /\ kept \subseteq DOMAIN items
      /\ items' \in [kept -> ProfileItem] /\ \A u \in kept : items'[u] = items[u]
  BY <1>0 DEF CatalogInv, TypeOK
<1>2. order' \in Seq(AllUids) /\ IsInjective(order') /\ ToSet(order') = kept
  BY <1>0, <1>1, OrderOf DEF CatalogInv
<1>3. \A u \in Sources, k \in LinkedKinds : items[u].links[k] # None =>
        /\ items[u].links[k] \in DOMAIN items /\ items[u].links[k] \notin Sources
        /\ items[items[u].links[k]].kind = k
  BY DEF CatalogInv, LinksAreExact, LinksResolve, Sources, IsSource, SourceKinds,
         CatalogAssumption
<1>4. \A u \in DOMAIN items \ Sources, k \in LinkedKinds : items[u].links[k] = None
  BY DEF CatalogInv, LinksOfSources, Sources, NoLinks
<1>5. Sources' = Sources \ S
  <2>1. Sources' = Sources \cap kept
    BY <1>1 DEF Sources
  <2>2. LinkedTo(S) \cap Sources = {}
    BY <1>3 DEF LinkedTo
  <2> QED BY <1>1, <2>1, <2>2 DEF Deleted, Sources
<1>6. \A T \in SUBSET DOMAIN items : LinkedTo(T) = LinkedTo(T \cap Sources)
  BY <1>4 DEF LinkedTo
<1>7. LinkedTo(Sources)' = LinkedTo(Sources \ S)
  <2>1. \A u \in Sources \ S : items'[u] = items[u]
    BY <1>1, <1>5 DEF Sources
  <2>2. LinkedTo(Sources)'
          = UNION {{items'[u].links[k] : k \in LinkedKinds} \ {None} : u \in Sources \ S}
    BY <1>5 DEF LinkedTo
  <2>3. ASSUME NEW u \in Sources \ S
        PROVE  {items'[u].links[k] : k \in LinkedKinds}
                 = {items[u].links[k] : k \in LinkedKinds}
    BY <2>1
  <2>4. ASSUME NEW x \in LinkedTo(Sources)' PROVE x \in LinkedTo(Sources \ S)
    <3>1. PICK u \in Sources \ S : x \in {items'[u].links[k] : k \in LinkedKinds} \ {None}
      BY <2>2
    <3>2. x \in {items[u].links[k] : k \in LinkedKinds} \ {None}
      BY <2>3, <3>1
    <3> QED BY <3>2 DEF LinkedTo
  <2>5. ASSUME NEW x \in LinkedTo(Sources \ S) PROVE x \in LinkedTo(Sources)'
    <3>1. PICK u \in Sources \ S : x \in {items[u].links[k] : k \in LinkedKinds} \ {None}
      BY DEF LinkedTo
    <3>2. x \in {items'[u].links[k] : k \in LinkedKinds} \ {None}
      BY <2>3, <3>1
    <3> QED BY <2>2, <3>2
  <2> QED BY <2>4, <2>5
<1>8. LinkedTo(DOMAIN items \ S) = LinkedTo(Sources \ S)
  BY <1>6 DEF Sources
<1>9. LinkedTo(Sources \ S) \subseteq kept
  <2>1. LinkedTo(Sources \ S) \subseteq DOMAIN items \ Sources
    BY <1>3 DEF LinkedTo
  <2> QED BY <1>8, <2>1 DEF Deleted
<1> HIDE DEF kept
<1>10. LinksAreExact'
  <2>1. ASSUME NEW u \in Sources \ S PROVE LinksResolve(u)'
    <3>1. u \in kept /\ items'[u] = items[u]
      BY <1>1, <1>5, <2>1 DEF Sources
    <3>2. \A k \in LinkedKinds : items[u].links[k] # None => items[u].links[k] \in kept
      BY <1>9, <2>1 DEF LinkedTo
    <3> QED BY <1>1, <1>3, <2>1, <3>1, <3>2 DEF LinksResolve
  <2>2. kept \ {Global} = ((Sources \ S) \cup LinkedTo(Sources \ S)) \ {Global}
    <3>1. DOMAIN items \ {Global} = (Sources \cup LinkedTo(Sources)) \ {Global}
      BY DEF CatalogInv, LinksAreExact
    <3>2. LinkedTo(Sources) = LinkedTo(S) \cup LinkedTo(Sources \ S)
      BY DEF LinkedTo
    <3>3. Sources \ S \subseteq kept
      BY <1>1, <1>5 DEF Sources
    <3> QED BY <1>8, <1>9, <3>1, <3>2, <3>3 DEF kept, Deleted
  <2> QED BY <1>1, <1>5, <1>7, <2>1, <2>2 DEF LinksAreExact
<1>11. LinksOfSources'
  BY <1>1 DEF CatalogInv, LinksOfSources
<1>12. ASSUME current' # None
       PROVE  current' = current /\ current \in Sources' /\ Built(current)' = Built(current)
  <2>1. current' = current /\ current \in kept
    BY <1>0, <1>12 DEF kept
  <2>2. current \in Sources /\ current \in Sources'
    BY <1>1, <1>12, <2>1 DEF CatalogInv, CurrentIsSource, Sources
  <2>3. LinkedTo({current}) \subseteq kept
    <3>1. current \in Sources \ S
      BY <1>5, <2>2
    <3>2. LinkedTo({current}) \subseteq LinkedTo(Sources \ S)
      BY <3>1 DEF LinkedTo
    <3> QED BY <1>9, <3>2
  <2>4. Global \in DOMAIN items => Global \in kept
    <3>1. Global \notin LinkedTo(S) /\ Global \notin S
      BY DEF CatalogInv, LinksOfSources, LinkedTo, Sources
    <3> QED BY <3>1 DEF kept, Deleted
  <2>5. Layers(current)' = Layers(current)
    <3>1. items'[current] = items[current]
      BY <1>1, <2>1
    <3>2. LinkedTo({current})' = LinkedTo({current})
      BY <2>1, <3>1 DEF LinkedTo
    <3> QED BY <1>1, <2>1, <2>4, <3>2 DEF Layers
  <2>6. \A u \in Layers(current) : u \in kept
    BY <1>1, <2>1, <2>3, <2>4 DEF Layers
  <2>7. \A u \in Layers(current) : items'[u] = items[u]
    BY <1>1, <2>6
  <2>8. Built(current)' = Built(current)
    <3>1. [u \in Layers(current)' |-> items'[u].content]
            = [u \in Layers(current) |-> items[u].content]
      BY <2>5, <2>7
    <3> QED BY <2>1, <3>1 DEF Built
  <2> QED BY <2>1, <2>2, <2>8
<1>13. InOneCommit /\ (current' \in {None, current})
  BY <1>0 DEF Delete
<1> QED BY <1>1, <1>2, <1>10, <1>11, <1>12, <1>13, CommitKeeps

LEMMA ReorderKeeps ==
  ASSUME CatalogAssumption, CatalogInv, Reorder
  PROVE  CatalogInv'
<1> DEFINE sources == InOrder(Sources)
           at == Positions(Sources)
<1>1. /\ sources \in Seq(AllUids) /\ IsInjective(sources) /\ ToSet(sources) = Sources
      /\ at \in SUBSET DOMAIN order /\ DOMAIN sources = 1 .. Len(sources)
      /\ \A i \in at : Place(at, i) \in DOMAIN sources
      /\ \A i, j \in at : Place(at, i) = Place(at, j) => i = j
      /\ \A k \in DOMAIN sources : \E i \in at : Place(at, i) = k
  BY OrderOf DEF CatalogInv, Sources
<1>0. PICK old \in DOMAIN sources, new \in DOMAIN sources :
      order' = [i \in DOMAIN order |->
                  IF order[i] \in Sources
                    THEN InsertAt(RemoveAt(sources, old), new, sources[old])[Place(at, i)]
                    ELSE order[i]]
  BY DEF Reorder
<1> DEFINE moved == InsertAt(RemoveAt(sources, old), new, sources[old])
<1> HIDE DEF sources
<1>2. moved \in [DOMAIN sources -> Sources] /\ IsInjective(moved) /\ ToSet(moved) = Sources
  <2>1. old \in 1 .. Len(sources) /\ new \in 1 .. Len(sources)
    BY <1>1
  <2>2. /\ moved \in [DOMAIN sources -> ToSet(sources)] /\ IsInjective(moved)
        /\ ToSet(moved) = ToSet(sources)
    BY <1>1, <2>1, MovedElements
  <2> QED BY <1>1, <2>2
<1> HIDE DEF moved, at
<1>3. /\ order \in Seq(AllUids) /\ IsInjective(order) /\ ToSet(order) = DOMAIN items
      /\ \A i \in DOMAIN order : i \in at <=> order[i] \in Sources
  BY DEF CatalogInv, TypeOK, at, Positions
<1>4. /\ DOMAIN order' = DOMAIN order
      /\ \A i \in at : order'[i] = moved[Place(at, i)] /\ order'[i] \in Sources
      /\ \A i \in DOMAIN order \ at : order'[i] = order[i] /\ order'[i] \notin Sources
  BY <1>0, <1>1, <1>2, <1>3 DEF moved, at
<1>5. IsInjective(order')
  <2> SUFFICES ASSUME NEW i \in DOMAIN order, NEW j \in DOMAIN order, order'[i] = order'[j]
               PROVE  i = j
    BY <1>4 DEF IsInjective
  <2>1. CASE i \in at /\ j \in at
    <3>1. moved[Place(at, i)] = moved[Place(at, j)]
      BY <1>4, <2>1
    <3>2. Place(at, i) = Place(at, j)
      BY <1>1, <1>2, <2>1, <3>1 DEF IsInjective
    <3> QED BY <1>1, <2>1, <3>2
  <2>2. CASE i \notin at /\ j \notin at
    BY <1>3, <1>4, <2>2 DEF IsInjective
  <2> QED BY <1>4, <2>1, <2>2
<1>6. ToSet(order') = DOMAIN items
  <2>1. ASSUME NEW i \in DOMAIN order PROVE order'[i] \in DOMAIN items
    <3>1. i \in at => order'[i] \in DOMAIN items
      BY <1>4 DEF Sources
    <3>2. order[i] \in DOMAIN items
      BY <1>3 DEF ToSet
    <3> QED BY <1>4, <3>1, <3>2
  <2>2. ASSUME NEW u \in DOMAIN items PROVE \E i \in DOMAIN order : order'[i] = u
    <3>1. CASE u \in Sources
      <4>1. PICK j \in DOMAIN sources : moved[j] = u
        BY <1>2, <3>1 DEF ToSet
      <4>2. PICK i \in at : Place(at, i) = j
        BY <1>1
      <4> QED BY <1>1, <1>4, <4>1, <4>2
    <3>2. CASE u \notin Sources
      <4>1. PICK i \in DOMAIN order : order[i] = u
        BY <1>3 DEF ToSet
      <4> QED BY <1>3, <1>4, <3>2, <4>1
    <3> QED BY <3>1, <3>2
  <2> QED BY <1>4, <2>1, <2>2 DEF ToSet
<1>7. order' \in Seq(AllUids)
  <2>1. DOMAIN order = 1 .. Len(order) /\ Len(order) \in Nat
    BY <1>3, LenProperties
  <2>2. order' \in [1 .. Len(order) -> AllUids]
    <3>1. \A i \in DOMAIN order' : order'[i] \in AllUids
      BY <1>6 DEF ToSet, CatalogInv, TypeOK
    <3>2. order' = [i \in DOMAIN order' |-> order'[i]]
      BY <1>0
    <3> QED BY <1>4, <2>1, <3>1, <3>2
  <2> QED BY <2>1, <2>2, SeqDef
<1>8. InOneCommit /\ UNCHANGED <<items, current>>
  BY DEF Reorder
<1>9. /\ Sources' = Sources /\ LinksAreExact' /\ LinksOfSources'
      /\ Built(current)' = Built(current)
  <2>1. Sources' = Sources /\ (LinksOfSources => LinksOfSources')
    BY <1>8 DEF Sources, LinksOfSources
  <2>2. LinksAreExact => LinksAreExact'
    BY <1>8, <2>1 DEF LinksAreExact, LinksResolve, LinkedTo
  <2>3. Built(current)' = Built(current)
    BY <1>8 DEF Built, Layers, LinkedTo
  <2> QED BY <2>1, <2>2, <2>3 DEF CatalogInv
<1>10. /\ DOMAIN items' \subseteq DOMAIN items /\ items' \in [DOMAIN items' -> ProfileItem]
       /\ current' # None => current \in Sources'
  BY <1>8, <1>9 DEF CatalogInv, TypeOK, CurrentIsSource
<1> QED BY <1>5, <1>6, <1>7, <1>8, <1>9, <1>10, CommitKeeps

\* The runtime of the current profile is the same as long as the files it is made of are.
LEMMA BuiltKeeps ==
  ASSUME SameShape, UNCHANGED current, current \in DOMAIN items,
         \A u \in Layers(current) : items'[u].content = items[u].content
  PROVE  Layers(current)' = Layers(current) /\ Built(current)' = Built(current)
<1>1. Layers(current)' = Layers(current)
  <2>1. LinkedTo({current})' = LinkedTo({current})
    BY DEF SameShape, LinkedTo
  <2> QED BY <2>1 DEF SameShape, Layers
<1>2. [u \in Layers(current)' |-> items'[u].content]
        = [u \in Layers(current) |-> items[u].content]
  BY <1>1
<1> QED BY <1>1, <1>2 DEF Built

LEMMA OptionsKeep ==
  ASSUME CatalogAssumption, CatalogInv, SetRemoteOptions \/ TimePasses
  PROVE  CatalogInv'
<1>1. PICK uid \in Remotes, interval \in Intervals :
        \/ items' = [items EXCEPT ![uid].interval = interval]
        \/ items' = [items EXCEPT ![uid].fresh = FALSE]
  BY DEF SetRemoteOptions, TimePasses, CatalogAssumption
<1>2. InOneCommit /\ UNCHANGED <<order, current>>
  BY DEF SetRemoteOptions, TimePasses
<1>3. uid \in DOMAIN items /\ items[uid] \in ProfileItem
        /\ items \in [DOMAIN items -> ProfileItem]
  BY DEF Remotes, CatalogInv, TypeOK
<1>4. /\ items' \in [DOMAIN items -> ProfileItem]
      /\ \A u \in DOMAIN items : u # uid => items'[u] = items[u]
      /\ items'[uid].kind = items[uid].kind
      /\ items'[uid].links = items[uid].links /\ items'[uid].content = items[uid].content
  <2>1. CASE items' = [items EXCEPT ![uid].interval = interval]
    BY <1>3, <2>1 DEF ProfileItem
  <2>2. CASE items' = [items EXCEPT ![uid].fresh = FALSE]
    BY <1>3, <2>2 DEF ProfileItem
  <2> QED BY <1>1, <2>1, <2>2
<1>5. SameShape /\ \A u \in DOMAIN items : items'[u].content = items[u].content
  BY <1>4 DEF SameShape, CatalogInv, TypeOK
<1>6. Sources' = Sources /\ LinksAreExact' /\ LinksOfSources'
  BY <1>5, ShapeKeeps DEF CatalogInv
<1>7. ASSUME current' # None PROVE current \in Sources' /\ Built(current)' = Built(current)
  <2>1. current \in Sources /\ current \in DOMAIN items
          /\ Layers(current) \subseteq DOMAIN items
    BY <1>2, <1>7, LayersAreThere DEF CatalogInv, CurrentIsSource
  <2> QED BY <1>2, <1>5, <1>6, <2>1, BuiltKeeps
<1>8. /\ order' \in Seq(AllUids) /\ IsInjective(order') /\ ToSet(order') = DOMAIN items'
      /\ DOMAIN items' \subseteq DOMAIN items /\ items' \in [DOMAIN items' -> ProfileItem]
  BY <1>2, <1>4, <1>5 DEF CatalogInv, TypeOK, SameShape
<1> QED BY <1>2, <1>6, <1>7, <1>8, CommitKeeps

-----------------------------------------------------------------------------
(* The operations that deploy                                              *)

\* What is left of the updates when the first is through.
LEMMA RestOfUpdates ==
  ASSUME TypeOK, UpdatesLeft, todo # <<>>
  PROVE  /\ Head(todo) \in Remotes /\ Tail(todo) \in Seq(Uids)
         /\ \A i \in DOMAIN Tail(todo) : Tail(todo)[i] \in Remotes
<1>1. /\ todo \in Seq(Uids) /\ Len(todo) \in Nat \ {0} /\ DOMAIN todo = 1 .. Len(todo)
      /\ \A i \in DOMAIN todo : todo[i] \in Remotes
  BY EmptySeq, LenProperties DEF TypeOK, UpdatesLeft
<1>2. /\ Head(todo) = todo[1] /\ Tail(todo) \in Seq(Uids) /\ Len(Tail(todo)) = Len(todo) - 1
      /\ \A i \in 1 .. Len(Tail(todo)) : Tail(todo)[i] = todo[i + 1]
  BY <1>1, HeadTailProperties
<1>3. DOMAIN Tail(todo) = 1 .. Len(Tail(todo))
  BY <1>2, LenProperties
<1>4. ASSUME NEW i \in 1 .. Len(Tail(todo)) PROVE Tail(todo)[i] \in Remotes
  <2>1. i + 1 \in 1 .. Len(todo)
    BY <1>1, <1>2
  <2> QED BY <1>1, <1>2, <2>1
<1>5. 1 \in DOMAIN todo
  BY <1>1
<1> QED BY <1>1, <1>2, <1>3, <1>4, <1>5

\* A step after which no operation is under way.
LEMMA EndKeeps ==
  ASSUME CatalogAssumption, CatalogInv, SameShape, UNCHANGED order,
         NEW rest \in Seq(Uids), \A i \in DOMAIN rest : rest[i] \in Remotes, EndsAt(rest),
         current' \in Uids \cup {None}, current' # None => current' \in Sources,
         runtime' \in Runtimes, stale' \in BOOLEAN,
         current' # None /\ ~stale' =>
           runtime' = [of |-> current',
                       layers |-> [u \in Layers(current') |-> items'[u].content]]
  PROVE  CatalogInv'
<1>1. Sources' = Sources /\ Remotes' = Remotes /\ LinksAreExact' /\ LinksOfSources'
  BY ShapeKeeps DEF CatalogInv
<1>2. /\ pc' \in {"idle", "updating"} /\ job' = NoJob /\ todo' = rest
      /\ pc' = "updating" <=> rest # <<>>
  BY DEF EndsAt
<1>3. TypeOK'
  BY <1>2 DEF CatalogInv, TypeOK, SameShape
<1>4. CurrentIsSource' /\ UpdatesLeft'
  BY <1>1, <1>2 DEF CurrentIsSource, UpdatesLeft, NoJob
<1>5. RuntimeIsCurrentProfile'
  <2> SUFFICES ASSUME current' # None, ~stale'
               PROVE  current' \in Sources' /\ runtime' = Built(current)'
    BY DEF RuntimeIsCurrentProfile
  <2>1. current' \in DOMAIN items
    BY DEF Sources
  <2>2. Layers(current)' = Layers(current')
    <3>1. \A u \in DOMAIN items : LinkedTo({u})' = LinkedTo({u})
      BY DEF SameShape, LinkedTo
    <3> QED BY <2>1, <3>1 DEF SameShape, Layers, LinkedTo
  <2> QED BY <1>1, <2>2 DEF Built
<1> QED BY <1>1, <1>2, <1>3, <1>4, <1>5 DEF CatalogInv

LEMMA SameItems ==
  ASSUME TypeOK, UNCHANGED items
  PROVE  SameShape
BY DEF TypeOK, SameShape

\* The beginning of a job, of which the new content of a file is already stored.
LEMMA StartKeeps ==
  ASSUME CatalogAssumption, CatalogInv, pc \in {"idle", "updating"}, SameShape,
         UNCHANGED <<order, current, runtime, todo, stale>>,
         NEW phase \in {"validate", "deploy"},
           NEW op \in {"activate", "chain", "update", "save"},
         NEW uid \in DOMAIN items, NEW target \in Sources, Start(phase, op, uid, target),
         \A u \in DOMAIN items : u # uid => items'[u] = items[u],
         op \in {"activate", "chain"} => UNCHANGED items,
         op = "update" <=> pc = "updating",
         phase = "validate" => op = "save" /\ (current # None => ~Affects(uid, current)),
         phase = "deploy" => op = "activate" \/ (current # None /\ target = current)
  PROVE  CatalogInv'
<1>1. /\ pc' = phase /\ job'.op = op /\ job'.uid = uid /\ job'.target = target
      /\ job'.before
           = [items |-> items, order |-> order, current |-> current, runtime |-> runtime]
      /\ job'.before.items = items /\ job'.before.runtime = runtime
  BY DEF Start, State
<1>2. Sources' = Sources /\ Remotes' = Remotes /\ LinksAreExact' /\ LinksOfSources'
  BY ShapeKeeps DEF CatalogInv
<1>3. TypeOK'
  BY <1>1, <1>2 DEF CatalogInv, TypeOK, SameShape
<1>4. CurrentIsSource' /\ RuntimeIsCurrentProfile'
  BY <1>1, <1>2 DEF CatalogInv, CurrentIsSource, RuntimeIsCurrentProfile
<1>5. UpdatesLeft'
  BY <1>1, <1>2 DEF CatalogInv, UpdatesLeft, TypeOK, NoJob
<1>6. JobRemembers'
  <2>1. ASSUME current # None, ~stale PROVE runtime = BuiltBefore'
    <3>1. current \in Sources /\ current \in DOMAIN items /\ runtime = Built(current)
      BY <2>1 DEF CatalogInv, RuntimeIsCurrentProfile, Sources
    <3>2. Layers(current)' = Layers(current)
      <4>1. LinkedTo({current})' = LinkedTo({current})
        BY <3>1 DEF SameShape, LinkedTo
      <4> QED BY <4>1 DEF SameShape, Layers
    <3>3. [u \in Layers(current)' |-> job'.before.items[u].content]
            = [u \in Layers(current) |-> items[u].content]
      BY <1>1, <3>2
    <3> QED BY <3>1, <3>3 DEF Built, BuiltBefore
  <2>2. /\ items \in [DOMAIN items' -> ProfileItem]
        /\ \A u \in DOMAIN items' : u # uid => items'[u] = items[u]
        /\ items'[uid].kind = items[uid].kind /\ items'[uid].links = items[uid].links
    BY DEF SameShape, CatalogInv, TypeOK
  <2> QED BY <1>1, <2>1, <2>2 DEF JobRemembers
<1>7. JobProceeds'
  <2>1. ASSUME phase = "validate", current # None PROVE ~Affects(job.uid, current)'
    <3>1. current \in DOMAIN items
      BY <2>1 DEF CatalogInv, CurrentIsSource, Sources
    <3>2. LinkedTo({current})' = LinkedTo({current})
      BY <3>1 DEF SameShape, LinkedTo
    <3> QED BY <1>1, <2>1, <3>2 DEF Affects
  <2> QED BY <1>1, <2>1 DEF JobProceeds
<1> QED BY <1>2, <1>3, <1>4, <1>5, <1>6, <1>7 DEF CatalogInv

\* A step of a job after which it goes on.
LEMMA StepKeeps ==
  ASSUME CatalogAssumption, CatalogInv, pc \notin {"idle", "updating"},
         UNCHANGED <<items, order, current, job, todo>>,
         pc' \in {"catalog", "redeploy", "restore"}, runtime' \in Runtimes,
           stale' \in BOOLEAN,
         stale => stale',
         pc' \in {"catalog", "redeploy"} => job.op # "chain",
         pc' = "catalog" => runtime' = Built(job.target),
         pc' = "restore" => /\ job.op \in {"update", "save"}
                            /\ ~stale' => runtime' = job.before.runtime
  PROVE  CatalogInv'
<1>1. /\ Sources' = Sources /\ Remotes' = Remotes /\ LinksAreExact' /\ LinksOfSources'
  BY SameItems, ShapeKeeps DEF CatalogInv
<1>2. TypeOK'
  BY <1>1 DEF CatalogInv, TypeOK
<1>3. CurrentIsSource' /\ RuntimeIsCurrentProfile' /\ UpdatesLeft'
  BY <1>1 DEF CatalogInv, CurrentIsSource, RuntimeIsCurrentProfile, UpdatesLeft
<1>4. JobRemembers'
  <2>1. BuiltBefore' = BuiltBefore
    BY DEF BuiltBefore, Layers, LinkedTo
  <2> QED BY <2>1 DEF CatalogInv, JobRemembers
<1>5. JobProceeds'
  <2>1. Built(job.target)' = Built(job.target)
    BY DEF Built, Layers, LinkedTo
  <2> QED BY <2>1 DEF JobProceeds
<1> QED BY <1>1, <1>2, <1>3, <1>4, <1>5 DEF CatalogInv

\* A file that does not concern the active profile is not a layer of it.
LEMMA Unaffected ==
  ASSUME NEW uid, NEW cur, ~Affects(uid, cur)
  PROVE  uid \notin Layers(cur)
BY DEF Affects, Layers

\* The step that stores a new content: of one file, and of it nothing else that counts here.
NewContent(uid) ==
  /\ items' \in [DOMAIN items -> ProfileItem]
  /\ \A u \in DOMAIN items : u # uid => items'[u] = items[u]
  /\ items'[uid].kind = items[uid].kind /\ items'[uid].links = items[uid].links

LEMMA NewContentShape ==
  ASSUME NEW uid, NewContent(uid)
  PROVE  SameShape
BY DEF NewContent, SameShape

\* A new content that the active profile is not made of ends where it is stored.
LEMMA StoreKeeps ==
  ASSUME CatalogAssumption, CatalogInv, pc \in {"idle", "updating"},
         NEW uid \in DOMAIN items, NewContent(uid),
         current # None => uid \notin Layers(current),
         UNCHANGED <<order, current, runtime, stale>>,
         NEW rest \in Seq(Uids), \A i \in DOMAIN rest : rest[i] \in Remotes, EndsAt(rest)
  PROVE  CatalogInv'
<1>1. SameShape
  BY NewContentShape
<1>2. ASSUME current # None, ~stale
      PROVE  runtime = [of |-> current,
                        layers |-> [u \in Layers(current) |-> items'[u].content]]
  <2>1. current \in Sources /\ runtime = Built(current)
    BY <1>2 DEF CatalogInv, RuntimeIsCurrentProfile
  <2>2. \A u \in Layers(current) : items'[u] = items[u]
    BY <1>2, <2>1, LayersAreThere DEF NewContent, CatalogInv
  <2>3. [u \in Layers(current) |-> items'[u].content]
          = [u \in Layers(current) |-> items[u].content]
    BY <2>2
  <2> QED BY <2>1, <2>3 DEF Built
<1>3. /\ current \in Uids \cup {None} /\ (current # None => current \in Sources)
      /\ runtime \in Runtimes /\ stale \in BOOLEAN
  BY DEF CatalogInv, TypeOK, CurrentIsSource
<1> QED BY <1>1, <1>2, <1>3, EndKeeps

LEMMA BeginningsKeep ==
  ASSUME CatalogAssumption, CatalogInv, Activate \/ SetProxyChain
  PROVE  CatalogInv'
<1>1. SameShape /\ \A u \in DOMAIN items : items'[u] = items[u]
  BY SameItems DEF CatalogInv, Activate, SetProxyChain
<1>2. CASE Activate
  <2>1. PICK uid \in Sources : Start("deploy", "activate", uid, uid)
    BY <1>2 DEF Activate
  <2>2. uid \in DOMAIN items
    BY DEF Sources
  <2> QED BY <1>1, <1>2, <2>1, <2>2, StartKeeps DEF Activate
<1>3. CASE SetProxyChain
  <2>1. current \in Sources /\ current \in DOMAIN items
          /\ Start("deploy", "chain", current, current)
    BY <1>3 DEF SetProxyChain, CatalogInv, CurrentIsSource, Sources
  <2>2. PICK uid \in Sources : uid = current
    BY <2>1
  <2>3. Start("deploy", "chain", uid, uid) /\ uid \in DOMAIN items
    BY <2>1, <2>2
  <2> QED BY <1>1, <1>3, <2>2, <2>3, StartKeeps DEF SetProxyChain
<1> QED BY <1>2, <1>3

LEMMA TakeUpdatesKeeps ==
  ASSUME CatalogAssumption, CatalogInv, TakeUpdates
  PROVE  CatalogInv'
<1>1. PICK uids \in {{u} : u \in Remotes} \cup {Remotes, {u \in Remotes : Due(items[u])}} :
        todo' = InOrder(uids)
  BY DEF TakeUpdates
<1>2. uids \subseteq Remotes /\ uids \subseteq DOMAIN items
  BY DEF Remotes
<1>3. InOrder(uids) \in Seq(AllUids) /\ ToSet(InOrder(uids)) = uids
  BY <1>2, OrderOf DEF CatalogInv
<1>4. \A i \in DOMAIN todo' : todo'[i] \in Remotes
  BY <1>1, <1>2, <1>3 DEF ToSet
<1>5. Remotes \subseteq Uids
  BY DEF Remotes, CatalogInv, TypeOK, AllUids, LinksOfSources, IsSource, SourceKinds
<1>6. todo' \in Seq(Uids)
  <2>1. /\ DOMAIN todo' = 1 .. Len(todo') /\ Len(todo') \in Nat
        /\ todo' \in [1 .. Len(todo') -> AllUids]
    BY <1>1, <1>3, LenProperties
  <2>2. todo' \in [1 .. Len(todo') -> Uids]
    BY <1>4, <1>5, <2>1
  <2> QED BY <2>1, <2>2, SeqDef
<1>7. todo' # <<>> /\ pc = "idle" /\ pc' = "updating"
      /\ UNCHANGED <<items, order, current, runtime, job, stale>>
  BY DEF TakeUpdates
<1>8. Sources' = Sources /\ Remotes' = Remotes /\ LinksAreExact' /\ LinksOfSources'
  BY <1>7, SameItems, ShapeKeeps DEF CatalogInv
<1>9. TypeOK'
  BY <1>6, <1>7 DEF CatalogInv, TypeOK
<1>10. CurrentIsSource' /\ UpdatesLeft'
  BY <1>4, <1>7, <1>8 DEF CatalogInv, CurrentIsSource, UpdatesLeft
<1>11. RuntimeIsCurrentProfile'
  BY <1>7, <1>8 DEF CatalogInv, RuntimeIsCurrentProfile, Built, Layers, LinkedTo
<1> QED BY <1>7, <1>8, <1>9, <1>10, <1>11 DEF CatalogInv

LEMMA DownloadKeeps ==
  ASSUME CatalogAssumption, CatalogInv, Download
  PROVE  CatalogInv'
<1> DEFINE uid == Head(todo)
<1>1. PICK content \in Contents, suggested \in {"none", "timer"} :
        /\ items' = [items EXCEPT ![uid] = Replaced(@, content, suggested)]
        /\ IF uid = current
             THEN Start("deploy", "update", uid, uid) /\ UNCHANGED todo
             ELSE EndsAt(Tail(todo))
  BY DEF Download
<1>2. pc = "updating" /\ todo # <<>> /\ UNCHANGED <<order, current, runtime, stale>>
  BY DEF Download, CatalogInv, UpdatesLeft
<1>3. /\ uid \in Remotes /\ Tail(todo) \in Seq(Uids)
      /\ \A i \in DOMAIN Tail(todo) : Tail(todo)[i] \in Remotes
  BY <1>2, RestOfUpdates DEF CatalogInv
<1>4. uid \in DOMAIN items /\ uid \in Sources /\ items[uid] \in ProfileItem
  BY <1>3 DEF Remotes, Sources, IsSource, SourceKinds, CatalogInv, TypeOK
<1> HIDE DEF uid
<1>5. NewContent(uid)
  <2> DEFINE new == Replaced(items[uid], content, suggested)
  <2>1. new \in ProfileItem /\ new.kind = items[uid].kind /\ new.links = items[uid].links
    BY <1>4 DEF Replaced, ProfileItem, CatalogAssumption
  <2> HIDE DEF new
  <2>2. items' = [items EXCEPT ![uid] = new]
    BY <1>1 DEF new
  <2> QED BY <1>4, <2>1, <2>2 DEF NewContent, CatalogInv, TypeOK
<1>6. CASE uid = current
  <2>1. PICK v \in Sources : v = uid
    BY <1>4
  <2>2. /\ v \in DOMAIN items /\ Start("deploy", "update", v, v) /\ UNCHANGED todo
        /\ current # None /\ v = current /\ NewContent(v)
    BY <1>1, <1>4, <1>5, <1>6, <2>1 DEF CatalogAssumption, CatalogInv, TypeOK, AllUids
  <2>3. SameShape
    BY <2>2, NewContentShape
  <2> QED BY <1>2, <2>2, <2>3, StartKeeps DEF NewContent
<1>7. CASE uid # current
  <2>1. current # None => uid \notin Layers(current)
    <3>1. uid # Global /\ uid \notin LinkedTo(Sources)
      BY <1>4 DEF CatalogInv, LinksOfSources, LinksAreExact, LinksResolve, LinkedTo, Sources,
                  IsSource, SourceKinds, CatalogAssumption
    <3>2. current # None => uid \notin LinkedTo({current})
      BY <3>1 DEF CatalogInv, CurrentIsSource, LinkedTo
    <3> QED BY <1>7, <3>1, <3>2 DEF Layers
  <2>2. EndsAt(Tail(todo))
    BY <1>1, <1>7
  <2> QED BY <1>2, <1>3, <1>4, <1>5, <2>1, <2>2, StoreKeeps
<1> QED BY <1>6, <1>7

LEMMA SaveKeeps ==
  ASSUME CatalogAssumption, CatalogInv, Save
  PROVE  CatalogInv'
<1>1. PICK uid \in DOMAIN items, content \in Contents :
        /\ items' = [items EXCEPT ![uid] = Edited(@, content)]
        /\ IF current # None /\ Affects(uid, current)
             THEN Start("deploy", "save", uid, current)
           ELSE IF uid \in Sources
             THEN Start("validate", "save", uid, uid)
           ELSE UNCHANGED <<pc, job>>
  BY DEF Save
<1>2. pc = "idle" /\ UNCHANGED <<order, current, runtime, todo, stale>>
  BY DEF Save
<1>3. NewContent(uid)
  <2> DEFINE new == Edited(items[uid], content)
  <2>1. items[uid] \in ProfileItem
    BY DEF CatalogInv, TypeOK
  <2>2. new \in ProfileItem /\ new.kind = items[uid].kind /\ new.links = items[uid].links
    BY <2>1 DEF Edited, ProfileItem
  <2> HIDE DEF new
  <2>3. items' = [items EXCEPT ![uid] = new]
    BY <1>1 DEF new
  <2> QED BY <2>2, <2>3 DEF NewContent, CatalogInv, TypeOK
<1>4. SameShape
  BY <1>3, NewContentShape
<1>5. CASE current # None /\ Affects(uid, current)
  <2>1. PICK target \in Sources : target = current
    BY <1>5 DEF CatalogInv, CurrentIsSource
  <2>2. Start("deploy", "save", uid, target)
    BY <1>1, <1>5, <2>1
  <2> QED BY <1>2, <1>3, <1>4, <1>5, <2>1, <2>2, StartKeeps DEF NewContent
<1>6. CASE ~(current # None /\ Affects(uid, current)) /\ uid \in Sources
  <2>1. Start("validate", "save", uid, uid)
    BY <1>1, <1>6
  <2> QED BY <1>2, <1>3, <1>4, <1>6, <2>1, StartKeeps DEF NewContent
<1>7. CASE ~(current # None /\ Affects(uid, current)) /\ uid \notin Sources
  <2>1. current # None => uid \notin Layers(current)
    BY <1>7, Unaffected
  <2>2. job = NoJob /\ todo = <<>>
    BY <1>2 DEF CatalogInv, TypeOK, UpdatesLeft, NoJob
  <2>3. EndsAt(todo)
    BY <1>1, <1>2, <1>7, <2>2 DEF EndsAt
  <2>4. todo \in Seq(Uids) /\ \A i \in DOMAIN todo : todo[i] \in Remotes
    BY DEF CatalogInv, TypeOK, UpdatesLeft
  <2> QED BY <1>2, <1>3, <2>1, <2>3, <2>4, StoreKeeps
<1> QED BY <1>5, <1>6, <1>7

\* While a job or an update is under way: what of it is left.
LEMMA WhatIsLeft ==
  ASSUME CatalogInv, pc # "idle"
  PROVE  LET rest == IF pc = "updating" \/ job.op = "update" THEN Tail(todo) ELSE todo
         IN rest \in Seq(Uids) /\ \A i \in DOMAIN rest : rest[i] \in Remotes
<1>1. todo \in Seq(Uids) /\ \A i \in DOMAIN todo : todo[i] \in Remotes
  BY DEF CatalogInv, TypeOK, UpdatesLeft
<1>2. pc = "updating" \/ job.op = "update" => todo # <<>>
  BY DEF CatalogInv, UpdatesLeft
<1> QED BY <1>1, <1>2, RestOfUpdates DEF CatalogInv

\* A step that leaves the catalog alone and ends the operation.
LEMMA FinishKeeps ==
  ASSUME CatalogAssumption, CatalogInv, pc # "idle", UNCHANGED <<items, order>>,
         EndsAt(IF pc = "updating" \/ job.op = "update" THEN Tail(todo) ELSE todo)
           \/ EndsAt(<<>>),
         current' \in Uids \cup {None}, current' # None => current' \in Sources,
         runtime' \in Runtimes, stale' \in BOOLEAN,
         current' # None /\ ~stale' => runtime' = Built(current')
  PROVE  CatalogInv'
<1>1. SameShape
  BY SameItems DEF CatalogInv
<1>2. current' # None /\ ~stale' =>
        runtime' = [of |-> current',
                    layers |-> [u \in Layers(current') |-> items'[u].content]]
  BY DEF Built
<1>3. PICK rest \in Seq(Uids) : EndsAt(rest) /\ \A i \in DOMAIN rest : rest[i] \in Remotes
  <2>1. <<>> \in Seq(Uids) /\ DOMAIN <<>> = {}
    BY EmptySeq
  <2> QED BY <2>1, WhatIsLeft
<1> QED BY <1>1, <1>2, <1>3, EndKeeps

\* The state of a job before it has deployed anything.
LEMMA NotYetDeployed ==
  ASSUME CatalogAssumption, CatalogInv, current # None, ~stale
  PROVE  /\ pc = "updating" => runtime = Built(current)
         /\ pc = "validate" => runtime = Built(current)
         /\ pc \notin {"idle", "updating"} /\ job.op \in {"activate", "chain"} =>
              job.before.runtime = Built(current)
<1>1. CASE pc = "updating"
  BY <1>1 DEF CatalogInv, RuntimeIsCurrentProfile
<1>2. CASE pc \notin {"idle", "updating"}
  <2>1. JobRemembers /\ JobProceeds
    BY <1>2 DEF CatalogInv
  <2>2. job.before.runtime = [of |-> current,
                              layers |-> [u \in Layers(current) |-> job.before.items[u].content]]
    BY <2>1 DEF JobRemembers, BuiltBefore
  <2>3. Layers(current) \subseteq DOMAIN items
    BY LayersAreThere DEF CatalogInv, CurrentIsSource
  <2>4. ASSUME pc = "validate" PROVE runtime = Built(current)
    <3>1. job.uid \notin Layers(current) /\ runtime = job.before.runtime
      BY <2>1, <2>4, Unaffected DEF JobProceeds
    <3>2. \A u \in Layers(current) : job.before.items[u] = items[u]
      BY <2>1, <2>3, <3>1 DEF JobRemembers
    <3>3. [u \in Layers(current) |-> job.before.items[u].content]
            = [u \in Layers(current) |-> items[u].content]
      BY <3>2
    <3> QED BY <2>2, <3>1, <3>3 DEF Built
  <2>5. ASSUME job.op \in {"activate", "chain"} PROVE job.before.runtime = Built(current)
    BY <2>1, <2>2, <2>5 DEF JobRemembers, Built
  <2> QED BY <1>2, <2>4, <2>5
<1> QED BY <1>1, <1>2

\* What TypeOK says of a job.
LEMMA JobTypes ==
  ASSUME CatalogAssumption, CatalogInv, pc \notin {"idle", "updating"}
  PROVE  /\ job.op \in {"activate", "chain", "update", "save"} /\ job.uid \in DOMAIN items
         /\ job.target \in Sources /\ job.target \in Uids /\ Built(job.target) \in Runtimes
         /\ job.before.runtime \in Runtimes
         /\ JobRemembers /\ JobProceeds
BY LayersAreThere DEF CatalogInv, TypeOK

LEMMA CurrentTypes ==
  ASSUME CatalogInv
  PROVE  /\ current \in Uids \cup {None} /\ (current # None => current \in Sources)
         /\ runtime \in Runtimes /\ stale \in BOOLEAN
BY DEF CatalogInv, TypeOK, CurrentIsSource

LEMMA FailuresKeep ==
  ASSUME CatalogAssumption, CatalogInv, DownloadFails \/ Validate \/ DeployFails
  PROVE  CatalogInv'
<1>1. CASE DownloadFails
  <2>1. pc = "updating" /\ EndsAt(Tail(todo))
          /\ UNCHANGED <<items, order, current, runtime, stale>>
    BY <1>1 DEF DownloadFails
  <2>2. current # None /\ ~stale => runtime = Built(current)
    BY <2>1, NotYetDeployed
  <2> QED BY <2>1, <2>2, CurrentTypes, FinishKeeps
<1>2. CASE Validate
  <2>1. pc = "validate" /\ UNCHANGED <<items, order, current, runtime, stale>>
    BY <1>2 DEF Validate
  <2>2. job.op = "save" /\ runtime = job.before.runtime
    BY <2>1, JobTypes DEF JobProceeds
  <2>3. CASE Fails
    <3>1. pc' = "restore" /\ UNCHANGED <<job, todo>>
      BY <2>2, <2>3 DEF Fails
    <3> QED BY <2>1, <2>2, <3>1, CurrentTypes, StepKeeps
  <2>4. CASE Succeeds
    <3>1. EndsAt(todo)
      BY <2>2, <2>4 DEF Succeeds
    <3>2. current # None /\ ~stale => runtime = Built(current)
      BY <2>1, NotYetDeployed
    <3> QED BY <2>1, <2>2, <3>1, <3>2, CurrentTypes, FinishKeeps
  <2> QED BY <1>2, <2>3, <2>4 DEF Validate
<1>3. CASE DeployFails
  <2>1. pc = "deploy" /\ UNCHANGED <<items, order, current, runtime, stale>>
    BY <1>3 DEF DeployFails
  <2>2. runtime = job.before.runtime
    BY <2>1, JobTypes DEF JobProceeds
  <2>3. CASE job.op \in {"update", "save"}
    <3>1. pc' = "restore" /\ UNCHANGED <<job, todo>>
      BY <1>3, <2>3 DEF DeployFails, Fails
    <3> QED BY <2>1, <2>2, <2>3, <3>1, CurrentTypes, StepKeeps
  <2>4. CASE job.op \notin {"update", "save"}
    <3>1. EndsAt(todo) /\ job.op \in {"activate", "chain"}
      BY <1>3, <2>1, <2>4, JobTypes DEF DeployFails, Fails
    <3>2. current # None /\ ~stale => runtime = Built(current)
      BY <2>1, <2>2, <3>1, NotYetDeployed
    <3> QED BY <2>1, <3>1, <3>2, CurrentTypes, FinishKeeps
  <2> QED BY <2>3, <2>4
<1> QED BY <1>1, <1>2, <1>3

LEMMA DeploymentsKeep ==
  ASSUME CatalogAssumption, CatalogInv, DeployFailsUnrestored \/ Deploy
  PROVE  CatalogInv'
<1>1. pc = "deploy" /\ runtime' = Built(job.target) /\ UNCHANGED <<items, order, current>>
  BY DEF DeployFailsUnrestored, Deploy
<1>2. /\ runtime' \in Runtimes /\ JobProceeds
      /\ job.op \in {"activate", "chain", "update", "save"}
  BY <1>1, JobTypes
<1>3. CASE DeployFailsUnrestored
  <2>1. stale' = TRUE /\ Fails
    BY <1>3 DEF DeployFailsUnrestored
  <2>2. CASE job.op \in {"update", "save"}
    <3>1. pc' = "restore" /\ UNCHANGED <<job, todo>>
      BY <2>1, <2>2 DEF Fails
    <3> QED BY <1>1, <1>2, <2>1, <2>2, <3>1, StepKeeps
  <2>3. CASE job.op \notin {"update", "save"}
    <3>1. EndsAt(todo) /\ job.op # "update"
      BY <2>1, <2>3 DEF Fails
    <3> QED BY <1>1, <1>2, <2>1, <3>1, CurrentTypes, FinishKeeps
  <2> QED BY <2>2, <2>3
<1>4. CASE Deploy
  <2>1. CASE job.op = "chain"
    <3>1. stale' = FALSE /\ EndsAt(todo) /\ job.op # "update"
      BY <1>4, <2>1 DEF Deploy, Succeeds
    <3>2. job.target = current
      BY <1>1, <1>2, <2>1 DEF JobProceeds
    <3> QED BY <1>1, <1>2, <3>1, <3>2, CurrentTypes, FinishKeeps
  <2>2. CASE job.op # "chain"
    <3>1. pc' = "catalog" /\ UNCHANGED <<stale, job, todo>>
      BY <1>4, <2>2 DEF Deploy
    <3> QED BY <1>1, <1>2, <2>2, <3>1, CurrentTypes, StepKeeps
  <2> QED BY <2>1, <2>2
<1> QED BY <1>3, <1>4

LEMMA SavesOfCurrentKeep ==
  ASSUME CatalogAssumption, CatalogInv, SaveCurrent \/ SaveCurrentFails
  PROVE  CatalogInv'
<1>1. pc = "catalog" /\ UNCHANGED <<items, order, runtime>>
  BY DEF SaveCurrent, SaveCurrentFails
<1>2. /\ JobProceeds /\ job.op # "chain" /\ runtime = Built(job.target)
      /\ job.target \in Sources /\ job.target \in Uids
  BY <1>1, JobTypes DEF JobProceeds
<1>3. CASE SaveCurrent
  <2>1. /\ current' = job.target /\ stale' = FALSE
        /\ EndsAt(IF job.op = "update" THEN Tail(todo) ELSE todo)
    BY <1>3 DEF SaveCurrent, Succeeds
  <2> QED BY <1>1, <1>2, <2>1, CurrentTypes, FinishKeeps
<1>4. CASE SaveCurrentFails
  <2>1. pc' = "redeploy" /\ UNCHANGED <<current, job, todo, stale>>
    BY <1>4 DEF SaveCurrentFails
  <2> QED BY <1>1, <1>2, <2>1, CurrentTypes, StepKeeps
<1> QED BY <1>3, <1>4

LEMMA RedeployKeeps ==
  ASSUME CatalogAssumption, CatalogInv, Redeploy
  PROVE  CatalogInv'
<1>1. /\ pc = "redeploy" /\ Fails /\ UNCHANGED <<items, order, current>>
      /\ \/ runtime' = job.before.runtime /\ UNCHANGED stale
         \/ UNCHANGED runtime /\ stale' = TRUE
  BY DEF Redeploy
<1>2. /\ job.op \in {"activate", "update", "save"} /\ job.before.runtime \in Runtimes
  BY <1>1, JobTypes DEF JobProceeds
<1>3. /\ runtime' \in Runtimes /\ stale' \in BOOLEAN /\ (stale => stale')
      /\ ~stale' => runtime' = job.before.runtime /\ ~stale
  <2>1. CASE runtime' = job.before.runtime /\ UNCHANGED stale
    BY <1>2, <2>1, CurrentTypes
  <2>2. CASE UNCHANGED runtime /\ stale' = TRUE
    BY <2>2, CurrentTypes
  <2> QED BY <1>1, <2>1, <2>2
<1>4. CASE job.op \in {"update", "save"}
  <2>1. pc' = "restore" /\ UNCHANGED <<job, todo>>
    BY <1>1, <1>4 DEF Fails
  <2> QED BY <1>1, <1>3, <1>4, <2>1, StepKeeps
<1>5. CASE job.op = "activate"
  <2>1. EndsAt(todo)
    BY <1>1, <1>5 DEF Fails
  <2>2. current # None /\ ~stale' => runtime' = Built(current)
    BY <1>1, <1>3, <1>5, NotYetDeployed
  <2> QED BY <1>1, <1>3, <1>5, <2>1, <2>2, CurrentTypes, FinishKeeps
<1> QED BY <1>2, <1>4, <1>5

\* A restoration brings back the profiles of the job's beginning.
LEMMA Restores ==
  ASSUME CatalogAssumption, CatalogInv, Restore
  PROVE  items' = job.before.items
<1> DEFINE old == job.before.items[job.uid]
<1>1. items' = [items EXCEPT ![job.uid] = RestoredItem(items[job.uid], old)]
  BY DEF Restore
<1>2. JobRemembers /\ job.uid \in DOMAIN items /\ items \in [DOMAIN items -> ProfileItem]
  BY JobTypes DEF Restore, CatalogInv, TypeOK
<1>3. /\ items[job.uid] \in ProfileItem /\ old \in ProfileItem
      /\ items[job.uid].kind = old.kind /\ items[job.uid].links = old.links
  BY <1>2 DEF JobRemembers
<1>4. RestoredItem(items[job.uid], old) = old
  BY <1>3 DEF RestoredItem, ProfileItem
<1> HIDE DEF old
<1>5. items' = [items EXCEPT ![job.uid] = old]
  BY <1>1, <1>4
<1>6. job.before.items \in [DOMAIN items -> ProfileItem]
  BY <1>2 DEF JobRemembers
<1>7. \A u \in DOMAIN items : items'[u] = job.before.items[u]
  BY <1>2, <1>5 DEF JobRemembers, old
<1>8. items' \in [DOMAIN items -> ProfileItem]
  BY <1>2, <1>3, <1>5
<1> QED BY <1>6, <1>7, <1>8

LEMMA RestorationsKeep ==
  ASSUME CatalogAssumption, CatalogInv, Restore \/ RestoreFails
  PROVE  CatalogInv'
<1>1. /\ pc = "restore" /\ UNCHANGED <<order, current, runtime>>
      /\ EndsAt(IF job.op = "update" THEN Tail(todo) ELSE todo)
  BY DEF Restore, RestoreFails, Succeeds
<1>2. CASE Restore
  <2>1. items' = job.before.items /\ UNCHANGED stale
    BY <1>2, Restores DEF Restore
  <2>2. JobRemembers /\ JobProceeds /\ job.uid \in DOMAIN items
    BY <1>1, JobTypes
  <2>3. SameShape
    BY <2>1, <2>2 DEF SameShape, JobRemembers
  <2>4. current # None /\ ~stale =>
          runtime = [of |-> current,
                     layers |-> [u \in Layers(current) |-> items'[u].content]]
    BY <1>1, <2>1, <2>2 DEF JobRemembers, JobProceeds, BuiltBefore
  <2>5. PICK rest \in Seq(Uids) : EndsAt(rest) /\ \A i \in DOMAIN rest : rest[i] \in Remotes
    BY <1>1, WhatIsLeft
  <2> QED BY <1>1, <2>1, <2>3, <2>4, <2>5, CurrentTypes, EndKeeps
<1>3. CASE RestoreFails
  <2>1. stale' = TRUE /\ UNCHANGED items
    BY <1>3 DEF RestoreFails
  <2> QED BY <1>1, <2>1, CurrentTypes, FinishKeeps
<1> QED BY <1>2, <1>3

LEMMA KillKeeps ==
  ASSUME CatalogAssumption, CatalogInv, Kill
  PROVE  CatalogInv'
<1>1. /\ pc # "idle" /\ EndsAt(<<>>) /\ UNCHANGED <<items, order, current, runtime>>
      /\ stale' = \/ stale
                  \/ pc \in {"catalog", "redeploy"}
                  \/ pc \in {"deploy", "restore"} /\ job.op \in {"update", "save"}
  BY DEF Kill, EndsAt
<1>2. stale' \in BOOLEAN
  BY <1>1, CurrentTypes
<1>3. ASSUME current # None, ~stale' PROVE runtime = Built(current)
  <2>1. ~stale
    BY <1>1, <1>3
  <2>2. CASE pc \in {"updating", "validate"}
    BY <1>3, <2>1, <2>2, NotYetDeployed
  <2>3. CASE pc \notin {"updating", "validate"}
    <3>1. pc \in {"deploy", "restore"} /\ job.op \notin {"update", "save"}
      BY <1>1, <1>3, <2>3 DEF CatalogInv, TypeOK
    <3>2. pc = "deploy" /\ job.op \in {"activate", "chain"} /\ runtime = job.before.runtime
      BY <3>1, JobTypes DEF JobProceeds
    <3> QED BY <1>3, <2>1, <3>2, NotYetDeployed
  <2> QED BY <2>2, <2>3
<1> QED BY <1>1, <1>2, <1>3, CurrentTypes, FinishKeeps

LEMMA StutterKeeps ==
  ASSUME CatalogInv, UNCHANGED vars
  PROVE  CatalogInv'
<1>1. UNCHANGED <<items, order, current, runtime, pc, job, todo, stale>>
  BY DEF vars
<1>3. Sources' = Sources /\ Remotes' = Remotes
  BY <1>1 DEF Sources, Remotes
<1>2. TypeOK' /\ LinksOfSources'
  <2>1. TypeOK => TypeOK'
    BY <1>1, <1>3, Zenon DEF TypeOK
  <2>2. LinksOfSources => LinksOfSources'
    BY <1>1, Zenon DEF LinksOfSources
  <2> QED BY <2>1, <2>2 DEF CatalogInv
<1>4. LinksAreExact'
  BY <1>1, <1>3 DEF CatalogInv, LinksAreExact, LinksResolve, LinkedTo
<1>5. RuntimeIsCurrentProfile' /\ CurrentIsSource' /\ UpdatesLeft'
  BY <1>1, <1>3 DEF CatalogInv, RuntimeIsCurrentProfile, CurrentIsSource, UpdatesLeft,
                    Built, Layers, LinkedTo
<1>6. BuiltBefore' = BuiltBefore /\ Built(job.target)' = Built(job.target)
      /\ (current # None => (Affects(job.uid, current)' <=> Affects(job.uid, current)))
  BY <1>1 DEF BuiltBefore, Built, Layers, LinkedTo, Affects
<1>7. JobRemembers => JobRemembers'
  BY <1>1, <1>6 DEF JobRemembers
<1>8. JobProceeds => JobProceeds'
  BY <1>1, <1>6 DEF JobProceeds
<1> QED BY <1>1, <1>2, <1>4, <1>5, <1>7, <1>8 DEF CatalogInv

LEMMA CatalogNextKeeps ==
  ASSUME CatalogAssumption, CatalogInv, [Next]_vars
  PROVE  CatalogInv'
<1>1. CASE ImportLocal
  <2>1. InOneCommit /\ ImportContent("local", "none")
    BY <1>1 DEF ImportLocal
  <2> QED BY <2>1, ImportKeeps DEF CatalogAssumption, SourceKinds
<1>2. CASE ImportRemote
  <2>1. InOneCommit
    BY <1>2 DEF ImportRemote
  <2>2. PICK interval \in Intervals : ImportContent("remote", interval)
    BY <1>2 DEF ImportRemote, CatalogAssumption
  <2> QED BY <2>1, <2>2, ImportKeeps DEF SourceKinds
<1>3. CASE Duplicate
  BY <1>3, DuplicateKeeps
<1>4. CASE Delete \/ Reorder \/ SetRemoteOptions \/ TimePasses
  BY <1>4, DeleteKeeps, ReorderKeeps, OptionsKeep
<1>5. CASE Activate \/ SetProxyChain \/ TakeUpdates \/ Save
  BY <1>5, BeginningsKeep, TakeUpdatesKeeps, SaveKeeps
<1>6. CASE DownloadFails \/ Download \/ Validate \/ DeployFails
  BY <1>6, DownloadKeeps, FailuresKeep
<1>7. CASE DeployFailsUnrestored \/ Deploy \/ SaveCurrent \/ SaveCurrentFails \/ Redeploy
  BY <1>7, DeploymentsKeep, SavesOfCurrentKeep, RedeployKeeps
<1>8. CASE Restore \/ RestoreFails \/ Kill
  BY <1>8, RestorationsKeep, KillKeeps
<1>9. CASE UNCHANGED vars
  BY <1>9, StutterKeeps
<1> QED BY <1>1, <1>2, <1>3, <1>4, <1>5, <1>6, <1>7, <1>8, <1>9 DEF Next

\* What an import from CVR brings: two sources that share an enhancement, and the global one.
LEMMA ImportedIsGood ==
  ASSUME CatalogAssumption, NEW a \in Uids, NEW b \in Uids, NEW linked \in Uids,
         a # b, a # linked, b # linked, NEW content \in {Template, Blank},
         items = ImportedItems(a, b, linked, content), order = <<a, Global, linked, b>>,
         current \in {None, a}
  PROVE  /\ DOMAIN items = {a, b, linked, Global} /\ DOMAIN items \subseteq AllUids
         /\ items \in [DOMAIN items -> ProfileItem]
         /\ order \in Seq(AllUids) /\ IsInjective(order) /\ ToSet(order) = DOMAIN items
         /\ Sources = {a, b} /\ LinksAreExact /\ LinksOfSources
<1>1. Global \notin {a, b, linked} /\ None \notin {a, b, linked, Global}
  BY DEF CatalogAssumption
<1>2. /\ "merge" \in LinkedKinds /\ "remote" \notin LinkedKinds /\ "local" \notin LinkedKinds
      /\ NoLinks \in [LinkedKinds -> AllUids \cup {None}] /\ "none" \in Intervals
      /\ {Template, Blank} \subseteq Contents \cup {Blank}
  BY DEF CatalogAssumption, NoLinks
<1>3. DOMAIN items = {a, b, linked, Global} /\ DOMAIN items \subseteq AllUids
  BY DEF ImportedItems, AllUids
<1> DEFINE toLinked == [NoLinks EXCEPT !["merge"] = linked]
<1>4. /\ toLinked \in [LinkedKinds -> AllUids \cup {None}] /\ toLinked["merge"] = linked
      /\ \A k \in LinkedKinds : k # "merge" => toLinked[k] = None
  BY <1>2 DEF AllUids, NoLinks
<1> HIDE DEF toLinked
<1>5. /\ items[a] = [kind |-> "remote", content |-> Template, interval |-> "none",
                     fresh |-> TRUE, links |-> toLinked]
      /\ items[b] = [kind |-> "local", content |-> Template, interval |-> "none",
                     fresh |-> TRUE, links |-> toLinked]
      /\ items[linked] = Enhancement("merge", content)
      /\ items[Global] = Enhancement("merge", Template)
  BY <1>1 DEF ImportedItems, toLinked
<1>6. items \in [DOMAIN items -> ProfileItem]
  <2>1. items[a] \in ProfileItem /\ items[b] \in ProfileItem
    BY <1>2, <1>4, <1>5 DEF ProfileItem, SourceKinds
  <2>2. items[linked] \in ProfileItem /\ items[Global] \in ProfileItem
    BY <1>2, <1>5 DEF ProfileItem, Enhancement
  <2>3. items = [u \in DOMAIN items |-> items[u]]
    BY DEF ImportedItems
  <2> QED BY <1>3, <2>1, <2>2, <2>3
<1>7. /\ items[a].kind = "remote" /\ items[a].links = toLinked
      /\ items[b].kind = "local" /\ items[b].links = toLinked
      /\ items[linked].kind = "merge" /\ items[linked].links = NoLinks
      /\ items[Global].kind = "merge" /\ items[Global].links = NoLinks
  BY <1>5 DEF Enhancement
<1>8. Sources = {a, b}
  BY <1>3, <1>7 DEF Sources, IsSource, SourceKinds
<1>9. LinkedTo(Sources) = {linked}
  BY <1>1, <1>2, <1>4, <1>7, <1>8 DEF LinkedTo
<1>10. LinksAreExact
  <2>1. \A u \in Sources : LinksResolve(u)
    BY <1>3, <1>4, <1>7, <1>8 DEF LinksResolve
  <2> QED BY <1>3, <1>8, <1>9, <2>1 DEF LinksAreExact
<1>11. LinksOfSources
  <2>1. \A u \in DOMAIN items : ~IsSource(items[u]) => items[u].links = NoLinks
    BY <1>3, <1>7 DEF IsSource, SourceKinds
  <2>2. \A u \in DOMAIN items, k \in LinkedKinds : items[u].links[k] # Global
    BY <1>1, <1>3, <1>4, <1>7 DEF NoLinks
  <2>3. ~IsSource(items[Global])
    BY <1>7 DEF IsSource, SourceKinds
  <2> QED BY <2>1, <2>2, <2>3 DEF LinksOfSources
<1>12. order \in Seq(AllUids) /\ DOMAIN order = 1 .. 4
  BY DEF AllUids
<1>13. order[1] = a /\ order[2] = Global /\ order[3] = linked /\ order[4] = b
  OBVIOUS
<1>14. IsInjective(order)
  BY <1>1, <1>12, <1>13 DEF IsInjective
<1>15. ToSet(order) = DOMAIN items
  BY <1>3, <1>12, <1>13 DEF ToSet
<1> QED BY <1>3, <1>6, <1>8, <1>10, <1>11, <1>12, <1>14, <1>15

\* The catalogue of a new installation.
LEMMA EmptyIsGood ==
  ASSUME CatalogAssumption, items = [u \in {} |-> Enhancement("merge", Blank)], order = <<>>
  PROVE  /\ DOMAIN items = {} /\ items \in [DOMAIN items -> ProfileItem]
         /\ order \in Seq(AllUids) /\ IsInjective(order) /\ ToSet(order) = DOMAIN items
         /\ LinksAreExact /\ LinksOfSources
<1>1. DOMAIN items = {} /\ items \in [DOMAIN items -> ProfileItem]
  OBVIOUS
<1>2. order \in Seq(AllUids) /\ DOMAIN order = {}
  BY EmptySeq
<1>3. Sources = {} /\ LinkedTo(Sources) = {}
  BY <1>1 DEF Sources, LinkedTo
<1> QED BY <1>1, <1>2, <1>3 DEF IsInjective, ToSet, LinksAreExact, LinksOfSources

LEMMA CatalogStartsGood ==
  ASSUME CatalogAssumption, Init
  PROVE  CatalogInv
<1>1. /\ runtime = DefaultRuntime /\ pc = "idle" /\ job = NoJob /\ todo = <<>>
      /\ stale = (current # None)
  BY DEF Init
<1>2. /\ DOMAIN items \subseteq AllUids /\ items \in [DOMAIN items -> ProfileItem]
      /\ order \in Seq(AllUids) /\ IsInjective(order) /\ ToSet(order) = DOMAIN items
      /\ current \in Uids \cup {None} /\ (current # None => current \in Sources)
      /\ LinksAreExact /\ LinksOfSources
  <2>1. CASE items = [u \in {} |-> Enhancement("merge", Blank)] /\ order = <<>>
               /\ current = None
    BY <2>1, EmptyIsGood
  <2>2. CASE \E a, b, linked \in Uids, content \in {Template, Blank} :
               /\ Cardinality({a, b, linked}) = 3
               /\ items = ImportedItems(a, b, linked, content)
               /\ order = <<a, Global, linked, b>>
               /\ current \in {None, a}
    <3>1. PICK a, b, linked \in Uids, content \in {Template, Blank} :
               /\ Cardinality({a, b, linked}) = 3
               /\ items = ImportedItems(a, b, linked, content)
               /\ order = <<a, Global, linked, b>>
               /\ current \in {None, a}
      BY <2>2
    <3>2. a # b /\ a # linked /\ b # linked
      <4>1. ASSUME NEW x, NEW y PROVE Cardinality({x, y}) # 3
        <5>1. CASE x = y
          <6>1. {x, y} = {x}
            BY <5>1
          <6> QED BY <6>1, FS_Singleton
        <5>2. CASE x # y
          <6>1. Cardinality({x}) = 1 /\ IsFiniteSet({x})
            BY FS_Singleton
          <6>2. {x, y} = {x} \cup {y} /\ y \notin {x}
            BY <5>2
          <6>3. Cardinality({x} \cup {y}) = Cardinality({x}) + 1
            BY <6>1, <6>2, FS_AddElement
          <6> QED BY <6>1, <6>2, <6>3
        <5> QED BY <5>1, <5>2
      <4>2. CASE a = b \/ a = linked
        <5>1. {a, b, linked} = {b, linked}
          BY <4>2
        <5> QED BY <3>1, <4>1, <5>1
      <4>3. CASE b = linked
        <5>1. {a, b, linked} = {a, b}
          BY <4>3
        <5> QED BY <3>1, <4>1, <5>1
      <4> QED BY <4>2, <4>3
    <3>3. current \in {None, a}
      BY <3>1
    <3>4. /\ DOMAIN items \subseteq AllUids /\ items \in [DOMAIN items -> ProfileItem]
          /\ order \in Seq(AllUids) /\ IsInjective(order) /\ ToSet(order) = DOMAIN items
          /\ Sources = {a, b} /\ LinksAreExact /\ LinksOfSources
      BY <3>1, <3>2, ImportedIsGood
    <3> QED BY <3>3, <3>4
  <2> QED BY <2>1, <2>2 DEF Init
<1>3. runtime \in Runtimes
  <2>1. [u \in {} |-> Blank] \in [{} -> Contents \cup {Blank}] /\ {} \in SUBSET AllUids
    OBVIOUS
  <2>2. [u \in {} |-> Blank] \in Partial(AllUids)
    BY <2>1 DEF Partial
  <2> QED BY <1>1, <2>2 DEF DefaultRuntime, Runtimes
<1>4. <<>> \in Seq(Uids) /\ DOMAIN <<>> = {}
  BY EmptySeq
<1>5. TypeOK
  BY <1>1, <1>2, <1>3, <1>4 DEF TypeOK
<1>6. RuntimeIsCurrentProfile
  BY <1>1 DEF RuntimeIsCurrentProfile
<1>7. CurrentIsSource /\ UpdatesLeft
  BY <1>1, <1>2, <1>4 DEF CurrentIsSource, UpdatesLeft, NoJob
<1> QED BY <1>1, <1>2, <1>5, <1>6, <1>7 DEF CatalogInv

LEMMA FailuresLeaveNoTrace ==
  ASSUME CatalogAssumption, CatalogInv, Failed, ~stale
  PROVE  State' = job.before
<1> SUFFICES ASSUME JobRemembers
             PROVE  /\ items' = job.before.items /\ order' = order /\ current' = current
                    /\ runtime' = job.before.runtime
  <2>1. pc \notin {"idle", "updating"}
    BY DEF Failed, DeployFails, Redeploy, Restore
  <2>2. JobRemembers
    BY <2>1, JobTypes
  <2> QED BY <2>2 DEF State, JobRemembers
<1>1. CASE DeployFails /\ pc' # "restore"
  <2>1. pc = "deploy" /\ Fails /\ UNCHANGED <<items, order, current, runtime>>
    BY <1>1 DEF DeployFails
  <2>2. job.op \in {"activate", "chain"} /\ runtime = job.before.runtime
    BY <1>1, <2>1, JobTypes DEF Fails, JobProceeds
  <2> QED BY <2>1, <2>2 DEF JobRemembers
<1>2. CASE Redeploy /\ pc' # "restore" /\ stale' = stale
  <2>1. /\ pc = "redeploy" /\ Fails /\ UNCHANGED <<items, order, current>>
        /\ runtime' = job.before.runtime \/ stale' = TRUE
    BY <1>2 DEF Redeploy
  <2>2. job.op \in {"activate", "chain"}
    BY <1>2, <2>1, JobTypes DEF Fails
  <2> QED BY <1>2, <2>1, <2>2 DEF JobRemembers
<1>3. CASE Restore
  <2>1. items' = job.before.items
    BY <1>3, Restores
  <2>2. pc = "restore" /\ UNCHANGED <<order, current, runtime>>
    BY <1>3 DEF Restore
  <2> QED BY <2>1, <2>2, JobTypes DEF JobProceeds
<1> QED BY <1>1, <1>2, <1>3 DEF Failed

-----------------------------------------------------------------------------
(* Mappings                                                                *)

\* What the application makes of a profile before the manual layers.
Base(profile, defaults, tun) ==
  LET edited == Pipeline!ApplyDefaults(Pipeline!ApplyEdits(profile), defaults)
  IN Pipeline!ApplyTun(Pipeline!NativeTransforms(edited), tun)

Layered(base, profile, global) ==
  LET merged == Pipeline!Merge(Pipeline!Merge(base, global), profile.merge)
  IN Pipeline!RestoreControlPlane(merged, Pipeline!Only(base, Pipeline!ControlPlane))

\* The control plane of the result is that of the base: what follows the manual layers
\* writes none of its fields.
LEMMA LastStepsKeep ==
  ASSUME NEW mapping, NEW field, field \notin {"bind-address", "proxy-groups"}
  PROVE  LET out == Pipeline!CleanupGroups(Pipeline!EnsureLanBindAddress(mapping))
         IN /\ field \in DOMAIN out <=> field \in DOMAIN mapping
            /\ field \in DOMAIN mapping => out[field] = mapping[field]
<1> DEFINE lan == Pipeline!EnsureLanBindAddress(mapping)
<1>1. /\ field \in DOMAIN lan <=> field \in DOMAIN mapping
      /\ field \in DOMAIN mapping => lan[field] = mapping[field]
  BY DEF Pipeline!EnsureLanBindAddress, Pipeline!With
<1> HIDE DEF lan
<1>2. /\ field \in DOMAIN Pipeline!CleanupGroups(lan) <=> field \in DOMAIN lan
      /\ field \in DOMAIN lan => Pipeline!CleanupGroups(lan)[field] = lan[field]
  BY DEF Pipeline!CleanupGroups, Pipeline!With
<1> QED BY <1>1, <1>2 DEF lan

LEMMA ControlPlaneRestored ==
  ASSUME NEW profile, NEW global, NEW defaults, NEW tun
  PROVE  Pipeline!Only(Pipeline!Enhance(profile, global, defaults, tun), Pipeline!ControlPlane)
           = Pipeline!Only(Base(profile, defaults, tun), Pipeline!ControlPlane)
<1> DEFINE base == Base(profile, defaults, tun)
           merged == Layered(base, profile, global)
           out == Pipeline!Enhance(profile, global, defaults, tun)
<1>1. out = Pipeline!CleanupGroups(Pipeline!EnsureLanBindAddress(merged))
  BY DEF Pipeline!Enhance, Layered, Base
<1> HIDE DEF base, merged, out
<1>2. ASSUME NEW x \in Pipeline!ControlPlane
      PROVE  /\ x \in DOMAIN merged <=> x \in DOMAIN base
             /\ x \in DOMAIN base => merged[x] = base[x]
  BY DEF merged, Layered, Pipeline!RestoreControlPlane, Pipeline!Over, Pipeline!Only,
         Pipeline!Without
<1>3. ASSUME NEW x \in Pipeline!ControlPlane
      PROVE  /\ x \in DOMAIN out <=> x \in DOMAIN base
             /\ x \in DOMAIN base => out[x] = base[x]
  BY <1>1, <1>2, LastStepsKeep DEF Pipeline!ControlPlane
<1>4. DOMAIN out \cap Pipeline!ControlPlane = DOMAIN base \cap Pipeline!ControlPlane
  BY <1>3
<1>5. Pipeline!Only(out, Pipeline!ControlPlane) = Pipeline!Only(base, Pipeline!ControlPlane)
  BY <1>3, <1>4 DEF Pipeline!Only
<1> QED BY <1>5 DEF out, base

\* A base has the switch of TUN that it was made with.
LEMMA BaseTun ==
  ASSUME NEW profile, NEW defaults, NEW tun
  PROVE  LET base == Base(profile, defaults, tun)
         IN /\ "tun" \in DOMAIN base /\ "enable" \in DOMAIN base["tun"]
            /\ base["tun"]["enable"] = tun
BY DEF Base, Pipeline!ApplyTun, Pipeline!With

\* The fields of the control plane, but for TUN and the mode, are those of the defaults.
LEMMA BaseHasDefaults ==
  ASSUME NEW profile, NEW defaults, NEW tun, NEW x \in DOMAIN defaults,
         x \in Pipeline!ControlPlane \ {"tun", "mode"}
  PROVE  x \in DOMAIN Base(profile, defaults, tun)
           /\ Base(profile, defaults, tun)[x] = defaults[x]
<1> DEFINE edited == Pipeline!ApplyEdits(profile)
           applied == Pipeline!ApplyDefaults(edited, defaults)
           native == Pipeline!NativeTransforms(applied)
<1> HIDE DEF edited
<1>1. x \in DOMAIN applied /\ applied[x] = defaults[x]
  BY DEF Pipeline!ApplyDefaults, Pipeline!Over, Pipeline!With
<1> HIDE DEF applied
<1>2. x \in DOMAIN native /\ native[x] = defaults[x]
  BY <1>1 DEF Pipeline!NativeTransforms, Pipeline!ControlPlane
<1> HIDE DEF native
<1>3. x \in DOMAIN Pipeline!ApplyTun(native, tun)
        /\ Pipeline!ApplyTun(native, tun)[x] = native[x]
  BY <1>2 DEF Pipeline!ApplyTun, Pipeline!With, Pipeline!ControlPlane
<1> QED BY <1>2, <1>3 DEF Base, native, applied, edited

\* The defaults taken from a base make the same base again.
LEMMA BaseIsStable ==
  ASSUME NEW profile, NEW defaults, DOMAIN defaults \subseteq Pipeline!ControlPlane, NEW tun
  PROVE  LET base == Base(profile, defaults, tun)
         IN Base(profile, Pipeline!Only(base, Pipeline!ControlPlane), tun) = base
<1> DEFINE edited == Pipeline!ApplyEdits(profile)
           a1 == Pipeline!ApplyDefaults(edited, defaults)
           n1 == Pipeline!NativeTransforms(a1)
           b1 == Pipeline!ApplyTun(n1, tun)
           again == Pipeline!Only(b1, Pipeline!ControlPlane)
           a2 == Pipeline!ApplyDefaults(edited, again)
           n2 == Pipeline!NativeTransforms(a2)
           b2 == Pipeline!ApplyTun(n2, tun)
<1> HIDE DEF edited
<1>1. /\ "tun" \in DOMAIN b1 /\ "enable" \in DOMAIN b1["tun"]
      /\ b1["tun"] = Pipeline!With(Pipeline!Field(n1, "tun", Pipeline!Empty), "enable", tun)
      /\ \A x : x \notin {"tun", "dns"} =>
           /\ x \in DOMAIN b1 <=> x \in DOMAIN n1
           /\ x \in DOMAIN n1 => b1[x] = n1[x]
  BY DEF Pipeline!ApplyTun, Pipeline!With
<1>2. /\ DOMAIN a1 = DOMAIN defaults \cup DOMAIN edited
      /\ \A x \in DOMAIN defaults : x # "tun" => a1[x] = defaults[x]
      /\ \A x \in DOMAIN edited \ DOMAIN defaults : a1[x] = edited[x]
      /\ "tun" \in DOMAIN defaults =>
           a1["tun"]
             = Pipeline!Over(defaults["tun"], Pipeline!Field(edited, "tun", Pipeline!Empty))
  BY DEF Pipeline!ApplyDefaults, Pipeline!Over, Pipeline!With
<1>3. /\ DOMAIN n1 = DOMAIN a1 /\ DOMAIN n2 = DOMAIN a2
      /\ \A x \in DOMAIN a1 : x \notin {"mode", "proxies"} => n1[x] = a1[x]
      /\ \A x \in DOMAIN a2 : x \notin {"mode", "proxies"} => n2[x] = a2[x]
      /\ \A x \in DOMAIN a1 \cap DOMAIN a2 : a1[x] = a2[x] => n1[x] = n2[x]
      /\ "mode" \in DOMAIN a1 => n1["mode"] # "script"
      /\ "mode" \in DOMAIN a2 /\ a2["mode"] # "script" => n2["mode"] = a2["mode"]
  BY DEF Pipeline!NativeTransforms
<1> HIDE DEF b1
<1>4. /\ DOMAIN again = DOMAIN b1 \cap Pipeline!ControlPlane
      /\ \A x \in DOMAIN again : again[x] = b1[x]
  BY DEF Pipeline!Only
<1> HIDE DEF again
<1>5. "tun" \in DOMAIN again /\ again["tun"] = b1["tun"]
  BY <1>1, <1>4 DEF Pipeline!ControlPlane
<1>6. /\ DOMAIN a2 = DOMAIN again \cup DOMAIN edited
      /\ \A x \in DOMAIN again : x # "tun" => a2[x] = again[x]
      /\ \A x \in DOMAIN edited \ DOMAIN again : a2[x] = edited[x]
      /\ a2["tun"] = Pipeline!Over(b1["tun"], Pipeline!Field(edited, "tun", Pipeline!Empty))
  BY <1>5 DEF Pipeline!ApplyDefaults, Pipeline!Over, Pipeline!With
<1> HIDE DEF a1, a2, n1, n2
<1>7. DOMAIN Pipeline!Field(edited, "tun", Pipeline!Empty) \subseteq DOMAIN b1["tun"]
  <2>1. CASE "tun" \notin DOMAIN edited
    BY <2>1 DEF Pipeline!Field, Pipeline!Empty
  <2>2. CASE "tun" \in DOMAIN edited
    <3>1. "tun" \in DOMAIN a1 /\ n1["tun"] = a1["tun"]
            /\ DOMAIN edited["tun"] \subseteq DOMAIN a1["tun"]
      BY <1>2, <1>3, <2>2 DEF Pipeline!Field, Pipeline!Over
    <3> QED BY <1>1, <1>3, <2>2, <3>1 DEF Pipeline!Field, Pipeline!With
  <2> QED BY <2>1, <2>2
<1>8. Pipeline!With(b1["tun"], "enable", tun) = b1["tun"]
  BY <1>1 DEF Pipeline!With
<1>9. Pipeline!Over(b1["tun"], Pipeline!Field(edited, "tun", Pipeline!Empty)) = b1["tun"]
  BY <1>1, <1>7 DEF Pipeline!With, Pipeline!Over
<1>10. /\ DOMAIN n2 = DOMAIN n1 \cup {"tun"} /\ n2["tun"] = b1["tun"]
       /\ \A x \in DOMAIN n1 : x # "tun" => n2[x] = n1[x]
  <2>1. "tun" \in DOMAIN n2 /\ n2["tun"] = b1["tun"]
    BY <1>3, <1>5, <1>6, <1>9
  <2>2. ASSUME NEW x, x # "tun", x \in Pipeline!ControlPlane
        PROVE  /\ x \in DOMAIN n2 <=> x \in DOMAIN n1
               /\ x \in DOMAIN n1 => n2[x] = n1[x]
    <3>1. /\ x \in DOMAIN a2 <=> x \in DOMAIN n1
          /\ x \in DOMAIN n1 => a2[x] = n1[x]
      BY <1>1, <1>2, <1>3, <1>4, <1>6, <2>2 DEF Pipeline!ControlPlane
    <3> QED BY <1>3, <2>2, <3>1 DEF Pipeline!ControlPlane
  <2>3. ASSUME NEW x, x \notin Pipeline!ControlPlane
        PROVE  /\ x \in DOMAIN n2 <=> x \in DOMAIN n1
               /\ x \in DOMAIN n1 => n2[x] = n1[x]
    BY <1>2, <1>3, <1>4, <1>6, <2>3
  <2> QED BY <2>1, <2>2, <2>3
<1>11. b2 = b1
  <2>1. /\ Pipeline!Field(n2, "tun", Pipeline!Empty) = b1["tun"]
             /\ Pipeline!Field(n2, "dns", Pipeline!Empty)
                  = Pipeline!Field(n1, "dns", Pipeline!Empty)
        /\ Pipeline!Field(n2, "ipv6", FALSE) = Pipeline!Field(n1, "ipv6", FALSE)
    BY <1>10 DEF Pipeline!Field
  <2>2. Pipeline!With(n2, "tun", b1["tun"]) = Pipeline!With(n1, "tun", b1["tun"])
    BY <1>10 DEF Pipeline!With
  <2>3. Pipeline!With(n2, "tun",
                      Pipeline!With(Pipeline!Field(n2, "tun", Pipeline!Empty), "enable", tun))
          = Pipeline!With(n1, "tun", Pipeline!With(Pipeline!Field(n1, "tun", Pipeline!Empty),
                                                   "enable", tun))
    BY <1>1, <1>8, <2>1, <2>2
  <2> QED BY <2>1, <2>3 DEF b1, Pipeline!ApplyTun
<1> QED BY <1>11 DEF Base, b1, again, n1, n2, a1, a2, edited

\* prepare_activation again, of the same profile.
LEMMA SecondActivation ==
  ASSUME NEW profile, NEW global, NEW previous
  PROVE  LET next == Pipeline!NextRuntime(profile, global, previous)
         IN Pipeline!NextRuntime(profile, global, next) = next
<1> DEFINE defaults == Pipeline!Only(previous, Pipeline!ControlPlane)
           tun == Pipeline!Field(Pipeline!Field(previous, "tun", Pipeline!Empty),
                                 "enable", FALSE)
           base == Base(profile, defaults, tun)
           next == Pipeline!NextRuntime(profile, global, previous)
<1>1. next = Pipeline!Enhance(profile, global, defaults, tun)
  BY DEF Pipeline!NextRuntime
<1>2. DOMAIN defaults \subseteq Pipeline!ControlPlane
  BY DEF Pipeline!Only
<1> HIDE DEF defaults, tun, next
<1>3. Pipeline!Only(next, Pipeline!ControlPlane) = Pipeline!Only(base, Pipeline!ControlPlane)
  BY <1>1, ControlPlaneRestored
<1>4. "tun" \in DOMAIN base /\ "enable" \in DOMAIN base["tun"] /\ base["tun"]["enable"] = tun
  BY BaseTun
<1> HIDE DEF base
<1>5. "tun" \in DOMAIN next /\ next["tun"] = base["tun"]
  <2>1. "tun" \in DOMAIN Pipeline!Only(base, Pipeline!ControlPlane)
          /\ Pipeline!Only(base, Pipeline!ControlPlane)["tun"] = base["tun"]
    BY <1>4 DEF Pipeline!Only, Pipeline!ControlPlane
  <2>2. "tun" \in DOMAIN Pipeline!Only(next, Pipeline!ControlPlane) =>
          "tun" \in DOMAIN next
            /\ Pipeline!Only(next, Pipeline!ControlPlane)["tun"] = next["tun"]
    BY DEF Pipeline!Only
  <2> QED BY <1>3, <2>1, <2>2
<1>6. Pipeline!Field(Pipeline!Field(next, "tun", Pipeline!Empty), "enable", FALSE) = tun
  BY <1>4, <1>5 DEF Pipeline!Field
<1>7. Base(profile, Pipeline!Only(base, Pipeline!ControlPlane), tun) = base
  BY <1>2, BaseIsStable DEF base
<1>8. Pipeline!NextRuntime(profile, global, next)
        = Pipeline!Enhance(profile, global, Pipeline!Only(base, Pipeline!ControlPlane), tun)
  BY <1>3, <1>6 DEF Pipeline!NextRuntime
<1>9. Pipeline!Enhance(profile, global, Pipeline!Only(base, Pipeline!ControlPlane), tun)
        = Pipeline!Enhance(profile, global, defaults, tun)
  BY <1>7 DEF Pipeline!Enhance, Base, base
<1> QED BY <1>1, <1>8, <1>9 DEF next

\* A field of the control plane in what is made of a profile.
LEMMA ControlPlaneOfNext ==
  ASSUME NEW profile, NEW global, NEW previous, "tun" \in DOMAIN previous,
         "enable" \in DOMAIN previous["tun"]
  PROVE  LET next == Pipeline!NextRuntime(profile, global, previous)
         IN /\ "tun" \in DOMAIN next /\ "enable" \in DOMAIN next["tun"]
            /\ next["tun"]["enable"] = previous["tun"]["enable"]
            /\ \A x \in DOMAIN previous \cap (Pipeline!ControlPlane \ {"tun", "mode"}) :
                 x \in DOMAIN next /\ next[x] = previous[x]
<1> DEFINE defaults == Pipeline!Only(previous, Pipeline!ControlPlane)
           tun == Pipeline!Field(Pipeline!Field(previous, "tun", Pipeline!Empty),
                                 "enable", FALSE)
           base == Base(profile, defaults, tun)
           next == Pipeline!NextRuntime(profile, global, previous)
<1>1. tun = previous["tun"]["enable"]
  BY DEF Pipeline!Field
<1>2. \A x \in DOMAIN previous \cap Pipeline!ControlPlane : x \in DOMAIN defaults
        /\ defaults[x] = previous[x]
  BY DEF Pipeline!Only
<1>0. next = Pipeline!Enhance(profile, global, defaults, tun)
  BY DEF Pipeline!NextRuntime
<1> HIDE DEF defaults, tun, next
<1>3. Pipeline!Only(next, Pipeline!ControlPlane) = Pipeline!Only(base, Pipeline!ControlPlane)
  BY <1>0, ControlPlaneRestored
<1>4. /\ "tun" \in DOMAIN base /\ "enable" \in DOMAIN base["tun"]
      /\ base["tun"]["enable"] = tun
  BY BaseTun
<1>5. \A x \in DOMAIN defaults \cap (Pipeline!ControlPlane \ {"tun", "mode"}) :
        x \in DOMAIN base /\ base[x] = defaults[x]
  BY BaseHasDefaults
<1> HIDE DEF base
<1>6. \A x \in Pipeline!ControlPlane : x \in DOMAIN base
        => x \in DOMAIN next /\ next[x] = base[x]
  <2> TAKE x \in Pipeline!ControlPlane
  <2> HAVE x \in DOMAIN base
  <2>1. x \in DOMAIN Pipeline!Only(base, Pipeline!ControlPlane)
          /\ Pipeline!Only(base, Pipeline!ControlPlane)[x] = base[x]
    BY DEF Pipeline!Only
  <2>2. x \in DOMAIN Pipeline!Only(next, Pipeline!ControlPlane) =>
          x \in DOMAIN next /\ Pipeline!Only(next, Pipeline!ControlPlane)[x] = next[x]
    BY DEF Pipeline!Only
  <2> QED BY <1>3, <2>1, <2>2
<1>7. "tun" \in Pipeline!ControlPlane
  BY DEF Pipeline!ControlPlane
<1> QED BY <1>1, <1>2, <1>4, <1>5, <1>6, <1>7 DEF next

\* The settings that a runtime carries.
Carries(mapping, s) ==
  /\ \A x \in DOMAIN Pipeline!Written(s) \cap Pipeline!ControlPlane : x \in DOMAIN mapping
       /\ mapping[x] = s[x]
  /\ mapping["tun"]["enable"] = s["tun"]

HasTun(mapping) == "tun" \in DOMAIN mapping /\ "enable" \in DOMAIN mapping["tun"]

LEMMA WrittenFields ==
  ASSUME NEW s, NEW x \in DOMAIN Pipeline!Written(s) \cap Pipeline!ControlPlane
  PROVE  x \notin {"tun", "mode", "proxies", "proxy-groups", "bind-address"}
           /\ Pipeline!Written(s)[x] = s[x]
BY DEF Pipeline!Written, Pipeline!With, Pipeline!Only, Pipeline!Optional,
       Pipeline!ControlPlane

LEMMA ActivationCarries ==
  ASSUME NEW profile, NEW global, NEW previous, HasTun(previous)
  PROVE  /\ HasTun(Pipeline!NextRuntime(profile, global, previous))
         /\ \A s : Carries(previous, s)
              => Carries(Pipeline!NextRuntime(profile, global, previous), s)
<1>1. HasTun(Pipeline!NextRuntime(profile, global, previous))
  BY ControlPlaneOfNext DEF HasTun
<1>2. ASSUME NEW s, Carries(previous, s)
      PROVE  Carries(Pipeline!NextRuntime(profile, global, previous), s)
  <2> DEFINE next == Pipeline!NextRuntime(profile, global, previous)
  <2>1. /\ next["tun"]["enable"] = previous["tun"]["enable"]
        /\ \A x \in DOMAIN previous \cap (Pipeline!ControlPlane \ {"tun", "mode"}) :
             x \in DOMAIN next /\ next[x] = previous[x]
    BY ControlPlaneOfNext DEF HasTun
  <2> HIDE DEF next
  <2>2. \A x \in DOMAIN Pipeline!Written(s) \cap Pipeline!ControlPlane : x \in DOMAIN next
          /\ next[x] = s[x]
    BY <1>2, <2>1, WrittenFields DEF Carries
  <2>3. Carries(next, s)
    BY <1>2, <2>1, <2>2 DEF Carries
  <2> QED BY <2>3 DEF next
<1> QED BY <1>1, <1>2

LEMMA SettingsAreWritten ==
  ASSUME NEW mapping, NEW s
  PROVE  Carries(Pipeline!ApplyTo(mapping, s), s) /\ HasTun(Pipeline!ApplyTo(mapping, s))
<1> DEFINE out == Pipeline!ApplyTo(mapping, s)
<1>1. \A x \in DOMAIN Pipeline!Written(s) \cap Pipeline!ControlPlane : x \in DOMAIN out
        /\ out[x] = s[x]
  <2> TAKE x \in DOMAIN Pipeline!Written(s) \cap Pipeline!ControlPlane
  <2>1. x # "tun" /\ Pipeline!Written(s)[x] = s[x]
    BY WrittenFields
  <2> QED BY <2>1 DEF Pipeline!ApplyTo, Pipeline!With, Pipeline!Over
<1>2. "tun" \in DOMAIN out /\ "enable" \in DOMAIN out["tun"]
        /\ out["tun"]["enable"] = s["tun"]
  BY DEF Pipeline!ApplyTo, Pipeline!With
<1> QED BY <1>1, <1>2 DEF Carries, HasTun

\* The settings touch no list.
LEMMA SettingsLeaveLists ==
  ASSUME NEW mapping, NEW s, NEW field,
         field \in {"proxies", "proxy-groups", "proxy-providers"}
  PROVE  LET out == Pipeline!ApplyTo(mapping, s)
         IN /\ field \in DOMAIN out <=> field \in DOMAIN mapping
            /\ field \in DOMAIN mapping => out[field] = mapping[field]
<1>1. field \notin DOMAIN Pipeline!Written(s) /\ field \notin Pipeline!Optional
        /\ field # "tun"
  BY DEF Pipeline!Written, Pipeline!With, Pipeline!Only, Pipeline!Optional
<1> QED BY <1>1 DEF Pipeline!ApplyTo, Pipeline!With, Pipeline!Over, Pipeline!Without

-----------------------------------------------------------------------------
(* Lists                                                                   *)

\* A sequence with each of its elements replaced.
LEMMA EachReplaced ==
  ASSUME NEW S, NEW s \in Seq(S), NEW T, NEW f, DOMAIN f = DOMAIN s,
         f = [i \in DOMAIN f |-> f[i]], \A i \in DOMAIN s : f[i] \in T
  PROVE  f \in Seq(T)
<1>1. Len(s) \in Nat /\ DOMAIN s = 1 .. Len(s)
  BY LenProperties
<1>2. f \in [1 .. Len(s) -> T]
  BY <1>1
<1> QED BY <1>1, <1>2, SeqDef

LEMMA FirstOccurrencesType ==
  ASSUME NEW S, NEW names \in Seq(S)
  PROVE  Pipeline!FirstOccurrences(names) \in Seq(S)
<1> DEFINE I == {i \in DOMAIN names : \A j \in 1 .. i - 1 : names[j] # names[i]}
<1>1. I \in SUBSET DOMAIN names
  OBVIOUS
<1> HIDE DEF I
<1>2. Picked(names, I) \in Seq(S)
  BY <1>1, PickedElements
<1> QED BY <1>2 DEF Pipeline!FirstOccurrences, Pipeline!Picked, Pipeline!Place,
                    Pipeline!Cardinality, Picked, Place, Cardinality, I

LEMMA EditedList ==
  ASSUME NEW S, NEW mapping, NEW field, NEW edit, Pipeline!ListOf(mapping, field) \in Seq(S),
         edit.prepend \in Seq(S), edit.append \in Seq(S)
  PROVE  \E list \in Seq(S) : Pipeline!EditList(mapping, field, edit)
           = Pipeline!With(mapping, field, list)
<1> DEFINE NameOf(item) == IF field = "rules" THEN item ELSE item.name
           list == Pipeline!ListOf(mapping, field)
           I == {i \in DOMAIN list : NameOf(list[i]) \notin edit.delete}
           kept == Picked(list, I)
<1>1. I \in SUBSET DOMAIN list
  OBVIOUS
<1>2. Pipeline!EditList(mapping, field, edit)
        = Pipeline!With(mapping, field, edit.prepend \o kept \o edit.append)
  BY DEF Pipeline!EditList, Pipeline!Picked, Pipeline!Place, Pipeline!Cardinality, Picked,
         Place, Cardinality
<1> HIDE DEF I, list
<1>3. kept \in Seq(S)
  BY <1>1, PickedElements DEF list
<1> HIDE DEF kept
<1>4. (edit.prepend \o kept) \in Seq(S)
  BY <1>3, ConcatProperties
<1>5. (edit.prepend \o kept) \o edit.append \in Seq(S)
  BY <1>4, ConcatProperties
<1> QED BY <1>2, <1>5

LEMMA ListOfConfig ==
  ASSUME NEW mapping, Pipeline!IsConfig(mapping)
  PROVE  /\ Pipeline!ListOf(mapping, "proxies") \in Seq(Pipeline!ProxyNodes)
         /\ Pipeline!ListOf(mapping, "proxy-groups") \in Seq(Pipeline!ProxyGroups)
<1>1. <<>> \in Seq(Pipeline!ProxyNodes) /\ <<>> \in Seq(Pipeline!ProxyGroups)
  BY EmptySeq
<1> QED BY <1>1 DEF Pipeline!IsConfig, Pipeline!ListOf, Pipeline!Field

LEMMA ReferencesType ==
  ASSUME NEW groups \in Seq(Pipeline!ProxyGroups), NEW added \in Seq(STRING), NEW deleted
  PROVE  Pipeline!UpdateReferences(groups, added, deleted) \in Seq(Pipeline!ProxyGroups)
<1> DEFINE selectors == {i \in DOMAIN groups : groups[i].type = "select"}
           I(i) == {n \in DOMAIN groups[i].proxies : groups[i].proxies[n] \notin deleted}
           Kept(i) == Picked(groups[i].proxies, I(i))
           Updated(i) ==
             IF added # <<>> /\ i \in selectors /\ \A j \in selectors : i <= j
               THEN Pipeline!FirstOccurrences(added \o Kept(i))
               ELSE Kept(i)
           out == Pipeline!UpdateReferences(groups, added, deleted)
<1>1. out = [i \in DOMAIN groups |-> [groups[i] EXCEPT !.proxies = Updated(i)]]
  BY DEF Pipeline!UpdateReferences, Pipeline!Picked, Pipeline!Place, Pipeline!Cardinality,
         Picked, Place, Cardinality
<1>2. ASSUME NEW i \in DOMAIN groups PROVE out[i] \in Pipeline!ProxyGroups
  <2>1. groups[i] \in Pipeline!ProxyGroups
    BY LenProperties
  <2>2. I(i) \in SUBSET DOMAIN groups[i].proxies /\ groups[i].proxies \in Seq(STRING)
    BY <2>1 DEF Pipeline!ProxyGroups
  <2> HIDE DEF I
  <2>3. Kept(i) \in Seq(STRING)
    BY <2>2, PickedElements
  <2> HIDE DEF Kept
  <2>4. Pipeline!FirstOccurrences(added \o Kept(i)) \in Seq(STRING)
    BY <2>3, ConcatProperties, FirstOccurrencesType
  <2>5. Updated(i) \in Seq(STRING)
    BY <2>3, <2>4
  <2> HIDE DEF Updated, out
  <2>6. out[i] = [groups[i] EXCEPT !.proxies = Updated(i)]
    BY <1>1
  <2> QED BY <2>1, <2>5, <2>6 DEF Pipeline!ProxyGroups
<1> HIDE DEF Updated
<1>3. DOMAIN out = DOMAIN groups /\ out = [i \in DOMAIN out |-> out[i]]
  BY <1>1
<1> HIDE DEF out
<1> QED BY <1>2, <1>3, EachReplaced DEF out

\* The edits leave lists of proxies and groups.
LEMMA EditsType ==
  ASSUME NEW profile, Pipeline!IsConfig(profile.source),
         profile.proxies \in Pipeline!SequenceEdit(Pipeline!ProxyNodes),
           profile.groups \in Pipeline!SequenceEdit(Pipeline!ProxyGroups)
  PROVE  Pipeline!IsConfig(Pipeline!ApplyEdits(profile))
<1> DEFINE c1 == Pipeline!EditList(profile.source, "rules", profile.rules)
           edit == profile.proxies
           c2 == Pipeline!EditList(c1, "proxies", edit)
           c3 == Pipeline!EditProxies(c1, edit)
           c4 == Pipeline!EditList(c3, "proxy-groups", profile.groups)
<1>1. Pipeline!IsConfig(c1)
  BY DEF Pipeline!EditList, Pipeline!Picked, Pipeline!Place, Pipeline!Cardinality, Picked,
         Place, Cardinality, Pipeline!With, Pipeline!IsConfig
<1>2. /\ edit.prepend \in Seq(Pipeline!ProxyNodes)
           /\ edit.append \in Seq(Pipeline!ProxyNodes)
      /\ profile.groups.prepend \in Seq(Pipeline!ProxyGroups)
           /\ profile.groups.append \in Seq(Pipeline!ProxyGroups)
  BY DEF Pipeline!SequenceEdit
<1> HIDE DEF c1, edit
<1>3. Pipeline!IsConfig(c2)
  <2>1. PICK list \in Seq(Pipeline!ProxyNodes) : c2 = Pipeline!With(c1, "proxies", list)
    BY <1>1, <1>2, ListOfConfig, EditedList
  <2> HIDE DEF c2
  <2> QED BY <1>1, <2>1 DEF Pipeline!With, Pipeline!IsConfig
<1>4. Pipeline!IsConfig(c3)
  <2> DEFINE new == edit.prepend \o edit.append
             names == [i \in DOMAIN new |-> new[i].name]
             added == Pipeline!FirstOccurrences(names)
             groups == c2["proxy-groups"]
  <2> HIDE DEF c2
  <2>1. c3 = IF "proxy-groups" \notin DOMAIN c2 THEN c2
             ELSE Pipeline!With(c2, "proxy-groups",
                                Pipeline!UpdateReferences(groups, added, edit.delete))
    BY DEF Pipeline!EditProxies, c2
  <2>2. new \in Seq(Pipeline!ProxyNodes)
    BY <1>2, ConcatProperties
  <2> HIDE DEF new
  <2>3. ASSUME NEW i \in DOMAIN new PROVE names[i] \in STRING
    <3>1. new[i] \in Pipeline!ProxyNodes
      BY <2>2, LenProperties
    <3>2. new[i].name \in STRING
      BY <3>1 DEF Pipeline!ProxyNodes
    <3> QED BY <3>2
  <2>4. names \in Seq(STRING)
    BY <2>2, <2>3, EachReplaced
  <2> HIDE DEF names
  <2>5. added \in Seq(STRING)
    BY <2>4, FirstOccurrencesType
  <2> HIDE DEF added, c3
  <2>6. ASSUME "proxy-groups" \in DOMAIN c2
        PROVE  Pipeline!UpdateReferences(groups, added, edit.delete)
                 \in Seq(Pipeline!ProxyGroups)
    BY <1>3, <2>5, <2>6, ReferencesType DEF Pipeline!IsConfig
  <2> QED BY <1>3, <2>1, <2>6 DEF Pipeline!With, Pipeline!IsConfig
<1> HIDE DEF c3
<1>5. Pipeline!IsConfig(c4)
  <2>1. PICK list \in Seq(Pipeline!ProxyGroups) : c4
               = Pipeline!With(c3, "proxy-groups", list)
    BY <1>2, <1>4, ListOfConfig, EditedList
  <2> HIDE DEF c4
  <2> QED BY <1>4, <2>1 DEF Pipeline!With, Pipeline!IsConfig
<1> QED BY <1>5 DEF Pipeline!ApplyEdits, c1, c3, edit

LEMMA BaseType ==
  ASSUME NEW profile, Pipeline!IsConfig(Pipeline!ApplyEdits(profile)),
         NEW defaults, DOMAIN defaults \subseteq Pipeline!ControlPlane, NEW tun
  PROVE  Pipeline!IsConfig(Base(profile, defaults, tun))
<1> DEFINE edited == Pipeline!ApplyEdits(profile)
           applied == Pipeline!ApplyDefaults(edited, defaults)
           native == Pipeline!NativeTransforms(applied)
           base == Pipeline!ApplyTun(native, tun)
<1> HIDE DEF edited
<1>1. Pipeline!IsConfig(applied)
  BY DEF Pipeline!ApplyDefaults, Pipeline!Over, Pipeline!With, Pipeline!IsConfig,
         Pipeline!ControlPlane, edited
<1> HIDE DEF applied
<1>2. Pipeline!IsConfig(native)
  <2>1. DOMAIN native = DOMAIN applied
    BY DEF Pipeline!NativeTransforms
  <2>2. "proxy-groups" \in DOMAIN applied => native["proxy-groups"] = applied["proxy-groups"]
    BY DEF Pipeline!NativeTransforms
  <2>3. ASSUME "proxies" \in DOMAIN applied
        PROVE  native["proxies"] \in Seq(Pipeline!ProxyNodes)
    <3> DEFINE nodes == applied["proxies"]
               out == native["proxies"]
    <3>1. out = [i \in DOMAIN nodes |-> [nodes[i] EXCEPT !.legacy = FALSE]]
      BY <2>3 DEF Pipeline!NativeTransforms
    <3>2. nodes \in Seq(Pipeline!ProxyNodes)
      BY <1>1, <2>3 DEF Pipeline!IsConfig
    <3> HIDE DEF nodes, out
    <3>3. \A i \in DOMAIN nodes : nodes[i] \in Pipeline!ProxyNodes
      BY <3>2, LenProperties
    <3>4. ASSUME NEW i \in DOMAIN nodes PROVE out[i] \in Pipeline!ProxyNodes
      <4>1. out[i] = [nodes[i] EXCEPT !.legacy = FALSE]
        BY <3>1
      <4> QED BY <3>3, <4>1 DEF Pipeline!ProxyNodes
    <3>5. out \in Seq(Pipeline!ProxyNodes)
      BY <3>1, <3>2, <3>4, EachReplaced
    <3> QED BY <3>5 DEF out
  <2> HIDE DEF native
  <2> QED BY <1>1, <2>1, <2>2, <2>3 DEF Pipeline!IsConfig
<1> HIDE DEF native
<1>3. Pipeline!IsConfig(base)
  BY <1>2 DEF Pipeline!ApplyTun, Pipeline!With, Pipeline!IsConfig
<1> QED BY <1>3 DEF Base, base, native, applied, edited

LEMMA LayersType ==
  ASSUME NEW base, Pipeline!IsConfig(base), NEW profile,
         profile.merge # None => Pipeline!IsConfig(profile.merge),
         NEW global, global # None => Pipeline!IsConfig(global)
  PROVE  Pipeline!IsConfig(Pipeline!EnsureLanBindAddress(Layered(base, profile, global)))
<1>1. \A mapping, layer : Pipeline!IsConfig(mapping)
               /\ (layer # None => Pipeline!IsConfig(layer))
               => Pipeline!IsConfig(Pipeline!Merge(mapping, layer))
  BY DEF Pipeline!Merge, Pipeline!DeepMerge, Pipeline!IsConfig
<1> DEFINE merged == Pipeline!Merge(Pipeline!Merge(base, global), profile.merge)
           own == Pipeline!Only(base, Pipeline!ControlPlane)
           restored == Pipeline!RestoreControlPlane(merged, own)
<1>2. Pipeline!IsConfig(merged)
  BY <1>1
<1> HIDE DEF merged
<1>3. Pipeline!IsConfig(restored)
  BY <1>2 DEF Pipeline!RestoreControlPlane, Pipeline!Over, Pipeline!Only, Pipeline!Without,
              Pipeline!IsConfig, Pipeline!ControlPlane
<1> HIDE DEF restored
<1>4. Pipeline!IsConfig(Pipeline!EnsureLanBindAddress(restored))
  BY <1>3 DEF Pipeline!EnsureLanBindAddress, Pipeline!With, Pipeline!IsConfig
<1> QED BY <1>4 DEF Layered, merged, restored

\* A configuration whose groups name what exists.
Resolved(mapping) ==
  \A i \in DOMAIN Pipeline!ListOf(mapping, "proxy-groups") :
    LET group == mapping["proxy-groups"][i]
    IN group.use = {} => ToSet(group.proxies) \subseteq Pipeline!Allowed(mapping)

LEMMA CleanedGroup ==
  ASSUME NEW group \in Pipeline!ProxyGroups, NEW mapping
  PROVE  /\ Pipeline!Cleaned(group, mapping).name = group.name
         /\ Pipeline!Cleaned(group, mapping).use = {} =>
              ToSet(Pipeline!Cleaned(group, mapping).proxies)
                \subseteq Pipeline!Allowed(mapping)
<1> DEFINE use == group.use \cap Pipeline!Field(mapping, "proxy-providers", {})
           proxies == group.proxies
           I == {n \in DOMAIN proxies : use # {} \/ proxies[n] \in Pipeline!Allowed(mapping)}
           kept == Picked(proxies, I)
           out == Pipeline!Cleaned(group, mapping)
<1>1. out = [group EXCEPT !.use = use, !.proxies = kept]
  BY DEF Pipeline!Cleaned, Pipeline!Picked, Pipeline!Place, Pipeline!Cardinality, Picked,
         Place, Cardinality
<1>2. proxies \in Seq(STRING) /\ I \in SUBSET DOMAIN proxies
  BY DEF Pipeline!ProxyGroups
<1>3. use = {} => \A n \in I : proxies[n] \in Pipeline!Allowed(mapping)
  OBVIOUS
<1> HIDE DEF use, proxies, I, out
<1>4. use = {} => ToSet(kept) \subseteq Pipeline!Allowed(mapping)
  <2> SUFFICES ASSUME use = {}, NEW n \in DOMAIN kept
               PROVE  kept[n] \in Pipeline!Allowed(mapping)
    BY DEF ToSet
  <2>1. PICK i \in I : kept[n] = proxies[i]
    BY <1>2, PickedElements
  <2> QED BY <1>3, <2>1
<1> HIDE DEF kept
<1>5. out.name = group.name /\ out.use = use /\ out.proxies = kept
  BY <1>1 DEF Pipeline!ProxyGroups
<1> QED BY <1>4, <1>5 DEF out

LEMMA CleanupResolves ==
  ASSUME NEW mapping, Pipeline!IsConfig(mapping)
  PROVE  /\ Resolved(Pipeline!CleanupGroups(mapping))
         /\ "proxies" \in DOMAIN Pipeline!CleanupGroups(mapping) =>
              Pipeline!CleanupGroups(mapping)["proxies"] \in Seq(Pipeline!ProxyNodes)
<1> DEFINE groups == Pipeline!ListOf(mapping, "proxy-groups")
           cleaned == [i \in DOMAIN groups |-> Pipeline!Cleaned(groups[i], mapping)]
           out == Pipeline!CleanupGroups(mapping)
<1>1. CASE "proxy-groups" \notin DOMAIN mapping
  <2>1. out = mapping /\ Pipeline!ListOf(mapping, "proxy-groups") = <<>>
    BY <1>1 DEF Pipeline!CleanupGroups, Pipeline!ListOf, Pipeline!Field
  <2>2. DOMAIN <<>> = {}
    BY EmptySeq
  <2> HIDE DEF out
  <2>3. Resolved(out)
          /\ ("proxies" \in DOMAIN out => out["proxies"] \in Seq(Pipeline!ProxyNodes))
    BY <2>1, <2>2 DEF Resolved, Pipeline!IsConfig
  <2> QED BY <2>3 DEF out
<1>2. CASE "proxy-groups" \in DOMAIN mapping
  <2>1. out = Pipeline!With(mapping, "proxy-groups", cleaned)
    BY <1>2 DEF Pipeline!CleanupGroups
  <2>2. groups \in Seq(Pipeline!ProxyGroups)
    BY ListOfConfig
  <2>3. \A i \in DOMAIN groups : groups[i] \in Pipeline!ProxyGroups
    BY <2>2, LenProperties
  <2> HIDE DEF groups, out
  <2>4. \A i \in DOMAIN groups : cleaned[i].name = groups[i].name
    BY <2>3, CleanedGroup
  <2>5. Pipeline!Names(cleaned) = Pipeline!Names(groups)
    BY <2>4 DEF Pipeline!Names
  <2>6. \A i \in DOMAIN groups : cleaned[i].use = {}
          => ToSet(cleaned[i].proxies) \subseteq Pipeline!Allowed(mapping)
    BY <2>3, CleanedGroup
  <2>7. DOMAIN cleaned = DOMAIN groups
    OBVIOUS
  <2> HIDE DEF cleaned
  <2>8. /\ "proxy-groups" \in DOMAIN out /\ out["proxy-groups"] = cleaned
        /\ \A x : x # "proxy-groups" =>
             /\ x \in DOMAIN out <=> x \in DOMAIN mapping
             /\ x \in DOMAIN mapping => out[x] = mapping[x]
    BY <1>2, <2>1 DEF Pipeline!With
  <2>9. /\ Pipeline!ListOf(out, "proxy-groups") = cleaned
        /\ Pipeline!ListOf(out, "proxies") = Pipeline!ListOf(mapping, "proxies")
        /\ Pipeline!Field(out, "proxy-providers", {})
             = Pipeline!Field(mapping, "proxy-providers", {})
    BY <2>8 DEF Pipeline!ListOf, Pipeline!Field
  <2>10. Pipeline!Allowed(out) = Pipeline!Allowed(mapping)
    BY <2>5, <2>9 DEF Pipeline!Allowed, groups
  <2>11. Resolved(out)
    BY <2>6, <2>7, <2>8, <2>9, <2>10 DEF Resolved
  <2>12. "proxies" \in DOMAIN out => out["proxies"] \in Seq(Pipeline!ProxyNodes)
    BY <2>8 DEF Pipeline!IsConfig
  <2> QED BY <2>11, <2>12 DEF out
<1> QED BY <1>1, <1>2

\* What is made of a profile names only what exists, and has proxies that can be chained.
LEMMA NextIsResolved ==
  ASSUME Pipeline!PipelineAssumption, NEW profile \in Profiles, NEW global \in Globals,
         NEW previous
  PROVE  LET next == Pipeline!NextRuntime(profile, global, previous)
         IN /\ Resolved(next)
            /\ "proxies" \in DOMAIN next => next["proxies"] \in Seq(Pipeline!ProxyNodes)
<1> DEFINE defaults == Pipeline!Only(previous, Pipeline!ControlPlane)
           tun == Pipeline!Field(Pipeline!Field(previous, "tun", Pipeline!Empty),
                                 "enable", FALSE)
           base == Base(profile, defaults, tun)
           merged == Pipeline!EnsureLanBindAddress(Layered(base, profile, global))
<1>1. Pipeline!NextRuntime(profile, global, previous) = Pipeline!CleanupGroups(merged)
  BY DEF Pipeline!NextRuntime, Pipeline!Enhance, Base, Layered
<1>2. DOMAIN defaults \subseteq Pipeline!ControlPlane
  BY DEF Pipeline!Only
<1> HIDE DEF defaults, tun
<1>3. Pipeline!IsConfig(Pipeline!ApplyEdits(profile))
  BY EditsType DEF Pipeline!PipelineAssumption
<1>4. Pipeline!IsConfig(base)
  BY <1>2, <1>3, BaseType
<1> HIDE DEF base
<1>5. Pipeline!IsConfig(merged)
  BY <1>4, LayersType DEF Pipeline!PipelineAssumption
<1> HIDE DEF merged
<1> QED BY <1>1, <1>5, CleanupResolves

-----------------------------------------------------------------------------
(* The chain                                                               *)

EdgesOf(proxies) ==
  {<<proxies[i].name, proxies[i].dialer>> :
     i \in {i \in DOMAIN proxies : proxies[i].dialer # None}}

\* From every set of proxies that are dialled through another, one edge leads out.
Ends(proxies) ==
  \A S \in SUBSET {edge[1] : edge \in EdgesOf(proxies)} :
    S # {} => \E edge \in EdgesOf(proxies) : edge[1] \in S /\ edge[2] \notin S

\* A proxy that is dialled through another is a node of the chain, after that one.
LEMMA ChainedDialers ==
  ASSUME NEW proxies \in Seq(Pipeline!ProxyNodes), NEW nodes \in Seq(STRING),
         IsInjective(nodes)
  PROVE  LET out == Pipeline!Chained(proxies, nodes)
         IN /\ DOMAIN out = DOMAIN proxies
            /\ \A i \in DOMAIN proxies :
                 /\ out[i].name = proxies[i].name
                 /\ out[i].dialer # None =>
                      \E n \in 2 .. Len(nodes) : nodes[n] = out[i].name
                        /\ out[i].dialer = nodes[n - 1]
<1> DEFINE out == Pipeline!Chained(proxies, nodes)
           K(i) == {k \in 2 .. Len(nodes) : nodes[k] = proxies[i].name}
           dialer(i) == IF K(i) # {}
                          /\ \A j \in 1 .. i - 1 : proxies[j].name # proxies[i].name
                          THEN nodes[(CHOOSE n \in K(i) : TRUE) - 1]
                          ELSE None
<1>1. out = [i \in DOMAIN proxies |-> [proxies[i] EXCEPT !.dialer = dialer(i)]]
  BY DEF Pipeline!Chained
<1>2. ASSUME NEW i \in DOMAIN proxies
      PROVE  /\ out[i].name = proxies[i].name
             /\ out[i].dialer # None =>
                  \E n \in 2 .. Len(nodes) : nodes[n] = out[i].name
                    /\ out[i].dialer = nodes[n - 1]
  <2>1. proxies[i] \in Pipeline!ProxyNodes
    BY LenProperties
  <2>2. ASSUME dialer(i) # None
        PROVE  \E n \in 2 .. Len(nodes) : nodes[n] = proxies[i].name
                 /\ dialer(i) = nodes[n - 1]
    <3> DEFINE n == CHOOSE n \in K(i) : TRUE
    <3>1. K(i) # {} /\ dialer(i) = nodes[n - 1]
      BY <2>2
    <3>2. n \in K(i)
      BY <3>1
    <3> HIDE DEF n
    <3> QED BY <3>1, <3>2
  <2> HIDE DEF dialer, out
  <2>3. out[i] = [proxies[i] EXCEPT !.dialer = dialer(i)]
    BY <1>1
  <2>4. out[i].name = proxies[i].name /\ out[i].dialer = dialer(i)
    BY <2>1, <2>3 DEF Pipeline!ProxyNodes
  <2> QED BY <2>2, <2>4
<1>3. DOMAIN out = DOMAIN proxies
  BY <1>1
<1> QED BY <1>2, <1>3

LEMMA ChainedEnds ==
  ASSUME NEW proxies \in Seq(Pipeline!ProxyNodes), NEW nodes \in Seq(STRING),
         IsInjective(nodes)
  PROVE  Ends(Pipeline!Chained(proxies, nodes))
<1> DEFINE out == Pipeline!Chained(proxies, nodes)
           edges == EdgesOf(out)
<1>1. Len(nodes) \in Nat /\ DOMAIN nodes = 1 .. Len(nodes)
  BY LenProperties
<1>2. \A i \in DOMAIN out :
        out[i].dialer # None =>
          \E n \in 2 .. Len(nodes) : nodes[n] = out[i].name /\ out[i].dialer = nodes[n - 1]
  BY ChainedDialers
<1> HIDE DEF out
<1>3. ASSUME NEW edge \in edges
      PROVE  \E n \in 2 .. Len(nodes) : edge[1] = nodes[n] /\ edge[2] = nodes[n - 1]
  <2>1. PICK i \in DOMAIN out : out[i].dialer # None /\ edge = <<out[i].name, out[i].dialer>>
    BY DEF EdgesOf
  <2> QED BY <1>2, <2>1
<1> HIDE DEF edges
<1> SUFFICES ASSUME NEW S \in SUBSET {edge[1] : edge \in edges}, S # {}
             PROVE  \E edge \in edges : edge[1] \in S /\ edge[2] \notin S
  BY DEF Ends, edges, out
<1> DEFINE P == {n \in 2 .. Len(nodes) : nodes[n] \in S}
<1>4. \A v \in S : \E edge \in edges : edge[1] = v
  OBVIOUS
<1>5. P # {}
  <2>1. PICK v \in S : TRUE
    OBVIOUS
  <2>2. PICK edge \in edges : edge[1] = v
    BY <1>4
  <2> QED BY <1>3, <2>1, <2>2
<1>6. PICK first \in P : \A n \in P : first <= n
  <2>1. P \subseteq Nat
    BY <1>1
  <2> QED BY <1>5, <2>1, LeastOf
<1>7. first \in 2 .. Len(nodes) /\ nodes[first] \in S
  OBVIOUS
<1>8. PICK edge \in edges : edge[1] = nodes[first]
  BY <1>4, <1>7
<1>9. PICK m \in 2 .. Len(nodes) : edge[1] = nodes[m] /\ edge[2] = nodes[m - 1]
  BY <1>3
<1>10. m = first
  <2>1. m \in DOMAIN nodes /\ first \in DOMAIN nodes
    BY <1>1, <1>7
  <2>2. nodes[m] = nodes[first]
    BY <1>8, <1>9
  <2> QED BY <2>1, <2>2 DEF IsInjective
<1>11. nodes[first - 1] \notin S
  <2> SUFFICES ASSUME nodes[first - 1] \in S PROVE FALSE
    OBVIOUS
  <2>1. PICK other \in edges : other[1] = nodes[first - 1]
    BY <1>4
  <2>2. PICK k \in 2 .. Len(nodes) : other[1] = nodes[k]
    BY <1>3
  <2>3. first - 1 \in DOMAIN nodes /\ k \in DOMAIN nodes /\ nodes[k] = nodes[first - 1]
    BY <1>1, <1>7, <2>1, <2>2
  <2>4. k = first - 1
    BY <2>3 DEF IsInjective
  <2>5. k \in P
    BY <2>2, <2>1
  <2> QED BY <1>1, <1>6, <1>7, <2>4, <2>5
<1> QED BY <1>7, <1>8, <1>9, <1>10, <1>11

-----------------------------------------------------------------------------
(* The runtime over many activations                                       *)

\* What the properties leave open: the runtime keeps the table that the next activation
\* takes the mode from, and what is active is one of the profiles.
PipelineInv ==
  /\ Pipeline!ActivationIsStable /\ Pipeline!SettingsWin
  /\ Pipeline!GroupReferencesExist /\ Pipeline!ChainsEnd
  /\ HasTun(config)
  /\ active # None => active.profile \in Profiles /\ active.global \in Globals

\* The properties, of a configuration.
LEMMA InOtherWords ==
  /\ Pipeline!SettingsWin <=> (settings # None => Carries(config, settings))
  /\ Pipeline!GroupReferencesExist <=> Resolved(config)
  /\ Pipeline!ChainsEnd <=> (chain # <<>> => Ends(Pipeline!ListOf(config, "proxies")))
<1>1. Pipeline!SettingsWin <=> (settings # None => Carries(config, settings))
  BY DEF Pipeline!SettingsWin, Carries
<1>2. Pipeline!GroupReferencesExist <=> Resolved(config)
  BY DEF Pipeline!GroupReferencesExist, Resolved, Pipeline!ToSet, ToSet
<1>3. Pipeline!ChainsEnd <=> (chain # <<>> => Ends(Pipeline!ListOf(config, "proxies")))
  BY DEF Pipeline!ChainsEnd, Ends, EdgesOf, Pipeline!Dials
<1> QED BY <1>1, <1>2, <1>3

LEMMA NextInOtherWords ==
  ASSUME settings' # None => Carries(config', settings'), Resolved(config'),
         chain' # <<>> => Ends(Pipeline!ListOf(config', "proxies"))
  PROVE  Pipeline!SettingsWin' /\ Pipeline!GroupReferencesExist' /\ Pipeline!ChainsEnd'
<1>1. Pipeline!SettingsWin'
  BY DEF Pipeline!SettingsWin, Carries
<1>2. Pipeline!GroupReferencesExist'
  BY DEF Pipeline!GroupReferencesExist, Resolved, Pipeline!ToSet, ToSet
<1>3. Pipeline!ChainsEnd'
  BY DEF Pipeline!ChainsEnd, Ends, EdgesOf, Pipeline!Dials
<1> QED BY <1>1, <1>2, <1>3

LEMMA PipelineStartsGood ==
  ASSUME Pipeline!Init
  PROVE  PipelineInv
<1>1. /\ config = Pipeline!DefaultRuntime /\ settings = None /\ active = None
      /\ asBuilt = FALSE /\ chain = <<>>
  BY DEF Pipeline!Init
<1> DEFINE group == [name |-> "GLOBAL", type |-> "select", use |-> {},
                     proxies |-> <<"DIRECT", "REJECT">>]
<1>2. /\ "proxy-groups" \in DOMAIN config /\ config["proxy-groups"] = <<group>>
      /\ "tun" \in DOMAIN config /\ config["tun"] = [enable |-> FALSE, device |-> "rsclash"]
  <2>1. "proxy-groups" \in DOMAIN Pipeline!DefaultRuntime
          /\ "tun" \in DOMAIN Pipeline!DefaultRuntime
    BY DEF Pipeline!DefaultRuntime
  <2>2. Pipeline!DefaultRuntime["proxy-groups"] = <<group>>
    BY DEF Pipeline!DefaultRuntime
  <2>3. Pipeline!DefaultRuntime["tun"] = [enable |-> FALSE, device |-> "rsclash"]
    BY DEF Pipeline!DefaultRuntime
  <2> QED BY <1>1, <2>1, <2>2, <2>3
<1>3. Pipeline!ListOf(config, "proxy-groups") = <<group>>
  BY <1>2 DEF Pipeline!ListOf, Pipeline!Field
<1>4. ToSet(group.proxies) \subseteq Pipeline!Allowed(config)
  <2>1. ToSet(<<"DIRECT", "REJECT">>) = {"DIRECT", "REJECT"}
    BY DEF ToSet
  <2>2. {"DIRECT", "REJECT"} \subseteq Pipeline!Allowed(config)
    BY DEF Pipeline!Allowed
  <2> QED BY <2>1, <2>2
<1>5. \A i \in DOMAIN <<group>> : <<group>>[i] = group
  OBVIOUS
<1> HIDE DEF group
<1>6. Resolved(config)
  BY <1>2, <1>3, <1>4, <1>5 DEF Resolved
<1>7. HasTun(config)
  BY <1>2 DEF HasTun
<1> QED BY <1>1, <1>6, <1>7, InOtherWords DEF PipelineInv, Pipeline!ActivationIsStable

LEMMA ActivateKeeps ==
  ASSUME Pipeline!PipelineAssumption, PipelineInv, Pipeline!Activate
  PROVE  PipelineInv'
<1>1. PICK profile \in Profiles, global \in Globals :
        /\ config' = Pipeline!NextRuntime(profile, global, config)
        /\ active' = [profile |-> profile, global |-> global]
  BY DEF Pipeline!Activate
<1>2. asBuilt' = TRUE /\ chain' = <<>> /\ UNCHANGED settings
  BY DEF Pipeline!Activate
<1>3. active'.profile = profile /\ active'.global = global
  BY <1>1
<1>4. Pipeline!ActivationIsStable'
  <2>1. Pipeline!NextRuntime(profile, global, config') = config'
    BY <1>1, SecondActivation
  <2> QED BY <1>3, <2>1 DEF Pipeline!ActivationIsStable
<1>5. HasTun(config') /\ (settings # None => Carries(config', settings))
  BY <1>1, ActivationCarries, InOtherWords DEF PipelineInv
<1>6. Resolved(config')
  BY <1>1, NextIsResolved
<1>7. Pipeline!SettingsWin' /\ Pipeline!GroupReferencesExist' /\ Pipeline!ChainsEnd'
  BY <1>2, <1>5, <1>6, NextInOtherWords
<1> QED BY <1>3, <1>4, <1>5, <1>7 DEF PipelineInv

LEMMA ApplySettingsKeeps ==
  ASSUME PipelineInv, Pipeline!ApplySettings
  PROVE  PipelineInv'
<1>1. PICK s \in Settings : config' = Pipeline!ApplyTo(config, s) /\ settings' = s
  BY DEF Pipeline!ApplySettings
<1>2. asBuilt' = FALSE /\ UNCHANGED <<active, chain>>
  BY DEF Pipeline!ApplySettings
<1>3. Carries(config', settings') /\ HasTun(config')
  BY <1>1, SettingsAreWritten
<1>4. \A field \in {"proxies", "proxy-groups", "proxy-providers"} :
        /\ field \in DOMAIN config' <=> field \in DOMAIN config
        /\ field \in DOMAIN config => config'[field] = config[field]
  BY <1>1, SettingsLeaveLists
<1>5. /\ Pipeline!ListOf(config', "proxies") = Pipeline!ListOf(config, "proxies")
      /\ Pipeline!ListOf(config', "proxy-groups") = Pipeline!ListOf(config, "proxy-groups")
      /\ Pipeline!Allowed(config') = Pipeline!Allowed(config)
  BY <1>4 DEF Pipeline!Allowed, Pipeline!ListOf, Pipeline!Field
<1>6. Resolved(config')
  <2>1. Resolved(config)
    BY InOtherWords DEF PipelineInv
  <2>2. "proxy-groups" \notin DOMAIN config
          => DOMAIN Pipeline!ListOf(config, "proxy-groups") = {}
    BY EmptySeq DEF Pipeline!ListOf, Pipeline!Field
  <2> QED BY <1>4, <1>5, <2>1, <2>2 DEF Resolved
<1>7. chain' # <<>> => Ends(Pipeline!ListOf(config', "proxies"))
  BY <1>2, <1>5, InOtherWords DEF PipelineInv
<1>8. Pipeline!SettingsWin' /\ Pipeline!GroupReferencesExist' /\ Pipeline!ChainsEnd'
  BY <1>3, <1>6, <1>7, NextInOtherWords
<1> QED BY <1>2, <1>3, <1>8 DEF PipelineInv, Pipeline!ActivationIsStable

LEMMA SetProxyChainKeeps ==
  ASSUME Pipeline!PipelineAssumption, PipelineInv, Pipeline!SetProxyChain
  PROVE  PipelineInv'
<1> DEFINE next == Pipeline!NextRuntime(active.profile, active.global, config)
<1>1. PICK nodes \in Chains :
        /\ "proxies" \in DOMAIN next
        /\ Pipeline!Chainable(next["proxies"], nodes)
        /\ config' = [next EXCEPT !["proxies"] = Pipeline!Chained(next["proxies"], nodes)]
        /\ chain' = nodes /\ asBuilt' = FALSE
  BY DEF Pipeline!SetProxyChain
<1>2. /\ active # None /\ UNCHANGED <<settings, active>>
      /\ active.profile \in Profiles /\ active.global \in Globals
  BY DEF Pipeline!SetProxyChain, PipelineInv
<1>3. Resolved(next) /\ next["proxies"] \in Seq(Pipeline!ProxyNodes)
  BY <1>1, <1>2, NextIsResolved
<1>4. HasTun(next) /\ (settings # None => Carries(next, settings))
  BY ActivationCarries, InOtherWords DEF PipelineInv
<1> DEFINE proxies == next["proxies"]
           chained == Pipeline!Chained(proxies, nodes)
<1> HIDE DEF next
<1>5. nodes \in Seq(STRING) /\ IsInjective(nodes)
  <2>1. IsInjective(<<>>)
    BY EmptySeq DEF IsInjective
  <2> QED BY <1>1, <2>1 DEF Pipeline!PipelineAssumption, Pipeline!Chainable,
                        Pipeline!IsInjective, IsInjective
<1>6. /\ DOMAIN chained = DOMAIN proxies /\ Ends(chained)
      /\ \A i \in DOMAIN proxies : chained[i].name = proxies[i].name
  BY <1>3, <1>5, ChainedDialers, ChainedEnds
<1>7. Pipeline!Names(chained) = Pipeline!Names(proxies)
  BY <1>6 DEF Pipeline!Names
<1> HIDE DEF chained
<1>8. /\ DOMAIN config' = DOMAIN next /\ config'["proxies"] = chained
      /\ \A x \in DOMAIN next : x # "proxies" => config'[x] = next[x]
  BY <1>1 DEF chained
<1>9. /\ Pipeline!ListOf(config', "proxies") = chained
           /\ Pipeline!ListOf(next, "proxies") = proxies
      /\ Pipeline!ListOf(config', "proxy-groups") = Pipeline!ListOf(next, "proxy-groups")
      /\ Pipeline!Field(config', "proxy-providers", {})
           = Pipeline!Field(next, "proxy-providers", {})
  BY <1>1, <1>8 DEF Pipeline!ListOf, Pipeline!Field
<1>10. Resolved(config')
  <2>1. Pipeline!Allowed(config') = Pipeline!Allowed(next)
    BY <1>7, <1>9 DEF Pipeline!Allowed
  <2>2. "proxy-groups" \notin DOMAIN next
          => DOMAIN Pipeline!ListOf(next, "proxy-groups") = {}
    BY EmptySeq DEF Pipeline!ListOf, Pipeline!Field
  <2> QED BY <1>3, <1>8, <1>9, <2>1, <2>2 DEF Resolved
<1>11. HasTun(config') /\ (settings' # None => Carries(config', settings'))
  <2>1. HasTun(config') /\ config'["tun"] = next["tun"]
    BY <1>4, <1>8 DEF HasTun
  <2>2. ASSUME settings # None,
               NEW x \in DOMAIN Pipeline!Written(settings) \cap Pipeline!ControlPlane
        PROVE  x \in DOMAIN config' /\ config'[x] = settings[x]
    BY <1>4, <1>8, <2>2, WrittenFields DEF Carries
  <2> QED BY <1>2, <1>4, <2>1, <2>2 DEF Carries
<1>12. Pipeline!SettingsWin' /\ Pipeline!GroupReferencesExist' /\ Pipeline!ChainsEnd'
  BY <1>6, <1>9, <1>10, <1>11, NextInOtherWords
<1> QED BY <1>1, <1>2, <1>11, <1>12 DEF PipelineInv, Pipeline!ActivationIsStable

LEMMA PipelineNextKeeps ==
  ASSUME Pipeline!PipelineAssumption, PipelineInv, [Pipeline!Next]_(Pipeline!vars)
  PROVE  PipelineInv'
<1>1. CASE Pipeline!Next
  BY <1>1, ActivateKeeps, ApplySettingsKeeps, SetProxyChainKeeps DEF Pipeline!Next
<1>2. CASE UNCHANGED Pipeline!vars
  BY <1>2 DEF Pipeline!vars, PipelineInv, Pipeline!ActivationIsStable, Pipeline!SettingsWin,
              Pipeline!GroupReferencesExist, Pipeline!ChainsEnd, Pipeline!Dials
<1> QED BY <1>1, <1>2

-----------------------------------------------------------------------------
(* The theorems                                                            *)

\* The catalogue's invariant holds: an operation of the worker, whichever of its steps
\* fails, and a kill between any two of them leave the index, the links and the runtime
\* as the next operation expects them.
THEOREM CatalogueIsGood == ProfilesSpec => []CatalogInv
<1>1. ProfilesInit => CatalogInv
  BY CatalogAssumption, CatalogStartsGood DEF ProfilesInit
<1>2. CatalogInv /\ [ProfilesNext]_allVars => CatalogInv'
  <2>1. [ProfilesNext]_allVars => [Next]_vars
    BY DEF ProfilesNext, CatalogueNext, PipelineNext, allVars
  <2> QED BY <2>1, CatalogAssumption, CatalogNextKeeps
<1> QED BY <1>1, <1>2, PTL DEF ProfilesSpec

\* Between two operations the runtime that was deployed is the one that the present files
\* of the current profile make, unless a failure to deploy excuses it until the next one.
THEOREM RuntimeFollows == ProfilesSpec => []RuntimeFollowsCatalogue
<1>1. CatalogInv => RuntimeFollowsCatalogue
  BY DEF CatalogInv, RuntimeFollowsCatalogue
<1> QED BY <1>1, CatalogueIsGood, PTL

\* Every link of a source leads to an enhancement of its kind, which sources may share, and
\* no enhancement outlives the last source that links it: imports, copies and deletions
\* keep the index and the links together.
THEOREM LinksStayExact == ProfilesSpec => []LinksAreExact
<1>1. CatalogInv => LinksAreExact
  BY DEF CatalogInv
<1> QED BY <1>1, CatalogueIsGood, PTL

\* An operation that fails, at whichever of its steps, leaves the catalogue, its order, the
\* current profile and the runtime as it found them, when its restoration succeeded.
THEOREM NoTraceOfFailures == ProfilesSpec => FailureLeavesNoTrace
<1>1. CatalogInv /\ [ProfilesNext]_allVars => [Failed /\ ~stale => State' = job.before]_vars
  BY CatalogAssumption, FailuresLeaveNoTrace
<1> QED BY <1>1, CatalogueIsGood, PTL DEF ProfilesSpec, FailureLeavesNoTrace

\* The pipeline's invariant holds, whatever profiles, global merges, settings and chains
\* there are to choose from.
THEOREM PipelineIsGood == ProfilesSpec => []PipelineInv
<1>1. ProfilesInit => PipelineInv
  BY InputsAssumption, PipelineStartsGood DEF ProfilesInit
<1>2. PipelineInv /\ [ProfilesNext]_allVars => PipelineInv'
  <2>1. [ProfilesNext]_allVars => [Pipeline!Next]_(Pipeline!vars)
    BY DEF ProfilesNext, CatalogueNext, PipelineNext, allVars, ofPipeline, Pipeline!vars
  <2> QED BY <2>1, InputsAssumption, PipelineNextKeeps
<1> QED BY <1>1, <1>2, PTL DEF ProfilesSpec

\* Activating the profile that is active again makes the same runtime, whatever its source,
\* its edits and the merges contain: the enhancement has no memory beyond the settings.
THEOREM ActivationStays == ProfilesSpec => []ActivationIsStable
<1>1. PipelineInv => ActivationIsStable
  BY DEF PipelineInv, ActivationIsStable
<1> QED BY <1>1, PipelineIsGood, PTL

\* In every runtime the fields that the settings write have the settings' values, a group
\* names only proxies, groups and providers that are there, and following the dialers of a
\* chain ends at a proxy that is dialled directly.
THEOREM RuntimeStaysUsable == ProfilesSpec => []RuntimeIsUsable
<1>1. PipelineInv => RuntimeIsUsable
  BY DEF PipelineInv, RuntimeIsUsable
<1> QED BY <1>1, PipelineIsGood, PTL
=============================================================================
