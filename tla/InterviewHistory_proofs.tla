----------------------- MODULE InterviewHistory_proofs -----------------------
(***************************************************************************)
(* Proofs about InterviewHistory, for lists and pages of any size and      *)
(* every set of toggles.                                                   *)
(*                                                                         *)
(* The argument about the reader is one about the numbers of the rows in   *)
(* the result of the query: the page that is next begins after as many     *)
(* rows as its offset.  What comes pushes rows to higher numbers and what  *)
(* goes draws them to lower ones; as long as only the first happens, a row *)
(* not yet shown stays behind the offset, and as long as only the second   *)
(* does, one that has been shown stays before it.                          *)
(***************************************************************************)
EXTENDS InterviewHistory, FiniteSetTheorems, SequenceTheorems, TLAPS

\* The part of TypeOK that toggles depend on.
TogglesTyped ==
    /\ favorites \in [Row -> Nat]
    /\ toggle \in [Toggle -> {"new", "exist", "delete", "create", "done", "failed"}]
    /\ target \in [Toggle -> Row \cup {NoRow}]
    /\ alone \in SUBSET Toggle
    /\ \A t \in Toggle : Busy(t) => target[t] \in Row

\* What a toggle on its own has read is still true when it writes.
AloneFits ==
    \A t \in alone :
        /\ Busy(t)
        /\ \A u \in Toggle \ {t} : Busy(u) => target[u] # target[t]
        /\ toggle[t] = "delete" => IsFavorite(target[t])
        /\ toggle[t] = "create" => ~IsFavorite(target[t])

\* The inductive invariant of the toggles.
IInv == TogglesTyped /\ AloneFits

-----------------------------------------------------------------------------
(* The toggles.                                                            *)

LEMMA InitInv == ASSUME Init PROVE IInv
<1>1. TogglesTyped
  BY DEF Init, TogglesTyped, Busy
<1>2. AloneFits
  BY DEF Init, AloneFits
<1> QED BY <1>1, <1>2 DEF IInv

LEMMA BeginInv == ASSUME IInv, NEW t \in Toggle, BeginToggle(t) PROVE IInv'
<1>1. TogglesTyped /\ AloneFits
  BY DEF IInv
<1>2. toggle[t] = "new" /\ toggle' = [toggle EXCEPT ![t] = "exist"] /\ favorites' = favorites
  BY DEF BeginToggle, lists
<1>3. ~Busy(t) /\ t \notin alone /\ toggle'[t] = "exist"
  BY <1>1, <1>2 DEF Busy, AloneFits, TogglesTyped
<1>4. PICK i \in Row :
        LET others == {u \in Toggle : Busy(u) /\ target[u] = i}
        IN  /\ target' = [target EXCEPT ![t] = i]
            /\ alone' = (alone \ others) \cup (IF others = {} THEN {t} ELSE {})
  BY DEF BeginToggle
<1> DEFINE others == {u \in Toggle : Busy(u) /\ target[u] = i}
<1>5. target'[t] = i /\ \A u \in Toggle \ {t} : target'[u] = target[u] /\ toggle'[u] = toggle[u]
  BY <1>1, <1>2, <1>4 DEF TogglesTyped
<1>6. \A u \in Toggle \ {t} : Busy(u)' <=> Busy(u)
  BY <1>5 DEF Busy
<1>7. TogglesTyped'
  <2>1. /\ target' \in [Toggle -> Row \cup {NoRow}] /\ alone' \in SUBSET Toggle
        /\ toggle' \in [Toggle -> {"new", "exist", "delete", "create", "done", "failed"}]
    BY <1>1, <1>2, <1>4 DEF TogglesTyped
  <2> QED BY <1>1, <1>2, <1>5, <1>6, <2>1 DEF TogglesTyped
<1>8. ASSUME NEW v \in alone'
      PROVE  /\ Busy(v)'
             /\ \A u \in Toggle \ {v} : Busy(u)' => target'[u] # target'[v]
             /\ toggle'[v] = "delete" => (favorites[target'[v]] > 0)
             /\ toggle'[v] = "create" => ~(favorites[target'[v]] > 0)
  <2>1. CASE v = t
    <3>1. others = {}
      BY <1>3, <1>4, <1>8, <2>1
    <3> QED BY <1>3, <1>5, <1>6, <2>1, <3>1 DEF Busy
  <2>2. CASE v # t
    <3>1. v \in alone /\ v \notin others /\ v \in Toggle
      BY <1>1, <1>4, <1>8, <2>2 DEF TogglesTyped
    <3>2. Busy(v) /\ target[v] # i
      BY <1>1, <3>1 DEF AloneFits
    <3> QED BY <1>1, <1>5, <1>6, <2>2, <3>1, <3>2 DEF AloneFits, IsFavorite
  <2> QED BY <2>1, <2>2
<1>9. AloneFits'
  BY <1>2, <1>8 DEF AloneFits, IsFavorite
<1> QED BY <1>7, <1>9 DEF IInv

LEMMA ExistInv == ASSUME IInv, NEW t \in Toggle, Exist(t) PROVE IInv'
<1>1. TogglesTyped /\ AloneFits
  BY DEF IInv
<1>2. toggle[t] = "exist" /\ favorites' = favorites
  BY DEF Exist, lists
<1>3. CASE Enter(t, IF IsFavorite(target[t]) THEN "delete" ELSE "create")
  <2>1. /\ toggle' = [toggle EXCEPT ![t] = IF IsFavorite(target[t]) THEN "delete" ELSE "create"]
        /\ target' = target /\ alone' = alone
    BY <1>3 DEF Enter
  <2>2. TogglesTyped'
    BY <1>1, <1>2, <2>1 DEF TogglesTyped, Busy
  <2>3. AloneFits'
    BY <1>1, <1>2, <2>1 DEF AloneFits, Busy, IsFavorite, TogglesTyped
  <2> QED BY <2>2, <2>3 DEF IInv
<1>4. CASE End(t, "failed")
  <2>1. TogglesTyped'
    BY <1>1, <1>2, <1>4 DEF TogglesTyped, Busy, End
  <2>2. AloneFits'
    BY <1>1, <1>2, <1>4 DEF AloneFits, Busy, End, IsFavorite, TogglesTyped
  <2> QED BY <2>1, <2>2 DEF IInv
<1> QED BY <1>3, <1>4 DEF Exist

\* The write of one toggle is none of the business of those that are alone.
LEMMA WriteInv == ASSUME IInv, NEW t \in Toggle, Delete(t) \/ Create(t) PROVE IInv'
<1>1. TogglesTyped /\ AloneFits
  BY DEF IInv
<1>2. Busy(t) /\ target[t] \in Row
  BY <1>1 DEF Delete, Create, Busy, TogglesTyped
<1>3. PICK result \in {"done", "failed"} : End(t, result)
  BY DEF Delete, Create
<1>4. favorites[target[t]] \in Nat
  BY <1>1, <1>2 DEF TogglesTyped
<1>5. /\ favorites' \in [Row -> Nat]
      /\ \A i \in Row : i # target[t] => favorites'[i] = favorites[i]
  BY <1>1, <1>2, <1>4 DEF Delete, Create, TogglesTyped
<1>6. TogglesTyped'
  BY <1>1, <1>3, <1>5 DEF TogglesTyped, Busy, End
<1>7. ASSUME NEW v \in alone'
      PROVE  /\ Busy(v)'
             /\ \A u \in Toggle \ {v} : Busy(u)' => target'[u] # target'[v]
             /\ toggle'[v] = "delete" => IsFavorite(target[v])'
             /\ toggle'[v] = "create" => ~IsFavorite(target[v])'
  <2>1. v \in alone /\ v # t /\ v \in Toggle
    BY <1>1, <1>3 DEF End, TogglesTyped
  <2>2. \A u \in Toggle \ {t} : target'[u] = target[u] /\ toggle'[u] = toggle[u]
    BY <1>1, <1>3 DEF End, TogglesTyped
  <2>3. Busy(v) /\ target[v] \in Row /\ target[v] # target[t]
    BY <1>1, <1>2, <2>1 DEF AloneFits, TogglesTyped
  <2>4. favorites'[target'[v]] = favorites[target[v]]
    BY <1>5, <2>1, <2>2, <2>3
  <2>5. ~Busy(t)'
    BY <1>1, <1>3 DEF End, Busy, TogglesTyped
  <2>6. \A u \in Toggle \ {v} : Busy(u)' => target'[u] # target'[v]
    BY <1>1, <2>1, <2>2, <2>5 DEF AloneFits, Busy
  <2> QED BY <1>1, <2>1, <2>2, <2>3, <2>4, <2>6 DEF AloneFits, Busy, IsFavorite
<1>8. AloneFits'
  BY <1>7 DEF AloneFits
<1> QED BY <1>6, <1>8 DEF IInv

LEMMA StepInv == ASSUME IInv, [Next]_vars PROVE IInv'
<1>1. ASSUME NEW t \in Toggle, BeginToggle(t) \/ Exist(t) \/ Delete(t) \/ Create(t)
      PROVE  IInv'
  BY <1>1, BeginInv, ExistInv, WriteInv
<1>2. ASSUME UNCHANGED <<favorites, toggles>>
      PROVE  IInv'
  BY <1>2 DEF IInv, TogglesTyped, AloneFits, Busy, IsFavorite, toggles
<1>3. ASSUME NEW i \in Row, Arrive(i) \/ Leave(i) \/ Rate(i)
      PROVE  IInv'
  BY <1>2, <1>3 DEF Arrive, Leave, Rate
<1>4. ASSUME NEW k \in 1..Len(rows), Swap(k)
      PROVE  IInv'
  BY <1>2, <1>4 DEF Swap
<1>5. CASE BeginReading \/ Count \/ Fetch \/ UNCHANGED vars
  BY <1>2, <1>5 DEF BeginReading, Count, Fetch, vars, lists
<1> QED BY <1>1, <1>3, <1>4, <1>5 DEF Next

LEMMA Invariance == Spec => []IInv
<1>1. Init => IInv
  BY InitInv
<1>2. IInv /\ [Next]_vars => IInv'
  BY StepInv
<1> QED BY <1>1, <1>2, PTL DEF Spec

\* Only its own write completes a toggle.
LEMMA StepInverts ==
    ASSUME IInv, [Next]_vars, NEW t \in alone, Busy(t), toggle'[t] = "done"
    PROVE  (favorites'[target[t]] > 0) # IsFavorite(target[t])
<1>1. TogglesTyped /\ AloneFits /\ t \in Toggle
  BY DEF IInv, TogglesTyped
<1>2. toggle[t] # "done"
  BY DEF Busy
<1>3. Delete(t) \/ Create(t)
  <2>1. toggle' # toggle
    BY <1>2
  <2>2. \E u \in Toggle : BeginToggle(u) \/ Exist(u) \/ Delete(u) \/ Create(u)
    BY <2>1 DEF Next, Arrive, Leave, Rate, Swap, BeginReading, Count, Fetch, vars, toggles
  <2> QED BY <1>1, <1>2, <2>2 DEF BeginToggle, Exist, Delete, Create, Enter, End, TogglesTyped
<1>4. target[t] \in Row /\ favorites[target[t]] \in Nat
  BY <1>1 DEF TogglesTyped
<1>5. CASE Delete(t)
  <2>1. favorites' = [favorites EXCEPT ![target[t]] = 0]
    BY <1>1, <1>5 DEF Delete, End, TogglesTyped
  <2>2. favorites'[target[t]] = 0 /\ IsFavorite(target[t])
    BY <1>1, <1>4, <1>5, <2>1 DEF Delete, AloneFits, TogglesTyped
  <2> QED BY <2>2 DEF IsFavorite
<1>6. CASE Create(t)
  <2>1. favorites' = [favorites EXCEPT ![target[t]] = @ + 1]
    BY <1>1, <1>6 DEF Create, End, TogglesTyped
  <2>2. favorites'[target[t]] > 0 /\ ~IsFavorite(target[t])
    BY <1>1, <1>4, <1>6, <2>1 DEF Create, AloneFits, TogglesTyped
  <2> QED BY <2>2
<1> QED BY <1>3, <1>5, <1>6

-----------------------------------------------------------------------------
(* The list, and the number of a row in the result of the query.           *)

\* No row is there twice.
RowsFit ==
    /\ list \in List
    /\ rows \in Seq(Row)
    /\ \A k, l \in 1..Len(rows) : rows[k] = rows[l] => k = l

LEMMA PlaceIs ==
    RowsFit =>
        /\ \A i \in Row, k \in 1..Len(rows) : rows[k] = i => i \in ToSet(rows) /\ Place(i) = k
        /\ \A i \in ToSet(rows) : i \in Row /\ Place(i) \in 1..Len(rows) /\ rows[Place(i)] = i
<1> HAVE RowsFit
<1>1. rows \in Seq(Row) /\ Len(rows) \in Nat /\ DOMAIN rows = 1..Len(rows)
  BY DEF RowsFit
<1>2. ASSUME NEW i \in Row, NEW k \in 1..Len(rows), rows[k] = i
      PROVE  i \in ToSet(rows) /\ Place(i) = k
  <2>1. \A l \in 1..Len(rows) : rows[l] = i => l = k
    BY <1>2 DEF RowsFit
  <2> QED BY <1>1, <1>2, <2>1 DEF Place, ToSet
<1>3. ASSUME NEW i \in ToSet(rows)
      PROVE  i \in Row /\ Place(i) \in 1..Len(rows) /\ rows[Place(i)] = i
  <2>1. PICK k \in 1..Len(rows) : rows[k] = i
    BY <1>1 DEF ToSet
  <2> QED BY <1>1, <1>2, <2>1
<1> QED BY <1>2, <1>3

LEMMA PlaceIsNext ==
    RowsFit' =>
        (/\ \A i \in Row, k \in 1..Len(rows) : rows[k] = i => i \in ToSet(rows) /\ Place(i) = k
         /\ \A i \in ToSet(rows) : i \in Row /\ Place(i) \in 1..Len(rows) /\ rows[Place(i)] = i)'
BY PlaceIs, PTL

LEMMA ListedFinite ==
    RowsFit =>
        /\ Listed \subseteq ToSet(rows) /\ Listed \subseteq Row
        /\ IsFiniteSet(Listed) /\ Cardinality(Listed) \in Nat
<1> HAVE RowsFit
<1>1. Listed \subseteq ToSet(rows) /\ ToSet(rows) \subseteq Row
  BY PlaceIs DEF Listed
<1>2. IsFiniteSet(Row)
  BY HistoryAssumption
<1>3. IsFiniteSet(Listed)
  BY <1>1, <1>2, FS_Subset
<1> QED BY <1>1, <1>3, FS_CardinalityType

\* The rows listed up to one of them.
UpTo(i) == {j \in Listed : Place(j) <= Place(i)}

\* The listed rows are numbered from 1, in their order.
LEMMA RankOrder ==
    ASSUME RowsFit
    PROVE  /\ \A i \in Listed : Rank(i) \in 1..Cardinality(Listed)
           /\ \A i, j \in Listed : Place(i) < Place(j) => Rank(i) < Rank(j)
           /\ \A i, j \in Listed : Rank(i) = Rank(j) => i = j
<1>1. ASSUME NEW i \in Listed
      PROVE  /\ IsFiniteSet(UpTo(i)) /\ Cardinality(UpTo(i)) \in 1..Cardinality(Listed)
             /\ Rank(i) = Cardinality(UpTo(i)) /\ i \in UpTo(i) /\ Place(i) \in Nat
  <2>1. Place(i) \in Nat /\ i \in UpTo(i)
    BY PlaceIs, ListedFinite DEF UpTo
  <2>2. UpTo(i) \in SUBSET Listed
    BY DEF UpTo
  <2>3. IsFiniteSet(UpTo(i)) /\ Cardinality(UpTo(i)) <= Cardinality(Listed)
    BY <2>2, ListedFinite, FS_Subset
  <2>4. Cardinality(UpTo(i)) \in Nat /\ Cardinality(UpTo(i)) # 0
    BY <2>1, <2>3, FS_CardinalityType, FS_EmptySet
  <2> QED BY <2>1, <2>3, <2>4, ListedFinite DEF Rank, UpTo
<1>2. ASSUME NEW i \in Listed, NEW j \in Listed, Place(i) < Place(j)
      PROVE  Rank(i) < Rank(j)
  <2>1. UpTo(i) \in SUBSET UpTo(j) /\ j \in UpTo(j) /\ j \notin UpTo(i)
    <3>1. \A k \in Listed : Place(k) \in Nat
      BY <1>1
    <3> QED BY <1>1, <1>2, <3>1 DEF UpTo
  <2>2. Cardinality(UpTo(i)) <= Cardinality(UpTo(j)) /\ Cardinality(UpTo(i)) # Cardinality(UpTo(j))
    BY <1>1, <2>1, FS_Subset
  <2> QED BY <1>1, <2>2
<1>3. ASSUME NEW i \in Listed, NEW j \in Listed, Rank(i) = Rank(j)
      PROVE  i = j
  <2>1. Place(i) = Place(j)
    BY <1>1, <1>2, <1>3
  <2> QED BY <2>1, PlaceIs, ListedFinite
<1> QED BY <1>1, <1>2, <1>3

LEMMA RankOrderOf == RowsFit => \A i \in Listed : Rank(i) \in 1..Cardinality(Listed)
BY RankOrder

\* The result of the query has each listed row once, at its number.
LEMMA QueryIs ==
    ASSUME RowsFit
    PROVE  /\ Len(Query) = Cardinality(Listed) /\ Query \in Seq(Listed)
           /\ \A n \in 1..Cardinality(Listed) : Query[n] \in Listed /\ Rank(Query[n]) = n
           /\ \A i \in Listed : Query[Rank(i)] = i
<1> DEFINE C == Cardinality(Listed)
           f == [i \in Listed |-> Rank(i)]
<1>1. C \in Nat /\ IsFiniteSet(1..C) /\ Cardinality(1..C) = C
  BY ListedFinite, FS_Interval
<1>2. f \in Injection(Listed, 1..C)
  BY RankOrder DEF Injection, IsInjective
<1>3. f \in Surjection(Listed, 1..C)
  BY <1>1, <1>2, FS_Injection
<1>4. ASSUME NEW n \in 1..C
      PROVE  Ranked(n) \in Listed /\ Rank(Ranked(n)) = n
  <2>1. \E i \in Listed : f[i] = n
    BY <1>3 DEF Surjection
  <2>2. \E i \in Listed : Rank(i) = n
    BY <2>1
  <2> QED BY <2>2 DEF Ranked
<1>5. Query = [n \in 1..C |-> Ranked(n)]
  BY DEF Query
<1>6. Query \in [1..C -> Listed]
  BY <1>4, <1>5
<1>7. Query \in Seq(Listed) /\ Len(Query) = C
  BY <1>1, <1>6
<1>8. \A n \in 1..C : Query[n] \in Listed /\ Rank(Query[n]) = n
  BY <1>4, <1>5
<1>9. \A i \in Listed : Query[Rank(i)] = i
  BY <1>8, RankOrder
<1> QED BY <1>7, <1>8, <1>9

\* The offsets of the pages.
LEMMA Offsets ==
    ASSUME NEW k \in Nat \ {0}
    PROVE  /\ (k - 1) * PageSize \in Nat
           /\ ((k - 1) + 1) * PageSize = k * PageSize
           /\ ((k + 1) - 1) * PageSize = k * PageSize
           /\ k * PageSize = (k - 1) * PageSize + PageSize
<1>1. PageSize \in Nat
  BY HistoryAssumption
<1>2. k - 1 \in Nat /\ (k - 1) + 1 = k /\ (k + 1) - 1 = k
  OBVIOUS
<1>3. k * PageSize = (k - 1) * PageSize + PageSize
  BY <1>1
<1>4. (k - 1) * PageSize \in Nat
  BY <1>1, <1>2
<1> QED BY <1>2, <1>3, <1>4

\* Offset and Limit cut out of the result the rows whose numbers are those of
\* the page, in their order.
LEMMA PageIs ==
    ASSUME RowsFit, NEW k \in Nat \ {0}
    PROVE  LET w == OffsetLimit(k)
           IN  /\ w \in Seq(Listed) /\ Len(w) \in 0..PageSize
               /\ \A n \in 1..Len(w) : w[n] \in Listed /\ Rank(w[n]) = (k - 1) * PageSize + n
               /\ \A i \in Listed :
                    Rank(i) > (k - 1) * PageSize /\ Rank(i) <= k * PageSize => i \in ToSet(w)
<1> DEFINE o == (k - 1) * PageSize
           C == Cardinality(Listed)
           e == IF o + PageSize < C THEN o + PageSize ELSE C
           w == OffsetLimit(k)
<1>1. o \in Nat /\ k * PageSize = o + PageSize /\ C \in Nat /\ PageSize \in Nat /\ e \in Nat
  BY Offsets, ListedFinite, HistoryAssumption
<1>2. w = SubSeq(Query, o + 1, e)
  BY QueryIs DEF OffsetLimit, Window
<1>3. \A n \in 1..C : Query[n] \in Listed /\ Rank(Query[n]) = n
  BY QueryIs
<1> HIDE DEF o, w
<1>4. \A n \in (o + 1)..e : n \in 1..C /\ Query[n] \in Listed
  BY <1>1, <1>3
<1>5. /\ SubSeq(Query, o + 1, e) \in Seq(Listed)
      /\ Len(SubSeq(Query, o + 1, e)) = IF o + 1 <= e THEN e - (o + 1) + 1 ELSE 0
      /\ \A n \in 1..(e - (o + 1) + 1) : SubSeq(Query, o + 1, e)[n] = Query[(o + 1) + n - 1]
  <2>1. o + 1 \in Int /\ e \in Int
    BY <1>1
  <2> HIDE DEF e
  <2> QED BY <1>4, <2>1, SubSeqProperties
<1>6. w \in Seq(Listed) /\ Len(w) = (IF o + 1 <= e THEN e - o ELSE 0) /\ Len(w) \in 0..PageSize
  BY <1>1, <1>2, <1>5
<1>7. \A n \in 1..Len(w) : o + n \in 1..C /\ w[n] = Query[o + n]
  BY <1>1, <1>2, <1>5, <1>6
<1>8. \A n \in 1..Len(w) : w[n] \in Listed /\ Rank(w[n]) = o + n
  BY <1>3, <1>7
<1>9. ASSUME NEW i \in Listed, Rank(i) > o, Rank(i) <= o + PageSize
      PROVE  i \in ToSet(w)
  <2>1. Rank(i) \in 1..C /\ Query[Rank(i)] = i
    BY RankOrder, QueryIs
  <2>2. Rank(i) - o \in 1..Len(w)
    BY <1>1, <1>6, <1>9, <2>1
  <2>3. w[Rank(i) - o] = i
    BY <1>1, <1>7, <2>1, <2>2
  <2> QED BY <1>6, <2>2, <2>3 DEF ToSet
<1> QED BY <1>1, <1>6, <1>8, <1>9 DEF o, w

\* The number of pages is what it takes to show all rows, and no more.
LEMMA PagesEnough ==
    ASSUME NEW count \in Nat
    PROVE  /\ Pages(count) \in Nat \ {0}
           /\ count <= Pages(count) * PageSize
           /\ Pages(count) = 1 \/ (Pages(count) - 1) * PageSize < count
<1>1. PageSize \in Nat \ {0}
  BY HistoryAssumption
<1>2. CASE count = 0
  BY <1>1, <1>2 DEF Pages
<1>3. CASE count # 0
  <2> DEFINE q == (count - 1) \div PageSize
             r == (count - 1) % PageSize
  <2>1. q \in Nat /\ r \in 0..(PageSize - 1) /\ count - 1 = q * PageSize + r
    BY <1>1, <1>3
  <2>2. Pages(count) = q + 1
    BY <1>3 DEF Pages
  <2> HIDE DEF q, r
  <2>3. (q + 1) * PageSize = q * PageSize + PageSize /\ (q + 1) - 1 = q /\ q * PageSize \in Nat
    BY <1>1, <2>1
  <2> QED BY <1>1, <1>3, <2>1, <2>2, <2>3
<1> QED BY <1>2, <1>3

-----------------------------------------------------------------------------
(* A row is inserted, a row is removed.                                    *)

\* Where a row is in a sequence.
PlaceIn(s, i) == CHOOSE k \in 1..Len(s) : s[k] = i

NoneTwice(s) == \A k, l \in 1..Len(s) : s[k] = s[l] => k = l

LEMMA PlaceInIs ==
    ASSUME NEW s \in Seq(Row), NoneTwice(s)
    PROVE  /\ \A i \in Row, k \in 1..Len(s) : s[k] = i => i \in ToSet(s) /\ PlaceIn(s, i) = k
           /\ \A i \in ToSet(s) : i \in Row /\ PlaceIn(s, i) \in 1..Len(s) /\ s[PlaceIn(s, i)] = i
<1>1. DOMAIN s = 1..Len(s)
  OBVIOUS
<1>2. ASSUME NEW i \in Row, NEW k \in 1..Len(s), s[k] = i
      PROVE  i \in ToSet(s) /\ PlaceIn(s, i) = k
  <2>1. \A l \in 1..Len(s) : s[l] = i => l = k
    BY <1>2 DEF NoneTwice
  <2> QED BY <1>1, <1>2, <2>1 DEF PlaceIn, ToSet
<1>3. ASSUME NEW i \in ToSet(s)
      PROVE  i \in Row /\ PlaceIn(s, i) \in 1..Len(s) /\ s[PlaceIn(s, i)] = i
  <2>1. PICK k \in 1..Len(s) : s[k] = i
    BY <1>1 DEF ToSet
  <2> QED BY <1>1, <1>2, <2>1
<1> QED BY <1>2, <1>3

\* A row is inserted between the others.
LEMMA InsertAtIs ==
    ASSUME NEW q \in Seq(Row), NEW k \in 1..(Len(q) + 1), NEW i \in Row
    PROVE  LET s == InsertAt(q, k, i)
           IN  /\ s \in Seq(Row) /\ Len(s) = Len(q) + 1
               /\ \A n \in 1..(Len(q) + 1) :
                    s[n] = IF n < k THEN q[n] ELSE IF n = k THEN i ELSE q[n - 1]
<1> DEFINE L == Len(q)
           a == SubSeq(q, 1, k - 1)
           b == SubSeq(q, k, L)
           s == InsertAt(q, k, i)
<1>1. q \in Seq(Row) /\ L \in Nat /\ k - 1 \in Int /\ k \in Int /\ L \in Int
  OBVIOUS
<1>2. \A n \in 1..L : q[n] \in Row
  BY <1>1
<1>3. /\ a \in Seq(Row) /\ Len(a) = k - 1
      /\ \A n \in 1..(k - 1) : a[n] = q[n]
  <2>1. \A n \in 1..(k - 1) : q[n] \in Row
    BY <1>1, <1>2
  <2>2. /\ SubSeq(q, 1, k - 1) \in Seq(Row)
        /\ Len(SubSeq(q, 1, k - 1)) = IF 1 <= k - 1 THEN (k - 1) - 1 + 1 ELSE 0
        /\ \A n \in 1..((k - 1) - 1 + 1) : SubSeq(q, 1, k - 1)[n] = q[1 + n - 1]
    BY <1>1, <2>1, SubSeqProperties
  <2> QED BY <1>1, <2>2
<1>4. /\ b \in Seq(Row) /\ Len(b) = L - k + 1
      /\ \A n \in 1..(L - k + 1) : b[n] = q[k + n - 1]
  <2>1. \A n \in k..L : q[n] \in Row
    BY <1>1, <1>2
  <2>2. /\ SubSeq(q, k, L) \in Seq(Row)
        /\ Len(SubSeq(q, k, L)) = IF k <= L THEN L - k + 1 ELSE 0
        /\ \A n \in 1..(L - k + 1) : SubSeq(q, k, L)[n] = q[k + n - 1]
    BY <1>1, <2>1, SubSeqProperties
  <2> QED BY <1>1, <2>2
<1> HIDE DEF a, b
<1>5. <<i>> \in Seq(Row) /\ Len(<<i>>) = 1 /\ <<i>>[1] = i
  OBVIOUS
<1>6. /\ a \o <<i>> \in Seq(Row) /\ Len(a \o <<i>>) = k
      /\ \A n \in 1..k : (a \o <<i>>)[n] = IF n < k THEN q[n] ELSE i
  <2>1. /\ a \o <<i>> \in Seq(Row) /\ Len(a \o <<i>>) = Len(a) + Len(<<i>>)
        /\ \A n \in 1..(Len(a) + Len(<<i>>)) :
              (a \o <<i>>)[n] = IF n <= Len(a) THEN a[n] ELSE <<i>>[n - Len(a)]
    BY <1>3, <1>5, ConcatProperties
  <2> QED BY <1>1, <1>3, <1>5, <2>1
<1>7. s = (a \o <<i>>) \o b
  BY DEF InsertAt, a, b
<1>8. /\ s \in Seq(Row) /\ Len(s) = k + (L - k + 1)
      /\ \A n \in 1..(k + (L - k + 1)) :
            s[n] = IF n <= k THEN (a \o <<i>>)[n] ELSE b[n - k]
  <2> DEFINE c == a \o <<i>>
  <2> HIDE DEF c
  <2>1. c \in Seq(Row) /\ Len(c) = k
    BY <1>6 DEF c
  <2>2. /\ c \o b \in Seq(Row) /\ Len(c \o b) = Len(c) + Len(b)
        /\ \A n \in 1..(Len(c) + Len(b)) :
              (c \o b)[n] = IF n <= Len(c) THEN c[n] ELSE b[n - Len(c)]
    BY <1>4, <2>1, ConcatProperties
  <2>3. s = c \o b
    BY <1>7 DEF c
  <2> HIDE DEF s
  <2>4. /\ s \in Seq(Row) /\ Len(s) = k + (L - k + 1)
        /\ \A n \in 1..(k + (L - k + 1)) : s[n] = IF n <= k THEN c[n] ELSE b[n - k]
    BY <1>4, <2>1, <2>2, <2>3
  <2> QED BY <2>4 DEF c
<1> HIDE DEF s
<1>9. ASSUME NEW n \in 1..(L + 1)
      PROVE  s[n] = IF n < k THEN q[n] ELSE IF n = k THEN i ELSE q[n - 1]
  <2>1. CASE n <= k
    BY <1>1, <1>6, <1>8, <2>1
  <2>2. CASE n > k
    <3>1. n - k \in 1..(L - k + 1) /\ k + (n - k) - 1 = n - 1
      BY <1>1, <2>2
    <3>2. s[n] = b[n - k] /\ b[n - k] = q[k + (n - k) - 1]
      BY <1>1, <1>4, <1>8, <2>2, <3>1
    <3> QED BY <1>1, <2>2, <3>1, <3>2
  <2> QED BY <1>1, <2>1, <2>2
<1> QED BY <1>1, <1>8, <1>9 DEF s

\* ... and those behind it go back by one.
LEMMA Inserted ==
    ASSUME NEW q \in Seq(Row), NoneTwice(q), NEW k \in 1..(Len(q) + 1), NEW i \in Row \ ToSet(q)
    PROVE  LET s == InsertAt(q, k, i)
           IN  /\ s \in Seq(Row) /\ NoneTwice(s)
               /\ i \in ToSet(s) /\ PlaceIn(s, i) = k
               /\ \A j \in ToSet(q) :
                    /\ j \in ToSet(s)
                    /\ PlaceIn(s, j) = IF PlaceIn(q, j) < k THEN PlaceIn(q, j) ELSE PlaceIn(q, j) + 1
               /\ \A j \in ToSet(s) : j # i => j \in ToSet(q)
<1> DEFINE L == Len(q)
           s == InsertAt(q, k, i)
           Old(n) == IF n < k THEN n ELSE n - 1
<1>1. /\ s \in Seq(Row) /\ Len(s) = L + 1
      /\ \A n \in 1..(L + 1) : s[n] = IF n < k THEN q[n] ELSE IF n = k THEN i ELSE q[n - 1]
  BY InsertAtIs
<1>2. L \in Nat /\ k \in 1..(L + 1)
  OBVIOUS
<1>3. \A n \in 1..L : q[n] \in Row /\ q[n] \in ToSet(q)
  BY PlaceInIs
<1> HIDE DEF s
<1>4. ASSUME NEW n \in 1..(L + 1), n # k
      PROVE  Old(n) \in 1..L /\ s[n] = q[Old(n)] /\ s[n] # i /\ s[n] \in ToSet(q)
  <2>1. Old(n) \in 1..L /\ s[n] = q[Old(n)]
    BY <1>1, <1>2, <1>4
  <2> QED BY <1>3, <2>1
<1>5. s[k] = i
  BY <1>1, <1>2
<1>6. NoneTwice(s)
  <2>1. SUFFICES ASSUME NEW m \in 1..(L + 1), NEW n \in 1..(L + 1), s[m] = s[n]
                 PROVE  m = n
    BY <1>1 DEF NoneTwice
  <2>2. CASE m = k \/ n = k
    BY <1>4, <1>5, <2>1, <2>2
  <2>3. CASE m # k /\ n # k
    <3>1. Old(m) = Old(n)
      BY <1>4, <2>1, <2>3 DEF NoneTwice
    <3> QED BY <1>2, <2>3, <3>1
  <2> QED BY <2>2, <2>3
<1>7. /\ \A j \in Row, n \in 1..(L + 1) : s[n] = j => j \in ToSet(s) /\ PlaceIn(s, j) = n
      /\ \A j \in ToSet(s) : PlaceIn(s, j) \in 1..(L + 1) /\ s[PlaceIn(s, j)] = j
  BY <1>1, <1>6, PlaceInIs
<1>8. i \in ToSet(s) /\ PlaceIn(s, i) = k
  BY <1>2, <1>5, <1>7
<1>9. ASSUME NEW j \in ToSet(q)
      PROVE  /\ j \in ToSet(s)
             /\ PlaceIn(s, j) = IF PlaceIn(q, j) < k THEN PlaceIn(q, j) ELSE PlaceIn(q, j) + 1
  <2> DEFINE p == PlaceIn(q, j)
             n == IF p < k THEN p ELSE p + 1
  <2>1. j \in Row /\ p \in 1..L /\ q[p] = j
    BY PlaceInIs
  <2> HIDE DEF p
  <2>2. n \in 1..(L + 1) /\ s[n] = j
    BY <1>1, <1>2, <2>1
  <2> HIDE DEF n
  <2>3. j \in ToSet(s) /\ PlaceIn(s, j) = n
    BY <1>7, <2>1, <2>2
  <2> QED BY <2>3 DEF n, p
<1>10. \A j \in ToSet(s) : j # i => j \in ToSet(q)
  BY <1>4, <1>5, <1>7
<1> QED BY <1>1, <1>6, <1>8, <1>9, <1>10 DEF s

\* A row is taken out ...
LEMMA RemoveAtIs ==
    ASSUME NEW q \in Seq(Row), NEW k \in 1..Len(q)
    PROVE  LET s == RemoveAt(q, k)
           IN  /\ s \in Seq(Row) /\ Len(s) = Len(q) - 1
               /\ \A n \in 1..(Len(q) - 1) : s[n] = IF n < k THEN q[n] ELSE q[n + 1]
<1> DEFINE L == Len(q)
           a == SubSeq(q, 1, k - 1)
           b == SubSeq(q, k + 1, L)
           s == RemoveAt(q, k)
<1>1. L \in Nat /\ k \in 1..L /\ k - 1 \in Int /\ k + 1 \in Int /\ L \in Int
  OBVIOUS
<1>2. \A n \in 1..L : q[n] \in Row
  OBVIOUS
<1>3. a \in Seq(Row) /\ Len(a) = k - 1 /\ \A n \in 1..(k - 1) : a[n] = q[n]
  <2>1. \A n \in 1..(k - 1) : q[n] \in Row
    BY <1>1, <1>2
  <2>2. /\ SubSeq(q, 1, k - 1) \in Seq(Row)
        /\ Len(SubSeq(q, 1, k - 1)) = IF 1 <= k - 1 THEN (k - 1) - 1 + 1 ELSE 0
        /\ \A n \in 1..((k - 1) - 1 + 1) : SubSeq(q, 1, k - 1)[n] = q[1 + n - 1]
    BY <1>1, <2>1, SubSeqProperties
  <2> QED BY <1>1, <2>2
<1>4. b \in Seq(Row) /\ Len(b) = L - k /\ \A n \in 1..(L - k) : b[n] = q[k + n]
  <2>1. \A n \in (k + 1)..L : q[n] \in Row
    BY <1>1, <1>2
  <2>2. /\ SubSeq(q, k + 1, L) \in Seq(Row)
        /\ Len(SubSeq(q, k + 1, L)) = IF k + 1 <= L THEN L - (k + 1) + 1 ELSE 0
        /\ \A n \in 1..(L - (k + 1) + 1) : SubSeq(q, k + 1, L)[n] = q[(k + 1) + n - 1]
    BY <1>1, <2>1, SubSeqProperties
  <2> QED BY <1>1, <2>2
<1> HIDE DEF a, b
<1>5. s = a \o b
  BY DEF RemoveAt, a, b
<1>6. /\ a \o b \in Seq(Row) /\ Len(a \o b) = Len(a) + Len(b)
      /\ \A n \in 1..(Len(a) + Len(b)) : (a \o b)[n] = IF n <= Len(a) THEN a[n] ELSE b[n - Len(a)]
  BY <1>3, <1>4, ConcatProperties
<1> HIDE DEF s
<1>7. s \in Seq(Row) /\ Len(s) = L - 1
  BY <1>1, <1>3, <1>4, <1>5, <1>6
<1>8. ASSUME NEW n \in 1..(L - 1)
      PROVE  s[n] = IF n < k THEN q[n] ELSE q[n + 1]
  <2>1. s[n] = IF n <= k - 1 THEN a[n] ELSE b[n - (k - 1)]
    BY <1>1, <1>3, <1>4, <1>5, <1>6
  <2>2. CASE n < k
    BY <1>1, <1>3, <2>1, <2>2
  <2>3. CASE n >= k
    <3>1. n - (k - 1) \in 1..(L - k) /\ k + (n - (k - 1)) = n + 1
      BY <1>1, <2>3
    <3> QED BY <1>1, <1>4, <2>1, <2>3, <3>1
  <2> QED BY <1>1, <2>2, <2>3
<1> QED BY <1>7, <1>8 DEF s

\* ... and those behind it come forward by one.
LEMMA Removed ==
    ASSUME NEW q \in Seq(Row), NoneTwice(q), NEW i \in ToSet(q)
    PROVE  LET p == PlaceIn(q, i)
               s == RemoveAt(q, p)
           IN  /\ s \in Seq(Row) /\ NoneTwice(s) /\ Len(s) = Len(q) - 1
               /\ i \notin ToSet(s)
               /\ \A j \in ToSet(q) : j # i =>
                    /\ j \in ToSet(s) /\ PlaceIn(q, j) # p
                    /\ PlaceIn(s, j) = IF PlaceIn(q, j) < p THEN PlaceIn(q, j) ELSE PlaceIn(q, j) - 1
               /\ \A j \in ToSet(s) : j \in ToSet(q)
<1> DEFINE L == Len(q)
           p == PlaceIn(q, i)
           s == RemoveAt(q, p)
           Old(n) == IF n < p THEN n ELSE n + 1
<1>1. i \in Row /\ p \in 1..L /\ q[p] = i
  BY PlaceInIs
<1>2. /\ s \in Seq(Row) /\ Len(s) = L - 1
      /\ \A n \in 1..(L - 1) : s[n] = IF n < p THEN q[n] ELSE q[n + 1]
  <2> HIDE DEF p
  <2> QED BY <1>1, RemoveAtIs
<1>3. L \in Nat
  OBVIOUS
<1>4. \A n \in 1..L : q[n] \in Row /\ q[n] \in ToSet(q)
  BY PlaceInIs
<1> HIDE DEF p, s
<1>5. ASSUME NEW n \in 1..(L - 1)
      PROVE  Old(n) \in 1..L /\ Old(n) # p /\ s[n] = q[Old(n)] /\ s[n] # i /\ s[n] \in ToSet(q)
  <2>1. Old(n) \in 1..L /\ Old(n) # p /\ s[n] = q[Old(n)]
    BY <1>1, <1>2, <1>3
  <2> QED BY <1>1, <1>4, <2>1 DEF NoneTwice
<1>6. NoneTwice(s)
  <2>1. SUFFICES ASSUME NEW m \in 1..(L - 1), NEW n \in 1..(L - 1), s[m] = s[n]
                 PROVE  m = n
    BY <1>2 DEF NoneTwice
  <2>2. Old(m) = Old(n)
    BY <1>5, <2>1 DEF NoneTwice
  <2> QED BY <1>1, <2>2
<1>7. /\ \A j \in Row, n \in 1..(L - 1) : s[n] = j => j \in ToSet(s) /\ PlaceIn(s, j) = n
      /\ \A j \in ToSet(s) : PlaceIn(s, j) \in 1..(L - 1) /\ s[PlaceIn(s, j)] = j
  BY <1>2, <1>6, PlaceInIs
<1>8. \A j \in ToSet(s) : j \in ToSet(q) /\ j # i
  BY <1>5, <1>7
<1>9. ASSUME NEW j \in ToSet(q), j # i
      PROVE  /\ j \in ToSet(s) /\ PlaceIn(q, j) # p
             /\ PlaceIn(s, j) = IF PlaceIn(q, j) < p THEN PlaceIn(q, j) ELSE PlaceIn(q, j) - 1
  <2> DEFINE r == PlaceIn(q, j)
             n == IF r < p THEN r ELSE r - 1
  <2>1. j \in Row /\ r \in 1..L /\ q[r] = j /\ r # p
    BY <1>1, <1>9, PlaceInIs
  <2> HIDE DEF r
  <2>2. n \in 1..(L - 1) /\ s[n] = j
    BY <1>1, <1>2, <1>3, <2>1
  <2> HIDE DEF n
  <2>3. j \in ToSet(s) /\ PlaceIn(s, j) = n
    BY <1>7, <2>1, <2>2
  <2> QED BY <2>1, <2>3 DEF n, r
<1> QED BY <1>2, <1>6, <1>8, <1>9 DEF s, p

-----------------------------------------------------------------------------
(* How the list changes under a reader.                                    *)

\* The part of TypeOK that is about it.
ReadingTyped ==
    /\ reader \in {"idle", "count", "fetch", "done", "failed"}
    /\ page \in Nat \ {0}
    /\ totalPage \in Nat
    /\ pages \in Seq(Seq(Row)) /\ \A k \in 1..Len(pages) : Len(pages[k]) <= PageSize
    /\ began \in SUBSET Row
    /\ disturbed \in SUBSET {"repeat", "skip"}
    /\ moved \in SUBSET Row

\* As long as nothing is drawn forward, what it has not seen yet is on the pages to
\* come, and these are as many as it will ask for; as long as nothing is pushed
\* back, what it has seen is on the pages before.
ReaderFits ==
    /\ reader = "idle" => page = 1 /\ pages = <<>>
    /\ Reading /\ "skip" \notin disturbed =>
        /\ began \subseteq Listed
        /\ \A i \in began \ (Shown \cup moved) : Rank(i) > (page - 1) * PageSize
        /\ page = 1 \/ (page - 1) * PageSize < Cardinality(Listed)
    /\ reader = "fetch" /\ "skip" \notin disturbed =>
        /\ page <= totalPage
        /\ totalPage = 1 \/ (totalPage - 1) * PageSize < Cardinality(Listed)
        /\ page = totalPage => Cardinality(Listed) <= page * PageSize
    /\ Reading /\ "repeat" \notin disturbed =>
        \A i \in (Shown \cap Listed) \ moved : Rank(i) <= (page - 1) * PageSize

\* The inductive invariant of a reader.
ReaderInv == RowsFit /\ ReadingTyped /\ ReaderFits /\ NothingSkipped /\ ShownOnce

LEMMA InitReader == ASSUME Init PROVE ReaderInv
<1>1. RowsFit
  BY DEF RowsFit, Init
<1>2. ReadingTyped
  BY DEF ReadingTyped, Init
<1>3. ReaderFits /\ NothingSkipped
  BY DEF ReaderFits, NothingSkipped, Reading, Init
<1>4. ShownOnce
  BY DEF ShownOnce, Init
<1> QED BY <1>1, <1>2, <1>3, <1>4 DEF ReaderInv

\* None that was listed is gone, and none that was behind a row is before it now ...
NoneForward(but) ==
    /\ Listed \subseteq Listed'
    /\ \A i \in Listed \ but, j \in Listed : Place(j) <= Place(i) => Place(j)' <= Place(i)'

\* ... or the other way round: none is new, and none that was before is behind.
NoneBack(but) ==
    /\ Listed' \subseteq Listed
    /\ \A i \in Listed' \ but, j \in Listed' : Place(j)' <= Place(i)' => Place(j) <= Place(i)

\* What the properties know of a change of the list.
Changes ==
    /\ RowsFit'
    /\ UNCHANGED reading
    /\ disturbed \subseteq disturbed' /\ disturbed' \subseteq {"repeat", "skip"}
    /\ moved \subseteq moved' /\ moved' \subseteq Row
    /\ ~Reading => UNCHANGED observed
    /\ Reading /\ "skip" \notin disturbed' =>
        /\ NoneForward(moved')
        /\ reader = "fetch" /\ page = totalPage => Listed' = Listed
    /\ Reading /\ "repeat" \notin disturbed' => NoneBack(moved')

LEMMA ListedFiniteNext ==
    RowsFit' => (/\ IsFiniteSet(Listed) /\ Cardinality(Listed) \in Nat /\ Listed \subseteq ToSet(rows)
                 /\ \A i \in Listed : Rank(i) \in Nat)'
<1>1. RowsFit => /\ IsFiniteSet(Listed) /\ Cardinality(Listed) \in Nat /\ Listed \subseteq ToSet(rows)
                 /\ \A i \in Listed : Rank(i) \in Nat
  <2>1. RowsFit => \A i \in Listed : Rank(i) \in 1..Cardinality(Listed)
    BY RankOrderOf
  <2> QED BY <2>1, ListedFinite
<1> QED BY <1>1, PTL

\* What comes pushes the others to higher numbers, if at all ...
LEMMA RanksGrow ==
    ASSUME RowsFit, RowsFit', NEW but, NoneForward(but), NEW i \in Listed \ but
    PROVE  Rank(i) <= Rank(i)'
<1> DEFINE now  == {j \in Listed : Place(j) <= Place(i)}
           then == {j \in Listed' : Place(j)' <= Place(i)'}
<1>1. now \in SUBSET then /\ then \in SUBSET Listed'
  BY DEF NoneForward
<1>2. Rank(i) = Cardinality(now) /\ Rank(i)' = Cardinality(then)
  BY DEF Rank
<1> HIDE DEF now, then
<1>3. IsFiniteSet(then)
  BY <1>1, ListedFiniteNext, FS_Subset
<1> QED BY <1>1, <1>2, <1>3, FS_Subset

\* ... and what goes draws them to lower ones.
LEMMA RanksShrink ==
    ASSUME RowsFit, RowsFit', NEW but, NoneBack(but), NEW i \in Listed' \ but
    PROVE  Rank(i)' <= Rank(i)
<1> DEFINE now  == {j \in Listed : Place(j) <= Place(i)}
           then == {j \in Listed' : Place(j)' <= Place(i)'}
<1>1. then \in SUBSET now /\ now \in SUBSET Listed
  BY DEF NoneBack
<1>2. Rank(i) = Cardinality(now) /\ Rank(i)' = Cardinality(then)
  BY DEF Rank
<1> HIDE DEF now, then
<1>3. IsFiniteSet(now)
  BY <1>1, ListedFinite, FS_Subset
<1> QED BY <1>1, <1>2, <1>3, FS_Subset

\* The reader under any such change.
LEMMA ListReader == ASSUME ReaderInv, Changes PROVE ReaderInv'
<1>1. RowsFit /\ ReadingTyped /\ ReaderFits /\ NothingSkipped /\ ShownOnce /\ RowsFit'
  BY DEF ReaderInv, Changes
<1> DEFINE C == Cardinality(Listed)
           o == (page - 1) * PageSize
<1>2. C \in Nat /\ C' \in Nat /\ o \in Nat /\ page * PageSize \in Nat
      /\ (totalPage - 1) * PageSize \in Int
  <2>1. page \in Nat \ {0} /\ totalPage \in Nat /\ PageSize \in Nat
    BY <1>1, HistoryAssumption DEF ReadingTyped
  <2>2. (totalPage - 1) * PageSize \in Int /\ page * PageSize \in Nat
    BY <2>1
  <2> QED BY <1>1, <2>1, <2>2, Offsets, ListedFinite, ListedFiniteNext
<1>3. (\A i \in Listed : Rank(i) \in Nat) /\ (\A i \in Listed' : Rank(i)' \in Nat)
  <2>1. \A i \in Listed : Rank(i) \in Nat
    BY <1>1, <1>2, RankOrder
  <2> QED BY <1>1, <2>1, ListedFiniteNext
<1>4. reader' = reader /\ page' = page /\ totalPage' = totalPage /\ pages' = pages /\ began' = began
      /\ Shown' = Shown /\ (Reading' <=> Reading)
  BY DEF Changes, reading, Shown, Reading
<1>5. /\ disturbed \subseteq disturbed' /\ disturbed' \subseteq {"repeat", "skip"}
      /\ moved \subseteq moved' /\ moved' \subseteq Row
      /\ ~Reading => disturbed' = disturbed /\ moved' = moved
  BY DEF Changes, observed
<1>6. ReadingTyped'
  BY <1>1, <1>4, <1>5 DEF ReadingTyped
<1>7. NothingSkipped'
  <2>1. reader = "done" => ~Reading
    BY DEF Reading
  <2> QED BY <1>1, <1>4, <1>5, <2>1 DEF NothingSkipped
<1>8. ShownOnce'
  BY <1>1, <1>4, <1>5 DEF ShownOnce
<1>9. ASSUME Reading, "skip" \notin disturbed'
      PROVE  /\ began \subseteq Listed'
             /\ \A i \in began \ (Shown \cup moved') : Rank(i)' > o
             /\ page = 1 \/ o < C'
             /\ C <= C'
  <2>1. /\ began \subseteq Listed
        /\ \A i \in began \ (Shown \cup moved) : Rank(i) > o
        /\ page = 1 \/ o < C
    BY <1>1, <1>5, <1>9 DEF ReaderFits
  <2>2. NoneForward(moved') /\ Listed \subseteq Listed'
    BY <1>9 DEF Changes, NoneForward
  <2>3. \A i \in Listed \ moved' : Rank(i) <= Rank(i)'
    BY <1>1, <2>2, RanksGrow
  <2>4. C <= C'
    BY <1>1, <2>2, ListedFiniteNext, FS_Subset
  <2> HIDE DEF o, C
  <2>5. began \subseteq Listed' /\ (page = 1 \/ o < C')
    BY <1>2, <2>1, <2>2, <2>4
  <2>6. ASSUME NEW i \in began \ (Shown \cup moved')
        PROVE  Rank(i)' > o
    <3>1. i \in Listed \ moved' /\ i \in Listed' /\ Rank(i) > o
      BY <1>5, <2>1, <2>2
    <3>2. Rank(i) <= Rank(i)' /\ Rank(i) \in Nat /\ Rank(i)' \in Nat
      BY <1>3, <2>3, <3>1
    <3> QED BY <1>2, <3>1, <3>2
  <2> QED BY <2>4, <2>5, <2>6
<1>10. ASSUME reader = "fetch", "skip" \notin disturbed'
       PROVE  /\ page <= totalPage
              /\ totalPage = 1 \/ (totalPage - 1) * PageSize < C'
              /\ page = totalPage => C' <= page * PageSize
  <2>1. /\ page <= totalPage
        /\ totalPage = 1 \/ (totalPage - 1) * PageSize < C
        /\ page = totalPage => C <= page * PageSize
    BY <1>1, <1>5, <1>10 DEF ReaderFits
  <2>2. Reading
    BY <1>10 DEF Reading
  <2>3. page = totalPage => C' = C
    BY <1>10, <2>2 DEF Changes
  <2>4. C <= C'
    BY <1>9, <1>10, <2>2
  <2> DEFINE last == (totalPage - 1) * PageSize
  <2>5. totalPage = 1 \/ last < C'
    <3>1. last \in Int /\ (totalPage = 1 \/ last < C)
      BY <1>2, <2>1
    <3> HIDE DEF last, C
    <3> QED BY <1>2, <2>4, <3>1
  <2> QED BY <2>1, <2>3, <2>5
<1>11. ASSUME Reading, "repeat" \notin disturbed'
       PROVE  \A i \in (Shown \cap Listed') \ moved' : Rank(i)' <= o
  <2>1. \A i \in (Shown \cap Listed) \ moved : Rank(i) <= o
    BY <1>1, <1>5, <1>11 DEF ReaderFits
  <2>2. NoneBack(moved') /\ Listed' \subseteq Listed
    BY <1>11 DEF Changes, NoneBack
  <2>3. \A i \in Listed' \ moved' : Rank(i)' <= Rank(i)
    BY <1>1, <2>2, RanksShrink
  <2> HIDE DEF o
  <2> QED BY <1>2, <1>3, <1>5, <2>1, <2>2, <2>3
<1>12. ReaderFits'
  BY <1>1, <1>4, <1>9, <1>10, <1>11 DEF ReaderFits
<1> QED BY <1>1, <1>6, <1>7, <1>8, <1>12 DEF ReaderInv

-----------------------------------------------------------------------------
(* The changes.                                                            *)

\* The order of rows that are listed before and after.
SameOrder(those) == \A i, j \in those : Place(j)' <= Place(i)' <=> Place(j) <= Place(i)

\* The list becomes longer, or stays as it is ...
LEMMA Grows ==
    ASSUME ReaderInv, RowsFit', UNCHANGED <<reading, moved>>, Disturb({}),
           Listed \subseteq Listed', SameOrder(Listed)
    PROVE  Changes
<1>1. RowsFit /\ ReadingTyped
  BY DEF ReaderInv
<1> DEFINE C == Cardinality(Listed)
<1>2. C \in Nat /\ C' \in Nat /\ C <= C' /\ (C' = C => Listed' = Listed)
  BY <1>1, ListedFinite, ListedFiniteNext, FS_Subset
<1>3. /\ disturbed \subseteq disturbed' /\ disturbed' \subseteq {"repeat", "skip"}
      /\ ~Reading => disturbed' = disturbed
      /\ Reading /\ C' > C => /\ "repeat" \in disturbed'
                              /\ reader = "fetch" /\ page = totalPage => "skip" \in disturbed'
  BY <1>1, <1>2 DEF Disturb, ReadingTyped
<1> HIDE DEF C
<1>4. Reading /\ "repeat" \notin disturbed' => Listed' = Listed
  BY <1>2, <1>3
<1>5. Reading /\ "skip" \notin disturbed' /\ reader = "fetch" /\ page = totalPage => Listed' = Listed
  BY <1>2, <1>3
<1>6. NoneForward(moved')
  BY DEF NoneForward, SameOrder
<1>7. Listed' = Listed => NoneBack(moved')
  BY DEF NoneBack, SameOrder
<1> QED BY <1>1, <1>3, <1>4, <1>5, <1>6, <1>7 DEF Changes, observed, ReadingTyped

\* ... or shorter, or stays as it is.
LEMMA Shrinks ==
    ASSUME ReaderInv, RowsFit', UNCHANGED <<reading, moved>>, Disturb({}),
           Listed' \subseteq Listed, SameOrder(Listed')
    PROVE  Changes
<1>1. RowsFit /\ ReadingTyped
  BY DEF ReaderInv
<1> DEFINE C == Cardinality(Listed)
<1>2. C \in Nat /\ C' \in Nat /\ C' <= C /\ (C' = C => Listed' = Listed)
  BY <1>1, ListedFinite, ListedFiniteNext, FS_Subset
<1>3. /\ disturbed \subseteq disturbed' /\ disturbed' \subseteq {"repeat", "skip"}
      /\ ~Reading => disturbed' = disturbed
      /\ Reading /\ C' < C => "skip" \in disturbed'
  BY <1>1, <1>2 DEF Disturb, ReadingTyped
<1> HIDE DEF C
<1>4. Reading /\ "skip" \notin disturbed' => Listed' = Listed
  BY <1>2, <1>3
<1>5. NoneBack(moved')
  BY DEF NoneBack, SameOrder
<1>6. Listed' = Listed => NoneForward(moved')
  BY DEF NoneForward, SameOrder
<1> QED BY <1>1, <1>3, <1>4, <1>5, <1>6 DEF Changes, observed, ReadingTyped

LEMMA RowsAre == RowsFit <=> list \in List /\ rows \in Seq(Row) /\ NoneTwice(rows)
BY DEF RowsFit, NoneTwice

\* A row is added, wherever the order of the list wants it.
LEMMA ArriveChanges == ASSUME ReaderInv, NEW i \in Row, Arrive(i) PROVE Changes
<1>1. RowsFit /\ rows \in Seq(Row) /\ NoneTwice(rows) /\ i \in Row \ ToSet(rows)
  BY RowsAre DEF ReaderInv, Arrive
<1>2. PICK k \in Places(Len(rows)) : rows' = InsertAt(rows, k, i)
  BY DEF Arrive
<1>3. k \in 1..(Len(rows) + 1)
  BY <1>1 DEF Places
<1>4. /\ rows' \in Seq(Row) /\ NoneTwice(rows')
      /\ \A j \in ToSet(rows) :
            /\ j \in ToSet(rows')
            /\ PlaceIn(rows', j) = IF PlaceIn(rows, j) < k THEN PlaceIn(rows, j) ELSE PlaceIn(rows, j) + 1
  BY <1>1, <1>2, <1>3, Inserted
<1>5. \A j \in ToSet(rows) : PlaceIn(rows, j) \in Nat
  BY <1>1, PlaceInIs
<1>6. UNCHANGED <<list, favorites, reading, moved>> /\ Disturb({})
  BY DEF Arrive
<1>7. RowsFit'
  BY <1>1, <1>4, <1>6 DEF RowsFit, NoneTwice
<1>8. Listed \subseteq Listed' /\ Listed \subseteq ToSet(rows)
  BY <1>4, <1>6 DEF Listed, IsFavorite
<1>9. \A j : Place(j) = PlaceIn(rows, j) /\ Place(j)' = PlaceIn(rows', j)
  BY DEF Place, PlaceIn
<1>10. SameOrder(Listed)
  BY <1>3, <1>4, <1>5, <1>8, <1>9 DEF SameOrder
<1> QED BY <1>6, <1>7, <1>8, <1>10, Grows

\* A row is taken out, listed or not.
LEMMA LeaveChanges == ASSUME ReaderInv, NEW i \in Row, Leave(i) PROVE Changes
<1>1. RowsFit /\ rows \in Seq(Row) /\ NoneTwice(rows) /\ i \in ToSet(rows)
  BY RowsAre DEF ReaderInv, Leave
<1> DEFINE p == PlaceIn(rows, i)
<1>2. \A j : Place(j) = PlaceIn(rows, j) /\ Place(j)' = PlaceIn(rows', j)
  BY DEF Place, PlaceIn
<1>3. rows' = RemoveAt(rows, p)
  BY <1>2 DEF Leave
<1>4. /\ rows' \in Seq(Row) /\ NoneTwice(rows') /\ i \notin ToSet(rows')
      /\ \A j \in ToSet(rows) : j # i =>
            /\ PlaceIn(rows, j) # p
            /\ PlaceIn(rows', j) = IF PlaceIn(rows, j) < p THEN PlaceIn(rows, j) ELSE PlaceIn(rows, j) - 1
      /\ \A j \in ToSet(rows') : j \in ToSet(rows)
  BY <1>1, <1>3, Removed
<1>5. p \in Nat /\ \A j \in ToSet(rows) : PlaceIn(rows, j) \in Nat
  BY <1>1, PlaceInIs
<1> HIDE DEF p
<1>6. UNCHANGED <<list, favorites, reading, moved>> /\ Disturb({})
  BY DEF Leave
<1>7. RowsFit'
  BY <1>1, <1>4, <1>6 DEF RowsFit, NoneTwice
<1>8. Listed' \subseteq Listed /\ Listed' \subseteq ToSet(rows')
  BY <1>4, <1>6 DEF Listed, IsFavorite
<1>9. \A j \in Listed' : j \in ToSet(rows) /\ j # i
  BY <1>4, <1>8
<1>10. SameOrder(Listed')
  BY <1>2, <1>4, <1>5, <1>9 DEF SameOrder
<1> QED BY <1>6, <1>7, <1>8, <1>10, Shrinks

\* A row that is moved passes others, which stay in the order they have.
LEMMA RateChanges == ASSUME ReaderInv, NEW i \in Row, Rate(i) PROVE Changes
<1>1. RowsFit /\ ReadingTyped /\ rows \in Seq(Row) /\ NoneTwice(rows) /\ i \in ToSet(rows)
  BY RowsAre DEF ReaderInv, Rate
<1> DEFINE p == PlaceIn(rows, i)
           q == RemoveAt(rows, p)
<1>2. \A j : Place(j) = PlaceIn(rows, j) /\ Place(j)' = PlaceIn(rows', j)
  BY DEF Place, PlaceIn
<1>3. PICK k \in Places(Len(rows) - 1) :
        /\ rows' = InsertAt(q, k, i)
        /\ Disturb(CASE i \notin Listed \/ k = Place(i) -> {}
                     [] k < Place(i)                    -> {"repeat"}
                     [] OTHER                           -> {"skip"})
  BY <1>2 DEF Rate
<1>4. /\ q \in Seq(Row) /\ NoneTwice(q) /\ i \notin ToSet(q) /\ Len(q) = Len(rows) - 1
      /\ \A j \in ToSet(rows) : j # i =>
            /\ j \in ToSet(q) /\ PlaceIn(rows, j) # p
            /\ PlaceIn(q, j) = IF PlaceIn(rows, j) < p THEN PlaceIn(rows, j) ELSE PlaceIn(rows, j) - 1
      /\ \A j \in ToSet(q) : j \in ToSet(rows)
  BY <1>1, Removed
<1>5. p \in 1..Len(rows) /\ \A j \in ToSet(rows) : PlaceIn(rows, j) \in Nat
  BY <1>1, PlaceInIs
<1> HIDE DEF p, q
<1>6. k \in 1..(Len(q) + 1)
  BY <1>1, <1>4, <1>5 DEF Places
<1>7. /\ rows' \in Seq(Row) /\ NoneTwice(rows')
      /\ i \in ToSet(rows') /\ PlaceIn(rows', i) = k
      /\ \A j \in ToSet(q) :
            /\ j \in ToSet(rows')
            /\ PlaceIn(rows', j) = IF PlaceIn(q, j) < k THEN PlaceIn(q, j) ELSE PlaceIn(q, j) + 1
      /\ \A j \in ToSet(rows') : j # i => j \in ToSet(q)
  BY <1>1, <1>3, <1>4, <1>6, Inserted
<1>8. UNCHANGED <<list, favorites, reading>> /\ Move({i})
  BY DEF Rate
<1>9. RowsFit'
  BY <1>1, <1>7, <1>8 DEF RowsFit, NoneTwice
<1>10. \A j : j \in ToSet(rows') <=> j \in ToSet(rows)
  BY <1>1, <1>4, <1>7
<1>11. Listed' = Listed /\ Listed \subseteq ToSet(rows)
  BY <1>8, <1>10 DEF Listed, IsFavorite
<1>12. k \in Nat /\ p \in Nat
  BY <1>5, <1>6
\* The others among each other ...
<1>13. ASSUME NEW x \in ToSet(rows), NEW y \in ToSet(rows), x # i, y # i
       PROVE  Place(y)' <= Place(x)' <=> Place(y) <= Place(x)
  <2>1. /\ PlaceIn(q, x) = IF PlaceIn(rows, x) < p THEN PlaceIn(rows, x) ELSE PlaceIn(rows, x) - 1
        /\ PlaceIn(q, y) = IF PlaceIn(rows, y) < p THEN PlaceIn(rows, y) ELSE PlaceIn(rows, y) - 1
        /\ PlaceIn(rows, x) # p /\ PlaceIn(rows, y) # p
    BY <1>4, <1>13
  <2>2. /\ PlaceIn(rows', x) = IF PlaceIn(q, x) < k THEN PlaceIn(q, x) ELSE PlaceIn(q, x) + 1
        /\ PlaceIn(rows', y) = IF PlaceIn(q, y) < k THEN PlaceIn(q, y) ELSE PlaceIn(q, y) + 1
    BY <1>4, <1>7, <1>13
  <2> QED BY <1>2, <1>5, <1>12, <2>1, <2>2
\* ... and beside the one that moves.
<1>14. ASSUME NEW x \in ToSet(rows), x # i
       PROVE  /\ k <= p /\ Place(i) <= Place(x) => Place(i)' <= Place(x)'
              /\ k >= p /\ Place(i)' <= Place(x)' => Place(i) <= Place(x)
  <2>1. /\ PlaceIn(q, x) = IF PlaceIn(rows, x) < p THEN PlaceIn(rows, x) ELSE PlaceIn(rows, x) - 1
        /\ PlaceIn(rows, x) # p
        /\ PlaceIn(rows', x) = IF PlaceIn(q, x) < k THEN PlaceIn(q, x) ELSE PlaceIn(q, x) + 1
    BY <1>4, <1>7, <1>14
  <2>2. Place(i) = p /\ Place(i)' = k
    BY <1>2, <1>7 DEF p
  <2> QED BY <1>2, <1>5, <1>12, <2>1, <2>2
<1>15. /\ disturbed \subseteq disturbed' /\ disturbed' \subseteq {"repeat", "skip"}
       /\ ~Reading => disturbed' = disturbed
       /\ Reading /\ "repeat" \notin disturbed' => i \notin Listed \/ k >= p
       /\ Reading /\ "skip" \notin disturbed' => i \notin Listed \/ k <= p
  <2>1. Place(i) = p
    BY <1>2 DEF p
  <2>2. Cardinality(Listed') = Cardinality(Listed) /\ Cardinality(Listed) \in Nat
    BY <1>1, <1>11, ListedFinite
  <2>3. disturbed' = disturbed \cup
            IF ~Reading THEN {}
            ELSE CASE i \notin Listed \/ k = p -> {} [] k < p -> {"repeat"} [] OTHER -> {"skip"}
    BY <1>3, <2>1, <2>2 DEF Disturb
  <2> QED BY <1>1, <1>12, <2>3 DEF ReadingTyped
<1>16. /\ moved \subseteq moved' /\ moved' \subseteq Row
       /\ Reading => i \in moved'
       /\ ~Reading => moved' = moved
  BY <1>1, <1>8 DEF Move, ReadingTyped
<1>17. Reading /\ "skip" \notin disturbed' => NoneForward(moved')
  <2>1. SUFFICES ASSUME Reading, "skip" \notin disturbed',
                        NEW x \in Listed \ moved', NEW y \in Listed, Place(y) <= Place(x)
                 PROVE  Place(y)' <= Place(x)'
    BY <1>11 DEF NoneForward
  <2>2. x # i
    BY <1>16, <2>1
  <2>3. CASE y = i
    BY <1>11, <1>14, <1>15, <2>1, <2>2, <2>3
  <2>4. CASE y # i
    BY <1>11, <1>13, <2>1, <2>2, <2>4
  <2> QED BY <2>3, <2>4
<1>18. Reading /\ "repeat" \notin disturbed' => NoneBack(moved')
  <2>1. SUFFICES ASSUME Reading, "repeat" \notin disturbed',
                        NEW x \in Listed \ moved', NEW y \in Listed, Place(y)' <= Place(x)'
                 PROVE  Place(y) <= Place(x)
    BY <1>11 DEF NoneBack
  <2>2. x # i
    BY <1>16, <2>1
  <2>3. CASE y = i
    BY <1>11, <1>14, <1>15, <2>1, <2>2, <2>3
  <2>4. CASE y # i
    BY <1>11, <1>13, <2>1, <2>2, <2>4
  <2> QED BY <2>3, <2>4
<1> QED BY <1>8, <1>9, <1>11, <1>15, <1>16, <1>17, <1>18 DEF Changes, observed

\* Two neighbours change places, and no other row notices.
LEMMA SwapChanges == ASSUME ReaderInv, NEW k \in 1..Len(rows), Swap(k) PROVE Changes
<1>1. RowsFit /\ ReadingTyped /\ rows \in Seq(Row) /\ NoneTwice(rows)
  BY RowsAre DEF ReaderInv
<1> DEFINE L == Len(rows)
           a == rows[k]
           b == rows[k + 1]
<1>2. /\ k \in 1..(L - 1) /\ L \in Nat
      /\ rows' = [rows EXCEPT ![k] = b, ![k + 1] = a]
      /\ Move({a, b}) /\ UNCHANGED <<list, favorites, reading, disturbed>>
  BY <1>1 DEF Swap, lists
<1>3. k \in 1..L /\ k + 1 \in 1..L /\ a \in Row /\ b \in Row /\ DOMAIN rows = 1..L
  BY <1>1, <1>2
<1>4. rows' \in Seq(Row) /\ Len(rows') = L
  BY <1>1, <1>2, <1>3
<1> DEFINE Old(n) == IF n = k THEN k + 1 ELSE IF n = k + 1 THEN k ELSE n
<1>5. \A n \in 1..L : Old(n) \in 1..L /\ rows'[n] = rows[Old(n)]
  BY <1>1, <1>2, <1>3
<1>6. NoneTwice(rows')
  <2>1. SUFFICES ASSUME NEW m \in 1..L, NEW n \in 1..L, rows'[m] = rows'[n]
                 PROVE  m = n
    BY <1>4 DEF NoneTwice
  <2>2. Old(m) = Old(n)
    BY <1>1, <1>5, <2>1 DEF NoneTwice
  <2> QED BY <1>2, <2>2
<1>7. RowsFit'
  BY <1>1, <1>2, <1>4, <1>6 DEF RowsFit, NoneTwice
<1>8. /\ \A j \in Row, n \in 1..L : rows[n] = j => j \in ToSet(rows) /\ PlaceIn(rows, j) = n
      /\ \A j \in ToSet(rows) : j \in Row /\ PlaceIn(rows, j) \in 1..L /\ rows[PlaceIn(rows, j)] = j
  BY <1>1, PlaceInIs
<1>9. /\ \A j \in Row, n \in 1..L : rows'[n] = j => j \in ToSet(rows') /\ PlaceIn(rows', j) = n
      /\ \A j \in ToSet(rows') : j \in Row /\ PlaceIn(rows', j) \in 1..L /\ rows'[PlaceIn(rows', j)] = j
  BY <1>4, <1>6, PlaceInIs
<1>10. ASSUME NEW j \in ToSet(rows)
       PROVE  j \in ToSet(rows') /\ PlaceIn(rows', j) = Old(PlaceIn(rows, j))
  <2> DEFINE m == PlaceIn(rows, j)
  <2>1. j \in Row /\ m \in 1..L /\ rows[m] = j
    BY <1>8
  <2> HIDE DEF m
  <2>2. Old(m) \in 1..L /\ Old(Old(m)) = m
    BY <1>3, <2>1
  <2>3. rows'[Old(m)] = j
    BY <1>5, <2>1, <2>2
  <2> HIDE DEF Old
  <2>4. j \in ToSet(rows') /\ PlaceIn(rows', j) = Old(m)
    BY <1>9, <2>1, <2>2, <2>3
  <2> QED BY <2>4 DEF m
<1>11. \A j \in ToSet(rows') : j \in ToSet(rows)
  <2>1. SUFFICES ASSUME NEW j \in ToSet(rows')
                 PROVE  j \in ToSet(rows)
    OBVIOUS
  <2>2. PICK n \in 1..L : rows'[n] = j
    BY <1>9
  <2> QED BY <1>5, <1>8, <1>9, <2>2
<1>12. Listed' = Listed /\ Listed \subseteq ToSet(rows)
  <2>1. \A j : j \in ToSet(rows') <=> j \in ToSet(rows)
    BY <1>10, <1>11
  <2> QED BY <1>2, <2>1 DEF Listed, IsFavorite
<1>13. /\ moved \subseteq moved' /\ moved' \subseteq Row
       /\ Reading => a \in moved' /\ b \in moved'
       /\ ~Reading => moved' = moved
  BY <1>1, <1>2, <1>3 DEF Move, ReadingTyped
<1>14. \A j : Place(j) = PlaceIn(rows, j) /\ Place(j)' = PlaceIn(rows', j)
  BY DEF Place, PlaceIn
<1>15. ASSUME NEW x \in Listed, NEW y \in Listed, x # a, x # b
       PROVE  Place(y)' <= Place(x)' <=> Place(y) <= Place(x)
  <2>1. /\ PlaceIn(rows, x) \in 1..L /\ PlaceIn(rows, x) # k /\ PlaceIn(rows, x) # k + 1
        /\ PlaceIn(rows, y) \in 1..L
    BY <1>3, <1>8, <1>12, <1>15
  <2>2. PlaceIn(rows', x) = PlaceIn(rows, x) /\ PlaceIn(rows', y) = Old(PlaceIn(rows, y))
    BY <1>10, <1>12, <1>15, <2>1
  <2> QED BY <1>2, <1>14, <2>1, <2>2
<1>16. Reading => NoneForward(moved') /\ NoneBack(moved')
  BY <1>12, <1>13, <1>15 DEF NoneForward, NoneBack
<1> QED BY <1>1, <1>2, <1>7, <1>12, <1>13, <1>16 DEF Changes, observed, ReadingTyped

\* A toggle changes what is listed, not the order.
LEMMA SameRows ==
    ASSUME RowsFit, UNCHANGED <<list, rows>>, NEW those
    PROVE  RowsFit' /\ SameOrder(those)
BY DEF RowsFit, SameOrder, Place

LEMMA CreateChanges == ASSUME IInv, ReaderInv, NEW t \in Toggle, Create(t) PROVE Changes
<1>1. \A i \in Row : favorites[i] \in Nat /\ favorites'[i] \in Nat /\ favorites'[i] >= favorites[i]
  BY DEF IInv, TogglesTyped, Create
<1>2. UNCHANGED <<list, rows, reading, moved>> /\ Disturb({}) /\ RowsFit
  BY DEF Create, ReaderInv
<1>3. Listed \subseteq Listed'
  BY <1>1, <1>2, ListedFinite DEF Listed, IsFavorite
<1> QED BY <1>2, <1>3, SameRows, Grows

LEMMA DeleteChanges == ASSUME IInv, ReaderInv, NEW t \in Toggle, Delete(t) PROVE Changes
<1>1. \A i \in Row : favorites[i] \in Nat /\ favorites'[i] \in Nat /\ favorites'[i] <= favorites[i]
  BY DEF IInv, TogglesTyped, Delete
<1>2. UNCHANGED <<list, rows, reading, moved>> /\ Disturb({}) /\ RowsFit
  BY DEF Delete, ReaderInv
<1>3. ToSet(rows) \subseteq Row
  BY <1>2, PlaceIs
<1>4. Listed' \subseteq Listed
  BY <1>1, <1>2, <1>3 DEF Listed, IsFavorite
<1> QED BY <1>2, <1>4, SameRows, Shrinks

-----------------------------------------------------------------------------
(* The steps of the reader.                                                *)

\* A step that leaves the list and the reader alone.
LEMMA IdleReader ==
    ASSUME ReaderInv, UNCHANGED <<lists, reading, observed>>
    PROVE  ReaderInv'
<1>1. UNCHANGED <<list, rows, favorites, reader, page, totalPage, pages, began, disturbed, moved>>
  BY DEF lists, reading, observed
<1>2. RowsFit' /\ ReadingTyped'
  BY <1>1 DEF ReaderInv, RowsFit, ReadingTyped
<1>3. Shown' = Shown /\ Listed' = Listed /\ \A i : Rank(i)' = Rank(i)
  BY <1>1 DEF Shown, Listed, IsFavorite, Rank, Place
<1>4. ReaderFits'
  BY <1>1, <1>3 DEF ReaderInv, ReaderFits, Reading
<1>5. NothingSkipped' /\ ShownOnce'
  BY <1>1, <1>3 DEF ReaderInv, NothingSkipped, ShownOnce
<1> QED BY <1>2, <1>4, <1>5 DEF ReaderInv

LEMMA BeginReader == ASSUME ReaderInv, BeginReading PROVE ReaderInv'
<1>1. RowsFit /\ ReadingTyped /\ ReaderFits
  BY DEF ReaderInv
<1>2. /\ reader = "idle" /\ reader' = "count" /\ began' = Listed
      /\ UNCHANGED <<list, rows, favorites, page, totalPage, pages, disturbed, moved>>
  BY DEF BeginReading, lists, observed
<1>3. page = 1 /\ pages = <<>> /\ Shown = {}
  BY <1>1, <1>2 DEF ReaderFits, Shown
<1>4. Shown' = Shown /\ Listed' = Listed /\ \A i : Rank(i)' = Rank(i)
  BY <1>2 DEF Shown, Listed, IsFavorite, Rank, Place
<1>5. (page - 1) * PageSize = 0 /\ \A i \in Listed : Rank(i) > 0
  BY <1>1, <1>3, RankOrder, HistoryAssumption, ListedFinite
<1>6. RowsFit' /\ ReadingTyped'
  BY <1>1, <1>2, ListedFinite DEF RowsFit, ReadingTyped
<1>7. ReaderFits'
  BY <1>2, <1>3, <1>4, <1>5 DEF ReaderFits, Reading
<1>8. NothingSkipped' /\ ShownOnce'
  BY <1>2, <1>3 DEF NothingSkipped, ShownOnce
<1> QED BY <1>6, <1>7, <1>8 DEF ReaderInv

\* A page that begins before the end is one of the pages.
LEMMA PageExists ==
    ASSUME NEW k \in Nat \ {0}, NEW count \in Nat, k = 1 \/ (k - 1) * PageSize < count
    PROVE  k <= Pages(count)
<1> DEFINE p == Pages(count)
<1>1. p \in Nat \ {0} /\ count <= p * PageSize
  BY PagesEnough
<1> HIDE DEF p
<1>2. SUFFICES ASSUME k > p
               PROVE  FALSE
  BY <1>1 DEF p
<1>3. PICK d \in Nat : k - 1 = p + d
  <2>1. (k - 1) - p \in Nat /\ k - 1 = p + ((k - 1) - p)
    BY <1>1, <1>2
  <2> QED BY <2>1
<1>4. PageSize \in Nat /\ p * PageSize \in Nat /\ d * PageSize \in Nat
  BY <1>1, HistoryAssumption
<1>5. (k - 1) * PageSize = p * PageSize + d * PageSize
  BY <1>1, <1>3, <1>4
<1>6. k # 1
  BY <1>1, <1>2
<1> QED BY <1>1, <1>4, <1>5, <1>6

LEMMA CountReader == ASSUME ReaderInv, Count PROVE ReaderInv'
<1>1. RowsFit /\ ReadingTyped /\ ReaderFits /\ NothingSkipped /\ ShownOnce
  BY DEF ReaderInv
<1>2. PICK failed \in BOOLEAN :
        LET count == IF failed THEN 0 ELSE Cardinality(Listed)
            empty == count = 0 /\ list # "public"
        IN  /\ totalPage' = IF empty THEN 0 ELSE Pages(count)
            /\ reader' = IF empty THEN "done" ELSE "fetch"
            /\ disturbed' = disturbed \cup (IF failed THEN {"skip"} ELSE {})
  BY DEF Count
<1> DEFINE C == Cardinality(Listed)
           count == IF failed THEN 0 ELSE C
<1>3. C \in Nat /\ count \in Nat /\ Listed \subseteq Row /\ IsFiniteSet(Listed)
  BY <1>1, ListedFinite
<1>4. reader = "count" /\ UNCHANGED <<list, rows, favorites, page, pages, began, moved>>
  BY DEF Count, lists
<1>5. Shown' = Shown /\ Listed' = Listed /\ \A i : Rank(i)' = Rank(i)
  BY <1>4 DEF Shown, Listed, IsFavorite, Rank, Place
<1>6. RowsFit'
  BY <1>1, <1>4 DEF RowsFit
<1>7. Pages(count) \in Nat \ {0} /\ count <= Pages(count) * PageSize
      /\ (Pages(count) = 1 \/ (Pages(count) - 1) * PageSize < count)
  BY <1>3, PagesEnough
<1>8. ReadingTyped'
  BY <1>1, <1>2, <1>4, <1>7 DEF ReadingTyped
<1>9. "skip" \notin disturbed' => "skip" \notin disturbed /\ count = C
  BY <1>2
<1>10. "repeat" \notin disturbed' => "repeat" \notin disturbed
  BY <1>2
<1>11. ShownOnce'
  BY <1>1, <1>4, <1>10 DEF ShownOnce
<1>12. NothingSkipped'
  <2>1. SUFFICES ASSUME reader' = "done", "skip" \notin disturbed'
                 PROVE  began \ moved \subseteq Shown
    BY <1>4, <1>5 DEF NothingSkipped
  <2>2. C = 0
    BY <1>2, <1>9, <2>1
  <2>3. Listed = {}
    BY <1>3, <2>2, FS_EmptySet
  <2>4. began \subseteq Listed
    BY <1>1, <1>4, <1>9, <2>1 DEF ReaderFits, Reading
  <2> QED BY <2>3, <2>4
<1>13. ReaderFits'
  <2>1. ASSUME "skip" \notin disturbed'
        PROVE  /\ began \subseteq Listed
               /\ \A i \in began \ (Shown \cup moved) : Rank(i) > (page - 1) * PageSize
               /\ page = 1 \/ (page - 1) * PageSize < C
    BY <1>1, <1>4, <1>9, <2>1 DEF ReaderFits, Reading
  <2>2. ASSUME reader' = "fetch", "skip" \notin disturbed'
        PROVE  /\ page <= totalPage'
               /\ totalPage' = 1 \/ (totalPage' - 1) * PageSize < C
               /\ page = totalPage' => C <= page * PageSize
    <3>1. totalPage' = Pages(count) /\ count = C
      BY <1>2, <1>9, <2>2
    <3>2. page <= Pages(C)
      BY <1>1, <1>3, <2>1, <2>2, PageExists DEF ReadingTyped
    <3> QED BY <1>7, <3>1, <3>2
  <2>3. ASSUME "repeat" \notin disturbed'
        PROVE  \A i \in (Shown \cap Listed) \ moved : Rank(i) <= (page - 1) * PageSize
    BY <1>1, <1>4, <1>10, <2>3 DEF ReaderFits, Reading
  <2>4. reader' # "idle"
    BY <1>2
  <2> HIDE DEF C, count
  <2>5. C' = C
    BY <1>5 DEF C
  <2> QED BY <1>4, <1>5, <2>1, <2>2, <2>3, <2>4, <2>5 DEF ReaderFits, Reading, C
<1> QED BY <1>6, <1>8, <1>11, <1>12, <1>13 DEF ReaderInv

\* A page is shown: what is listed before it, up to its end, has then been shown,
\* and what it shows is new as long as nothing came.
LEMMA FetchReader == ASSUME ReaderInv, Fetch PROVE ReaderInv'
<1>1. RowsFit /\ ReadingTyped /\ ReaderFits /\ NothingSkipped /\ ShownOnce
  BY DEF ReaderInv
<1>2. reader = "fetch" /\ UNCHANGED <<list, rows, favorites, totalPage, began, disturbed, moved>>
  BY DEF Fetch, lists, observed
<1>3. RowsFit'
  BY <1>1, <1>2 DEF RowsFit
<1>4. CASE reader' = "failed" /\ UNCHANGED <<pages, page>>
  <2>1. ReadingTyped' /\ ReaderFits' /\ NothingSkipped' /\ ShownOnce'
    BY <1>1, <1>2, <1>4 DEF ReadingTyped, ReaderFits, Reading, NothingSkipped, ShownOnce
  <2> QED BY <1>3, <2>1 DEF ReaderInv
<1>5. CASE /\ pages' = Append(pages, OffsetLimit(page))
           /\ reader' = IF page < totalPage THEN "count" ELSE "done"
           /\ page' = IF page < totalPage THEN page + 1 ELSE page
  <2> DEFINE w == OffsetLimit(page)
             o == (page - 1) * PageSize
             e == page * PageSize
             C == Cardinality(Listed)
  <2>1. page \in Nat \ {0} /\ totalPage \in Nat
    BY <1>1 DEF ReadingTyped
  <2>2. o \in Nat /\ e \in Nat /\ e = o + PageSize /\ ((page + 1) - 1) * PageSize = e
        /\ PageSize \in Nat /\ C \in Nat
    BY <1>1, <2>1, Offsets, HistoryAssumption, ListedFinite
  <2>3. /\ w \in Seq(Listed) /\ Len(w) \in 0..PageSize
        /\ \A n \in 1..Len(w) : w[n] \in Listed /\ Rank(w[n]) = o + n
        /\ \A i \in Listed : Rank(i) > o /\ Rank(i) <= e => i \in ToSet(w)
    BY <1>1, <2>1, PageIs
  <2>4. \A i \in Listed : Rank(i) \in 1..C
    BY <1>1, RankOrder
  <2>5. Listed' = Listed /\ \A i : Rank(i)' = Rank(i)
    BY <1>2 DEF Listed, IsFavorite, Rank, Place
  <2>6. w \in Seq(Row)
    BY <1>1, <2>3, ListedFinite, SeqMonotonic
  <2> HIDE DEF w, o, e, C
  <2>7. /\ pages' \in Seq(Seq(Row)) /\ Len(pages') = Len(pages) + 1
        /\ \A k \in 1..Len(pages) : pages'[k] = pages[k]
        /\ pages'[Len(pages) + 1] = w /\ Len(pages) \in Nat
    BY <1>1, <1>5, <2>6, AppendProperties DEF ReadingTyped, w
  <2>8. ToSet(w) = {w[n] : n \in 1..Len(w)}
    BY <2>6 DEF ToSet
  <2>9. Shown' = Shown \cup ToSet(w)
    <3>1. \A k \in 1..Len(pages') : k \in 1..Len(pages) \/ k = Len(pages) + 1
      BY <2>7
    <3>2. Shown' = UNION {ToSet(pages'[k]) : k \in 1..Len(pages')}
      BY DEF Shown
    <3>3. 1..Len(pages') = 1..Len(pages) \cup {Len(pages) + 1}
      BY <2>7
    <3> QED BY <2>7, <3>2, <3>3 DEF Shown
  <2>10. page' \in Nat \ {0}
    BY <1>5, <2>1
  <2>11. ReadingTyped'
    <3>1. ASSUME NEW k \in 1..Len(pages')
          PROVE  Len(pages'[k]) <= PageSize
      <4>1. CASE k \in 1..Len(pages)
        BY <1>1, <2>7, <4>1 DEF ReadingTyped
      <4>2. CASE k = Len(pages) + 1
        BY <2>2, <2>3, <2>7, <4>2
      <4> QED BY <2>7, <4>1, <4>2
    <3>2. reader' \in {"count", "done"}
      BY <1>5
    <3> QED BY <1>1, <1>2, <2>7, <2>10, <3>1, <3>2 DEF ReadingTyped
  \* What is left lies behind this page.
  <2>12. ASSUME "skip" \notin disturbed
         PROVE  /\ began \subseteq Listed
                /\ \A i \in began \ (Shown' \cup moved) : Rank(i) > e
                /\ page <= totalPage
                /\ totalPage = 1 \/ (totalPage - 1) * PageSize < C
                /\ page = totalPage => C <= e
    <3>1. /\ began \subseteq Listed
          /\ \A i \in began \ (Shown \cup moved) : Rank(i) > o
          /\ page <= totalPage
          /\ totalPage = 1 \/ (totalPage - 1) * PageSize < C
          /\ page = totalPage => C <= e
      BY <1>1, <1>2, <2>12 DEF ReaderFits, Reading, o, e, C
    <3>2. \A i \in began \ (Shown' \cup moved) : Rank(i) > e
      BY <2>2, <2>3, <2>4, <2>9, <3>1
    <3> QED BY <3>1, <3>2
  <2>13. NothingSkipped'
    <3>1. SUFFICES ASSUME reader' = "done", "skip" \notin disturbed
                   PROVE  began \ moved \subseteq Shown'
      BY <1>2 DEF NothingSkipped
    <3>2. page = totalPage /\ C <= e
      BY <1>5, <2>1, <2>12, <3>1
    <3> QED BY <2>2, <2>4, <2>12, <3>1, <3>2
  <2>14. ASSUME "repeat" \notin disturbed
         PROVE  \A i \in (Shown \cap Listed) \ moved : Rank(i) <= o
    BY <1>1, <1>2, <2>14 DEF ReaderFits, Reading, o
  <2>15. ShownOnce'
    <3>1. SUFFICES ASSUME "repeat" \notin disturbed,
                          NEW k \in 1..Len(pages'), NEW l \in 1..Len(pages'),
                          NEW i \in 1..Len(pages'[k]), NEW j \in 1..Len(pages'[l]),
                          pages'[k][i] = pages'[l][j], pages'[k][i] \notin moved
                   PROVE  k = l /\ i = j
      BY <1>2 DEF ShownOnce
    <3>2. ASSUME NEW n \in 1..Len(pages), NEW a \in 1..Len(pages[n]), NEW b \in 1..Len(w),
                 pages[n][a] = w[b], w[b] \notin moved
          PROVE  FALSE
      <4>1. pages[n] \in Seq(Row)
        BY <1>1 DEF ReadingTyped
      <4>2. pages[n][a] \in ToSet(pages[n])
        BY <4>1 DEF ToSet
      <4>3. pages[n][a] \in Shown
        BY <4>2 DEF Shown
      <4>4. w[b] \in (Shown \cap Listed) \ moved /\ Rank(w[b]) = o + b
        BY <2>3, <3>2, <4>3
      <4> QED BY <2>2, <2>3, <2>14, <3>1, <4>4
    <3>3. CASE k \in 1..Len(pages) /\ l \in 1..Len(pages)
      <4>1. pages'[k] = pages[k] /\ pages'[l] = pages[l]
        BY <2>7, <3>3
      <4>2. \A x \in 1..Len(pages[k]), y \in 1..Len(pages[l]) :
                pages[k][x] = pages[l][y] /\ pages[k][x] \notin moved => k = l /\ x = y
        BY <1>1, <3>1, <3>3 DEF ShownOnce
      <4>3. /\ i \in 1..Len(pages[k]) /\ j \in 1..Len(pages[l])
            /\ pages[k][i] = pages[l][j] /\ pages[k][i] \notin moved
        BY <3>1, <4>1
      <4> QED BY <4>2, <4>3
    <3>4. CASE k \in 1..Len(pages) /\ l = Len(pages) + 1
      <4>1. /\ i \in 1..Len(pages[k]) /\ j \in 1..Len(w)
            /\ pages[k][i] = w[j] /\ w[j] \notin moved
        BY <2>7, <3>1, <3>4
      <4> QED BY <3>2, <3>4, <4>1
    <3>5. CASE k = Len(pages) + 1 /\ l \in 1..Len(pages)
      <4>1. /\ j \in 1..Len(pages[l]) /\ i \in 1..Len(w)
            /\ pages[l][j] = w[i] /\ w[i] \notin moved
        BY <2>7, <3>1, <3>5
      <4> QED BY <3>2, <3>5, <4>1
    <3>6. CASE k = Len(pages) + 1 /\ l = Len(pages) + 1
      <4>1. i \in 1..Len(w) /\ j \in 1..Len(w) /\ w[i] = w[j]
        BY <2>7, <3>1, <3>6
      <4>2. o + i = o + j
        BY <2>3, <4>1
      <4> QED BY <2>2, <2>3, <3>6, <4>1, <4>2
    <3> QED BY <2>7, <3>3, <3>4, <3>5, <3>6
  <2>16. ReaderFits'
    <3>1. ASSUME reader' \in {"count", "fetch"}
          PROVE  page < totalPage /\ reader' = "count" /\ page' = page + 1 /\ (page' - 1) * PageSize = e
      BY <1>5, <2>1, <2>2, <3>1
    <3>2. ASSUME reader' \in {"count", "fetch"}, "skip" \notin disturbed
          PROVE  e < C
      <4>1. PICK d \in Nat : totalPage - 1 = page + d
        <5>1. (totalPage - 1) - page \in Nat /\ totalPage - 1 = page + ((totalPage - 1) - page)
          BY <2>1, <3>1, <3>2
        <5> QED BY <5>1
      <4>2. (totalPage - 1) * PageSize = page * PageSize + d * PageSize /\ d * PageSize \in Nat
        BY <2>1, <2>2, <4>1
      <4>3. totalPage # 1
        BY <2>1, <3>1, <3>2
      <4> QED BY <2>2, <2>12, <3>2, <4>2, <4>3 DEF e
    <3>3. ASSUME "repeat" \notin disturbed
          PROVE  \A i \in (Shown' \cap Listed) \ moved : Rank(i) <= e
      <4>1. ASSUME NEW i \in Listed, i \in ToSet(w)
            PROVE  Rank(i) <= e
        BY <2>2, <2>3, <2>8, <4>1
      <4>2. ASSUME NEW i \in Listed \ moved, i \in Shown
            PROVE  Rank(i) <= e
        BY <2>2, <2>4, <2>14, <3>3, <4>2
      <4> QED BY <2>9, <4>1, <4>2
    <3>4. C' = C
      BY <2>5 DEF C
    <3>5. reader' # "idle"
      BY <1>5
    <3> QED BY <1>2, <2>5, <2>12, <3>1, <3>2, <3>3, <3>4, <3>5 DEF ReaderFits, Reading, C
  <2> QED BY <1>3, <2>11, <2>13, <2>15, <2>16 DEF ReaderInv
<1> QED BY <1>4, <1>5 DEF Fetch

LEMMA StepReader == ASSUME IInv, ReaderInv, [Next]_vars PROVE ReaderInv'
<1>1. ASSUME NEW i \in Row, Arrive(i) \/ Leave(i) \/ Rate(i)
      PROVE  ReaderInv'
  BY <1>1, ArriveChanges, LeaveChanges, RateChanges, ListReader
<1>2. ASSUME NEW k \in 1..Len(rows), Swap(k)
      PROVE  ReaderInv'
  BY <1>2, SwapChanges, ListReader
<1>3. ASSUME NEW t \in Toggle, BeginToggle(t) \/ Exist(t)
      PROVE  ReaderInv'
  BY <1>3, IdleReader DEF BeginToggle, Exist
<1>4. ASSUME NEW t \in Toggle, Delete(t) \/ Create(t)
      PROVE  ReaderInv'
  BY <1>4, DeleteChanges, CreateChanges, ListReader
<1>5. CASE UNCHANGED vars
  BY <1>5, IdleReader DEF vars
<1> QED BY <1>1, <1>2, <1>3, <1>4, <1>5, BeginReader, CountReader, FetchReader DEF Next

LEMMA ReaderInvariance == Spec => []ReaderInv
<1>1. Init => ReaderInv
  BY InitReader
<1>2. IInv /\ ReaderInv /\ [Next]_vars => ReaderInv'
  BY StepReader
<1> QED BY <1>1, <1>2, Invariance, PTL DEF Spec

-----------------------------------------------------------------------------
\* Every variable has its type, and no page is larger than it may be.
THEOREM TypeCorrect == Spec => []TypeOK
<1>1. IInv /\ ReaderInv => TypeOK
  BY DEF IInv, ReaderInv, TogglesTyped, RowsFit, ReadingTyped, TypeOK
<1> QED BY <1>1, Invariance, ReaderInvariance, PTL

\* A client that has read all pages has seen every row that was listed when it
\* began and kept its place, however many rows came meanwhile and wherever, unless a
\* row left or went back, a count failed, or the list grew between the last count
\* and the last page.
THEOREM SkippedCorrect == Spec => []NothingSkipped
<1>1. ReaderInv => NothingSkipped
  BY DEF ReaderInv
<1> QED BY <1>1, ReaderInvariance, PTL

\* It sees no row twice that kept its place, unless one was added or came forward,
\* for lists and pages of any size and however many rows a favourite has.
THEOREM ShownCorrect == Spec => []ShownOnce
<1>1. ReaderInv => ShownOnce
  BY DEF ReaderInv
<1> QED BY <1>1, ReaderInvariance, PTL

\* A toggle that overlaps no other one of its interview makes a favourite of what
\* is none and the reverse, whatever toggles before it have left behind.
THEOREM ToggleCorrect == Spec => LoneToggleInverts
<1>1. IInv /\ [Next]_vars =>
        [\A t \in alone : Busy(t) /\ toggle'[t] = "done" =>
            (favorites'[target[t]] > 0) # IsFavorite(target[t])]_vars
  BY StepInverts
<1> QED BY <1>1, Invariance, PTL DEF Spec, LoneToggleInverts
=============================================================================
