----------------------- MODULE PlayerMessagesTheorems -----------------------
(***************************************************************************)
(* Theorems about LobbyVector and PlayerMessages.  For any maxPlayers the  *)
(* vector stays sorted without two players of the same id, the loop over   *)
(* the indices finds the least free id, and the vector implements the list *)
(* of Seats.  And for bytes of any size, names, texts and lists up to what *)
(* their size fields hold, one side reads what the other has written.      *)
(***************************************************************************)
EXTENDS PlayerMessages, FiniteSetTheorems, FunctionTheorems, SequenceTheorems,
        WellFoundedInduction, TLAPS

\* Every non-empty set of natural numbers has a least element.
LEMMA LeastIndex ==
    ASSUME NEW T, T \subseteq Nat, T # {}
    PROVE  \E x \in T : \A y \in T : x <= y
<1>1. PICK x \in T : \A y \in T : ~ (<<y, x>> \in OpToRel(<, Nat))
  BY NatLessThanWellFounded, WFMin
<1>2. \A y \in T : ~(y < x)
  BY <1>1 DEF OpToRel
<1> QED
  BY <1>2

\* The values the vector has.
Vectors ==
    {ps \in Seq(Player) :
        /\ Len(ps) <= MaxPlayers
        /\ \A i, j \in DOMAIN ps : i < j => ps[i].id < ps[j].id}

\* The invariant says that the vector is one of them, and what follows.
LEMMA SortedIsVector == Sorted <=> players \in Vectors
BY DEF Sorted, TypeOK, Vectors, IdCompare

LEMMA VectorFacts ==
    ASSUME NEW ps \in Vectors
    PROVE  /\ ps \in Seq(Player) /\ Len(ps) \in Nat /\ Len(ps) <= MaxPlayers
           /\ DOMAIN ps = 1 .. Len(ps)
           /\ \A i \in 1 .. Len(ps) : /\ ps[i] \in Player
                                      /\ ps[i].id \in 0 .. MaxPlayers - 1
                                      /\ ps[i].id \in Nat
                                      /\ ps[i].connection \in Connections
           /\ \A i, j \in 1 .. Len(ps) : i < j => ps[i].id < ps[j].id
           /\ \A i, j \in 1 .. Len(ps) : ps[i].id = ps[j].id => i = j
<1>1. /\ ps \in Seq(Player) /\ Len(ps) \in Nat /\ Len(ps) <= MaxPlayers
      /\ DOMAIN ps = 1 .. Len(ps)
      /\ \A i, j \in 1 .. Len(ps) : i < j => ps[i].id < ps[j].id
  BY LenProperties DEF Vectors
<1>2. ASSUME NEW i \in 1 .. Len(ps)
      PROVE  /\ ps[i] \in Player
             /\ ps[i].id \in 0 .. MaxPlayers - 1
             /\ ps[i].id \in Nat
             /\ ps[i].connection \in Connections
  <2>1. ps[i] \in Player
    BY <1>1, ElementOfSeq
  <2> QED
    BY <2>1, VectorAssumption DEF Player
<1>3. ASSUME NEW i \in 1 .. Len(ps), NEW j \in 1 .. Len(ps), ps[i].id = ps[j].id
      PROVE  i = j
  <2>1. ~(i < j) /\ ~(j < i)
    BY <1>1, <1>2, <1>3
  <2> QED
    BY <1>1, <2>1
<1> QED
  BY <1>1, <1>2, <1>3

\* getNextPlayerId finds the least id that is free: the players before it have
\* the ids below it, those behind it have greater ones.
LEMMA NextPlayerIdFound ==
    ASSUME NEW ps \in Vectors
    PROVE  /\ GetNextPlayerId(ps) \in 0 .. Len(ps)
           /\ \A i \in 1 .. GetNextPlayerId(ps) : ps[i].id = i - 1
           /\ \A i \in GetNextPlayerId(ps) + 1 .. Len(ps) : ps[i].id > GetNextPlayerId(ps)
<1> DEFINE n == Len(ps)
<1>1. /\ n \in Nat /\ DOMAIN ps = 1 .. n
      /\ \A i \in 1 .. n : ps[i].id \in Nat
      /\ \A i, j \in 1 .. n : i < j => ps[i].id < ps[j].id
  BY VectorFacts
<1> HIDE DEF n
<1>2. CASE Gaps(ps) = {}
  <2>1. GetNextPlayerId(ps) = n
    BY <1>2 DEF GetNextPlayerId, n
  <2>2. \A i \in 1 .. n : ps[i].id = i - 1
    BY <1>1, <1>2 DEF Gaps
  <2> QED
    BY <1>1, <2>1, <2>2 DEF n
<1>3. CASE Gaps(ps) # {}
  <2> DEFINE m == CHOOSE i \in Gaps(ps) : \A j \in Gaps(ps) : i <= j
  <2>1. Gaps(ps) \subseteq 1 .. n
    BY <1>1 DEF Gaps
  <2>2. \E i \in Gaps(ps) : \A j \in Gaps(ps) : i <= j
    BY <1>1, <1>3, <2>1, LeastIndex, Gaps(ps) \subseteq Nat
  <2>3. m \in Gaps(ps) /\ \A j \in Gaps(ps) : m <= j
    BY <2>2
  <2>4. GetNextPlayerId(ps) = m - 1
    BY <1>3 DEF GetNextPlayerId
  <2> HIDE DEF m
  <2>5. m \in 1 .. n /\ m \in Nat /\ ps[m].id # m - 1
    BY <1>1, <2>1, <2>3 DEF Gaps
  <2>6. ASSUME NEW i \in 1 .. m - 1 PROVE ps[i].id = i - 1
    <3>1. i \in 1 .. n /\ ~(m <= i)
      BY <1>1, <2>5
    <3>2. i \notin Gaps(ps)
      BY <2>3, <3>1
    <3> QED
      BY <1>1, <3>1, <3>2 DEF Gaps
  <2>7. ps[m].id > m - 1
    <3>1. CASE m = 1
      BY <1>1, <2>5, <3>1
    <3>2. CASE m > 1
      <4>1. m - 1 \in 1 .. n /\ m - 1 \in 1 .. m - 1 /\ m - 1 < m
        BY <1>1, <2>5, <3>2
      <4>2. ps[m - 1].id = (m - 1) - 1 /\ ps[m - 1].id < ps[m].id
        BY <1>1, <2>5, <2>6, <4>1
      <4>3. ps[m].id \in Nat
        BY <1>1, <2>5
      <4> QED
        BY <2>5, <4>2, <4>3
    <3> QED
      BY <2>5, <3>1, <3>2
  <2>8. ASSUME NEW i \in m .. n PROVE ps[i].id > m - 1
    <3>1. i \in 1 .. n /\ (i = m \/ m < i)
      BY <1>1, <2>5
    <3>2. ps[i].id \in Nat /\ ps[m].id \in Nat /\ (m < i => ps[m].id < ps[i].id)
      BY <1>1, <2>5, <3>1
    <3> QED
      BY <2>5, <2>7, <3>1, <3>2
  <2>9. (m - 1) + 1 = m /\ m - 1 \in 0 .. n
    BY <1>1, <2>5
  <2> QED
    BY <2>4, <2>6, <2>8, <2>9 DEF n
<1> QED
  BY <1>2, <1>3

\* Entries from S, sorted; an id that belongs behind the first g of them; and the
\* entries with one more in that place.
Ascending(ps, S) ==
    /\ \A e \in S : e.id \in Nat
    /\ ps \in Seq(S)
    /\ \A i, j \in 1 .. Len(ps) : i < j => ps[i].id < ps[j].id
Behind(ps, g, id) ==
    /\ g \in 0 .. Len(ps)
    /\ \A i \in 1 .. g : ps[i].id < id
    /\ \A i \in g + 1 .. Len(ps) : ps[i].id > id
Inserted(ps, g, p) ==
    [k \in 1 .. Len(ps) + 1 |->
        IF k <= g THEN ps[k] ELSE IF k = g + 1 THEN p ELSE ps[k - 1]]

\* The sort puts an entry that was appended to sorted ones behind those with lower
\* ids and leaves the others as they were.
LEMMA SortInsertsEntry ==
    ASSUME NEW S, NEW ps, Ascending(ps, S), NEW p \in S, NEW g, Behind(ps, g, p.id)
    PROVE  Sort(Append(ps, p)) = Inserted(ps, g, p)
<1> DEFINE n == Len(ps)
           s == Append(ps, p)
           Ahead(i) == {j \in 1 .. n + 1 : Before(s, j, i)}
<1>1. /\ n \in Nat /\ DOMAIN ps = 1 .. n /\ ps \in Seq(S)
      /\ \A i \in 1 .. n : ps[i].id \in Nat
      /\ \A i, j \in 1 .. n : i < j => ps[i].id < ps[j].id
      /\ g \in Nat /\ g <= n
  <2>1. ps \in Seq(S)
    BY DEF Ascending
  <2>2. n \in Nat /\ DOMAIN ps = 1 .. n /\ \A i \in 1 .. n : ps[i] \in S
    BY <2>1, LenProperties, ElementOfSeq
  <2> QED
    BY <2>1, <2>2 DEF Ascending, Behind
<1>2. /\ s \in Seq(S) /\ Len(s) = n + 1 /\ DOMAIN s = 1 .. n + 1
      /\ \A i \in 1 .. n : s[i] = ps[i]
      /\ s[n + 1] = p
      /\ p.id \in Nat
  BY <1>1, AppendProperties, LenProperties DEF Ascending
<1> HIDE DEF n, s
<1>3. \A i, j \in 1 .. n : Before(s, j, i) <=> j < i
  <2> TAKE i, j \in 1 .. n
  <2>1. s[i] = ps[i] /\ s[j] = ps[j] /\ ps[i].id \in Nat /\ ps[j].id \in Nat
    BY <1>1, <1>2
  <2>2. /\ j < i => ps[j].id < ps[i].id
        /\ i < j => ps[i].id < ps[j].id
        /\ i \in Nat /\ j \in Nat
    BY <1>1
  <2> QED
    BY <2>1, <2>2 DEF Before, IdCompare
<1>4. /\ \A i \in 1 .. g : ~Before(s, n + 1, i) /\ Before(s, i, n + 1)
      /\ \A i \in g + 1 .. n : Before(s, n + 1, i) /\ ~Before(s, i, n + 1)
      /\ ~Before(s, n + 1, n + 1)
  <2>1. ASSUME NEW i \in 1 .. g PROVE ~Before(s, n + 1, i) /\ Before(s, i, n + 1)
    <3>1. i \in 1 .. n /\ ps[i].id < p.id
      BY <1>1 DEF Behind
    <3> QED
      BY <1>1, <1>2, <3>1 DEF Before, IdCompare
  <2>2. ASSUME NEW i \in g + 1 .. n PROVE Before(s, n + 1, i) /\ ~Before(s, i, n + 1)
    <3>1. i \in 1 .. n /\ ps[i].id > p.id
      BY <1>1 DEF Behind, n
    <3> QED
      BY <1>1, <1>2, <3>1 DEF Before, IdCompare
  <2>3. ~Before(s, n + 1, n + 1)
    BY <1>1, <1>2 DEF Before, IdCompare
  <2> QED
    BY <2>1, <2>2, <2>3
<1>11. ASSUME NEW i \in 1 .. n + 1 PROVE Places(s)[i] = Cardinality(Ahead(i)) + 1
  BY <1>2, Zenon DEF Places
<1>5. ASSUME NEW i \in 1 .. g PROVE Places(s)[i] = i
  <2>0. i \in 1 .. n /\ i \in 1 .. n + 1 /\ i \in Nat
    BY <1>1
  <2>1. Ahead(i) = 1 .. i - 1
    <3>1. ASSUME NEW j \in 1 .. n + 1 PROVE Before(s, j, i) <=> j < i
      <4>1. CASE j \in 1 .. n
        BY <1>3, <2>0, <4>1
      <4>2. CASE j = n + 1
        BY <1>1, <1>4, <2>0, <4>2
      <4> QED
        BY <1>1, <4>1, <4>2
    <3> QED
      BY <1>1, <2>0, <3>1
  <2>2. Cardinality(1 .. i - 1) = i - 1
    BY <2>0, FS_Interval
  <2> HIDE DEF Ahead
  <2> QED
    BY <1>11, <2>0, <2>1, <2>2
<1>6. ASSUME NEW i \in g + 1 .. n PROVE Places(s)[i] = i + 1
  <2>0. i \in 1 .. n /\ i \in 1 .. n + 1 /\ i \in Nat /\ i >= 1
    BY <1>1
  <2>1. Ahead(i) = (1 .. i - 1) \cup {n + 1}
    <3>1. ASSUME NEW j \in 1 .. n + 1 PROVE Before(s, j, i) <=> j < i \/ j = n + 1
      <4>1. CASE j \in 1 .. n
        BY <1>1, <1>3, <2>0, <4>1
      <4>2. CASE j = n + 1
        BY <1>4, <4>2
      <4> QED
        BY <1>1, <4>1, <4>2
    <3>2. \A j : j \in Ahead(i) => j \in (1 .. i - 1) \cup {n + 1}
      BY <1>1, <2>0, <3>1
    <3>3. \A j : j \in (1 .. i - 1) \cup {n + 1} => j \in 1 .. n + 1 /\ (j < i \/ j = n + 1)
      BY <1>1, <2>0
    <3> QED
      BY <3>1, <3>2, <3>3, Zenon
  <2>2. Cardinality(1 .. i - 1) = i - 1 /\ IsFiniteSet(1 .. i - 1)
    <3>1. i - 1 \in Int /\ 1 \in Int
      BY <2>0
    <3>2. /\ IsFiniteSet(1 .. i - 1)
          /\ Cardinality(1 .. i - 1) = IF 1 > i - 1 THEN 0 ELSE (i - 1) - 1 + 1
      BY <3>1, FS_Interval, Zenon
    <3> QED
      BY <2>0, <3>2
  <2>3. n + 1 \notin 1 .. i - 1
    BY <1>1
  <2>4. Cardinality((1 .. i - 1) \cup {n + 1}) = (i - 1) + 1
    BY <2>2, <2>3, FS_AddElement
  <2> HIDE DEF Ahead
  <2>5. Places(s)[i] = Cardinality(Ahead(i)) + 1
    BY <1>11, <2>0, Zenon
  <2> QED
    BY <2>0, <2>1, <2>4, <2>5
<1>7. Places(s)[n + 1] = g + 1
  <2>1. Ahead(n + 1) = 1 .. g
    BY <1>1, <1>4
  <2>2. Cardinality(1 .. g) = g
    BY <1>1, FS_Interval
  <2>3. n + 1 \in 1 .. n + 1
    BY <1>1
  <2> HIDE DEF Ahead
  <2> QED
    BY <1>11, <2>1, <2>2, <2>3
<1>8. ASSUME NEW k \in 1 .. n + 1
      PROVE  s[CHOOSE i \in 1 .. n + 1 : Places(s)[i] = k] =
                 IF k <= g THEN ps[k] ELSE IF k = g + 1 THEN p ELSE ps[k - 1]
  <2> DEFINE at == CHOOSE i \in 1 .. n + 1 : Places(s)[i] = k
             x == IF k <= g THEN k ELSE IF k = g + 1 THEN n + 1 ELSE k - 1
  <2>1. x \in 1 .. n + 1 /\ Places(s)[x] = k
    <3>1. CASE k <= g
      BY <1>1, <1>5, <3>1
    <3>2. CASE k = g + 1
      BY <1>1, <1>7, <3>2
    <3>3. CASE k > g + 1
      <4>1. k - 1 \in g + 1 .. n /\ x = k - 1
        BY <1>1, <3>3
      <4> QED
        BY <1>1, <1>6, <4>1
    <3> QED
      BY <1>1, <3>1, <3>2, <3>3
  <2>2. \A i \in 1 .. n + 1 : Places(s)[i] = k => i = x
    <3> TAKE i \in 1 .. n + 1
    <3> HAVE Places(s)[i] = k
    <3>1. i \in 1 .. g \/ i \in g + 1 .. n \/ i = n + 1
      BY <1>1
    <3> QED
      BY <1>1, <1>5, <1>6, <1>7, <3>1
  <2>3. at = x
    BY <2>1, <2>2
  <2> HIDE DEF at
  <2>4. s[x] = IF k <= g THEN ps[k] ELSE IF k = g + 1 THEN p ELSE ps[k - 1]
    BY <1>1, <1>2
  <2> QED
    BY <2>3, <2>4 DEF at
<1>9. Sort(s) = [k \in 1 .. n + 1 |-> s[CHOOSE i \in 1 .. n + 1 : Places(s)[i] = k]]
  BY <1>2 DEF Sort
<1>10. Sort(s) = [k \in 1 .. n + 1 |->
                     IF k <= g THEN ps[k] ELSE IF k = g + 1 THEN p ELSE ps[k - 1]]
  <2> DEFINE at(k) == CHOOSE i \in 1 .. n + 1 : Places(s)[i] = k
  <2>1. \A k \in 1 .. n + 1 :
            s[at(k)] = IF k <= g THEN ps[k] ELSE IF k = g + 1 THEN p ELSE ps[k - 1]
    BY <1>8
  <2>2. Sort(s) = [k \in 1 .. n + 1 |-> s[at(k)]]
    BY <1>9
  <2> HIDE DEF at
  <2> QED
    BY <2>1, <2>2
<1> QED
  BY <1>10 DEF n, s, Inserted

\* So it does with a player and the vector.
LEMMA SortInserts ==
    ASSUME NEW ps \in Vectors, NEW p \in Player, NEW g \in 0 .. Len(ps),
           \A i \in 1 .. g : ps[i].id < p.id,
           \A i \in g + 1 .. Len(ps) : ps[i].id > p.id
    PROVE  Sort(Append(ps, p)) =
               [k \in 1 .. Len(ps) + 1 |->
                   IF k <= g THEN ps[k] ELSE IF k = g + 1 THEN p ELSE ps[k - 1]]
<1>1. \A e \in Player : e.id \in Nat
  BY VectorAssumption DEF Player
<1>2. ps \in Seq(Player) /\ \A i, j \in 1 .. Len(ps) : i < j => ps[i].id < ps[j].id
  BY VectorFacts
<1>3. Ascending(ps, Player) /\ Behind(ps, g, p.id)
  BY <1>1, <1>2 DEF Ascending, Behind
<1>4. Sort(Append(ps, p)) = Inserted(ps, g, p)
  BY <1>3, SortInsertsEntry
<1> QED
  BY <1>4 DEF Inserted

\* erase closes the gap.
LEMMA RemoveAtErases ==
    ASSUME NEW ps \in Vectors, NEW x \in 1 .. Len(ps)
    PROVE  RemoveAt(ps, x) =
               [k \in 1 .. Len(ps) - 1 |-> IF k < x THEN ps[k] ELSE ps[k + 1]]
<1> DEFINE n == Len(ps)
           a == SubSeq(ps, 1, x - 1)
           b == SubSeq(ps, x + 1, n)
<1>1. /\ n \in Nat /\ ps \in Seq(Player) /\ x \in Nat /\ x >= 1 /\ x <= n
      /\ \A i \in 1 .. n : ps[i] \in Player
  BY VectorFacts
<1> HIDE DEF n
<1>2. /\ a \in Seq(Player) /\ Len(a) = x - 1
      /\ \A k \in 1 .. x - 1 : a[k] = ps[k]
  <2>1. \A i \in 1 .. x - 1 : ps[i] \in Player
    BY <1>1
  <2> QED
    BY <1>1, <2>1, SubSeqProperties
<1>3. /\ b \in Seq(Player) /\ Len(b) = n - x
      /\ \A k \in 1 .. n - x : b[k] = ps[k + x]
  <2>1. \A i \in x + 1 .. n : ps[i] \in Player
    BY <1>1
  <2> QED
    BY <1>1, <2>1, SubSeqProperties
<1> HIDE DEF a, b
<1>4. /\ a \o b \in Seq(Player) /\ Len(a \o b) = n - 1
      /\ \A k \in 1 .. n - 1 : (a \o b)[k] = IF k <= x - 1 THEN a[k] ELSE b[k - (x - 1)]
  <2>1. Len(a) + Len(b) = n - 1
    BY <1>1, <1>2, <1>3
  <2>2. /\ a \o b \in Seq(Player) /\ Len(a \o b) = Len(a) + Len(b)
        /\ \A k \in 1 .. Len(a) + Len(b) :
               (a \o b)[k] = IF k <= Len(a) THEN a[k] ELSE b[k - Len(a)]
    BY <1>2, <1>3, ConcatProperties, Zenon
  <2> QED
    BY <1>2, <2>1, <2>2, Zenon
<1>5. ASSUME NEW k \in 1 .. n - 1
      PROVE  (a \o b)[k] = IF k < x THEN ps[k] ELSE ps[k + 1]
  <2>1. CASE k < x
    BY <1>1, <1>2, <1>4, <2>1
  <2>2. CASE ~(k < x)
    <3>1. k - (x - 1) \in 1 .. n - x /\ (k - (x - 1)) + x = k + 1 /\ ~(k <= x - 1)
      BY <1>1, <2>2
    <3> QED
      BY <1>1, <1>3, <1>4, <2>2, <3>1
  <2> QED
    BY <2>1, <2>2
<1>6. DOMAIN (a \o b) = 1 .. n - 1 /\ a \o b \in [1 .. n - 1 -> Player]
  BY <1>4, LenProperties
<1>7. RemoveAt(ps, x) = a \o b
  BY DEF RemoveAt, a, b, n
<1> QED
  BY <1>5, <1>6, <1>7 DEF n

\* getPlayerIndexById finds the player with an id, or nobody if there is none.
LEMMA LookupFinds ==
    ASSUME NEW ps \in Vectors, NEW id
    PROVE  /\ GetPlayerIndexById(ps, id) \in 1 .. Len(ps) + 1
           /\ GetPlayerIndexById(ps, id) <= Len(ps) => ps[GetPlayerIndexById(ps, id)].id = id
           /\ (\E i \in 1 .. Len(ps) : ps[i].id = id) => GetPlayerIndexById(ps, id) <= Len(ps)
<1> DEFINE n == Len(ps)
           With == {i \in 1 .. n : ps[i].id = id}
           Found(i) == /\ i <= n => ps[i].id = id
                       /\ \A j \in 1 .. i - 1 : ps[j].id # id
<1>1. n \in Nat
  BY VectorFacts
<1> HIDE DEF n
<1>2. \E i \in 1 .. n + 1 : Found(i)
  <2>1. CASE With = {}
    <3>1. Found(n + 1) /\ n + 1 \in 1 .. n + 1
      BY <1>1, <2>1
    <3> QED
      BY <3>1
  <2>2. CASE With # {}
    <3>1. PICK i \in With : \A j \in With : i <= j
      BY <1>1, <2>2, LeastIndex, With \subseteq Nat
    <3>2. i \in 1 .. n /\ i \in 1 .. n + 1 /\ ps[i].id = id
      BY <1>1, <3>1
    <3>3. ASSUME NEW j \in 1 .. i - 1 PROVE ps[j].id # id
      <4>1. j \in 1 .. n /\ ~(i <= j)
        BY <1>1, <3>2
      <4> QED
        BY <3>1, <4>1
    <3> QED
      BY <3>2, <3>3
  <2> QED
    BY <2>1, <2>2
<1> DEFINE x == CHOOSE i \in 1 .. n + 1 : Found(i)
<1>3. x \in 1 .. n + 1 /\ Found(x)
  BY <1>2
<1>4. GetPlayerIndexById(ps, id) = x
  BY DEF GetPlayerIndexById, n
<1> HIDE DEF x
<1>5. ASSUME NEW i \in 1 .. n, ps[i].id = id PROVE x <= n
  <2>1. i \notin 1 .. x - 1
    BY <1>3, <1>5
  <2> QED
    BY <1>1, <1>3, <2>1
<1> QED
  BY <1>3, <1>4, <1>5 DEF n

\* The list that a vector denotes has its players, each under his id.
LEMMA DenotesPlayers ==
    ASSUME NEW ps \in Vectors
    PROVE  /\ DOMAIN Denotes(ps) = {ps[i].id : i \in 1 .. Len(ps)}
           /\ \A i \in 1 .. Len(ps) : Denotes(ps)[ps[i].id] = ps[i].connection
           /\ IsFiniteSet(DOMAIN Denotes(ps))
           /\ Cardinality(DOMAIN Denotes(ps)) = Len(ps)
<1> DEFINE n == Len(ps)
           ids == {ps[i].id : i \in 1 .. n}
<1>1. /\ n \in Nat /\ DOMAIN ps = 1 .. n
      /\ \A i, j \in 1 .. n : ps[i].id = ps[j].id => i = j
  BY VectorFacts
<1> HIDE DEF n
<1>2. DOMAIN Denotes(ps) = ids
  BY <1>1 DEF Denotes
<1>3. ASSUME NEW i \in 1 .. n PROVE Denotes(ps)[ps[i].id] = ps[i].connection
  <2> DEFINE at == CHOOSE j \in 1 .. n : ps[j].id = ps[i].id
  <2>1. at = i
    BY <1>1
  <2>2. ps[i].id \in ids
    OBVIOUS
  <2>3. Denotes(ps)[ps[i].id] = ps[at].connection
    BY <1>1, <2>2 DEF Denotes
  <2> QED
    BY <2>1, <2>3
<1>4. IsFiniteSet(ids) /\ Cardinality(ids) = n
  <2> DEFINE f == [i \in 1 .. n |-> ps[i].id]
  <2>1. f \in [1 .. n -> ids]
    OBVIOUS
  <2>2. \A a, b \in 1 .. n : f[a] = f[b] => a = b
    BY <1>1
  <2>3. \A t \in ids : \E i \in 1 .. n : f[i] = t
    OBVIOUS
  <2> HIDE DEF f
  <2>4. f \in Bijection(1 .. n, ids)
    BY <2>1, <2>2, <2>3, Fun_IsBij
  <2>5. ExistsBijection(1 .. n, ids)
    BY <2>4 DEF ExistsBijection
  <2>6. IsFiniteSet(1 .. n)
    BY <1>1, FS_Interval
  <2> HIDE DEF ids
  <2> QED
    BY <1>1, <2>5, <2>6, FS_Bijection, FS_CountingElements
<1> QED
  BY <1>2, <1>3, <1>4 DEF n

\* A list with the players of a vector, each under his id, is what it denotes.
LEMMA DenotesThis ==
    ASSUME NEW ps \in Vectors, NEW R,
           R = [id \in DOMAIN R |-> R[id]],
           DOMAIN R = {ps[i].id : i \in 1 .. Len(ps)},
           \A i \in 1 .. Len(ps) : R[ps[i].id] = ps[i].connection
    PROVE  Denotes(ps) = R
<1>1. /\ DOMAIN Denotes(ps) = {ps[i].id : i \in 1 .. Len(ps)}
      /\ \A i \in 1 .. Len(ps) : Denotes(ps)[ps[i].id] = ps[i].connection
  BY DenotesPlayers
<1>2. Denotes(ps) = [id \in DOMAIN Denotes(ps) |-> Denotes(ps)[id]]
  BY DEF Denotes
<1>3. ASSUME NEW id \in DOMAIN R PROVE Denotes(ps)[id] = R[id]
  <2>1. PICK i \in 1 .. Len(ps) : id = ps[i].id
    OBVIOUS
  <2> QED
    BY <1>1, <2>1
<1> QED
  BY <1>1, <1>2, <1>3, Zenon

\* The players below the least free id are all there, so it is the id that the
\* abstract list gives to a new player.
LEMMA LeastFreeId ==
    ASSUME NEW ps \in Vectors
    PROVE  /\ GetNextPlayerId(ps) \notin DOMAIN Denotes(ps)
           /\ Abstract!NextPlayerId(Denotes(ps)) = GetNextPlayerId(ps)
<1> DEFINE n == Len(ps)
           g == GetNextPlayerId(ps)
           D == DOMAIN Denotes(ps)
<1>1. /\ n \in Nat /\ n <= MaxPlayers /\ MaxPlayers \in Nat
      /\ g \in 0 .. n
      /\ \A i \in 1 .. g : ps[i].id = i - 1
      /\ \A i \in g + 1 .. n : ps[i].id > g
      /\ D = {ps[i].id : i \in 1 .. n}
  BY VectorFacts, NextPlayerIdFound, DenotesPlayers, VectorAssumption
<1> HIDE DEF n, g, D
<1>2. g \notin D
  <2> SUFFICES ASSUME NEW i \in 1 .. n, ps[i].id = g PROVE FALSE
    BY <1>1
  <2>1. i \in 1 .. g \/ i \in g + 1 .. n
    BY <1>1
  <2> QED
    BY <1>1, <2>1
<1>3. ASSUME NEW j \in 0 .. g - 1 PROVE j \in D
  <2>1. j + 1 \in 1 .. g /\ j + 1 \in 1 .. n /\ (j + 1) - 1 = j
    BY <1>1
  <2>2. ps[j + 1].id = j
    BY <1>1, <2>1
  <2> QED
    BY <1>1, <2>1, <2>2
<1> DEFINE Least(i) == i \notin D /\ \A j \in 0 .. (i - 1) : j \in D
<1>4. g \in 0 .. MaxPlayers /\ Least(g)
  BY <1>1, <1>2, <1>3
<1>5. ASSUME NEW i \in 0 .. MaxPlayers, Least(i) PROVE i = g
  <2>1. ~(i \in 0 .. g - 1) /\ ~(g \in 0 .. i - 1)
    BY <1>2, <1>3, <1>5
  <2> QED
    BY <1>1, <2>1
<1>6. (CHOOSE i \in 0 .. MaxPlayers : Least(i)) = g
  BY <1>4, <1>5
<1> QED
  BY <1>2, <1>6 DEF g, D, Abstract!NextPlayerId

\* addPlayer leaves a vector with one player more, who has the least free id.
LEMMA AddPlayerAdds ==
    ASSUME NEW ps \in Vectors, Len(ps) < MaxPlayers, NEW c \in Connections,
           NEW qs,
           qs = Sort(Append(ps, [id |-> GetNextPlayerId(ps), connection |-> c]))
    PROVE  /\ qs \in Vectors
           /\ Denotes(qs) = Abstract!AddPlayer(Denotes(ps), c)
<1> DEFINE n == Len(ps)
           g == GetNextPlayerId(ps)
           p == [id |-> g, connection |-> c]
           Q(k) == IF k <= g THEN ps[k] ELSE IF k = g + 1 THEN p ELSE ps[k - 1]
<1>1. /\ n \in Nat /\ n < MaxPlayers /\ MaxPlayers \in Nat
      /\ g \in 0 .. n
      /\ \A i \in 1 .. g : ps[i].id = i - 1
      /\ \A i \in g + 1 .. n : ps[i].id > g
      /\ \A i \in 1 .. n : ps[i] \in Player /\ ps[i].id \in Nat
      /\ \A i, j \in 1 .. n : i < j => ps[i].id < ps[j].id
  BY VectorFacts, NextPlayerIdFound, VectorAssumption
<1>2. p \in Player /\ p.id = g /\ p.connection = c
  BY <1>1 DEF Player
<1>3. qs = [k \in 1 .. n + 1 |-> Q(k)]
  <2>1. \A i \in 1 .. g : ps[i].id < p.id
    BY <1>1
  <2>2. \A i \in g + 1 .. n : ps[i].id > p.id
    BY <1>1
  <2> HIDE DEF p
  <2> QED
    BY <1>1, <1>2, <2>1, <2>2, SortInserts DEF p
<1> HIDE DEF n, g, p
<1>4. /\ \A k \in 1 .. g : k \in 1 .. n + 1 /\ Q(k) = ps[k]
      /\ g + 1 \in 1 .. n + 1 /\ Q(g + 1) = p
      /\ \A k \in g + 2 .. n + 1 : /\ k \in 1 .. n + 1
                                   /\ k - 1 \in g + 1 .. n
                                   /\ Q(k) = ps[k - 1]
      /\ \A k \in 1 .. n + 1 : k \in 1 .. g \/ k = g + 1 \/ k \in g + 2 .. n + 1
  BY <1>1
<1>5. \A k \in 1 .. n + 1 : qs[k] = Q(k)
  BY <1>3
<1> HIDE DEF Q
<1>6. \A k \in 1 .. n + 1 : qs[k] \in Player
  <2> TAKE k \in 1 .. n + 1
  <2>1. \A i \in 1 .. g : i \in 1 .. n
    BY <1>1
  <2>2. \A i \in g + 1 .. n : i \in 1 .. n
    BY <1>1
  <2> QED
    <3>1. CASE k \in 1 .. g
      BY <1>1, <1>4, <1>5, <2>1, <3>1
    <3>2. CASE k = g + 1
      BY <1>2, <1>4, <1>5, <3>2
    <3>3. CASE k \in g + 2 .. n + 1
      BY <1>1, <1>4, <1>5, <2>2, <3>3
    <3> QED
      BY <1>4, <3>1, <3>2, <3>3
<1>7. qs \in Seq(Player) /\ Len(qs) = n + 1 /\ DOMAIN qs = 1 .. n + 1
  <2>1. DOMAIN qs = 1 .. n + 1 /\ qs = [k \in 1 .. n + 1 |-> qs[k]]
    BY <1>3
  <2>2. qs \in [1 .. n + 1 -> Player]
    BY <1>6, <2>1
  <2>3. n + 1 \in Nat
    BY <1>1
  <2>4. qs \in Seq(Player)
    BY <2>2, <2>3, SeqDef
  <2> QED
    BY <2>1, <2>3, <2>4, LenProperties
<1>8. ASSUME NEW i \in 1 .. n + 1, NEW j \in 1 .. n + 1, i < j
      PROVE  qs[i].id < qs[j].id
  <2>1. CASE i \in 1 .. g
    <3>1. qs[i].id = i - 1 /\ qs[i] = ps[i] /\ i \in 1 .. n
      BY <1>1, <1>4, <1>5, <2>1
    <3>2. CASE j \in 1 .. g
      <4>1. qs[j].id = j - 1
        BY <1>1, <1>4, <1>5, <3>2
      <4> QED
        BY <1>8, <3>1, <4>1
    <3>3. CASE j = g + 1
      <4>1. qs[j].id = g
        BY <1>2, <1>4, <1>5, <3>3
      <4> QED
        BY <1>1, <2>1, <3>1, <4>1
    <3>4. CASE j \in g + 2 .. n + 1
      <4>1. qs[j] = ps[j - 1] /\ j - 1 \in g + 1 .. n
        BY <1>4, <1>5, <3>4
      <4>2. ps[j - 1].id > g /\ ps[j - 1].id \in Nat
        BY <1>1, <4>1
      <4> QED
        BY <1>1, <2>1, <3>1, <4>1, <4>2
    <3> QED
      BY <1>4, <3>2, <3>3, <3>4
  <2>2. CASE i = g + 1
    <3>1. j \in g + 2 .. n + 1
      BY <1>1, <1>8, <2>2
    <3>2. qs[i].id = g
      BY <1>2, <1>4, <1>5, <2>2
    <3>3. qs[j] = ps[j - 1] /\ j - 1 \in g + 1 .. n
      BY <1>4, <1>5, <3>1
    <3>4. ps[j - 1].id > g /\ ps[j - 1].id \in Nat
      BY <1>1, <3>3
    <3> QED
      BY <1>1, <3>2, <3>3, <3>4
  <2>3. CASE i \in g + 2 .. n + 1
    <3>1. j \in g + 2 .. n + 1
      BY <1>1, <1>8, <2>3
    <3>2. qs[i] = ps[i - 1] /\ qs[j] = ps[j - 1]
      BY <1>4, <1>5, <2>3, <3>1
    <3>3. i - 1 \in 1 .. n /\ j - 1 \in 1 .. n /\ i - 1 < j - 1
      BY <1>1, <1>8, <2>3, <3>1
    <3> QED
      BY <1>1, <3>2, <3>3
  <2> QED
    BY <1>4, <2>1, <2>2, <2>3
<1>9. qs \in Vectors
  <2>1. n + 1 <= MaxPlayers
    BY <1>1
  <2> QED
    BY <1>7, <1>8, <2>1 DEF Vectors
<1>10. Denotes(qs) = Abstract!AddPlayer(Denotes(ps), c)
  <2> DEFINE R == Denotes(ps)
             S == Abstract!AddPlayer(R, c)
  <2>1. S = [i \in DOMAIN R \cup {g} |-> IF i = g THEN c ELSE R[i]]
    BY LeastFreeId DEF Abstract!AddPlayer, g
  <2>2. g \notin DOMAIN R
    BY LeastFreeId DEF g
  <2>3. /\ DOMAIN R = {ps[i].id : i \in 1 .. n}
        /\ \A i \in 1 .. n : R[ps[i].id] = ps[i].connection
    BY DenotesPlayers DEF n
  <2> HIDE DEF R, S
  <2>4. DOMAIN S = DOMAIN R \cup {g} /\ S = [i \in DOMAIN S |-> S[i]]
    BY <2>1
  <2>5. \A k \in 1 .. n + 1 : \/ qs[k] = p
                              \/ \E i \in 1 .. n : qs[k] = ps[i]
    <3>1. \A i \in 1 .. g : i \in 1 .. n
      BY <1>1
    <3>2. \A i \in g + 1 .. n : i \in 1 .. n
      BY <1>1
    <3> QED
      BY <1>4, <1>5, <3>1, <3>2, Zenon
  <2>6. /\ \E k \in 1 .. n + 1 : qs[k] = p
        /\ \A i \in 1 .. n : \E k \in 1 .. n + 1 : qs[k] = ps[i]
    <3>1. qs[g + 1] = p
      BY <1>4, <1>5
    <3>2. ASSUME NEW i \in 1 .. n PROVE \E k \in 1 .. n + 1 : qs[k] = ps[i]
      <4>1. CASE i \in 1 .. g
        BY <1>4, <1>5, <4>1
      <4>2. CASE i \in g + 1 .. n
        <5>1. i + 1 \in g + 2 .. n + 1 /\ (i + 1) - 1 = i
          BY <1>1, <4>2
        <5>2. qs[i + 1] = ps[(i + 1) - 1] /\ i + 1 \in 1 .. n + 1
          BY <1>4, <1>5, <5>1
        <5> QED
          BY <5>1, <5>2
      <4> QED
        BY <1>1, <4>1, <4>2
    <3> QED
      BY <1>4, <3>1, <3>2
  <2>7. DOMAIN S = {qs[k].id : k \in 1 .. n + 1}
    <3>1. ASSUME NEW k \in 1 .. n + 1 PROVE qs[k].id \in DOMAIN S
      BY <1>2, <2>3, <2>4, <2>5
    <3>2. ASSUME NEW x \in DOMAIN S PROVE \E k \in 1 .. n + 1 : qs[k].id = x
      <4>1. CASE x = g
        BY <1>2, <2>6, <4>1
      <4>2. CASE x \in DOMAIN R
        BY <2>3, <2>6, <4>2
      <4> QED
        BY <2>4, <4>1, <4>2
    <3> QED
      BY <3>1, <3>2
  <2>8. ASSUME NEW k \in 1 .. n + 1 PROVE S[qs[k].id] = qs[k].connection
    <3>1. CASE qs[k] = p
      <4>1. qs[k].id = g /\ qs[k].connection = c /\ g \in DOMAIN S
        BY <1>2, <2>4, <3>1
      <4> QED
        BY <2>1, <2>4, <4>1
    <3>2. ASSUME NEW i \in 1 .. n, qs[k] = ps[i] PROVE S[qs[k].id] = qs[k].connection
      <4>1. ps[i].id \in DOMAIN R /\ ps[i].id # g
        BY <2>2, <2>3
      <4>2. S[ps[i].id] = R[ps[i].id]
        BY <2>1, <4>1
      <4> QED
        BY <2>3, <3>2, <4>2
    <3> QED
      BY <2>5, <3>1, <3>2
  <2>9. Len(qs) = n + 1
    BY <1>7
  <2> QED
    BY <1>9, <2>4, <2>7, <2>8, <2>9, DenotesThis DEF R, S
<1> QED
  BY <1>9, <1>10

\* removePlayer leaves a vector without the player.
LEMMA RemoveAtRemoves ==
    ASSUME NEW ps \in Vectors, NEW x \in 1 .. Len(ps), NEW id, ps[x].id = id
    PROVE  /\ RemoveAt(ps, x) \in Vectors
           /\ Denotes(RemoveAt(ps, x)) = Abstract!RemovePlayer(Denotes(ps), id)
<1> DEFINE n == Len(ps)
           qs == RemoveAt(ps, x)
           From(k) == IF k < x THEN k ELSE k + 1
<1>1. /\ n \in Nat /\ n <= MaxPlayers /\ MaxPlayers \in Nat
      /\ x \in 1 .. n
      /\ \A i \in 1 .. n : ps[i] \in Player
      /\ \A i, j \in 1 .. n : i < j => ps[i].id < ps[j].id
      /\ \A i, j \in 1 .. n : ps[i].id = ps[j].id => i = j
  BY VectorFacts, VectorAssumption
<1>2. qs = [k \in 1 .. n - 1 |-> IF k < x THEN ps[k] ELSE ps[k + 1]]
  BY RemoveAtErases
<1> HIDE DEF n, qs
<1>3. \A k \in 1 .. n - 1 : /\ From(k) \in 1 .. n
                            /\ From(k) # x
                            /\ qs[k] = ps[From(k)]
  BY <1>1, <1>2
<1>4. \A i, j \in 1 .. n - 1 : i < j => From(i) < From(j)
  BY <1>1
<1>5. \A i \in 1 .. n : i # x => \E k \in 1 .. n - 1 : From(k) = i
  <2> TAKE i \in 1 .. n
  <2> HAVE i # x
  <2>1. CASE i < x
    <3>1. i \in 1 .. n - 1 /\ From(i) = i
      BY <1>1, <2>1
    <3> QED
      BY <3>1
  <2>2. CASE i > x
    <3>1. i - 1 \in 1 .. n - 1 /\ From(i - 1) = i
      BY <1>1, <2>2
    <3> QED
      BY <3>1
  <2> QED
    BY <1>1, <2>1, <2>2
<1> HIDE DEF From
<1>6. qs \in Seq(Player) /\ Len(qs) = n - 1 /\ DOMAIN qs = 1 .. n - 1
  <2>1. DOMAIN qs = 1 .. n - 1 /\ qs = [k \in 1 .. n - 1 |-> qs[k]]
    BY <1>2
  <2>2. \A k \in 1 .. n - 1 : qs[k] \in Player
    BY <1>1, <1>3
  <2>3. qs \in [1 .. n - 1 -> Player]
    BY <2>1, <2>2
  <2>4. n - 1 \in Nat
    BY <1>1
  <2>5. qs \in Seq(Player)
    BY <2>3, <2>4, SeqDef
  <2> QED
    BY <2>1, <2>4, <2>5, LenProperties
<1>7. qs \in Vectors
  <2>1. n - 1 <= MaxPlayers
    BY <1>1
  <2>2. \A i, j \in 1 .. n - 1 : i < j => qs[i].id < qs[j].id
    BY <1>1, <1>3, <1>4
  <2> QED
    BY <1>6, <2>1, <2>2 DEF Vectors
<1>8. Denotes(qs) = Abstract!RemovePlayer(Denotes(ps), id)
  <2> DEFINE R == Denotes(ps)
             S == Abstract!RemovePlayer(R, id)
  <2>1. S = [i \in DOMAIN R \ {id} |-> R[i]]
    BY DEF Abstract!RemovePlayer
  <2>2. /\ DOMAIN R = {ps[i].id : i \in 1 .. n}
        /\ \A i \in 1 .. n : R[ps[i].id] = ps[i].connection
    BY DenotesPlayers DEF n
  <2> HIDE DEF R, S
  <2>3. DOMAIN S = DOMAIN R \ {id} /\ S = [i \in DOMAIN S |-> S[i]]
    BY <2>1
  <2>4. DOMAIN S = {qs[k].id : k \in 1 .. n - 1}
    <3>1. ASSUME NEW k \in 1 .. n - 1 PROVE qs[k].id \in DOMAIN S
      BY <1>1, <1>3, <2>2, <2>3
    <3>2. ASSUME NEW y \in DOMAIN S PROVE \E k \in 1 .. n - 1 : qs[k].id = y
      <4>1. PICK i \in 1 .. n : y = ps[i].id
        BY <2>2, <2>3
      <4>2. i # x
        BY <2>3, <4>1
      <4> QED
        BY <1>3, <1>5, <4>1, <4>2
    <3> QED
      BY <3>1, <3>2
  <2>5. ASSUME NEW k \in 1 .. n - 1 PROVE S[qs[k].id] = qs[k].connection
    <3>1. qs[k].id \in DOMAIN S
      BY <2>4
    <3>2. S[qs[k].id] = R[qs[k].id]
      BY <2>1, <2>3, <3>1
    <3> QED
      BY <1>3, <2>2, <3>2
  <2>6. Len(qs) = n - 1
    BY <1>6
  <2> QED
    BY <1>7, <2>3, <2>4, <2>5, <2>6, DenotesThis DEF R, S
<1> QED
  BY <1>7, <1>8 DEF qs

\* A step of Next on a vector in terms of the abstract list.
LEMMA StepOnVector ==
    ASSUME players \in Vectors, Next
    PROVE  players' \in Vectors /\ Abstract!Next
<1>1. ASSUME NEW c \in Connections, AddPlayer(c)
      PROVE  players' \in Vectors /\ Abstract!Enter(c)
  <2>1. /\ Len(players) < MaxPlayers
        /\ players' = Sort(Append(players, [id |-> GetNextPlayerId(players),
                                            connection |-> c]))
    BY <1>1 DEF AddPlayer
  <2>2. /\ players' \in Vectors
        /\ Denotes(players') = Abstract!AddPlayer(Denotes(players), c)
    BY <2>1, AddPlayerAdds
  <2>3. Abstract!CanJoin(Denotes(players), FALSE)
    <3>1. Abstract!Cardinality(DOMAIN Denotes(players)) = Cardinality(DOMAIN Denotes(players))
      BY DEF Abstract!Cardinality, Cardinality
    <3> QED
      BY <2>1, <3>1, DenotesPlayers DEF Abstract!CanJoin, Abstract!Size
  <2> QED
    BY <2>2, <2>3 DEF Abstract!Enter
<1>2. ASSUME NEW id \in 0 .. MaxPlayers - 1, RemovePlayer(id)
      PROVE  players' \in Vectors /\ Abstract!Leave(id)
  <2> DEFINE x == GetPlayerIndexById(players, id)
  <2>1. x <= Len(players) /\ players' = RemoveAt(players, x)
    BY <1>2 DEF RemovePlayer
  <2>2. x \in 1 .. Len(players) + 1 /\ players[x].id = id
    BY <2>1, LookupFinds
  <2>3. x \in 1 .. Len(players)
    BY <2>1, <2>2, VectorFacts
  <2> HIDE DEF x
  <2>4. /\ players' \in Vectors
        /\ Denotes(players') = Abstract!RemovePlayer(Denotes(players), id)
    BY <2>1, <2>2, <2>3, RemoveAtRemoves
  <2>5. id \in DOMAIN Denotes(players)
    BY <2>2, <2>3, DenotesPlayers
  <2> QED
    BY <2>4, <2>5 DEF Abstract!Leave
<1> QED
  BY <1>1, <1>2 DEF Next, Abstract!Next, Abstract!Ids

\* A new lobby has a vector without players.
LEMMA InitOnVector ==
    ASSUME Init
    PROVE  players \in Vectors /\ Abstract!Init
<1>1. players = <<>> /\ Len(players) = 0 /\ DOMAIN players = {}
  BY DEF Init
<1>2. players \in Vectors
  BY <1>1, VectorAssumption DEF Vectors
<1>3. Denotes(players) = Abstract!EmptyRoster
  BY <1>1 DEF Denotes, Abstract!EmptyRoster
<1> QED
  BY <1>2, <1>3 DEF Abstract!Init

\* In every lobby, whatever its size, the players stay sorted by id, no id is
\* there twice and none is greater than maxPlayers - 1.
THEOREM StaysSorted == Spec => []Sorted
<1>1. Init => Sorted
  BY InitOnVector, SortedIsVector
<1>2. Sorted /\ [Next]_players => Sorted'
  <2> SUFFICES ASSUME Sorted, [Next]_players PROVE Sorted'
    OBVIOUS
  <2>1. players \in Vectors
    BY SortedIsVector
  <2>2. CASE Next
    <3>1. players' \in Vectors
      BY <2>1, <2>2, StepOnVector
    <3> QED
      BY <3>1 DEF Sorted, TypeOK, Vectors, IdCompare
  <2>3. CASE UNCHANGED players
    BY <2>3 DEF Sorted, TypeOK, IdCompare
  <2> QED
    BY <2>2, <2>3
<1> QED
  BY <1>1, <1>2, PTL DEF Spec

\* The front of the vector is the master of the abstract list, and the lookup
\* finds exactly the players of that list.
THEOREM LookupsAreRight == Spec => []LookupsAgree
<1>1. ASSUME players \in Vectors PROVE LookupsAgree
  <2> DEFINE n == Len(players)
             D == DOMAIN Denotes(players)
  <2>1. /\ n \in Nat
        /\ \A i \in 1 .. n : players[i].id \in Nat
        /\ \A i, j \in 1 .. n : i < j => players[i].id < players[j].id
        /\ D = {players[i].id : i \in 1 .. n}
    BY <1>1, VectorFacts, DenotesPlayers
  <2> HIDE DEF n, D
  <2>2. ASSUME NEW id \in 0 .. MaxPlayers - 1
        PROVE  IsPlayerMaster(players, id) <=> id \in D /\ \A j \in D : id <= j
    <3>1. CASE n = 0
      BY <2>1, <3>1 DEF IsPlayerMaster, n
    <3>2. CASE n > 0
      <4>1. 1 \in 1 .. n /\ players[1].id \in D
        BY <2>1, <3>2
      <4>2. \A j \in D : players[1].id <= j
        <5>1. ASSUME NEW i \in 1 .. n PROVE players[1].id <= players[i].id
          <6>1. i = 1 \/ 1 < i
            BY <2>1
          <6>2. players[1].id \in Nat /\ players[i].id \in Nat
            BY <2>1, <4>1
          <6>3. 1 < i => players[1].id < players[i].id
            BY <2>1, <4>1
          <6> QED
            BY <6>1, <6>2, <6>3
        <5> QED
          BY <2>1, <5>1
      <4>3. IsPlayerMaster(players, id) <=> players[1].id = id
        BY <3>2 DEF IsPlayerMaster, n
      <4>4. ASSUME id \in D, \A j \in D : id <= j PROVE players[1].id = id
        <5>1. id <= players[1].id /\ players[1].id <= id /\ players[1].id \in Nat
          BY <2>1, <4>1, <4>2, <4>4
        <5> QED
          BY <5>1
      <4> QED
        BY <4>1, <4>2, <4>3, <4>4
    <3> QED
      BY <2>1, <3>1, <3>2
  <2>3. ASSUME NEW id \in 0 .. MaxPlayers - 1
        PROVE  GetPlayerIndexById(players, id) <= Len(players) <=> id \in D
    <3> DEFINE x == GetPlayerIndexById(players, id)
    <3>1. /\ x \in 1 .. n + 1
          /\ x <= n => players[x].id = id
          /\ (\E i \in 1 .. n : players[i].id = id) => x <= n
      BY <1>1, LookupFinds DEF n
    <3> HIDE DEF x
    <3>2. x <= n => x \in 1 .. n
      BY <2>1, <3>1
    <3>3. x <= n <=> id \in D
      BY <2>1, <3>1, <3>2
    <3> QED
      BY <3>3 DEF x, n
  <2> QED
    BY <2>2, <2>3 DEF LookupsAgree, Abstract!IsPlayerMaster, D
<1>2. Sorted => LookupsAgree
  BY <1>1, SortedIsVector
<1> QED
  BY <1>2, StaysSorted, PTL

\* The vector, with its sort, its search for a gap and its erase, implements
\* the list of Seats: a new player gets the least id that nobody has, and who
\* leaves gives up his own id only.
THEOREM VectorImplementsSeats == Spec => ImplementsSeats
<1>1. Init => Abstract!Init
  BY InitOnVector
<1>2. Sorted /\ [Next]_players => [Abstract!Next]_(Denotes(players))
  <2> SUFFICES ASSUME Sorted, [Next]_players
               PROVE  [Abstract!Next]_(Denotes(players))
    OBVIOUS
  <2>1. CASE Next
    BY <2>1, SortedIsVector, StepOnVector
  <2>2. CASE UNCHANGED players
    BY <2>2 DEF Denotes
  <2> QED
    BY <2>1, <2>2
<1> QED
  BY <1>1, <1>2, StaysSorted, PTL DEF Spec, ImplementsSeats, Abstract!Spec
-----------------------------------------------------------------------------
\* f[i] is the result of a loop after i turns.
IsLoop(f, n, start, step) ==
    \A i \in 0 .. n : f[i] = IF i = 0 THEN start ELSE step[i][f[i - 1]]

\* A loop of n turns has a result after each of them: from a start in S, when
\* turn i takes x in S to step[i][x] in S.
LEMMA LoopDefined ==
    ASSUME NEW S, NEW n \in Nat, NEW start \in S, NEW step \in [1 .. n -> [S -> S]]
    PROVE  \E f \in [0 .. n -> S] : IsLoop(f, n, start, step)
<1> DEFINE Bad == {m \in 0 .. n : ~ \E f \in [0 .. m -> S] : IsLoop(f, m, start, step)}
<1>1. ASSUME Bad # {} PROVE FALSE
  <2>1. PICK m \in Bad : \A k \in Bad : m <= k
    BY LeastIndex, Bad \subseteq Nat, <1>1
  <2>2. CASE m = 0
    <3>1. [i \in 0 .. 0 |-> start] \in [0 .. 0 -> S] /\ IsLoop([i \in 0 .. 0 |-> start], 0, start, step)
      BY DEF IsLoop
    <3> QED
      BY <2>1, <2>2, <3>1
  <2>3. CASE m > 0
    <3>0. m \in 0 .. n /\ m \in 1 .. n /\ m - 1 \in 0 .. n /\ ~(m <= m - 1)
      BY <2>3
    <3>1. m - 1 \notin Bad
      <4> HIDE DEF Bad
      <4> QED
        BY <2>1, <3>0
    <3>2. PICK f \in [0 .. m - 1 -> S] : IsLoop(f, m - 1, start, step)
      BY <3>0, <3>1
    <3> DEFINE g == [i \in 0 .. m |-> IF i = m THEN step[m][f[m - 1]] ELSE f[i]]
    <3>3. step[m][f[m - 1]] \in S
      <4>1. step[m] \in [S -> S] /\ f[m - 1] \in S
        BY <3>0
      <4> QED
        BY <4>1
    <3>4. g \in [0 .. m -> S]
      <4>1. \A i \in 0 .. m : i # m => i \in 0 .. m - 1
        BY <3>0
      <4> QED
        BY <3>3, <4>1
    <3>5. ASSUME NEW i \in 0 .. m PROVE g[i] = IF i = 0 THEN start ELSE step[i][g[i - 1]]
      <4>1. CASE i = m
        <5>1. g[i] = step[m][f[m - 1]] /\ g[m - 1] = f[m - 1]
          BY <3>0, <4>1
        <5> QED
          BY <3>0, <4>1, <5>1
      <4>2. CASE i # m
        <5>1. i \in 0 .. m - 1 /\ (i # 0 => i - 1 \in 0 .. m /\ i - 1 # m)
          BY <3>0, <4>2
        <5>2. f[i] = IF i = 0 THEN start ELSE step[i][f[i - 1]]
          BY <3>2, <5>1 DEF IsLoop
        <5>3. g[i] = f[i] /\ (i # 0 => g[i - 1] = f[i - 1])
          BY <4>2, <5>1
        <5> QED
          BY <5>2, <5>3
      <4> QED
        BY <4>1, <4>2
    <3>6. IsLoop(g, m, start, step)
      BY <3>5 DEF IsLoop
    <3> QED
      BY <2>1, <3>4, <3>6
  <2> QED
    BY <2>1, <2>2, <2>3
<1> QED
  BY <1>1

\* What holds at first and goes on to hold with every turn holds after each.
LEMMA TurnByTurn ==
    ASSUME NEW n \in Nat, NEW Good, 0 \in Good,
           \A i \in 1 .. n : i - 1 \in Good => i \in Good
    PROVE  \A i \in 0 .. n : i \in Good
<1> DEFINE Bad == {i \in 0 .. n : i \notin Good}
<1> SUFFICES ASSUME Bad # {} PROVE FALSE
  OBVIOUS
<1>1. PICK m \in Bad : \A k \in Bad : m <= k
  BY LeastIndex, Bad \subseteq Nat
<1>2. m # 0
  BY <1>1
<1>3. m \in 1 .. n /\ m - 1 \in 0 .. n /\ ~(m <= m - 1)
  BY <1>2
<1>4. m - 1 \notin Bad
  <2> HIDE DEF Bad
  <2> QED
    BY <1>1, <1>3
<1> QED
  BY <1>3, <1>4

\* The same for results that stay in a set.
LEMMA LoopStays ==
    ASSUME NEW S, NEW n \in Nat, NEW f, f[0] \in S,
           \A i \in 1 .. n : f[i - 1] \in S => f[i] \in S
    PROVE  \A i \in 0 .. n : f[i] \in S
<1> DEFINE Good == {i \in 0 .. n : f[i] \in S}
<1>1. 0 \in Good
  OBVIOUS
<1>2. \A i \in 1 .. n : i - 1 \in Good => i \in Good
  OBVIOUS
<1>3. \A i \in 0 .. n : i \in Good
  <2> HIDE DEF Good
  <2> QED
    BY <1>1, <1>2, TurnByTurn
<1> QED
  BY <1>3
-----------------------------------------------------------------------------
\* The shifts and the values are what their recursions say.
LEMMA ShiftedIs ==
    ASSUME NEW w \in Nat, NEW val \in Nat
    PROVE  /\ Shifted(w, val)[0] = val
           /\ \A i \in 1 .. w : Shifted(w, val)[i] = Shifted(w, val)[i - 1] \div Base
           /\ \A i \in 0 .. w : Shifted(w, val)[i] \in Nat
<1> DEFINE Fits(f) == f = [i \in 0 .. w |-> IF i = 0 THEN val ELSE f[i - 1] \div Base]
           step == [i \in 1 .. w |-> [x \in Nat |-> x \div Base]]
           F == Shifted(w, val)
<1>0. \A x \in Nat : x \div Base \in Nat
  BY BaseAssumption
<1>1. step \in [1 .. w -> [Nat -> Nat]]
  BY <1>0
<1>2. PICK f \in [0 .. w -> Nat] : IsLoop(f, w, val, step)
  <2> HIDE DEF step
  <2> QED
    BY <1>1, LoopDefined, Zenon
<1>3. ASSUME NEW i \in 0 .. w, i # 0 PROVE step[i][f[i - 1]] = f[i - 1] \div Base
  <2>1. i - 1 \in 0 .. w /\ i \in 1 .. w
    BY <1>3
  <2> QED
    BY <2>1
<1>4. Fits(f)
  <2> HIDE DEF step
  <2> QED
    BY <1>2, <1>3 DEF IsLoop
<1>5. Fits(F)
  <2>1. F = CHOOSE g : Fits(g)
    BY DEF Shifted
  <2> QED
    BY <1>4, <2>1
<1> HIDE DEF F
<1>6. F[0] = val /\ \A i \in 1 .. w : F[i] = F[i - 1] \div Base
  BY <1>5
<1>7. \A i \in 0 .. w : F[i] \in Nat
  BY <1>0, <1>6, LoopStays
<1> QED
  BY <1>6, <1>7 DEF F

LEMMA ValuesAre ==
    ASSUME NEW bytes \in Seq(Byte)
    PROVE  /\ Values(bytes)[0] = 0
           /\ \A i \in 1 .. Len(bytes) :
                  Values(bytes)[i] = Values(bytes)[i - 1] * Base + bytes[i]
<1> DEFINE n == Len(bytes)
           Fits(f) == f = [i \in 0 .. n |-> IF i = 0 THEN 0 ELSE f[i - 1] * Base + bytes[i]]
           step == [i \in 1 .. n |-> [x \in Nat |-> x * Base + bytes[i]]]
           F == Values(bytes)
<1>0. n \in Nat /\ \A i \in 1 .. n : bytes[i] \in Nat
  BY LenProperties, ElementOfSeq, BaseAssumption DEF Byte
<1>a. F = CHOOSE g : Fits(g)
  BY DEF Values
<1> HIDE DEF n
<1>b. ASSUME NEW x \in Nat, NEW i \in 1 .. n PROVE x * Base + bytes[i] \in Nat
  BY <1>0, BaseAssumption
<1>1. step \in [1 .. n -> [Nat -> Nat]]
  BY <1>b
<1>2. PICK f \in [0 .. n -> Nat] : IsLoop(f, n, 0, step)
  <2> HIDE DEF step
  <2> QED
    BY <1>0, <1>1, 0 \in Nat, LoopDefined, Zenon
<1>3. ASSUME NEW i \in 0 .. n, i # 0 PROVE step[i][f[i - 1]] = f[i - 1] * Base + bytes[i]
  <2>1. i - 1 \in 0 .. n /\ i \in 1 .. n
    BY <1>0, <1>3
  <2> QED
    BY <2>1
<1>4. Fits(f)
  <2> HIDE DEF step
  <2> QED
    BY <1>2, <1>3 DEF IsLoop
<1>5. Fits(F)
  BY <1>4, <1>a
<1> HIDE DEF F
<1>6. F[0] = 0 /\ \A i \in 1 .. n : F[i] = F[i - 1] * Base + bytes[i]
  BY <1>0, <1>5
<1> QED
  BY <1>6 DEF F, n
-----------------------------------------------------------------------------
\* What a shift cuts off and what it leaves are the number.
LEMMA DivMod ==
    ASSUME NEW x \in Nat
    PROVE  /\ x \div Base \in Nat
           /\ x % Base \in Byte /\ x % Base \in Nat
           /\ ((x \div Base) * Base) + (x % Base) = x
<1>1. Base \in Nat /\ Base > 0
  BY BaseAssumption
<1> QED
  BY <1>1 DEF Byte

\* A shift leaves less by a factor of Base.
LEMMA DivBelow ==
    ASSUME NEW x \in Nat, NEW m \in Nat, x < m * Base
    PROVE  x \div Base < m
<1>1. Base \in Nat /\ Base > 0
  BY BaseAssumption
<1> DEFINE q == x \div Base
<1>2. q \in Nat /\ q * Base <= x
  BY <1>1, DivMod
<1> HIDE DEF q
<1>3. ASSUME q >= m PROVE FALSE
  <2>1. q * Base >= m * Base
    BY <1>1, <1>2, <1>3
  <2>2. q * Base \in Nat /\ m * Base \in Nat
    BY <1>1, <1>2
  <2> QED
    BY <1>2, <2>1, <2>2
<1>4. q < m
  BY <1>2, <1>3
<1> QED
  BY <1>4 DEF q

\* The numbers of which w bytes lose nothing.
Fits(w, val) == val \in Nat /\ Shifted(w, val)[w] = 0

\* One byte holds what is below Base, and two and four what is below two and
\* three times that; more is not needed of four.
LEMMA WhatFits ==
    ASSUME NEW val \in Nat
    PROVE  /\ val < Base => Fits(1, val)
           /\ val < Base * Base => Fits(2, val)
           /\ val < Base * Base * Base => Fits(4, val)
<1>1. /\ Base \in Nat /\ Base * Base \in Nat /\ 1 * Base = Base
      /\ \A x \in Nat : x \div Base \in Nat
  BY BaseAssumption, DivMod
<1>2. ASSUME NEW x \in Nat, x < Base PROVE x \div Base = 0
  <2>1. x \div Base < 1
    BY <1>1, <1>2, DivBelow
  <2> QED
    BY <1>1, <2>1
<1>3. ASSUME NEW x \in Nat, x < Base * Base PROVE (x \div Base) \div Base = 0
  BY <1>1, <1>2, <1>3, DivBelow
<1>4. ASSUME NEW x \in Nat, x < Base * Base * Base
      PROVE ((x \div Base) \div Base) \div Base = 0
  BY <1>1, <1>3, <1>4, DivBelow
<1>5. 0 \div Base = 0
  BY BaseAssumption
<1>6. ASSUME val < Base PROVE Fits(1, val)
  BY <1>2, <1>6, ShiftedIs DEF Fits
<1>7. ASSUME val < Base * Base PROVE Fits(2, val)
  <2>1. /\ Shifted(2, val)[0] = val
        /\ Shifted(2, val)[1] = Shifted(2, val)[0] \div Base
        /\ Shifted(2, val)[2] = Shifted(2, val)[1] \div Base
    BY ShiftedIs
  <2> QED
    BY <1>3, <1>7, <2>1 DEF Fits
<1>8. ASSUME val < Base * Base * Base PROVE Fits(4, val)
  <2>1. /\ Shifted(4, val)[0] = val
        /\ Shifted(4, val)[1] = Shifted(4, val)[0] \div Base
        /\ Shifted(4, val)[2] = Shifted(4, val)[1] \div Base
        /\ Shifted(4, val)[3] = Shifted(4, val)[2] \div Base
        /\ Shifted(4, val)[4] = Shifted(4, val)[3] \div Base
    BY ShiftedIs
  <2> QED
    BY <1>4, <1>5, <1>8, <2>1 DEF Fits
<1> QED
  BY <1>6, <1>7, <1>8

\* hton makes w bytes.
LEMMA HtonBytes ==
    ASSUME NEW w \in Nat, NEW val \in Nat
    PROVE  /\ Hton(w, val) \in Seq(Byte)
           /\ Len(Hton(w, val)) = w
           /\ \A i \in 1 .. w : Hton(w, val)[i] = Shifted(w, val)[w - i] % Base
<1>1. ASSUME NEW i \in 1 .. w PROVE Shifted(w, val)[w - i] % Base \in Byte
  <2>1. w - i \in 0 .. w
    OBVIOUS
  <2>2. Shifted(w, val)[w - i] \in Nat
    BY <2>1, ShiftedIs
  <2> QED
    BY <2>2, DivMod
<1>2. Hton(w, val) \in [1 .. w -> Byte]
  BY <1>1 DEF Hton
<1> QED
  BY <1>2, IsASeq, LenProperties DEF Hton

\* ntoh undoes hton when the bytes are as many as the number needs.
LEMMA NtohUndoesHton ==
    ASSUME NEW w \in Nat, NEW val, Fits(w, val)
    PROVE  Ntoh(Hton(w, val)) = val
<1> DEFINE B == Hton(w, val)
           P == Values(B)
           S == Shifted(w, val)
           Bad == {i \in 0 .. w : P[i] # S[w - i]}
<1>1. val \in Nat /\ S[w] = 0
  BY DEF Fits
<1>2. /\ S[0] = val
      /\ \A i \in 1 .. w : S[i] = S[i - 1] \div Base
      /\ \A i \in 0 .. w : S[i] \in Nat
  BY <1>1, ShiftedIs
<1>3. B \in Seq(Byte) /\ Len(B) = w /\ \A i \in 1 .. w : B[i] = S[w - i] % Base
  BY <1>1, HtonBytes
<1>4. P[0] = 0 /\ \A i \in 1 .. w : P[i] = P[i - 1] * Base + B[i]
  BY <1>3, ValuesAre
<1> HIDE DEF B, P, S
<1>5. ASSUME Bad # {} PROVE FALSE
  <2>1. PICK m \in Bad : \A k \in Bad : m <= k
    BY LeastIndex, Bad \subseteq Nat, <1>5
  <2>2. m # 0
    BY <2>1, <1>1, <1>4
  <2>3. m \in 1 .. w /\ m - 1 \in 0 .. w /\ ~(m <= m - 1)
    BY <2>2
  <2>4. m - 1 \notin Bad
    <3> HIDE DEF Bad
    <3> QED
      BY <2>1, <2>3
  <2>5. P[m - 1] = S[w - (m - 1)]
    BY <2>3, <2>4
  <2> DEFINE x == S[w - m]
  <2>6. x \in Nat /\ S[w - (m - 1)] = x \div Base
    <3>1. w - (m - 1) \in 1 .. w /\ (w - (m - 1)) - 1 = w - m /\ w - m \in 0 .. w
      BY <2>3
    <3> QED
      BY <1>2, <3>1
  <2>7. P[m] = P[m - 1] * Base + B[m] /\ B[m] = x % Base
    BY <1>3, <1>4, <2>3
  <2> HIDE DEF x
  <2>8. P[m] = x
    BY <2>5, <2>6, <2>7, DivMod
  <2> QED
    BY <2>1, <2>8 DEF x
<1>6. P[w] = S[0]
  BY <1>5
<1> QED
  BY <1>2, <1>3, <1>6 DEF Ntoh, B, P
-----------------------------------------------------------------------------
\* The bytes x are in the buffer b where a reader with cursor c is.
Occurs(b, c, x) ==
    /\ c + Len(x) <= Len(b)
    /\ \A i \in 1 .. Len(x) : b[c + i] = x[i]

\* A buffer begins with itself, and of two things in a row the second comes
\* right behind the first.
LEMMA OccursAtOnce ==
    ASSUME NEW b \in Seq(Byte)
    PROVE  Occurs(b, 0, b)
BY LenProperties DEF Occurs

LEMMA OccursInConcat ==
    ASSUME NEW b \in Seq(Byte), NEW x \in Seq(Byte), NEW y \in Seq(Byte), NEW c \in Nat,
           Occurs(b, c, x \o y)
    PROVE  Occurs(b, c, x) /\ Occurs(b, c + Len(x), y)
<1>1. /\ Len(x) \in Nat /\ Len(y) \in Nat /\ Len(b) \in Nat
      /\ Len(x \o y) = Len(x) + Len(y)
      /\ \A i \in 1 .. Len(x) + Len(y) :
             (x \o y)[i] = IF i <= Len(x) THEN x[i] ELSE y[i - Len(x)]
  BY LenProperties, ConcatProperties
<1> DEFINE z == x \o y
           m == Len(x)
           n == Len(y)
<1>2. /\ c + (m + n) <= Len(b) /\ m \in Nat /\ n \in Nat /\ Len(b) \in Nat
      /\ \A i \in 1 .. m + n : b[c + i] = z[i]
      /\ \A i \in 1 .. m + n : z[i] = IF i <= m THEN x[i] ELSE y[i - m]
  BY <1>1 DEF Occurs
<1> HIDE DEF z, m, n
<1>3. ASSUME NEW i \in 1 .. m PROVE b[c + i] = x[i]
  <2>1. i \in 1 .. m + n /\ i <= m
    BY <1>2
  <2> QED
    BY <1>2, <2>1
<1>4. ASSUME NEW i \in 1 .. n PROVE b[(c + m) + i] = y[i]
  <2>1. m + i \in 1 .. m + n /\ ~(m + i <= m) /\ (m + i) - m = i /\ c + (m + i) = (c + m) + i
    BY <1>2
  <2>2. b[c + (m + i)] = z[m + i] /\ z[m + i] = y[(m + i) - m]
    BY <1>2, <2>1
  <2> QED
    BY <2>1, <2>2
<1>5. c + m <= Len(b) /\ (c + m) + n <= Len(b)
  BY <1>2
<1> QED
  BY <1>3, <1>4, <1>5 DEF Occurs, m, n

\* The reader of a buffer at a cursor.
At(b, c) == [buf |-> b, cursor |-> c]

\* A reader gets the bytes, the integer and the string that are where it is, and
\* goes on behind them.
LEMMA BytesThere ==
    ASSUME NEW b \in Seq(Byte), NEW x \in Seq(Byte), NEW c \in Nat, Occurs(b, c, x)
    PROVE  Bytes(At(b, c), Len(x)) = x
<1> DEFINE n == Len(x)
           s == SubSeq(b, c + 1, c + n)
<1>1. n \in Nat /\ Len(b) \in Nat /\ x \in [1 .. n -> Byte]
  BY LenProperties
<1>2. c + n <= Len(b) /\ \A i \in 1 .. n : b[c + i] = x[i]
  BY DEF Occurs
<1>3. \A i \in 1 .. n : x[i] \in Byte
  BY <1>1
<1>4. Bytes(At(b, c), Len(x)) = s
  BY DEF Bytes, At
<1> HIDE DEF n
<1>5. \A i \in c + 1 .. c + n : b[i] \in Byte
  BY <1>1, <1>2, ElementOfSeq
<1>6. /\ s \in Seq(Byte) /\ Len(s) = n
      /\ \A i \in 1 .. n : s[i] = b[c + i]
  <2>1. c + 1 \in Int /\ c + n \in Int /\ (c + n) - (c + 1) + 1 = n
    BY <1>1
  <2> HIDE DEF s
  <2> QED
    BY <1>1, <1>5, <2>1, SubSeqProperties DEF s
<1> HIDE DEF s
<1>7. s \in [1 .. n -> Byte]
  BY <1>6, LenProperties
<1>8. \A i \in 1 .. n : s[i] = x[i]
  BY <1>2, <1>6
<1>9. s = x
  BY <1>1, <1>7, <1>8
<1> QED
  BY <1>4, <1>9

LEMMA IntegerThere ==
    ASSUME NEW b \in Seq(Byte), NEW c \in Nat, NEW w \in Nat, NEW val, Fits(w, val),
           Occurs(b, c, Integer(w, val))
    PROVE  /\ PeekInteger(At(b, c), w) = val
           /\ SkipInteger(At(b, c), w) = At(b, c + w)
<1>1. Integer(w, val) \in Seq(Byte) /\ Len(Integer(w, val)) = w
  BY HtonBytes DEF Integer, Fits
<1>2. Bytes(At(b, c), w) = Integer(w, val)
  BY <1>1, BytesThere
<1>3. PeekInteger(At(b, c), w) = val
  BY <1>2, NtohUndoesHton DEF PeekInteger, Integer
<1>4. SkipInteger(At(b, c), w) = At(b, c + w)
  BY DEF SkipInteger, SeekRel, At
<1> QED
  BY <1>3, <1>4

\* A string has the bytes of its size, then its own.
LEMMA StringBytes ==
    ASSUME NEW w \in Nat, NEW str \in Seq(Byte)
    PROVE  /\ Integer(w, Len(str)) \in Seq(Byte) /\ Len(Integer(w, Len(str))) = w
           /\ String(w, str) \in Seq(Byte)
           /\ Len(String(w, str)) = w + Len(str)
<1>1. Integer(w, Len(str)) \in Seq(Byte) /\ Len(Integer(w, Len(str))) = w
  BY LenProperties, HtonBytes DEF Integer
<1> QED
  BY <1>1, ConcatProperties DEF String

LEMMA StringThere ==
    ASSUME NEW b \in Seq(Byte), NEW c \in Nat, NEW w \in Nat, NEW str \in Seq(Byte),
           Fits(w, Len(str)), Occurs(b, c, String(w, str))
    PROVE  /\ PeekString(At(b, c), w) = str
           /\ SkipString(At(b, c), w) = At(b, c + w + Len(str))
<1>1. /\ Integer(w, Len(str)) \in Seq(Byte) /\ Len(Integer(w, Len(str))) = w
      /\ Len(str) \in Nat
  BY StringBytes, LenProperties
<1>2. Occurs(b, c, Integer(w, Len(str))) /\ Occurs(b, c + w, str)
  BY <1>1, OccursInConcat DEF String
<1>3. /\ PeekInteger(At(b, c), w) = Len(str)
      /\ SkipInteger(At(b, c), w) = At(b, c + w)
  BY <1>2, IntegerThere
<1>4. Bytes(At(b, c + w), Len(str)) = str
  BY <1>2, BytesThere
<1>5. PeekString(At(b, c), w) = str
  BY <1>3, <1>4 DEF PeekString
<1>6. SkipString(At(b, c), w) = At(b, c + (w + Len(str)))
  BY <1>3 DEF SkipString, SeekRel, At
<1>7. c + (w + Len(str)) = c + w + Len(str)
  BY <1>1
<1> QED
  BY <1>5, <1>6, <1>7
-----------------------------------------------------------------------------
\* What goes into a string with a size of one byte, and of two.
Short == {str \in Seq(Byte) : Len(str) < Base}
Long == {str \in Seq(Byte) : Len(str) < Base * Base}

\* Their sizes do, and no more than that is used of them.
LEMMA StringsFit ==
    /\ \A str \in Short : str \in Seq(Byte) /\ Fits(1, Len(str)) /\ Len(str) \in 0 .. Base - 1
    /\ \A str \in Long : str \in Seq(Byte) /\ Fits(2, Len(str)) /\ Len(str) \in 0 .. Base * Base - 1
<1>1. Base \in Nat /\ Base * Base \in Nat
  BY BaseAssumption
<1>2. \A str \in Seq(Byte) : Len(str) \in Nat
  BY LenProperties
<1>3. ASSUME NEW str \in Short
      PROVE  str \in Seq(Byte) /\ Fits(1, Len(str)) /\ Len(str) \in 0 .. Base - 1
  <2>1. str \in Seq(Byte) /\ Len(str) \in Nat /\ Len(str) < Base
    BY <1>2 DEF Short
  <2> QED
    BY <1>1, <2>1, WhatFits
<1>4. ASSUME NEW str \in Long
      PROVE  str \in Seq(Byte) /\ Fits(2, Len(str)) /\ Len(str) \in 0 .. Base * Base - 1
  <2>1. str \in Seq(Byte) /\ Len(str) \in Nat /\ Len(str) < Base * Base
    BY <1>2 DEF Long
  <2> QED
    BY <1>1, <2>1, WhatFits
<1> QED
  BY <1>3, <1>4

LEMMA StringsAreShort ==
    /\ \A str \in Short : Len(str) \in Nat /\ Len(str) < Base /\ Len(str) <= Base * Base
    /\ \A str \in Long : Len(str) \in Nat /\ Len(str) <= Base * Base
<1>1. Base \in Nat /\ Base * Base \in Nat /\ Base <= Base * Base
  BY BaseAssumption
<1>2. \A str \in Seq(Byte) : Len(str) \in Nat
  BY LenProperties
<1> DEFINE C == Base * Base
<1> HIDE DEF C
<1>3. \A k \in Nat : k < Base => k <= C
  BY <1>1 DEF C
<1>4. \A k \in Nat : k < C => k <= C
  BY <1>1 DEF C
<1> QED
  BY <1>2, <1>3, <1>4 DEF Short, Long, C

\* A byte, as the first field of every message and as an id.
LEMMA ByteFits ==
    ASSUME NEW val \in Byte
    PROVE  Fits(1, val) /\ Integer(1, val) \in Seq(Byte) /\ Len(Integer(1, val)) = 1
<1>1. val \in Nat /\ val < Base
  BY BaseAssumption DEF Byte
<1> QED
  BY <1>1, WhatFits, HtonBytes DEF Integer

\* The types of messages are bytes.
LEMMA TypesAreBytes ==
    /\ MessageType.createLobby \in Byte /\ MessageType.joinLobby \in Byte
    /\ MessageType.lobbyJoined \in Byte /\ MessageType.sendMessage \in Byte
    /\ MessageType.relayMessage \in Byte /\ MessageType.updateLobby \in Byte
BY BaseAssumption DEF MessageType, Byte

\* readMessage takes out of the stream what sendMessage put into it.
LEMMA FramesAreWhole ==
    ASSUME NEW msg \in Seq(Byte), Fits(4, Len(msg))
    PROVE  Whole(msg)
<1> DEFINE b == Frame(msg)
<1>1. b \in Seq(Byte) /\ Len(b) = 4 + Len(msg) /\ Len(msg) \in Nat
  BY StringBytes, LenProperties DEF Frame
<1>2. Occurs(b, 0, String(4, msg))
  BY <1>1, OccursAtOnce DEF Frame
<1>3. /\ Integer(4, Len(msg)) \in Seq(Byte)
      /\ Occurs(b, 0, Integer(4, Len(msg)))
  BY <1>1, <1>2, StringBytes, OccursInConcat DEF String
<1> HIDE DEF b
<1>4. PeekString(At(b, 0), 4) = msg
  BY <1>1, <1>2, StringThere
<1>5. PeekInteger(At(b, 0), 4) = Len(msg)
  BY <1>1, <1>3, IntegerThere
<1>6. Reader(b) = At(b, 0)
  BY DEF Reader, At
<1>7. ASSUME NEW m \in Nat \ {0}, NEW x \in Nat PROVE x % m <= x
  OBVIOUS
<1>8. Base * Base * Base * Base \in Nat \ {0}
  <2>1. Base \in Nat /\ Base > 0
    BY BaseAssumption
  <2>2. ASSUME NEW x \in Nat, x > 0 PROVE x * Base \in Nat /\ x * Base > 0
    BY <2>1, <2>2
  <2> QED
    BY <2>1, <2>2
<1>9. FrameComplete(b)
  <2> DEFINE M == Base * Base * Base * Base
  <2>1. (Len(msg) + 4) % M <= Len(msg) + 4
    <3> HIDE DEF M
    <3> QED
      BY <1>1, <1>7, <1>8 DEF M
  <2>2. FrameComplete(b) <=> Len(b) >= 4 /\ Len(b) >= (Len(msg) + 4) % M
    BY <1>5, <1>6 DEF FrameComplete
  <2>3. (Len(msg) + 4) % M \in Int
    BY <1>1, <1>8
  <2> HIDE DEF M
  <2> QED
    BY <1>1, <2>1, <2>2, <2>3
<1> QED
  BY <1>4, <1>6, <1>9 DEF Whole, Unframe, b

\* Every message here is so short that its size fits four bytes.
LEMMA SizesFit ==
    ASSUME NEW n \in Nat, n <= Base * Base + Base
    PROVE  Fits(4, n)
<1> DEFINE C == Base * Base
<1>1. Base \in Nat /\ Base > 11 /\ C \in Nat
  BY BaseAssumption
<1>2. C >= 12 * Base
  BY <1>1
<1> HIDE DEF C
<1>3. C * Base >= 12 * C /\ C * Base \in Nat
  BY <1>1
<1>4. C + Base < C * Base
  BY <1>1, <1>2, <1>3
<1>5. n <= C + Base
  BY DEF C
<1>6. n < C * Base
  BY <1>1, <1>3, <1>4, <1>5
<1>7. n < Base * Base * Base
  BY <1>6 DEF C
<1> QED
  BY <1>7, WhatFits

\* Where the fields of a message of two or three are.
LEMMA TwoFields ==
    ASSUME NEW x \in Seq(Byte), NEW y \in Seq(Byte)
    PROVE  /\ x \o y \in Seq(Byte) /\ Len(x \o y) = Len(x) + Len(y)
           /\ Occurs(x \o y, 0, x)
           /\ Occurs(x \o y, Len(x), y)
<1>1. Len(x) \in Nat /\ x \o y \in Seq(Byte) /\ Len(x \o y) = Len(x) + Len(y)
  BY LenProperties, ConcatProperties
<1>2. Occurs(x \o y, 0, x \o y)
  BY <1>1, OccursAtOnce
<1>3. Occurs(x \o y, 0, x) /\ Occurs(x \o y, 0 + Len(x), y)
  <2> DEFINE b == x \o y
  <2>1. b \in Seq(Byte) /\ 0 \in Nat /\ Occurs(b, 0, x \o y)
    BY <1>1, <1>2
  <2> HIDE DEF b
  <2>2. Occurs(b, 0, x) /\ Occurs(b, 0 + Len(x), y)
    BY <2>1, OccursInConcat
  <2> QED
    BY <2>2 DEF b
<1>4. 0 + Len(x) = Len(x)
  BY <1>1
<1> QED
  BY <1>1, <1>3, <1>4, Zenon

LEMMA ThreeFields ==
    ASSUME NEW x \in Seq(Byte), NEW y \in Seq(Byte), NEW z \in Seq(Byte)
    PROVE  /\ x \o y \o z \in Seq(Byte)
           /\ Len(x \o y \o z) = Len(x) + Len(y) + Len(z)
           /\ Occurs(x \o y \o z, 0, x)
           /\ Occurs(x \o y \o z, Len(x), y)
           /\ Occurs(x \o y \o z, Len(x) + Len(y), z)
<1> DEFINE xy == x \o y
           b == xy \o z
<1>1. Len(x) \in Nat /\ xy \in Seq(Byte) /\ Len(xy) = Len(x) + Len(y)
  BY LenProperties, TwoFields
<1>2. /\ b \in Seq(Byte) /\ Len(b) = Len(xy) + Len(z)
      /\ Occurs(b, 0, xy) /\ Occurs(b, Len(xy), z)
  <2> HIDE DEF xy
  <2> QED
    BY <1>1, TwoFields
<1> HIDE DEF b
<1>3. Occurs(b, 0, x) /\ Occurs(b, 0 + Len(x), y)
  BY <1>2, OccursInConcat
<1>4. 0 + Len(x) = Len(x)
  BY <1>1
<1>5. Occurs(b, Len(x), y)
  BY <1>3, <1>4, Zenon
<1>6. Occurs(b, Len(x) + Len(y), z) /\ Len(b) = Len(x) + Len(y) + Len(z)
  <2> HIDE DEF xy
  <2> QED
    BY <1>1, <1>2, Zenon
<1> QED
  BY <1>2, <1>3, <1>5, <1>6, Zenon DEF b, xy

\* Every client learns his id.
LEMMA LobbyJoinedDecodes ==
    ASSUME NEW lobbyId \in Short, NEW playerId \in Byte
    PROVE  /\ Whole(EncodeLobbyJoined(lobbyId, playerId))
           /\ DecodeLobbyJoined(EncodeLobbyJoined(lobbyId, playerId)) =
                  [lobbyId |-> lobbyId, playerId |-> playerId]
<1> DEFINE t == Integer(1, MessageType.lobbyJoined)
           s == String(1, lobbyId)
           p == Integer(1, playerId)
           m == EncodeLobbyJoined(lobbyId, playerId)
           n == Len(lobbyId)
<1>1. /\ t \in Seq(Byte) /\ Len(t) = 1 /\ Fits(1, MessageType.lobbyJoined)
      /\ p \in Seq(Byte) /\ Len(p) = 1 /\ Fits(1, playerId)
  BY ByteFits, TypesAreBytes
<1>2. /\ s \in Seq(Byte) /\ Len(s) = 1 + n /\ Fits(1, n)
      /\ n \in Nat /\ n < Base /\ lobbyId \in Seq(Byte) /\ Base \in Nat
  BY StringsFit, StringBytes, BaseAssumption
<1>3. m = t \o s \o p
  BY DEF EncodeLobbyJoined
<1> HIDE DEF m, n, t, s, p
<1>4. /\ m \in Seq(Byte) /\ Len(m) = Len(t) + Len(s) + Len(p)
      /\ Occurs(m, 0, t) /\ Occurs(m, Len(t), s) /\ Occurs(m, Len(t) + Len(s), p)
  BY <1>1, <1>2, <1>3, ThreeFields, Zenon
<1>5. /\ Len(m) = 3 + n /\ Len(t) + Len(s) = 2 + n
      /\ Occurs(m, 1, s) /\ Occurs(m, 2 + n, p)
  <2>1. Len(m) = 3 + n /\ Len(t) + Len(s) = 2 + n
    BY <1>1, <1>2, <1>4
  <2> QED
    BY <1>1, <1>4, <2>1, Zenon
<1>6. SkipInteger(At(m, 0), 1) = At(m, 1)
  BY <1>1, <1>4, IntegerThere DEF t
<1>7. PeekString(At(m, 1), 1) = lobbyId /\ SkipString(At(m, 1), 1) = At(m, 2 + n)
  <2>1. 1 + 1 + n = 2 + n
    BY <1>2
  <2>2. PeekString(At(m, 1), 1) = lobbyId /\ SkipString(At(m, 1), 1) = At(m, 1 + 1 + n)
    BY <1>2, <1>4, <1>5, StringThere DEF s, n
  <2> QED
    BY <2>1, <2>2
<1>8. PeekInteger(At(m, 2 + n), 1) = playerId
  <2>1. 2 + n \in Nat
    BY <1>2
  <2> QED
    BY <1>1, <1>4, <1>5, <2>1, IntegerThere DEF p
<1>9. Whole(m)
  <2>1. 3 + n \in Nat /\ 3 + n <= Base * Base + Base
    BY <1>2, BaseAssumption
  <2> QED
    BY <1>4, <1>5, <2>1, SizesFit, FramesAreWhole
<1>10. Reader(m) = At(m, 0)
  BY DEF Reader, At
<1>11. DecodeLobbyJoined(m) = [lobbyId |-> lobbyId, playerId |-> playerId]
  BY <1>6, <1>7, <1>8, <1>10 DEF DecodeLobbyJoined
<1> QED
  BY <1>9, <1>11 DEF m

\* What a player says is shown under his id.
LEMMA RelayDecodes ==
    ASSUME NEW playerId \in Byte, NEW text \in Long
    PROVE  /\ Whole(EncodeRelay(playerId, text))
           /\ DecodeRelay(EncodeRelay(playerId, text)) = [playerId |-> playerId, text |-> text]
<1> DEFINE t == Integer(1, MessageType.relayMessage)
           p == Integer(1, playerId)
           s == String(2, text)
           m == EncodeRelay(playerId, text)
           n == Len(text)
<1>1. /\ t \in Seq(Byte) /\ Len(t) = 1 /\ Fits(1, MessageType.relayMessage)
      /\ p \in Seq(Byte) /\ Len(p) = 1 /\ Fits(1, playerId)
  BY ByteFits, TypesAreBytes
<1>2. /\ s \in Seq(Byte) /\ Len(s) = 2 + n /\ Fits(2, n)
      /\ n \in Nat /\ n < Base * Base /\ text \in Seq(Byte) /\ Base \in Nat
  <2>1. /\ text \in Seq(Byte) /\ Fits(2, Len(text))
        /\ Len(text) \in 0 .. Base * Base - 1
    BY StringsFit
  <2>2. Base \in Nat /\ Base * Base \in Nat
    BY BaseAssumption
  <2>3. Len(text) \in Nat /\ Len(text) < Base * Base
    BY <2>1, <2>2
  <2> QED
    BY <2>1, <2>2, <2>3, StringBytes
<1>3. m = t \o p \o s
  BY DEF EncodeRelay
<1> HIDE DEF m, n, t, s, p
<1>4. /\ m \in Seq(Byte) /\ Len(m) = Len(t) + Len(p) + Len(s)
      /\ Occurs(m, 0, t) /\ Occurs(m, Len(t), p) /\ Occurs(m, Len(t) + Len(p), s)
  BY <1>1, <1>2, <1>3, ThreeFields, Zenon
<1>5. /\ Len(m) = 4 + n
      /\ Occurs(m, 1, p) /\ Occurs(m, 2, s)
  <2>1. Len(m) = 4 + n /\ Len(t) + Len(p) = 2
    BY <1>1, <1>2, <1>4
  <2> QED
    BY <1>1, <1>4, <2>1, Zenon
<1>6. SkipInteger(At(m, 0), 1) = At(m, 1)
  BY <1>1, <1>4, IntegerThere DEF t
<1>7. PeekInteger(At(m, 1), 1) = playerId /\ SkipInteger(At(m, 1), 1) = At(m, 2)
  BY <1>1, <1>4, <1>5, IntegerThere DEF p
<1>8. PeekString(At(m, 2), 2) = text
  BY <1>2, <1>4, <1>5, StringThere DEF s, n
<1>9. Whole(m)
  <2> DEFINE C == Base * Base
  <2>1. 4 + n \in Nat /\ C \in Nat /\ n < C /\ Base > 11
    BY <1>2, BaseAssumption
  <2> HIDE DEF C
  <2>2. 4 + n <= C + Base
    BY <1>2, <2>1
  <2>3. 4 + n <= Base * Base + Base
    BY <2>2 DEF C
  <2> QED
    BY <1>4, <1>5, <2>1, <2>3, SizesFit, FramesAreWhole
<1>10. Reader(m) = At(m, 0)
  BY DEF Reader, At
<1>11. DecodeRelay(m) = [playerId |-> playerId, text |-> text]
  BY <1>6, <1>7, <1>8, <1>10 DEF DecodeRelay
<1> QED
  BY <1>9, <1>11 DEF m
\* The server reads the fields of the requests that have any.
LEMMA CreateLobbyDecodes ==
    ASSUME NEW name \in Short
    PROVE  /\ Whole(EncodeCreateLobby(name))
           /\ DecodeRequest(EncodeCreateLobby(name)) = [type |-> "createLobby", name |-> name]
<1> DEFINE t == Integer(1, MessageType.createLobby)
           s == String(1, name)
           m == EncodeCreateLobby(name)
<1>1. /\ t \in Seq(Byte) /\ Len(t) = 1 /\ Fits(1, MessageType.createLobby)
      /\ s \in Seq(Byte) /\ Len(s) = 1 + Len(name)
      /\ Fits(1, Len(name)) /\ name \in Seq(Byte)
  BY ByteFits, TypesAreBytes, StringsFit, StringBytes
<1>8. Len(name) \in Nat /\ Len(name) <= Base * Base
  BY StringsAreShort
<1>2. m = t \o s
  BY DEF EncodeCreateLobby
<1> HIDE DEF m, t, s
<1>3. /\ m \in Seq(Byte) /\ Len(m) = Len(t) + Len(s)
      /\ Occurs(m, 0, t) /\ Occurs(m, 1, s)
  BY <1>1, <1>2, TwoFields, Zenon
<1>4. PeekInteger(At(m, 0), 1) = MessageType.createLobby /\ SkipInteger(At(m, 0), 1) = At(m, 1)
  BY <1>1, <1>3, IntegerThere DEF t
<1>5. PeekString(At(m, 1), 1) = name
  BY <1>1, <1>3, StringThere DEF s
<1>6. Reader(m) = At(m, 0)
  BY DEF Reader, At
<1>7. DecodeRequest(m) = [type |-> "createLobby", name |-> name]
  BY <1>4, <1>5, <1>6 DEF DecodeRequest, MessageType
<1>9. Whole(m)
  <2> DEFINE C == Base * Base
             n == Len(name)
  <2>1. Len(m) = 2 + n /\ n \in Nat /\ n <= C /\ C \in Nat /\ Base \in Nat /\ Base > 11
    BY <1>1, <1>3, <1>8, BaseAssumption
  <2> HIDE DEF C, n
  <2>2. Len(m) \in Nat /\ Len(m) <= C + Base
    BY <2>1
  <2>3. Len(m) <= Base * Base + Base
    BY <2>2 DEF C
  <2> QED
    BY <1>3, <2>2, <2>3, SizesFit, FramesAreWhole
<1> QED
  BY <1>7, <1>9 DEF m

LEMMA SendMessageDecodes ==
    ASSUME NEW text \in Long
    PROVE  /\ Whole(EncodeSendMessage(text))
           /\ DecodeRequest(EncodeSendMessage(text)) = [type |-> "sendMessage", text |-> text]
<1> DEFINE t == Integer(1, MessageType.sendMessage)
           s == String(2, text)
           m == EncodeSendMessage(text)
<1>1. /\ t \in Seq(Byte) /\ Len(t) = 1 /\ Fits(1, MessageType.sendMessage)
      /\ s \in Seq(Byte) /\ Len(s) = 2 + Len(text)
      /\ Fits(2, Len(text)) /\ text \in Seq(Byte)
  BY ByteFits, TypesAreBytes, StringsFit, StringBytes
<1>8. Len(text) \in Nat /\ Len(text) <= Base * Base
  BY StringsAreShort
<1>2. m = t \o s
  BY DEF EncodeSendMessage
<1> HIDE DEF m, t, s
<1>3. /\ m \in Seq(Byte) /\ Len(m) = Len(t) + Len(s)
      /\ Occurs(m, 0, t) /\ Occurs(m, 1, s)
  BY <1>1, <1>2, TwoFields, Zenon
<1>4. PeekInteger(At(m, 0), 1) = MessageType.sendMessage /\ SkipInteger(At(m, 0), 1) = At(m, 1)
  BY <1>1, <1>3, IntegerThere DEF t
<1>5. PeekString(At(m, 1), 2) = text
  BY <1>1, <1>3, StringThere DEF s
<1>6. Reader(m) = At(m, 0)
  BY DEF Reader, At
<1>7. DecodeRequest(m) = [type |-> "sendMessage", text |-> text]
  BY <1>4, <1>5, <1>6 DEF DecodeRequest, MessageType
<1>9. Whole(m)
  <2> DEFINE C == Base * Base
             n == Len(text)
  <2>1. Len(m) = 3 + n /\ n \in Nat /\ n <= C /\ C \in Nat /\ Base \in Nat /\ Base > 11
    BY <1>1, <1>3, <1>8, BaseAssumption
  <2> HIDE DEF C, n
  <2>2. Len(m) \in Nat /\ Len(m) <= C + Base
    BY <2>1
  <2>3. Len(m) <= Base * Base + Base
    BY <2>2 DEF C
  <2> QED
    BY <1>3, <2>2, <2>3, SizesFit, FramesAreWhole
<1> QED
  BY <1>7, <1>9 DEF m

LEMMA JoinLobbyDecodes ==
    ASSUME NEW name \in Short, NEW lobbyId \in Short
    PROVE  /\ Whole(EncodeJoinLobby(name, lobbyId))
           /\ DecodeRequest(EncodeJoinLobby(name, lobbyId)) =
                  [type |-> "joinLobby", name |-> name, lobbyId |-> lobbyId]
<1> DEFINE t == Integer(1, MessageType.joinLobby)
           s == String(1, name)
           l == String(1, lobbyId)
           m == EncodeJoinLobby(name, lobbyId)
           n == Len(name)
<1>1. /\ t \in Seq(Byte) /\ Len(t) = 1 /\ Fits(1, MessageType.joinLobby)
      /\ s \in Seq(Byte) /\ Len(s) = 1 + n /\ Fits(1, n) /\ name \in Seq(Byte)
      /\ l \in Seq(Byte) /\ Len(l) = 1 + Len(lobbyId)
      /\ Fits(1, Len(lobbyId)) /\ lobbyId \in Seq(Byte)
      /\ n \in Nat
  BY ByteFits, TypesAreBytes, StringsFit, StringBytes, LenProperties
<1>2. m = t \o s \o l
  BY DEF EncodeJoinLobby
<1> HIDE DEF m, t, s, l, n
<1>3. /\ m \in Seq(Byte) /\ Len(m) = Len(t) + Len(s) + Len(l)
      /\ Occurs(m, 0, t) /\ Occurs(m, 1, s) /\ Occurs(m, 1 + (1 + n), l)
  <2>1. /\ m \in Seq(Byte) /\ Len(m) = Len(t) + Len(s) + Len(l)
        /\ Occurs(m, 0, t) /\ Occurs(m, Len(t), s)
        /\ Occurs(m, Len(t) + Len(s), l)
    BY <1>1, <1>2, ThreeFields, Zenon
  <2>2. Len(t) = 1 /\ Len(s) = 1 + n
    BY <1>1
  <2> QED
    BY <2>1, <2>2
<1>4. PeekInteger(At(m, 0), 1) = MessageType.joinLobby /\ SkipInteger(At(m, 0), 1) = At(m, 1)
  BY <1>1, <1>3, IntegerThere DEF t
<1>5. PeekString(At(m, 1), 1) = name /\ SkipString(At(m, 1), 1) = At(m, 1 + 1 + n)
  BY <1>1, <1>3, StringThere DEF s, n
<1>6. PeekString(At(m, 1 + 1 + n), 1) = lobbyId
  <2>1. 1 + 1 + n \in Nat /\ 1 + (1 + n) = 1 + 1 + n
    BY <1>1
  <2> QED
    BY <1>1, <1>3, <2>1, StringThere DEF l
<1>7. Reader(m) = At(m, 0)
  BY DEF Reader, At
<1>8. DecodeRequest(m) = [type |-> "joinLobby", name |-> name, lobbyId |-> lobbyId]
  BY <1>4, <1>5, <1>6, <1>7 DEF DecodeRequest, MessageType
<1>9. Whole(m)
  <2> DEFINE k == Len(lobbyId)
  <2>1. /\ Len(name) \in Nat /\ Len(name) < Base /\ k \in Nat /\ k < Base
        /\ Base \in Nat /\ Base > 11
    BY StringsAreShort, BaseAssumption
  <2>2. Len(t) = 1 /\ Len(s) = 1 + Len(name) /\ Len(l) = 1 + k
    BY <1>1 DEF n
  <2> HIDE DEF k
  <2>3. Len(m) \in Nat /\ Len(m) <= Base + Base + 1
    BY <1>3, <2>1, <2>2
  <2>4. Base + 1 <= Base * Base
    BY <2>1
  <2>5. Base * Base \in Nat
    BY <2>1
  <2>6. Len(m) <= Base * Base + Base
    BY <2>1, <2>3, <2>4, <2>5
  <2> QED
    BY <1>3, <2>3, <2>6, SizesFit, FramesAreWhole
<1> QED
  BY <1>8, <1>9 DEF m
-----------------------------------------------------------------------------
\* The entries of a list as clients see it.
Entry == [id : Byte, name : Short]
Lists ==
    {ps \in Seq(Entry) :
        /\ Len(ps) < Base
        /\ \A i, j \in 1 .. Len(ps) : i < j => ps[i].id < ps[j].id}

\* What the proofs use of lists.
LEMMA ListFacts ==
    ASSUME NEW ps \in Lists
    PROVE  /\ ps \in Seq(Entry) /\ Len(ps) \in Nat /\ Len(ps) < Base /\ Len(ps) \in Byte
           /\ \A i \in 1 .. Len(ps) : /\ ps[i] \in Entry
                                      /\ ps[i].id \in Byte
                                      /\ ps[i].name \in Short
                                      /\ ps[i] = [id |-> ps[i].id, name |-> ps[i].name]
           /\ \A i, j \in 1 .. Len(ps) : i < j => ps[i].id < ps[j].id
<1>1. ps \in Seq(Entry) /\ Len(ps) \in Nat /\ Len(ps) < Base /\ Len(ps) \in Byte
  BY LenProperties, BaseAssumption DEF Lists, Byte
<1>3. \A i, j \in 1 .. Len(ps) : i < j => ps[i].id < ps[j].id
  BY DEF Lists
<1>2. \A i \in 1 .. Len(ps) : ps[i] \in Entry
  BY <1>1, ElementOfSeq
<1> QED
  BY <1>1, <1>2, <1>3 DEF Entry

\* The bytes of one entry.
LEMMA EncodePlayerBytes ==
    ASSUME NEW p \in Entry
    PROVE  /\ EncodePlayer(p) \in Seq(Byte)
           /\ Len(EncodePlayer(p)) = 2 + Len(p.name)
           /\ Len(p.name) \in Nat /\ Len(p.name) < Base
<1>1. p.id \in Byte /\ p.name \in Short
  BY DEF Entry
<1> DEFINE n == Len(p.name)
           a == Integer(1, p.id)
           b == String(1, p.name)
<1>2. /\ p.name \in Seq(Byte) /\ n \in Nat /\ n < Base
  BY <1>1, StringsFit, BaseAssumption
<1>3. a \in Seq(Byte) /\ Len(a) = 1
  BY <1>1, ByteFits
<1>4. b \in Seq(Byte) /\ Len(b) = 1 + n
  BY <1>2, StringBytes
<1>5. EncodePlayer(p) = a \o b
  BY DEF EncodePlayer
<1> HIDE DEF n, a, b
<1>6. EncodePlayer(p) \in Seq(Byte) /\ Len(EncodePlayer(p)) = Len(a) + Len(b)
  BY <1>3, <1>4, <1>5, TwoFields, Zenon
<1>7. Len(a) + Len(b) = 2 + n
  BY <1>2, <1>3, <1>4
<1> QED
  BY <1>2, <1>6, <1>7 DEF n

\* What the loop of the server has written after each turn.
LEMMA BuffersAre ==
    ASSUME NEW ps \in Lists
    PROVE  /\ Buffers(ps)[0] = Integer(1, MessageType.updateLobby) \o Integer(1, Len(ps))
           /\ \A i \in 1 .. Len(ps) : Buffers(ps)[i] = Buffers(ps)[i - 1] \o EncodePlayer(ps[i])
           /\ \A i \in 0 .. Len(ps) : Buffers(ps)[i] \in Seq(Byte)
<1> DEFINE n == Len(ps)
           start == Integer(1, MessageType.updateLobby) \o Integer(1, n)
           IsBuffer(f) == f = [i \in 0 .. n |-> IF i = 0 THEN start
                                                ELSE f[i - 1] \o EncodePlayer(ps[i])]
           step == [i \in 1 .. n |-> [x \in Seq(Byte) |-> x \o EncodePlayer(ps[i])]]
           F == Buffers(ps)
<1>1. /\ n \in Nat /\ start \in Seq(Byte)
      /\ \A i \in 1 .. n : EncodePlayer(ps[i]) \in Seq(Byte)
  BY ListFacts, ByteFits, TypesAreBytes, TwoFields, EncodePlayerBytes
<1>2. F = CHOOSE g : IsBuffer(g)
  BY DEF Buffers
<1> HIDE DEF n, start
<1>3. ASSUME NEW x \in Seq(Byte), NEW i \in 1 .. n PROVE x \o EncodePlayer(ps[i]) \in Seq(Byte)
  BY <1>1, ConcatProperties
<1>4. step \in [1 .. n -> [Seq(Byte) -> Seq(Byte)]]
  BY <1>3
<1>5. PICK f \in [0 .. n -> Seq(Byte)] : IsLoop(f, n, start, step)
  <2> HIDE DEF step
  <2> QED
    BY <1>1, <1>4, LoopDefined, Zenon
<1>6. ASSUME NEW i \in 0 .. n, i # 0 PROVE step[i][f[i - 1]] = f[i - 1] \o EncodePlayer(ps[i])
  <2>1. i - 1 \in 0 .. n /\ i \in 1 .. n
    BY <1>1, <1>6
  <2> QED
    BY <2>1
<1>7. IsBuffer(f)
  <2> HIDE DEF step
  <2> QED
    BY <1>5, <1>6 DEF IsLoop
<1>8. IsBuffer(F)
  BY <1>2, <1>7
<1> HIDE DEF F
<1>9. F[0] = start /\ \A i \in 1 .. n : F[i] = F[i - 1] \o EncodePlayer(ps[i])
  <2>1. \A i \in 0 .. n : F[i] = IF i = 0 THEN start ELSE F[i - 1] \o EncodePlayer(ps[i])
    BY <1>8, Zenon
  <2>2. 0 \in 0 .. n /\ \A i \in 1 .. n : i \in 0 .. n /\ i # 0
    BY <1>1
  <2> QED
    BY <2>1, <2>2, Zenon
<1>10. \A i \in 0 .. n : F[i] \in Seq(Byte)
  BY <1>1, <1>3, <1>9, LoopStays
<1> QED
  BY <1>9, <1>10 DEF F, n, start

\* The whole buffer begins with what was written up to any turn, has every
\* entry where its turn began, and is not longer than the size fields allow.
LEMMA EntriesThere ==
    ASSUME NEW ps \in Lists
    PROVE  /\ EncodeLobbyUpdate(ps) \in Seq(Byte)
           /\ Occurs(EncodeLobbyUpdate(ps), 0, Buffers(ps)[0])
           /\ Len(Buffers(ps)[0]) = 2
           /\ \A i \in 1 .. Len(ps) :
                  /\ Occurs(EncodeLobbyUpdate(ps), Len(Buffers(ps)[i - 1]), EncodePlayer(ps[i]))
                  /\ Len(Buffers(ps)[i]) = Len(Buffers(ps)[i - 1]) + 2 + Len(ps[i].name)
           /\ \A i \in 0 .. Len(ps) : Len(Buffers(ps)[i]) \in Nat
           /\ Len(EncodeLobbyUpdate(ps)) <= Base * Base + Base
<1> DEFINE n == Len(ps)
           B == Buffers(ps)
           E(i) == EncodePlayer(ps[i])
           L(i) == Len(ps[i].name)
           msg == EncodeLobbyUpdate(ps)
<1>1. /\ n \in Nat /\ n < Base /\ Base \in Nat /\ Base > 0
      /\ \A i \in 1 .. n : /\ E(i) \in Seq(Byte) /\ Len(E(i)) = 2 + L(i)
                           /\ L(i) \in Nat /\ L(i) < Base
  BY ListFacts, EncodePlayerBytes, BaseAssumption
<1>2. /\ B[0] = Integer(1, MessageType.updateLobby) \o Integer(1, n)
      /\ \A i \in 1 .. n : B[i] = B[i - 1] \o E(i)
      /\ \A i \in 0 .. n : B[i] \in Seq(Byte)
  BY BuffersAre
<1>3. Len(B[0]) = 2
  <2> DEFINE t == Integer(1, MessageType.updateLobby)
             c == Integer(1, n)
  <2>1. t \in Seq(Byte) /\ c \in Seq(Byte) /\ Len(t) = 1 /\ Len(c) = 1
    BY ListFacts, ByteFits, TypesAreBytes
  <2>2. B[0] = t \o c
    BY <1>2
  <2> HIDE DEF t, c, B
  <2>3. Len(B[0]) = Len(t) + Len(c)
    BY <2>1, <2>2, TwoFields
  <2> QED
    BY <2>1, <2>3
<1>4. msg = B[n]
  BY DEF EncodeLobbyUpdate
<1> HIDE DEF n, B, E, L, msg
<1>5. msg \in Seq(Byte) /\ \A i \in 0 .. n : Len(B[i]) \in Nat
  BY <1>1, <1>2, <1>4, LenProperties
<1>6. ASSUME NEW i \in 1 .. n
      PROVE  i \in Nat /\ i - 1 \in 0 .. n /\ Len(B[i]) = Len(B[i - 1]) + 2 + L(i)
  <2>1. i \in Nat /\ i - 1 \in 0 .. n /\ i \in 0 .. n
    BY <1>1
  <2>2. B[i - 1] \in Seq(Byte) /\ E(i) \in Seq(Byte) /\ B[i] = B[i - 1] \o E(i)
    BY <1>1, <1>2, <2>1
  <2>3. Len(B[i]) = Len(B[i - 1]) + Len(E(i))
    BY <2>2, TwoFields
  <2>4. Len(E(i)) = 2 + L(i) /\ L(i) \in Nat /\ Len(B[i - 1]) \in Nat
    BY <1>1, <1>5, <2>1
  <2> QED
    BY <2>1, <2>3, <2>4
<1>7. ASSUME NEW i \in 1 .. n, Occurs(msg, 0, B[i])
      PROVE  Occurs(msg, 0, B[i - 1]) /\ Occurs(msg, Len(B[i - 1]), E(i))
  <2>1. B[i - 1] \in Seq(Byte) /\ E(i) \in Seq(Byte) /\ B[i] = B[i - 1] \o E(i)
    BY <1>1, <1>2, <1>6
  <2>2. Occurs(msg, 0, B[i - 1]) /\ Occurs(msg, 0 + Len(B[i - 1]), E(i))
    <3>1. 0 \in Nat /\ Occurs(msg, 0, B[i - 1] \o E(i))
      BY <1>7, <2>1, Zenon
    <3> QED
      BY <1>5, <2>1, <3>1, OccursInConcat
  <2>3. 0 + Len(B[i - 1]) = Len(B[i - 1])
    BY <1>5, <1>6
  <2> QED
    BY <2>2, <2>3, Zenon
<1>8. \A i \in 0 .. n : Occurs(msg, 0, B[i])
  <2> DEFINE Good == {j \in 0 .. n : Occurs(msg, 0, B[n - j])}
  <2>1. 0 \in Good
    BY <1>1, <1>4, <1>5, OccursAtOnce
  <2>2. ASSUME NEW j \in 1 .. n, j - 1 \in Good PROVE j \in Good
    <3>1. /\ n - (j - 1) \in 1 .. n /\ (n - (j - 1)) - 1 = n - j /\ j \in 0 .. n
      BY <1>1
    <3>2. Occurs(msg, 0, B[n - (j - 1)])
      BY <2>2
    <3> QED
      BY <1>7, <3>1, <3>2
  <2>3. \A j \in 0 .. n : j \in Good
    <3> HIDE DEF Good
    <3> QED
      BY <1>1, <2>1, <2>2, TurnByTurn
  <2>4. \A i \in 0 .. n : n - i \in 0 .. n /\ n - (n - i) = i
    BY <1>1
  <2> QED
    BY <2>3, <2>4
<1>9. ASSUME NEW i \in 1 .. n PROVE Occurs(msg, Len(B[i - 1]), E(i))
  <2>1. i \in 0 .. n
    BY <1>1
  <2> QED
    BY <1>7, <1>8, <2>1
<1>10. Len(msg) <= Base * Base + Base
  <2> DEFINE Good == {i \in 0 .. n : Len(B[i]) <= 2 + i * (Base + 1)}
  <2>1. 0 \in Good
    <3>1. 0 * (Base + 1) = 0 /\ 0 \in 0 .. n
      BY <1>1
    <3>2. Len(B[0]) <= 2 + 0 * (Base + 1)
      BY <1>3, <3>1
    <3> QED
      BY <3>1, <3>2
  <2>2. ASSUME NEW i \in 1 .. n, i - 1 \in Good PROVE i \in Good
    <3>1. /\ Len(B[i - 1]) <= 2 + (i - 1) * (Base + 1)
          /\ Len(B[i]) = Len(B[i - 1]) + 2 + L(i)
          /\ L(i) \in Nat /\ L(i) < Base /\ i \in Nat /\ i \in 0 .. n
          /\ Len(B[i - 1]) \in Nat
      BY <1>1, <1>5, <1>6, <2>2
    <3>2. (i - 1) * (Base + 1) + (Base + 1) = i * (Base + 1)
      BY <1>1, <3>1
    <3>3. (i - 1) * (Base + 1) \in Int
      BY <1>1, <3>1
    <3>4. Len(B[i]) <= 2 + i * (Base + 1)
      BY <1>1, <3>1, <3>2, <3>3
    <3> QED
      BY <3>1, <3>4
  <2>3. \A i \in 0 .. n : i \in Good
    <3> HIDE DEF Good
    <3> QED
      BY <1>1, <2>1, <2>2, TurnByTurn
  <2>4. Len(msg) <= 2 + n * (Base + 1)
    BY <1>1, <1>4, <2>3
  <2>5. n * (Base + 1) <= (Base - 1) * (Base + 1)
    BY <1>1
  <2>6. (Base - 1) * (Base + 1) = Base * Base - 1
    BY <1>1
  <2>7. Base * Base \in Nat /\ n * (Base + 1) \in Nat /\ Len(msg) \in Nat
    BY <1>1, <1>5, LenProperties
  <2> QED
    BY <1>1, BaseAssumption, <2>4, <2>5, <2>6, <2>7
<1>11. /\ msg \in Seq(Byte)
       /\ Occurs(msg, 0, B[0])
       /\ Len(B[0]) = 2
       /\ \A i \in 1 .. n : /\ Occurs(msg, Len(B[i - 1]), E(i))
                           /\ Len(B[i]) = Len(B[i - 1]) + 2 + L(i)
       /\ \A i \in 0 .. n : Len(B[i]) \in Nat
       /\ Len(msg) <= Base * Base + Base
  <2>1. 0 \in 0 .. n
    BY <1>1
  <2> QED
    BY <1>3, <1>5, <1>6, <1>8, <1>9, <1>10, <2>1
<1> QED
  BY <1>11 DEF n, B, E, L, msg

\* A turn of the client's loop reads the entry that is there.
LEMMA DecodePlayerReads ==
    ASSUME NEW b \in Seq(Byte), NEW c \in Nat, NEW p \in Entry, NEW q,
           Occurs(b, c, EncodePlayer(p))
    PROVE  DecodePlayer([r |-> At(b, c), ps |-> q]) =
               [r |-> At(b, c + 2 + Len(p.name)), ps |-> Sort(Append(q, p))]
<1> DEFINE a == Integer(1, p.id)
           s == String(1, p.name)
           acc == [r |-> At(b, c), ps |-> q]
           n == Len(p.name)
<1>1. p.id \in Byte /\ p.name \in Short /\ p = [id |-> p.id, name |-> p.name]
  BY DEF Entry
<1>2. /\ a \in Seq(Byte) /\ Len(a) = 1 /\ Fits(1, p.id)
      /\ p.name \in Seq(Byte) /\ Fits(1, Len(p.name)) /\ n \in Nat
  BY <1>1, ByteFits, StringsFit, LenProperties
<1>3. s \in Seq(Byte)
  BY <1>2, StringBytes
<1>4. Occurs(b, c, a) /\ Occurs(b, c + 1, s)
  <2>1. Occurs(b, c, a \o s)
    BY DEF EncodePlayer
  <2> HIDE DEF a, s
  <2>2. Occurs(b, c, a) /\ Occurs(b, c + Len(a), s)
    BY <1>2, <1>3, <2>1, OccursInConcat
  <2> QED
    BY <1>2, <2>2
<1>5. PeekInteger(At(b, c), 1) = p.id /\ SkipInteger(At(b, c), 1) = At(b, c + 1)
  BY <1>2, <1>4, IntegerThere
<1>6. PeekString(At(b, c + 1), 1) = p.name /\ SkipString(At(b, c + 1), 1) = At(b, c + 2 + n)
  <2>1. c + 1 + 1 + n = c + 2 + n /\ c + 1 \in Nat
    BY <1>2
  <2>2. /\ PeekString(At(b, c + 1), 1) = p.name
        /\ SkipString(At(b, c + 1), 1) = At(b, c + 1 + 1 + n)
    BY <1>2, <1>4, <2>1, StringThere
  <2> QED
    BY <2>1, <2>2
<1>7. acc.r = At(b, c) /\ acc.ps = q
  OBVIOUS
<1> HIDE DEF acc, n
<1>8. DecodePlayer(acc) = [r |-> At(b, c + 2 + n), ps |-> Sort(Append(q, [id |-> p.id, name |-> p.name]))]
  BY <1>5, <1>6, <1>7 DEF DecodePlayer
<1> QED
  BY <1>1, <1>8 DEF acc, n

\* The first players of a list.
FirstOf(ps, i) == [k \in 1 .. i |-> ps[k]]

\* They are one more with each turn, and sorting them leaves them alone.
LEMMA FirstOfGrows ==
    ASSUME NEW ps \in Lists
    PROVE  /\ FirstOf(ps, 0) = <<>>
           /\ FirstOf(ps, Len(ps)) = ps
           /\ \A i \in 1 .. Len(ps) : FirstOf(ps, i) = Sort(Append(FirstOf(ps, i - 1), ps[i]))
<1>1. /\ ps \in Seq(Entry) /\ Len(ps) \in Nat /\ ps \in [1 .. Len(ps) -> Entry]
      /\ \A i \in 1 .. Len(ps) : ps[i] \in Entry
  BY ListFacts, LenProperties
<1>2. FirstOf(ps, 0) = <<>>
  BY DEF FirstOf
<1>3. FirstOf(ps, Len(ps)) = ps
  BY <1>1 DEF FirstOf
<1>4. ASSUME NEW i \in 1 .. Len(ps)
      PROVE  FirstOf(ps, i) = Sort(Append(FirstOf(ps, i - 1), ps[i]))
  <2> DEFINE f == FirstOf(ps, i - 1)
  <2>1. i \in Nat /\ i - 1 \in Nat /\ \A k \in 1 .. i : k \in 1 .. Len(ps)
    BY <1>1
  <2>2. f \in [1 .. i - 1 -> Entry]
    BY <1>1, <2>1 DEF FirstOf
  <2>3. f \in Seq(Entry) /\ Len(f) = i - 1
    BY <2>1, <2>2, IsASeq, LenProperties
  <2>4. \A k \in 1 .. i - 1 : f[k] = ps[k]
    BY DEF FirstOf
  <2> HIDE DEF f
  <2>5. \A j, k \in 1 .. Len(f) : j < k => f[j].id < f[k].id
    BY <2>1, <2>3, <2>4, ListFacts
  <2>6. \A j \in 1 .. Len(f) : f[j].id < ps[i].id
    BY <2>1, <2>3, <2>4, ListFacts
  <2>7. /\ \A e \in Entry : e.id \in Nat
        /\ ps[i] \in Entry /\ Len(f) \in 0 .. Len(f)
        /\ \A j \in Len(f) + 1 .. Len(f) : f[j].id > ps[i].id
    BY <1>1, <2>1, <2>3, BaseAssumption DEF Entry, Byte
  <2>8. Sort(Append(f, ps[i])) =
            [k \in 1 .. Len(f) + 1 |->
                IF k <= Len(f) THEN f[k] ELSE IF k = Len(f) + 1 THEN ps[i] ELSE f[k - 1]]
    <3>1. Ascending(f, Entry) /\ Behind(f, Len(f), ps[i].id)
      BY <2>3, <2>5, <2>6, <2>7 DEF Ascending, Behind
    <3>2. Sort(Append(f, ps[i])) = Inserted(f, Len(f), ps[i])
      BY <2>7, <3>1, SortInsertsEntry
    <3> QED
      BY <3>2 DEF Inserted
  <2>9. Len(f) + 1 = i
    BY <2>1, <2>3
  <2>10. \A k \in 1 .. i :
             (IF k <= Len(f) THEN f[k] ELSE IF k = Len(f) + 1 THEN ps[i] ELSE f[k - 1]) = ps[k]
    BY <2>1, <2>3, <2>4
  <2>11. FirstOf(ps, i) = Sort(Append(f, ps[i]))
    BY <2>8, <2>9, <2>10 DEF FirstOf
  <2> QED
    BY <2>11 DEF f
<1> QED
  BY <1>2, <1>3, <1>4

\* After i turns the client has the first i players and stands where the next
\* entry begins.
LEMMA TurnsAre ==
    ASSUME NEW ps \in Lists
    PROVE  Turns(At(EncodeLobbyUpdate(ps), 2), Len(ps))[Len(ps)].ps = ps
<1> DEFINE n == Len(ps)
           msg == EncodeLobbyUpdate(ps)
           B == Buffers(ps)
           start == At(msg, 2)
           State(i) == [r |-> At(msg, Len(B[i])), ps |-> FirstOf(ps, i)]
           IsTurns(f) == f = [i \in 0 .. n |-> IF i = 0 THEN [r |-> start, ps |-> <<>>]
                                               ELSE DecodePlayer(f[i - 1])]
           G == [i \in 0 .. n |-> State(i)]
           F == Turns(start, n)
<1>1. n \in Nat /\ \A i \in 1 .. n : ps[i] \in Entry
  BY ListFacts
<1>2. /\ msg \in Seq(Byte)
      /\ Len(B[0]) = 2
      /\ \A i \in 1 .. n :
             /\ Occurs(msg, Len(B[i - 1]), EncodePlayer(ps[i]))
             /\ Len(B[i]) = Len(B[i - 1]) + 2 + Len(ps[i].name)
      /\ \A i \in 0 .. n : Len(B[i]) \in Nat
  BY EntriesThere
<1>3. /\ FirstOf(ps, 0) = <<>> /\ FirstOf(ps, n) = ps
      /\ \A i \in 1 .. n : FirstOf(ps, i) = Sort(Append(FirstOf(ps, i - 1), ps[i]))
  BY FirstOfGrows
<1>4. F = CHOOSE f : IsTurns(f)
  BY DEF Turns
<1> HIDE DEF n, msg, B
<1>5. State(0) = [r |-> start, ps |-> <<>>]
  BY <1>2, <1>3
<1>6. ASSUME NEW i \in 1 .. n PROVE i - 1 \in 0 .. n /\ i \in 0 .. n /\ i # 0 /\ State(i) = DecodePlayer(State(i - 1))
  <2>1. i - 1 \in 0 .. n /\ i \in 0 .. n /\ i # 0
    BY <1>1
  <2>2. DecodePlayer(State(i - 1)) =
            [r |-> At(msg, Len(B[i - 1]) + 2 + Len(ps[i].name)),
             ps |-> Sort(Append(FirstOf(ps, i - 1), ps[i]))]
    <3> DEFINE c == Len(B[i - 1])
               p == ps[i]
               q == FirstOf(ps, i - 1)
    <3>1. c \in Nat /\ p \in Entry /\ Occurs(msg, c, EncodePlayer(p))
      BY <1>1, <1>2, <2>1
    <3> HIDE DEF c, p, q
    <3>2. DecodePlayer([r |-> At(msg, c), ps |-> q]) =
              [r |-> At(msg, c + 2 + Len(p.name)), ps |-> Sort(Append(q, p))]
      BY <1>2, <3>1, DecodePlayerReads
    <3> QED
      BY <3>2 DEF c, p, q
  <2> QED
    BY <1>2, <1>3, <2>1, <2>2
<1> HIDE DEF State, start
<1>7. IsTurns(G)
  <2>1. ASSUME NEW i \in 0 .. n
        PROVE  State(i) = IF i = 0 THEN [r |-> start, ps |-> <<>>] ELSE DecodePlayer(G[i - 1])
    <3>1. CASE i = 0
      BY <1>5, <3>1
    <3>2. CASE i # 0
      <4>1. i \in 1 .. n
        BY <1>1, <3>2
      <4>2. G[i - 1] = State(i - 1)
        BY <1>6, <4>1
      <4> QED
        BY <1>6, <3>2, <4>1, <4>2
    <3> QED
      BY <3>1, <3>2
  <2>2. DOMAIN G = 0 .. n /\ \A i \in 0 .. n : G[i] = State(i)
    OBVIOUS
  <2> QED
    BY <2>1
<1>8. IsTurns(F)
  <2> HIDE DEF F, G
  <2> QED
    BY <1>4, <1>7
<1> HIDE DEF F
<1>9. F[0] = State(0) /\ \A i \in 1 .. n : F[i] = DecodePlayer(F[i - 1])
  <2>1. 0 \in 0 .. n
    BY <1>1
  <2> QED
    BY <1>5, <1>6, <1>8, <2>1
<1>10. F[n] = State(n)
  <2> DEFINE Good == {i \in 0 .. n : F[i] = State(i)}
  <2>1. 0 \in Good
    BY <1>1, <1>9
  <2>2. \A i \in 1 .. n : i - 1 \in Good => i \in Good
    BY <1>6, <1>9
  <2>3. \A i \in 0 .. n : i \in Good
    <3> HIDE DEF Good
    <3> QED
      BY <1>1, <2>1, <2>2, TurnByTurn
  <2> QED
    BY <1>1, <2>3
<1>11. State(n).ps = ps
  BY <1>3 DEF State
<1> QED
  BY <1>10, <1>11 DEF F, start, n, msg

\* Every client sees the list of the server.
LEMMA LobbyUpdateDecodes ==
    ASSUME NEW ps \in Lists
    PROVE  /\ Whole(EncodeLobbyUpdate(ps))
           /\ DecodeLobbyUpdate(EncodeLobbyUpdate(ps)) = ps
<1> DEFINE t == Integer(1, MessageType.updateLobby)
           n == Len(ps)
           c == Integer(1, n)
           m == EncodeLobbyUpdate(ps)
<1>1. /\ t \in Seq(Byte) /\ Len(t) = 1 /\ Fits(1, MessageType.updateLobby)
      /\ c \in Seq(Byte) /\ Len(c) = 1 /\ Fits(1, n)
  BY ListFacts, ByteFits, TypesAreBytes
<1>2. m \in Seq(Byte) /\ Occurs(m, 0, t \o c) /\ Len(m) <= Base * Base + Base
  <2>1. Buffers(ps)[0] = t \o c
    BY BuffersAre
  <2> HIDE DEF t, c
  <2> QED
    BY <2>1, EntriesThere
<1> HIDE DEF m, n
<1>3. Occurs(m, 0, t) /\ Occurs(m, 1, c)
  <2> HIDE DEF t, c
  <2>1. Occurs(m, 0, t) /\ Occurs(m, 0 + Len(t), c)
    BY <1>1, <1>2, OccursInConcat
  <2> QED
    BY <1>1, <2>1
<1>4. SkipInteger(At(m, 0), 1) = At(m, 1)
  BY <1>1, <1>2, <1>3, IntegerThere
<1>5. PeekInteger(At(m, 1), 1) = n /\ SkipInteger(At(m, 1), 1) = At(m, 2)
  BY <1>1, <1>2, <1>3, IntegerThere
<1>6. Reader(m) = At(m, 0)
  BY DEF Reader, At
<1>7. DecodeLobbyUpdate(m) = Turns(At(m, 2), n)[n].ps
  BY <1>4, <1>5, <1>6 DEF DecodeLobbyUpdate
<1>8. DecodeLobbyUpdate(m) = ps
  BY <1>7, TurnsAre DEF m, n
<1>9. Whole(m)
  <2>1. Len(m) \in Nat
    BY <1>2, LenProperties
  <2> QED
    BY <1>2, <2>1, SizesFit, FramesAreWhole
<1> QED
  BY <1>8, <1>9 DEF m
-----------------------------------------------------------------------------
\* What the messages are about is what their fields can hold.
LEMMA ListedFits ==
    ASSUME Sorted
    PROVE  /\ Listed \in Lists
           /\ \A i \in DOMAIN players : /\ players[i].id \in Byte
                                        /\ NameOf[players[i].connection] \in Short
           /\ LobbyName \in Short
           /\ Texts \subseteq Long
<1>1. /\ players \in Seq(Player) /\ Len(players) \in Nat /\ Len(players) < Base
      /\ DOMAIN players = 1 .. Len(players)
      /\ Byte = 0 .. MaxPlayers
  BY LenProperties, BaseAssumption, MessageAssumption DEF Sorted, TypeOK, Byte
<1>2. ASSUME NEW i \in DOMAIN players
      PROVE  players[i].id \in Byte /\ NameOf[players[i].connection] \in Short
  <2>1. players[i] \in Player
    BY <1>1, ElementOfSeq
  <2>2. players[i].id \in 0 .. MaxPlayers - 1 /\ players[i].connection \in Connections
    BY <2>1 DEF Player
  <2>3. players[i].id \in Byte
    BY <1>1, <2>2, VectorAssumption
  <2>4. NameOf[players[i].connection] \in Short
    BY <2>2, MessageAssumption DEF Short
  <2> QED
    BY <2>3, <2>4
<1>3. Listed \in Lists
  <2>1. \A i \in 1 .. Len(players) : Named(players[i]) \in Entry
    BY <1>1, <1>2 DEF Named, Entry
  <2>2. Listed \in [1 .. Len(players) -> Entry]
    BY <1>1, <2>1 DEF Listed
  <2>3. Listed \in Seq(Entry) /\ Len(Listed) = Len(players)
    BY <1>1, <2>2, IsASeq, LenProperties
  <2>4. \A i \in 1 .. Len(players) : Listed[i].id = players[i].id
    BY <1>1 DEF Listed, Named
  <2>5. \A i, j \in 1 .. Len(players) : i < j => players[i].id < players[j].id
    BY <1>1 DEF Sorted, IdCompare
  <2> QED
    BY <1>1, <2>3, <2>4, <2>5 DEF Lists
<1>4. LobbyName \in Short /\ Texts \subseteq Long
  BY MessageAssumption DEF Short, Long
<1> QED
  BY <1>2, <1>3, <1>4

\* Whatever the vector of a lobby can be, its messages are understood.
LEMMA Decoded ==
    Sorted => UpdatesDecoded /\ AnswersDecoded /\ RequestsDecoded
<1> SUFFICES ASSUME Sorted PROVE UpdatesDecoded /\ AnswersDecoded /\ RequestsDecoded
  OBVIOUS
<1>1. UpdatesDecoded
  BY ListedFits, LobbyUpdateDecodes DEF UpdatesDecoded
<1>2. AnswersDecoded
  <2>1. LobbyName \in Short /\ \A text \in Texts : text \in Long
    BY ListedFits
  <2>2. \A i \in DOMAIN players : players[i].id \in Byte
    BY ListedFits
  <2> QED
    BY <2>1, <2>2, LobbyJoinedDecodes, RelayDecodes DEF AnswersDecoded
<1>3. RequestsDecoded
  <2>1. LobbyName \in Short /\ \A text \in Texts : text \in Long
    BY ListedFits
  <2>2. \A c \in {players[i].connection : i \in DOMAIN players} : NameOf[c] \in Short
    BY ListedFits
  <2> QED
    BY <2>1, <2>2, CreateLobbyDecodes, JoinLobbyDecodes, SendMessageDecodes DEF RequestsDecoded
<1> QED
  BY <1>1, <1>2, <1>3

\* Every update that the server can send is a whole frame, in which clients find
\* the list of the server: after joins and leaves in any order, up to a full
\* lobby of players with the longest names.
THEOREM UpdatesAreDecoded == Spec => []UpdatesDecoded
<1>1. Sorted => UpdatesDecoded
  BY Decoded
<1> QED
  BY <1>1, StaysSorted, PTL

\* Whoever joins is told the name of the lobby and his id, and what he says
\* arrives under that id, up to the longest text.
THEOREM AnswersAreDecoded == Spec => []AnswersDecoded
<1>1. Sorted => AnswersDecoded
  BY Decoded
<1> QED
  BY <1>1, StaysSorted, PTL

\* The server reads of every request with fields what the client wrote.
THEOREM RequestsAreDecoded == Spec => []RequestsDecoded
<1>1. Sorted => RequestsDecoded
  BY Decoded
<1> QED
  BY <1>1, StaysSorted, PTL
=============================================================================
