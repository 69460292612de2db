------------------------- MODULE MessageHistoryProofs -------------------------
(***************************************************************************)
(* Proofs about paging: for any number of messages and any page sizes the  *)
(* pages join up and pass nothing over.                                    *)
(***************************************************************************)
EXTENDS MessageHistory, FiniteSetTheorems, SequenceTheorems, TLAPS

-----------------------------------------------------------------------------
(* What the queries return.                                                *)

\* NewestFirst has every row once, the newest first.
LEMMA NewestFirstIs ==
  ASSUME NEW rows \in SUBSET Nat, IsFiniteSet(rows)
  PROVE  LET s == NewestFirst(rows) IN
         /\ s \in Seq(rows) /\ Len(s) = Cardinality(rows)
         /\ \A i, j \in DOMAIN s : i < j => s[i] > s[j]
         /\ \A m \in rows : \E i \in DOMAIN s : s[i] = m
  <1> DEFINE s == NewestFirst(rows)
             size == Cardinality(rows)
             rank == [m \in rows |-> Cardinality({n \in rows : n > m})]
  <1>1. size \in Nat /\ size = Cardinality(rows)
    BY FS_CardinalityType
  <1> HIDE DEF size
  <1>2. ASSUME NEW m \in rows
        PROVE  IsFiniteSet({n \in rows : n > m}) /\ rank[m] \in 0..size - 1
    <2>1. IsFiniteSet(rows \ {m}) /\ Cardinality(rows \ {m}) = size - 1
      BY <1>1, FS_RemoveElement
    <2>2. {n \in rows : n > m} \in SUBSET (rows \ {m})
      OBVIOUS
    <2>3. /\ IsFiniteSet({n \in rows : n > m})
          /\ Cardinality({n \in rows : n > m}) <= size - 1
      BY <2>1, <2>2, FS_Subset
    <2>4. Cardinality({n \in rows : n > m}) \in Nat
      BY <2>3, FS_CardinalityType
    <2> QED
      BY <1>1, <2>3, <2>4
  <1>3. ASSUME NEW m \in rows, NEW k \in rows, m < k
        PROVE  rank[k] < rank[m]
    <2> DEFINE above == {n \in rows : n > m}
    <2>1. k \in above /\ IsFiniteSet(above) /\ rank[m] = Cardinality(above)
      BY <1>2, <1>3
    <2>2. {n \in rows : n > k} \in SUBSET (above \ {k})
      <3> SUFFICES ASSUME NEW n \in rows, n > k
                   PROVE  n > m /\ n # k
        OBVIOUS
      <3>1. n \in Nat /\ k \in Nat /\ m \in Nat
        OBVIOUS
      <3> QED
        BY <1>3, <3>1
    <2> HIDE DEF above
    <2>3. IsFiniteSet(above \ {k}) /\ Cardinality(above \ {k}) = rank[m] - 1
      BY <2>1, FS_RemoveElement
    <2>4. Cardinality({n \in rows : n > k}) <= rank[m] - 1
      BY <2>2, <2>3, FS_Subset
    <2> QED
      BY <1>1, <1>2, <2>4
  <1>4. rank \in [rows -> 0..size - 1]
    BY <1>2
  <1> HIDE DEF rank
  <1>5. \A m, k \in rows : rank[m] = rank[k] => m = k
    <2> SUFFICES ASSUME NEW m \in rows, NEW k \in rows, rank[m] = rank[k]
                 PROVE  m = k
      OBVIOUS
    <2>1. m \in Nat /\ k \in Nat /\ rank[m] \in Int
      BY <1>1, <1>4
    <2> QED
      BY <1>3, <2>1
  <1>6. rank \in Injection(rows, 0..size - 1)
    BY <1>4, <1>5 DEF Injection, IsInjective
  <1>7. IsFiniteSet(0..size - 1) /\ Cardinality(0..size - 1) = size
    <2>1. PICK top \in Int : top = size - 1
      BY <1>1
    <2>2. 0 \in Int
      OBVIOUS
    <2>3. IsFiniteSet(0..top) /\ Cardinality(0..top) = IF 0 > top THEN 0 ELSE top - 0 + 1
      BY <2>1, <2>2, FS_Interval, Zenon
    <2> QED
      BY <1>1, <2>1, <2>3
  <1>8. rank \in Surjection(rows, 0..size - 1)
    <2> DEFINE ranks == 0..size - 1
    <2>1. rank \in Injection(rows, ranks) /\ IsFiniteSet(ranks) /\ Cardinality(ranks) = size
      BY <1>6, <1>7
    <2> HIDE DEF ranks
    <2>2. Cardinality(rows) = Cardinality(ranks)
      BY <1>1, <2>1
    <2>3. rank \in Surjection(rows, ranks)
      BY <2>1, <2>2, FS_Injection
    <2> QED
      BY <2>3 DEF ranks
  <1>9. \A m \in rows : rank[m] = Cardinality({n \in rows : n > m})
    BY DEF rank
  <1>10. ASSUME NEW i \in 1..size
         PROVE  s[i] \in rows /\ rank[s[i]] = i - 1
    <2>1. i - 1 \in 0..size - 1
      BY <1>1
    <2>2. \E m \in rows : rank[m] = i - 1
      BY <1>8, <2>1 DEF Surjection
    <2>3. \E m \in rows : Cardinality({n \in rows : n > m}) = i - 1
      BY <1>9, <2>2
    <2>4. s[i] = CHOOSE m \in rows : Cardinality({n \in rows : n > m}) = i - 1
      BY <1>1 DEF NewestFirst
    <2>5. s[i] \in rows /\ Cardinality({n \in rows : n > s[i]}) = i - 1
      BY <2>3, <2>4
    <2> QED
      BY <1>9, <2>5
  <1>11. s \in Seq(rows) /\ Len(s) = size /\ DOMAIN s = 1..size
    <2>1. s \in [1..size -> rows]
      BY <1>1, <1>10 DEF NewestFirst
    <2> HIDE DEF s
    <2>2. s \in Seq(rows)
      BY <1>1, <2>1, SeqDef
    <2> QED
      BY <1>1, <2>1, <2>2
  <1> HIDE DEF s
  <1>12. ASSUME NEW i \in 1..size, NEW j \in 1..size, i < j
         PROVE  s[i] > s[j]
    <2>1. /\ s[i] \in rows /\ s[j] \in rows /\ s[i] \in Nat /\ s[j] \in Nat
          /\ rank[s[i]] = i - 1 /\ rank[s[j]] = j - 1
      BY <1>10
    <2>2. s[i] # s[j] /\ ~(s[i] < s[j])
      BY <1>1, <1>3, <1>12, <2>1
    <2> QED
      BY <2>1, <2>2
  <1>13. ASSUME NEW m \in rows
         PROVE  \E i \in 1..size : s[i] = m
    <2>1. rank[m] + 1 \in 1..size /\ (rank[m] + 1) - 1 = rank[m]
      BY <1>1, <1>4
    <2> QED
      BY <1>5, <1>10, <2>1
  <1> QED
    BY <1>1, <1>11, <1>12, <1>13 DEF s

\* findMany finds rows older than the cursor, newest first, and leaves out a row
\* only when it has as many as it may have, all newer.
LEMMA FindManyIs ==
  ASSUME messages \in SUBSET Nat, IsFiniteSet(messages), NoCursor \notin messages,
         NEW from \in messages \cup {NoCursor}, NEW take \in Nat
  PROVE  LET found == FindMany(from, take) IN
         /\ found \in Seq(messages) /\ Len(found) <= take
         /\ \A i, j \in DOMAIN found : i < j => found[i] > found[j]
         /\ from # NoCursor => \A i \in DOMAIN found : found[i] < from
         /\ \A m \in messages : from = NoCursor \/ m < from =>
              \/ \E i \in DOMAIN found : found[i] = m
              \/ Len(found) = take /\ \A i \in DOMAIN found : found[i] > m
  <1> DEFINE rows == {m \in messages : from = NoCursor \/ m <= from}
             skip == IF from = NoCursor THEN 0 ELSE 1
             sorted == NewestFirst(rows)
             n == Len(sorted)
             last == Min({skip + take, n})
             found == FindMany(from, take)
  <1>1. found = SubSeq(sorted, skip + 1, last)
    BY DEF FindMany
  <1>2. rows \in SUBSET Nat /\ IsFiniteSet(rows) /\ rows \subseteq messages
    BY FS_Subset
  <1>3. \A m \in messages : m \in rows <=> from = NoCursor \/ m <= from
    OBVIOUS
  <1> HIDE DEF rows
  <1>4. /\ sorted \in Seq(rows) /\ n \in Nat /\ DOMAIN sorted = 1..n
        /\ \A i, j \in 1..n : i < j => sorted[i] > sorted[j]
        /\ \A m \in rows : \E i \in 1..n : sorted[i] = m
        /\ \A i \in 1..n : sorted[i] \in rows /\ sorted[i] \in Nat
    <2>1. /\ sorted \in Seq(rows)
          /\ \A i, j \in DOMAIN sorted : i < j => sorted[i] > sorted[j]
          /\ \A m \in rows : \E i \in DOMAIN sorted : sorted[i] = m
      BY <1>2, NewestFirstIs
    <2>2. n \in Nat /\ DOMAIN sorted = 1..n /\ \A i \in 1..n : sorted[i] \in rows
      BY <2>1, LenProperties, ElementOfSeq
    <2> QED
      BY <1>2, <2>1, <2>2
  <1> HIDE DEF sorted, n
  <1>5. skip \in {0, 1} /\ (from = NoCursor => skip = 0) /\ (from # NoCursor => skip = 1)
    OBVIOUS
  <1> HIDE DEF skip
  <1>6. last \in {skip + take, n} /\ last <= skip + take /\ last <= n /\ last \in Nat
    <2>1. \E x \in {skip + take, n} : \A y \in {skip + take, n} : x =< y
      BY <1>4, <1>5
    <2>2. /\ last \in {skip + take, n}
          /\ \A y \in {skip + take, n} : last =< y
      BY <2>1 DEF Min
    <2> QED
      BY <1>4, <1>5, <2>2
  <1> HIDE DEF last
  <1>7. /\ found \in Seq(rows)
        /\ Len(found) = IF skip + 1 <= last THEN last - skip ELSE 0
        /\ \A i \in 1..last - skip : found[i] = sorted[skip + i]
    <2>1. \A i \in skip + 1..last : sorted[i] \in rows
      BY <1>4, <1>5, <1>6
    <2>2. /\ SubSeq(sorted, skip + 1, last) \in Seq(rows)
          /\ Len(SubSeq(sorted, skip + 1, last)) =
               IF skip + 1 <= last THEN last - (skip + 1) + 1 ELSE 0
          /\ \A i \in 1..last - (skip + 1) + 1 :
               SubSeq(sorted, skip + 1, last)[i] = sorted[(skip + 1) + i - 1]
      BY <1>5, <1>6, <2>1, SubSeqProperties
    <2> QED
      BY <1>1, <1>5, <1>6, <2>2
  <1> HIDE DEF found
  <1>8. /\ DOMAIN found = 1..Len(found) /\ Len(found) \in Nat /\ found \in Seq(messages)
        /\ \A i \in 1..Len(found) :
             i \in 1..last - skip /\ skip + i \in 1..n /\ found[i] = sorted[skip + i]
    <2>1. DOMAIN found = 1..Len(found) /\ Len(found) \in Nat /\ found \in Seq(messages)
      BY <1>2, <1>7, LenProperties, SeqMonotonic
    <2>2. ASSUME NEW i \in 1..Len(found)
          PROVE  i \in 1..last - skip /\ skip + i \in 1..n
      BY <1>4, <1>5, <1>6, <1>7, <2>1
    <2> QED
      BY <1>7, <2>1, <2>2
  <1>9. Len(found) <= take
    BY <1>5, <1>6, <1>7
  <1>10. ASSUME NEW i \in 1..Len(found), NEW j \in 1..Len(found), i < j
         PROVE  found[i] > found[j]
    <2>1. skip + i < skip + j
      BY <1>5, <1>10
    <2> QED
      BY <1>4, <1>8, <2>1
  <1>11. from # NoCursor => n >= 1 /\ sorted[1] = from
    <2> SUFFICES ASSUME from # NoCursor
                 PROVE  n >= 1 /\ sorted[1] = from
      OBVIOUS
    <2>1. from \in rows /\ from \in Nat
      BY <1>2, <1>3
    <2>2. PICK i \in 1..n : sorted[i] = from
      BY <1>4, <2>1
    <2>3. 1 \in 1..n /\ sorted[1] \in rows /\ sorted[1] \in Nat
      BY <1>4, <2>2
    <2>4. sorted[1] <= from
      BY <1>2, <1>3, <2>3
    <2>5. i # 1 => sorted[1] > from
      BY <1>4, <2>2, <2>3
    <2> QED
      BY <2>1, <2>2, <2>3, <2>4, <2>5
  <1>12. from # NoCursor => \A i \in 1..Len(found) : found[i] < from
    <2> SUFFICES ASSUME from # NoCursor, NEW i \in 1..Len(found)
                 PROVE  found[i] < from
      OBVIOUS
    <2>1. skip = 1 /\ 1 < skip + i /\ skip + i \in 1..n /\ 1 \in 1..n
      BY <1>4, <1>5, <1>8, <1>11
    <2>2. sorted[1] > sorted[skip + i] /\ sorted[1] \in Nat /\ sorted[skip + i] \in Nat
      BY <1>4, <2>1
    <2> QED
      BY <1>8, <1>11, <2>2
  <1>13. ASSUME NEW m \in messages, from = NoCursor \/ m < from
         PROVE  \/ \E i \in 1..Len(found) : found[i] = m
                \/ Len(found) = take /\ \A i \in 1..Len(found) : found[i] > m
    <2>1. m \in rows /\ m \in Nat
      <3>1. CASE from = NoCursor
        BY <1>3, <3>1
      <3>2. CASE from # NoCursor
        BY <1>3, <1>13, <3>2
      <3> QED
        BY <3>1, <3>2
    <2>2. PICK k \in 1..n : sorted[k] = m
      BY <1>4, <2>1
    <2>3. k > skip
      <3>1. CASE from = NoCursor
        BY <1>4, <1>5, <3>1
      <3>2. CASE from # NoCursor
        <4>1. m # from
          BY <1>13, <2>1, <3>2
        <4>2. k # 1
          BY <1>11, <2>2, <3>2, <4>1
        <4> QED
          BY <1>4, <1>5, <3>2, <4>2
      <3> QED
        BY <3>1, <3>2
    <2>4. CASE k <= last
      <3>1. k - skip \in 1..Len(found) /\ skip + (k - skip) = k
        BY <1>4, <1>5, <1>6, <1>7, <2>3, <2>4
      <3> QED
        BY <1>8, <2>2, <3>1
    <2>5. CASE k > last
      <3>1. last = skip + take
        BY <1>4, <1>6, <2>5
      <3>2. Len(found) = take
        BY <1>5, <1>7, <3>1
      <3>3. \A i \in 1..Len(found) : skip + i < k
        BY <1>4, <1>5, <1>6, <1>8, <2>5
      <3>4. \A i \in 1..Len(found) : found[i] > m
        BY <1>4, <1>8, <2>2, <3>3
      <3> QED
        BY <3>2, <3>4
    <2> QED
      BY <1>4, <1>6, <2>4, <2>5
  <1> QED
    BY <1>8, <1>9, <1>10, <1>12, <1>13 DEF found

\* A page is in ascending order and older than the cursor; the next cursor is its
\* first message; and everything from there up to the cursor is on the page.
LEMMA GetMessagesIs ==
  ASSUME messages \in SUBSET Nat, IsFiniteSet(messages), NoCursor \notin messages,
         limit \in Nat, NEW from \in messages \cup {NoCursor}
  PROVE  LET page == GetMessages(from).messages
             next == GetMessages(from).nextCursor IN
         /\ page \in Seq(messages)
         /\ \A i, j \in DOMAIN page : i < j => page[i] < page[j]
         /\ from # NoCursor => \A i \in DOMAIN page : page[i] < from
         /\ next # NoCursor => page # <<>> /\ page[1] = next
         /\ limit > 0 =>
              \A m \in messages :
                (from = NoCursor \/ m < from) /\ (next = NoCursor \/ m >= next) =>
                  \E i \in DOMAIN page : page[i] = m
  <1> DEFINE found == FindMany(from, limit + 1)
             hasMore == Len(found) > limit
             kept == IF hasMore THEN Front(found) ELSE found
             n == Len(kept)
             page == GetMessages(from).messages
             next == GetMessages(from).nextCursor
  <1>1. /\ page = Reverse(kept)
        /\ next = IF hasMore /\ page # <<>> THEN Head(page) ELSE NoCursor
    BY DEF GetMessages
  <1>2. /\ found \in Seq(messages) /\ Len(found) <= limit + 1
        /\ \A i, j \in DOMAIN found : i < j => found[i] > found[j]
        /\ from # NoCursor => \A i \in DOMAIN found : found[i] < from
        /\ \A m \in messages : from = NoCursor \/ m < from =>
             \/ \E i \in DOMAIN found : found[i] = m
             \/ Len(found) = limit + 1 /\ \A i \in DOMAIN found : found[i] > m
    <2>1. limit + 1 \in Nat
      OBVIOUS
    <2> QED
      BY <2>1, FindManyIs
  <1> HIDE DEF found
  <1>3. /\ Len(found) \in Nat /\ DOMAIN found = 1..Len(found)
        /\ \A i \in 1..Len(found) : found[i] \in messages /\ found[i] \in Nat
    BY <1>2, LenProperties, ElementOfSeq
  <1>4. Len(found) \in Nat /\ Len(found) <= limit + 1 /\ limit \in Nat
    BY <1>2, <1>3
  <1>5. /\ hasMore => Len(found) = limit + 1
        /\ ~hasMore => Len(found) <= limit /\ Len(found) # limit + 1
    BY <1>4
  <1> HIDE DEF hasMore
  <1>6. /\ kept \in Seq(messages)
        /\ n = IF hasMore THEN limit ELSE Len(found)
        /\ \A i \in 1..n : kept[i] = found[i]
    <2>1. CASE hasMore
      <3>1. Len(found) = limit + 1
        BY <1>5, <2>1
      <3>2. Front(found) = SubSeq(found, 1, limit)
        BY <3>1 DEF Front
      <3>3. \A i \in 1..limit : found[i] \in messages
        BY <1>3, <3>1
      <3>4. /\ SubSeq(found, 1, limit) \in Seq(messages)
            /\ Len(SubSeq(found, 1, limit)) = IF 1 <= limit THEN limit - 1 + 1 ELSE 0
            /\ \A i \in 1..limit - 1 + 1 : SubSeq(found, 1, limit)[i] = found[1 + i - 1]
        BY <3>3, SubSeqProperties
      <3> QED
        BY <2>1, <3>2, <3>4
    <2>2. CASE ~hasMore
      BY <1>2, <2>2
    <2> QED
      BY <2>1, <2>2
  <1>7. n \in Nat /\ n <= Len(found)
    BY <1>6, <1>4, <1>5
  <1> HIDE DEF kept, n
  <1>8. /\ page \in Seq(messages) /\ Len(page) = n /\ DOMAIN page = 1..n
        /\ \A i \in 1..n : n - i + 1 \in 1..n /\ page[i] = found[n - i + 1]
    <2>1. Len(kept) = n
      BY DEF n
    <2>2. page = [i \in 1..n |-> kept[(n - i) + 1]]
      BY <1>1, <2>1 DEF Reverse
    <2>3. \A i \in 1..n : n - i + 1 \in 1..n /\ kept[(n - i) + 1] = found[n - i + 1]
      BY <1>6, <1>7
    <2> HIDE DEF page
    <2>4. page \in [1..n -> messages]
      BY <1>3, <1>7, <2>2, <2>3
    <2>5. page \in Seq(messages)
      BY <1>7, <2>4, SeqDef
    <2> QED
      BY <1>7, <2>2, <2>3, <2>4, <2>5
  <1> HIDE DEF page, next
  <1>9. ASSUME NEW i \in 1..n, NEW j \in 1..n, i < j
        PROVE  page[i] < page[j]
    <2>1. n - i + 1 > n - j + 1 /\ n - i + 1 \in 1..Len(found) /\ n - j + 1 \in 1..Len(found)
      BY <1>3, <1>7, <1>9
    <2>2. found[n - j + 1] > found[n - i + 1]
      BY <1>2, <1>3, <2>1
    <2> QED
      BY <1>3, <1>8, <2>1, <2>2
  <1>10. from # NoCursor => \A i \in 1..n : page[i] < from
    <2> SUFFICES ASSUME from # NoCursor, NEW i \in 1..n
                 PROVE  page[i] < from
      OBVIOUS
    <2>1. n - i + 1 \in 1..Len(found) /\ page[i] = found[n - i + 1]
      BY <1>7, <1>8, <1>4
    <2> QED
      BY <1>2, <1>3, <2>1
  <1>11. next # NoCursor => hasMore /\ page # <<>> /\ page[1] = next
    BY <1>1, <1>8
  <1>12. ASSUME limit > 0, NEW m \in messages, from = NoCursor \/ m < from,
                next = NoCursor \/ m >= next
         PROVE  \E i \in 1..n : page[i] = m
    <2> SUFFICES \E k \in 1..n : found[k] = m
      <3> SUFFICES ASSUME NEW k \in 1..n, found[k] = m
                   PROVE  \E i \in 1..n : page[i] = m
        OBVIOUS
      <3>1. n - k + 1 \in 1..n /\ n - (n - k + 1) + 1 = k
        BY <1>7
      <3> QED
        BY <1>8, <3>1
    <2>1. \/ \E i \in 1..Len(found) : found[i] = m
          \/ Len(found) = limit + 1 /\ \A i \in 1..Len(found) : found[i] > m
      BY <1>2, <1>3, <1>12
    <2>2. CASE ~hasMore
      <3>1. n = Len(found) /\ Len(found) # limit + 1
        BY <1>6, <1>5, <2>2
      <3> QED
        BY <2>1, <3>1
    <2>3. CASE hasMore
      <3>1. n = limit /\ Len(found) = limit + 1 /\ 1 \in 1..n /\ n \in 1..Len(found)
        BY <1>6, <1>12, <1>4, <1>5, <2>3
      <3>2. page[1] = found[n] /\ page # <<>>
        BY <1>8, <3>1
      <3>3. next = found[n]
        <4>1. Head(page) = page[1]
          BY <1>8, <3>2
        <4> QED
          BY <1>1, <2>3, <3>2, <4>1
      <3>4. m >= found[n] /\ m \in Nat
        BY <1>3, <1>12, <3>1, <3>3
      <3>5. PICK i \in 1..Len(found) : found[i] = m
        BY <1>3, <2>1, <3>1, <3>4
      <3>6. i # n + 1
        BY <1>2, <1>3, <3>1, <3>4, <3>5
      <3>7. i \in 1..n
        BY <3>1, <3>5, <3>6
      <3> QED
        BY <3>5, <3>7
    <2> QED
      BY <2>2, <2>3
  <1> QED
    BY <1>8, <1>9, <1>10, <1>11, <1>12 DEF page, next

-----------------------------------------------------------------------------
(* The inductive invariant.                                                *)

\* The client's list begins with the message its cursor names.
CursorIsFirst ==
  /\ cursor # NoCursor => shown # <<>> /\ shown[1] = cursor
  /\ loaded = "none" => shown = <<>>

HistoryInv ==
  /\ TypeOK /\ IsFiniteSet(messages)
  /\ CursorIsFirst /\ PagesJoinUp /\ NothingPassedOver

\* The next page fits to what is shown, and leaves nothing out in between.
LEMMA LoadPageKeeps ==
  ASSUME HistoryInv, LoadPage
  PROVE  HistoryInv'
  <1> DEFINE page == GetMessages(cursor).messages
             next == GetMessages(cursor).nextCursor
             n == Len(page)
  <1>1. /\ messages \in SUBSET Nat /\ IsFiniteSet(messages) /\ NoCursor \notin messages
        /\ limit \in Nat /\ cursor \in messages \cup {NoCursor} /\ shown \in Seq(messages)
        /\ atFirst \subseteq messages
    BY TimesAssumption, LimitsAssumption DEF HistoryInv, TypeOK
  <1>2. /\ page \in Seq(messages)
        /\ \A i, j \in DOMAIN page : i < j => page[i] < page[j]
        /\ cursor # NoCursor => \A i \in DOMAIN page : page[i] < cursor
        /\ next # NoCursor => page # <<>> /\ page[1] = next
        /\ limit > 0 =>
             \A m \in messages :
               (cursor = NoCursor \/ m < cursor) /\ (next = NoCursor \/ m >= next) =>
                 \E i \in DOMAIN page : page[i] = m
    BY <1>1, GetMessagesIs
  <1>3. /\ loaded # "all" /\ shown' = page \o shown /\ cursor' = next
        /\ loaded' = IF next = NoCursor THEN "all" ELSE "some"
        /\ atFirst' = IF loaded = "none" THEN messages ELSE atFirst
        /\ messages' = messages /\ limit' = limit
    BY DEF LoadPage
  <1> HIDE DEF page, next
  <1>4. /\ n \in Nat /\ DOMAIN page = 1..n /\ Len(shown) \in Nat
        /\ DOMAIN shown = 1..Len(shown)
        /\ \A i \in 1..n : page[i] \in Nat /\ page[i] \in messages
        /\ \A i \in 1..Len(shown) : shown[i] \in Nat
    BY <1>1, <1>2, LenProperties, ElementOfSeq
  <1>5. /\ shown' \in Seq(messages) /\ Len(shown') = n + Len(shown)
        /\ DOMAIN shown' = 1..n + Len(shown)
        /\ \A i \in 1..n + Len(shown) :
             shown'[i] = IF i <= n THEN page[i] ELSE shown[i - n]
    BY <1>1, <1>2, <1>3, ConcatProperties, LenProperties
  <1> HIDE DEF n
  <1>6. \/ cursor = NoCursor /\ loaded = "none" /\ shown = <<>> /\ Len(shown) = 0
        \/ /\ cursor # NoCursor /\ loaded = "some"
           /\ shown # <<>> /\ shown[1] = cursor /\ Len(shown) >= 1
    BY <1>1, <1>3, <1>4, EmptySeq DEF HistoryInv, TypeOK, CursorIsFirst
  <1>7. TypeOK'
    <2>1. next \in messages \cup {NoCursor}
      <3>1. page # <<>> => 1 \in 1..n
        BY <1>2, <1>4, EmptySeq DEF n
      <3> QED
        BY <1>2, <1>4, <3>1
    <2> QED
      BY <1>1, <1>3, <1>5, <2>1 DEF HistoryInv, TypeOK
  <1>8. CursorIsFirst'
    <2>1. loaded' # "none"
      BY <1>3
    <2>2. ASSUME next # NoCursor
          PROVE  shown' # <<>> /\ shown'[1] = next
      <3>1. page # <<>> /\ page[1] = next /\ n >= 1
        BY <1>2, <1>4, <2>2, EmptySeq DEF n
      <3> QED
        BY <1>4, <1>5, <3>1
    <2> QED
      BY <1>3, <2>1, <2>2 DEF CursorIsFirst
  <1>9. PagesJoinUp'
    <2> SUFFICES ASSUME NEW i \in 1..n + Len(shown), NEW j \in 1..n + Len(shown), i < j
                 PROVE  shown'[i] < shown'[j]
      BY <1>5 DEF PagesJoinUp
    <2>1. CASE j <= n
      <3>1. i \in 1..n /\ j \in 1..n /\ i <= n
        BY <1>4, <2>1
      <3>2. page[i] < page[j]
        BY <1>2, <1>4, <3>1
      <3> QED
        BY <1>5, <2>1, <3>1, <3>2
    <2>2. CASE i > n
      <3>1. i - n \in 1..Len(shown) /\ j - n \in 1..Len(shown) /\ i - n < j - n
        BY <1>4, <2>2
      <3>2. shown[i - n] < shown[j - n]
        BY <1>4, <3>1 DEF HistoryInv, PagesJoinUp
      <3> QED
        BY <1>4, <1>5, <2>2, <3>2
    <2>3. CASE i <= n /\ j > n
      <3>1. i \in 1..n /\ j - n \in 1..Len(shown) /\ Len(shown) >= 1
        BY <1>4, <2>3
      <3>2. cursor # NoCursor /\ shown[1] = cursor
        BY <1>6, <3>1
      <3>3. page[i] < shown[1]
        BY <1>2, <1>4, <3>1, <3>2
      <3>4. 1 \in 1..Len(shown) /\ (j - n = 1 \/ 1 < j - n)
        BY <1>4, <3>1
      <3>5. shown[1] = shown[j - n] \/ shown[1] < shown[j - n]
        BY <1>4, <3>1, <3>4 DEF HistoryInv, PagesJoinUp
      <3>6. page[i] < shown[j - n]
        BY <1>4, <3>1, <3>3, <3>4, <3>5
      <3> QED
        BY <1>4, <1>5, <2>3, <3>6
    <2> QED
      BY <1>4, <2>1, <2>2, <2>3
  <1>10. NothingPassedOver'
    <2> SUFFICES ASSUME limit > 0, NEW m \in atFirst', next = NoCursor \/ m >= next
                 PROVE  \E i \in 1..n + Len(shown) : shown'[i] = m
      BY <1>3, <1>5 DEF NothingPassedOver
    <2>1. m \in messages /\ m \in Nat
      BY <1>1, <1>3
    <2>2. CASE cursor = NoCursor \/ m < cursor
      <3>1. PICK i \in 1..n : page[i] = m
        BY <1>2, <1>4, <2>1, <2>2
      <3> QED
        BY <1>4, <1>5, <3>1
    <2>3. CASE cursor # NoCursor /\ ~(m < cursor)
      <3>1. m >= cursor /\ loaded # "none" /\ m \in atFirst
        BY <1>1, <1>3, <1>6, <2>1, <2>3
      <3>2. PICK i \in 1..Len(shown) : shown[i] = m
        BY <1>4, <3>1 DEF HistoryInv, NothingPassedOver
      <3>3. n + i \in 1..n + Len(shown) /\ ~(n + i <= n) /\ (n + i) - n = i
        BY <1>4, <3>2
      <3> QED
        BY <1>5, <3>2, <3>3
    <2> QED
      BY <2>2, <2>3
  <1> QED
    BY <1>1, <1>3, <1>7, <1>8, <1>9, <1>10 DEF HistoryInv

\* Every step keeps the invariant.
LEMMA HistoryStep == HistoryInv /\ [Next]_vars => HistoryInv'
  <1> SUFFICES ASSUME HistoryInv, [Next]_vars
               PROVE  HistoryInv'
    OBVIOUS
  <1>1. ASSUME NEW m \in Times, CreateMessage(m)
        PROVE  HistoryInv'
    <2>1. /\ messages' = messages \cup {m}
          /\ UNCHANGED <<limit, cursor, shown, loaded, atFirst>>
      BY <1>1 DEF CreateMessage
    <2>2. IsFiniteSet(messages')
      BY <2>1, FS_AddElement DEF HistoryInv
    <2>3. shown \in Seq(messages')
      BY <2>1, SeqMonotonic DEF HistoryInv, TypeOK
    <2>4. TypeOK'
      BY <2>1, <2>3 DEF HistoryInv, TypeOK
    <2> QED
      BY <2>1, <2>2, <2>4 DEF HistoryInv, CursorIsFirst, PagesJoinUp, NothingPassedOver
  <1>2. CASE UNCHANGED vars
    BY <1>2 DEF vars, HistoryInv, TypeOK, CursorIsFirst, PagesJoinUp, NothingPassedOver
  <1> QED
    BY <1>1, <1>2, LoadPageKeeps DEF Next

\* The invariant holds in every reachable state.
LEMMA HistoryInvariant == Spec => []HistoryInv
  <1>1. Init => HistoryInv
    <2> SUFFICES ASSUME Init
                 PROVE  HistoryInv
      OBVIOUS
    <2>1. <<>> \in Seq(messages) /\ DOMAIN shown = {} /\ IsFiniteSet(messages)
      BY EmptySeq, FS_EmptySet DEF Init
    <2> QED
      BY <2>1 DEF Init, HistoryInv, TypeOK, CursorIsFirst, PagesJoinUp, NothingPassedOver
  <1> QED
    BY <1>1, HistoryStep, PTL DEF Spec

-----------------------------------------------------------------------------
\* The reading client always holds a list of messages that exist and a cursor that
\* names one of them, or none.
THEOREM HistoryTypeCorrect == Spec => []TypeOK
  BY HistoryInvariant, PTL DEF HistoryInv

\* The pages of getMessages join up in order and without repetition, whatever is
\* written between two of them.
THEOREM PagesInOrder == Spec => []PagesJoinUp
  BY HistoryInvariant, PTL DEF HistoryInv

\* No message that was there at the first page is passed over by a later one.
THEOREM NoneSkipped == Spec => []NothingPassedOver
  BY HistoryInvariant, PTL DEF HistoryInv
=============================================================================
