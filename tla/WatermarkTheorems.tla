-------------------------- MODULE WatermarkTheorems --------------------------
(***************************************************************************)
(* What the operators of Watermark return: the order of rows, the delta    *)
(* query, what watermarks mean for a table that goes on changing, and what *)
(* sequences of rows in order are when they are joined, and sums.          *)
(***************************************************************************)
EXTENDS Watermark, PartialFunctionTheorems, FiniteSetTheorems, SequencesExt, SequenceTheorems,
        WellFoundedInduction, TLAPS

-----------------------------------------------------------------------------
(* Rows and their order. *)

(* Later is a strict total order of rows and watermarks. *)
LEMMA LaterIsAnOrder ==
  ASSUME NEW a \in Stamps, NEW b \in Stamps, NEW c \in Stamps
  PROVE  /\ ~Later(a, a)
         /\ Later(a, b) /\ Later(b, c) => Later(a, c)
         /\ Later(a, b) \/ Later(b, a) \/ a = b
<1>1. /\ a.at \in Nat /\ a.pk \in Nat /\ b.at \in Nat /\ b.pk \in Nat
      /\ c.at \in Nat /\ c.pk \in Nat
  BY DEF Stamps
<1>2. a.at = b.at /\ a.pk = b.pk => a = b
  BY DEF Stamps
<1> QED
  BY <1>1, <1>2 DEF Later

(* The rows of a table are stamps later than the empty watermark. *)
LEMMA RowsAreStamps ==
  ASSUME NEW maxTime \in Nat, NEW maxPk \in Nat, NEW table \in Partial(1..maxPk, 1..maxTime)
  PROVE  /\ Rows(table) \subseteq Stamps
         /\ \A row \in Rows(table) : Later(row, EmptyWatermark)
         /\ \A row \in Rows(table) : row.pk \in DOMAIN table /\ table[row.pk] = row.at
         /\ \A pk \in DOMAIN table : Row(table[pk], pk) \in Rows(table)
<1>1. DOMAIN table \subseteq 1..maxPk /\ table \in [DOMAIN table -> 1..maxTime]
  BY PartialIsFunction
<1>2. \A pk \in DOMAIN table : pk \in Nat /\ table[pk] \in Nat /\ table[pk] > 0
  BY <1>1
<1>3. \A pk \in DOMAIN table :
        /\ Row(table[pk], pk) \in Stamps
        /\ Row(table[pk], pk).at = table[pk] /\ Row(table[pk], pk).pk = pk
  BY <1>2 DEF Row, Stamps
<1>4. \A pk \in DOMAIN table : Later(Row(table[pk], pk), EmptyWatermark)
  BY <1>2 DEF Row, EmptyWatermark, Later
<1> QED
  BY <1>3, <1>4 DEF Rows

(* A table has finitely many rows. *)
LEMMA RowsAreFinite ==
  ASSUME NEW maxTime \in Nat, NEW maxPk \in Nat, NEW table \in Partial(1..maxPk, 1..maxTime)
  PROVE  IsFiniteSet(Rows(table))
<1> DEFINE key == [row \in Rows(table) |-> row.pk]
<1>1. DOMAIN table \subseteq 1..maxPk
  BY PartialIsFunction
<1>2. IsFiniteSet(DOMAIN table)
  <2>1. IsFiniteSet(1..maxPk)
    BY FS_Interval
  <2> QED
    BY <1>1, <2>1, FS_Subset
<1>3. \A row, other \in Rows(table) : row.pk = other.pk => row = other
  <2>1. \A row \in Rows(table) : row \in Stamps /\ table[row.pk] = row.at
    BY RowsAreStamps
  <2> QED
    BY <2>1 DEF Stamps
<1>4. key \in Injection(Rows(table), DOMAIN table)
  BY <1>3, RowsAreStamps DEF Injection, IsInjective
<1> QED
  BY <1>2, <1>4, FS_Injection

(* The sequence of a finite set of stamps in order has all of them. *)
LEMMA OrderedHasAll ==
  ASSUME NEW rows \in SUBSET Stamps, IsFiniteSet(rows), NEW s \in Ordered(rows)
  PROVE  /\ s \in Seq(rows)
         /\ Ascending(s)
         /\ Range(s) = rows
<1> DEFINE n == Cardinality(rows)
<1>1. n \in Nat
  BY FS_CardinalityType
<1>2. s \in [1..n -> rows] /\ Ascending(s)
  BY DEF Ordered
<1>3. \A i, j \in 1..n : s[i] = s[j] => i = j
  <2>1. \A i, j \in 1..n : i < j => s[i] # s[j]
    <3> SUFFICES ASSUME NEW i \in 1..n, NEW j \in 1..n, i < j
                 PROVE  s[i] # s[j]
      OBVIOUS
    <3>1. Later(s[j], s[i]) /\ s[i] \in Stamps
      BY <1>2 DEF Ascending
    <3> QED
      BY <3>1, LaterIsAnOrder
  <2> QED
    BY <1>1, <2>1
<1>4. s \in Injection(1..n, rows)
  BY <1>2, <1>3 DEF Injection, IsInjective
<1>5. Cardinality(1..n) = n
  BY <1>1, FS_Interval
<1>6. s \in Surjection(1..n, rows)
  BY <1>4, <1>5, FS_Injection
<1>7. Range(s) = rows
  BY <1>2, <1>6 DEF Surjection, Range
<1> QED
  BY <1>1, <1>2, <1>7

(* Who is not later than one that is not later than c is not later than c. *)
LEMMA NotLaterIsTransitive ==
  ASSUME NEW a \in Stamps, NEW b \in Stamps, NEW c \in Stamps, ~Later(a, b)
  PROVE  /\ ~Later(b, c) => ~Later(a, c)
         /\ Later(c, b) => Later(c, a)
BY LaterIsAnOrder

(* What the delta query returns. *)
LEMMA DeltaIsMatching ==
  ASSUME NEW maxTime \in Nat, NEW maxPk \in Nat, NEW table \in Partial(1..maxPk, 1..maxTime),
         NEW w \in Stamps, NEW d \in Ordered(Matching(table, w))
  PROVE  /\ d \in Seq(Stamps)
         /\ Ascending(d)
         /\ Range(d) = Matching(table, w)
         /\ \A row \in Range(d) :
              row \in Stamps /\ row.at \in 1..maxTime /\ row \in Rows(table) /\ Later(row, w)
<1>1. Matching(table, w) \subseteq Rows(table) /\ Rows(table) \subseteq Stamps
  BY RowsAreStamps DEF Matching
<1>2. IsFiniteSet(Matching(table, w))
  BY <1>1, RowsAreFinite, FS_Subset
<1>3. d \in Seq(Matching(table, w)) /\ Ascending(d) /\ Range(d) = Matching(table, w)
  BY <1>1, <1>2, OrderedHasAll
<1>4. d \in Seq(Stamps)
  BY <1>1, <1>3
<1>5. \A row \in Rows(table) : row.at \in 1..maxTime
  BY RowsAreStamps, PartialIsFunction
<1> QED
  BY <1>1, <1>3, <1>4, <1>5 DEF Matching

(* The last row of a sequence in order is the latest. *)
LEMMA LastIsLatest ==
  ASSUME NEW s \in Seq(Stamps), Ascending(s), s # << >>
  PROVE  /\ s[Len(s)] \in Range(s) /\ s[Len(s)] \in Stamps
         /\ \A row \in Range(s) : ~Later(row, s[Len(s)])
<1>1. DOMAIN s = 1..Len(s) /\ Len(s) \in Nat /\ Len(s) > 0 /\ \A i \in 1..Len(s) : s[i] \in Stamps
  OBVIOUS
<1>2. \A i \in 1..Len(s) : ~Later(s[i], s[Len(s)])
  <2> SUFFICES ASSUME NEW i \in 1..Len(s)
               PROVE  ~Later(s[i], s[Len(s)])
    OBVIOUS
  <2>1. CASE i = Len(s)
    BY <1>1, <2>1, LaterIsAnOrder
  <2>2. CASE i < Len(s)
    <3>1. Later(s[Len(s)], s[i])
      BY <1>1, <2>2 DEF Ascending
    <3> QED
      BY <1>1, <3>1, LaterIsAnOrder
  <2>3. i \in Nat /\ Len(s) \in Nat /\ i <= Len(s)
    OBVIOUS
  <2> QED
    BY <2>1, <2>2, <2>3
<1> QED
  BY <1>1, <1>2 DEF Range

-----------------------------------------------------------------------------
(* Tables that go on changing. *)

(* A row is still there in a successor, or a later one of its key is. *)
LEMMA SuccessorsGrow ==
  ASSUME NEW maxTime \in Nat, NEW maxPk \in Nat,
         NEW a \in Partial(1..maxPk, 1..maxTime), NEW b \in Partial(1..maxPk, 1..maxTime),
         Successor(a, b), NEW row \in Rows(a)
  PROVE  \E new \in Rows(b) : new = row \/ Later(new, row)
<1>1. row.pk \in DOMAIN b
  BY RowsAreStamps DEF Successor
<1>2. PICK new \in Rows(b) : new = Row(b[row.pk], row.pk)
  BY <1>1, RowsAreStamps
<1>3. CASE new \in Rows(a)
  <2>1. new \in Stamps /\ row \in Stamps
    BY <1>3, RowsAreStamps
  <2>2. new.pk = row.pk /\ a[row.pk] = row.at /\ a[new.pk] = new.at
    BY <1>2, <1>3, RowsAreStamps DEF Row
  <2> QED
    BY <2>1, <2>2 DEF Stamps
<1>4. CASE new \notin Rows(a)
  BY <1>4 DEF Successor
<1> QED
  BY <1>3, <1>4

(* Successors of successors are successors. *)
LEMMA SuccessorsCompose ==
  ASSUME NEW maxTime \in Nat, NEW maxPk \in Nat,
         NEW a \in Partial(1..maxPk, 1..maxTime), NEW b \in Partial(1..maxPk, 1..maxTime),
         NEW c \in Partial(1..maxPk, 1..maxTime),
         Successor(a, b), Successor(b, c)
  PROVE  Successor(a, c)
<1>1. DOMAIN a \subseteq DOMAIN c
  BY DEF Successor
<1>2. ASSUME NEW row \in Rows(c) \ Rows(a), NEW other \in Rows(a)
      PROVE  Later(row, other)
  <2>1. CASE row \in Rows(b)
    BY <1>2, <2>1 DEF Successor
  <2>2. CASE row \notin Rows(b)
    <3>1. PICK newer \in Rows(b) : newer = other \/ Later(newer, other)
      BY SuccessorsGrow
    <3>2. Later(row, newer)
      BY <2>2, <3>1 DEF Successor
    <3>3. row \in Stamps /\ newer \in Stamps /\ other \in Stamps
      BY <3>1, RowsAreStamps
    <3> QED
      BY <3>1, <3>2, <3>3, LaterIsAnOrder
  <2> QED
    BY <2>1, <2>2
<1> QED
  BY <1>1, <1>2 DEF Successor

(* What a table has reached its successors have. *)
LEMMA ReachedForEver ==
  ASSUME NEW maxTime \in Nat, NEW maxPk \in Nat,
         NEW a \in Partial(1..maxPk, 1..maxTime), NEW b \in Partial(1..maxPk, 1..maxTime),
         Successor(a, b), NEW w \in Stamps, Reached(a, w)
  PROVE  Reached(b, w)
<1>1. CASE w = EmptyWatermark
  BY <1>1 DEF Reached
<1>2. CASE w # EmptyWatermark
  <2>1. PICK row \in Rows(a) : row = w \/ Later(row, w)
    BY <1>2 DEF Reached
  <2>2. PICK new \in Rows(b) : new = row \/ Later(new, row)
    BY <2>1, SuccessorsGrow
  <2>3. row \in Stamps /\ new \in Stamps
    BY <2>1, <2>2, RowsAreStamps
  <2>4. new = w \/ Later(new, w)
    BY <2>1, <2>2, <2>3, LaterIsAnOrder
  <2> QED
    BY <2>2, <2>4 DEF Reached
<1> QED
  BY <1>1, <1>2

-----------------------------------------------------------------------------
(* Sequences of rows. *)

(* What a delivery does to one table: its log is extended by all rows      *)
(* after the watermark, in order, and the watermark moves to its end.      *)
LEMMA DeltaExtends ==
  ASSUME NEW maxTime \in Nat, NEW maxPk \in Nat,
         NEW table \in Partial(1..maxPk, 1..maxTime),
         NEW given \in Seq(Stamps), NEW w \in Stamps,
         Ascending(given),
         w = IF given = << >> THEN EmptyWatermark ELSE given[Len(given)],
         NEW delta \in Ordered(Matching(table, w)),
         NEW next, next = IF delta = << >> THEN w ELSE delta[Len(delta)]
  PROVE  /\ delta \in Seq(Stamps)
         /\ given \o delta \in Seq(Stamps)
         /\ Ascending(given \o delta)
         /\ next = IF given \o delta = << >> THEN EmptyWatermark
                                            ELSE (given \o delta)[Len(given \o delta)]
         /\ delta # << >> => next \in Rows(table)
         /\ next \in Stamps
         /\ Matching(table, w) \subseteq Range(given \o delta)
         /\ Range(given) \subseteq Range(given \o delta)
<1>1. Matching(table, w) \subseteq Rows(table) /\ Rows(table) \subseteq Stamps
  BY RowsAreStamps DEF Matching
<1>2. IsFiniteSet(Matching(table, w))
  BY <1>1, RowsAreFinite, FS_Subset
<1>3. /\ delta \in Seq(Matching(table, w))
      /\ Ascending(delta)
      /\ Range(delta) = Matching(table, w)
  BY <1>1, <1>2, OrderedHasAll
<1>4. delta \in Seq(Stamps) /\ given \o delta \in Seq(Stamps)
  BY <1>1, <1>3
<1>5. \A j \in 1..Len(delta) : delta[j] \in Rows(table) /\ Later(delta[j], w) /\ delta[j] \in Stamps
  BY <1>1, <1>3 DEF Matching
<1>6. \A i \in 1..Len(given) : given[i] = w \/ Later(w, given[i])
  <2> SUFFICES ASSUME NEW i \in 1..Len(given)
               PROVE  given[i] = w \/ Later(w, given[i])
    OBVIOUS
  <2>1. given # << >> /\ w = given[Len(given)]
    OBVIOUS
  <2>2. CASE i = Len(given)
    BY <2>1, <2>2
  <2>3. CASE i < Len(given)
    BY <2>1, <2>3 DEF Ascending
  <2> QED
    BY <2>2, <2>3
<1>7. Ascending(given \o delta)
  <2> SUFFICES ASSUME NEW i \in 1..Len(given \o delta), NEW j \in 1..Len(given \o delta), i < j
               PROVE  Later((given \o delta)[j], (given \o delta)[i])
    BY <1>4 DEF Ascending
  <2>1. CASE j <= Len(given)
    BY <1>4, <2>1 DEF Ascending
  <2>2. CASE i > Len(given)
    <3>1. /\ i - Len(given) \in 1..Len(delta) /\ j - Len(given) \in 1..Len(delta)
          /\ i - Len(given) < j - Len(given)
          /\ (given \o delta)[i] = delta[i - Len(given)]
          /\ (given \o delta)[j] = delta[j - Len(given)]
      BY <1>4, <2>2
    <3> QED
      BY <1>3, <1>4, <3>1 DEF Ascending
  <2>3. CASE i <= Len(given) /\ j > Len(given)
    <3>1. /\ i \in 1..Len(given) /\ j - Len(given) \in 1..Len(delta)
          /\ (given \o delta)[i] = given[i]
          /\ (given \o delta)[j] = delta[j - Len(given)]
      BY <1>4, <2>3
    <3>2. given[i] \in Stamps
      BY <3>1
    <3> QED
      BY <1>5, <1>6, <3>1, <3>2, LaterIsAnOrder
  <2> QED
    BY <1>4, <2>1, <2>2, <2>3
<1>8. next = IF given \o delta = << >> THEN EmptyWatermark
                                      ELSE (given \o delta)[Len(given \o delta)]
  <2>1. CASE delta = << >>
    <3>1. given \o delta = given
      BY <2>1
    <3> QED
      BY <2>1, <3>1
  <2>2. CASE delta # << >>
    <3>1. /\ Len(delta) \in Nat /\ Len(delta) > 0
          /\ Len(given \o delta) = Len(given) + Len(delta)
      BY <1>4, <2>2
    <3>2. (given \o delta)[Len(given \o delta)] = delta[Len(delta)] /\ given \o delta # << >>
      BY <1>4, <3>1
    <3> QED
      BY <2>2, <3>2
  <2> QED
    BY <2>1, <2>2
<1>9. (delta # << >> => next \in Rows(table)) /\ next \in Stamps
  BY <1>4, <1>5
<1>10. Range(delta) \subseteq Range(given \o delta) /\ Range(given) \subseteq Range(given \o delta)
  <2>1. \A j \in 1..Len(delta) :
          /\ Len(given) + j \in 1..Len(given \o delta)
          /\ (given \o delta)[Len(given) + j] = delta[j]
    BY <1>4
  <2>2. \A i \in 1..Len(given) : i \in 1..Len(given \o delta) /\ (given \o delta)[i] = given[i]
    BY <1>4
  <2>3. /\ DOMAIN delta = 1..Len(delta) /\ DOMAIN given = 1..Len(given)
        /\ DOMAIN (given \o delta) = 1..Len(given \o delta)
    BY <1>4
  <2>4. \A row \in Range(delta) : \E k \in DOMAIN (given \o delta) : (given \o delta)[k] = row
    BY <2>1, <2>3 DEF Range
  <2>5. \A row \in Range(given) : \E k \in DOMAIN (given \o delta) : (given \o delta)[k] = row
    BY <2>2, <2>3 DEF Range
  <2> QED
    BY <2>4, <2>5 DEF Range
<1> QED
  BY <1>3, <1>4, <1>7, <1>8, <1>9, <1>10

(* Appending rows. *)
LEMMA JoiningRows ==
  ASSUME NEW a \in Seq(Stamps), NEW b \in Seq(Stamps)
  PROVE  /\ a \o b \in Seq(Stamps)
         /\ Range(a \o b) = Range(a) \cup Range(b)
         /\ Len(a) <= Len(a \o b)
         /\ SubSeq(a, 1, Len(a)) = SubSeq(a \o b, 1, Len(a))
<1>1. /\ a \o b \in Seq(Stamps)
      /\ DOMAIN a = 1..Len(a) /\ DOMAIN b = 1..Len(b) /\ DOMAIN (a \o b) = 1..Len(a \o b)
      /\ Len(a) \in Nat /\ Len(b) \in Nat /\ Len(a \o b) = Len(a) + Len(b)
  OBVIOUS
<1>2. /\ \A i \in 1..Len(a) : (a \o b)[i] = a[i]
      /\ \A i \in 1..Len(a \o b) : i > Len(a) => i - Len(a) \in 1..Len(b) /\ (a \o b)[i] = b[i - Len(a)]
      /\ \A i \in 1..Len(b) : i + Len(a) \in 1..Len(a \o b) /\ (a \o b)[i + Len(a)] = b[i]
  BY <1>1
<1>3. Range(a \o b) = Range(a) \cup Range(b)
  <2>1. ASSUME NEW i \in 1..Len(a \o b)
        PROVE  (a \o b)[i] \in Range(a) \cup Range(b)
    <3>1. CASE i <= Len(a)
      BY <1>1, <1>2, <3>1 DEF Range
    <3>2. CASE i > Len(a)
      BY <1>1, <1>2, <3>2 DEF Range
    <3> QED
      BY <1>1, <3>1, <3>2
  <2>2. \A i \in 1..Len(a) : a[i] \in Range(a \o b)
    BY <1>1, <1>2 DEF Range
  <2>3. \A i \in 1..Len(b) : b[i] \in Range(a \o b)
    <3> SUFFICES ASSUME NEW i \in 1..Len(b)
                 PROVE  b[i] \in Range(a \o b)
      OBVIOUS
    <3>1. i + Len(a) \in DOMAIN (a \o b) /\ (a \o b)[i + Len(a)] = b[i]
      BY <1>1, <1>2
    <3> QED
      BY <3>1 DEF Range
  <2> QED
    BY <1>1, <2>1, <2>2, <2>3 DEF Range
<1>4. SubSeq(a, 1, Len(a)) = SubSeq(a \o b, 1, Len(a))
  <2>1. SubSeq(a, 1, Len(a)) = [i \in 1..Len(a) |-> a[i]]
    BY <1>1
  <2>2. SubSeq(a \o b, 1, Len(a)) = [i \in 1..Len(a) |-> (a \o b)[i]]
    BY <1>1
  <2> QED
    BY <1>2, <2>1, <2>2
<1> QED
  BY <1>1, <1>3, <1>4

(* Appending rows that are later than all there are. *)
LEMMA JoiningInOrder ==
  ASSUME NEW a \in Seq(Stamps), NEW b \in Seq(Stamps), Ascending(a), Ascending(b),
         \A x \in Range(a), y \in Range(b) : Later(y, x)
  PROVE  /\ a \o b \in Seq(Stamps)
         /\ Ascending(a \o b)
         /\ Range(a \o b) = Range(a) \cup Range(b)
<1>1. /\ a \o b \in Seq(Stamps)
      /\ DOMAIN a = 1..Len(a) /\ DOMAIN b = 1..Len(b) /\ DOMAIN (a \o b) = 1..Len(a \o b)
      /\ Len(a) \in Nat /\ Len(b) \in Nat /\ Len(a \o b) = Len(a) + Len(b)
  OBVIOUS
<1>2. /\ \A i \in 1..Len(a) : (a \o b)[i] = a[i]
      /\ \A i \in 1..Len(a \o b) : i > Len(a) => i - Len(a) \in 1..Len(b) /\ (a \o b)[i] = b[i - Len(a)]
      /\ \A i \in 1..Len(b) : i + Len(a) \in 1..Len(a \o b) /\ (a \o b)[i + Len(a)] = b[i]
  BY <1>1
<1>3. Ascending(a \o b)
  <2> SUFFICES ASSUME NEW i \in 1..Len(a \o b), NEW j \in 1..Len(a \o b), i < j
               PROVE  Later((a \o b)[j], (a \o b)[i])
    BY <1>1 DEF Ascending
  <2>1. CASE j <= Len(a)
    <3>1. i \in 1..Len(a) /\ j \in 1..Len(a)
      BY <1>1, <2>1
    <3> QED
      BY <1>1, <1>2, <3>1 DEF Ascending
  <2>2. CASE i > Len(a)
    <3>1. i - Len(a) \in 1..Len(b) /\ j - Len(a) \in 1..Len(b) /\ i - Len(a) < j - Len(a)
      BY <1>1, <2>2
    <3>2. (a \o b)[i] = b[i - Len(a)] /\ (a \o b)[j] = b[j - Len(a)]
      BY <1>1, <1>2, <2>2
    <3> QED
      BY <1>1, <3>1, <3>2 DEF Ascending
  <2>3. CASE i <= Len(a) /\ j > Len(a)
    <3>1. i \in 1..Len(a) /\ j - Len(a) \in 1..Len(b)
      BY <1>1, <2>3
    <3>2. (a \o b)[i] = a[i] /\ (a \o b)[j] = b[j - Len(a)]
      BY <1>1, <1>2, <2>3
    <3>3. a[i] \in Range(a) /\ b[j - Len(a)] \in Range(b)
      BY <1>1, <3>1 DEF Range
    <3> QED
      BY <3>2, <3>3
  <2> QED
    BY <1>1, <2>1, <2>2, <2>3
<1>4. Range(a \o b) = Range(a) \cup Range(b)
  BY JoiningRows
<1> QED
  BY <1>1, <1>3, <1>4

(* The head of a sequence of rows: all its rows are there. *)
LEMMA PrefixRows ==
  ASSUME NEW old \in Seq(Stamps), NEW new \in Seq(Stamps), IsPrefix(old, new)
  PROVE  SubSeq(new, 1, Len(old)) = old /\ Range(old) \subseteq Range(new)
<1>1. /\ Len(old) \in Nat /\ Len(new) \in Nat /\ Len(old) <= Len(new)
      /\ DOMAIN old = 1..Len(old) /\ DOMAIN new = 1..Len(new)
  BY DEF IsPrefix
<1>2. SubSeq(new, 1, Len(old)) = old
  <2>1. SubSeq(old, 1, Len(old)) = old
    OBVIOUS
  <2> QED
    BY <2>1 DEF IsPrefix
<1>3. ASSUME NEW i \in 1..Len(old)
      PROVE  old[i] = new[i] /\ i \in 1..Len(new)
  <2>1. SubSeq(new, 1, Len(old))[i] = new[i]
    BY <1>1
  <2> QED
    BY <1>1, <1>2, <2>1
<1> QED
  BY <1>1, <1>2, <1>3 DEF Range

-----------------------------------------------------------------------------
(* Numbers and rows in order. *)

(* Sets of numbers have a least one. *)
LEMMA LeastOf ==
  ASSUME NEW set \in SUBSET Nat, set # {}
  PROVE  \E n \in set : \A m \in set : n <= m
<1>1. PICK n \in set : \A m \in set : <<m, n>> \notin OpToRel(<, Nat)
  BY NatLessThanWellFounded, WFMin
<1>2. \A m \in set : ~(m < n)
  BY <1>1 DEF OpToRel
<1> QED
  BY <1>2

(* There is an order of the numbers of a finite set, which has all of them. *)
LEMMA NumberOrder ==
  ASSUME NEW S \in SUBSET Nat, IsFiniteSet(S)
  PROVE  /\ InNumberOrder(S) # {}
         /\ \A s \in InNumberOrder(S) :
              /\ Cardinality(S) \in Nat
              /\ s \in [1..Cardinality(S) -> S]
              /\ \A i, j \in 1..Cardinality(S) : i < j => s[i] < s[j]
              /\ \A x \in S : \E i \in 1..Cardinality(S) : s[i] = x
<1> DEFINE n == Cardinality(S)
           Below(x) == {y \in S : y < x}
           rank == [x \in S |-> Cardinality(Below(x)) + 1]
<1>1. n \in Nat
  BY FS_CardinalityType
<1>2. ASSUME NEW x \in S
      PROVE  IsFiniteSet(Below(x)) /\ Cardinality(Below(x)) \in Nat /\ Cardinality(Below(x)) < n
  <2>1. Below(x) \in SUBSET S /\ Below(x) # S
    OBVIOUS
  <2>2. IsFiniteSet(Below(x)) /\ Cardinality(Below(x)) <= n /\ Cardinality(Below(x)) # n
    BY <2>1, FS_Subset
  <2>3. Cardinality(Below(x)) \in Nat
    BY <2>2, FS_CardinalityType
  <2> QED
    BY <1>1, <2>2, <2>3
<1>3. ASSUME NEW x \in S, NEW y \in S, x < y
      PROVE  Cardinality(Below(x)) < Cardinality(Below(y))
  <2>1. Below(x) \in SUBSET Below(y) /\ x \in Below(y) /\ x \notin Below(x)
    <3>1. \A z \in S : z \in Nat
      OBVIOUS
    <3>2. \A z \in S : z < x => z < y
      BY <1>3, <3>1
    <3>3. ~(x < x)
      BY <3>1
    <3> QED
      BY <1>3, <3>2, <3>3
  <2>2. Cardinality(Below(x)) <= Cardinality(Below(y)) /\ Cardinality(Below(x)) # Cardinality(Below(y))
    BY <1>2, <2>1, FS_Subset
  <2> QED
    BY <1>2, <2>2
<1>4. rank \in [S -> 1..n]
  BY <1>1, <1>2
<1>5. \A x, y \in S : rank[x] < rank[y] => x < y
  <2>1. ASSUME NEW x \in S, NEW y \in S, ~(x < y)
        PROVE  ~(rank[x] < rank[y])
    <3>1. x = y \/ y < x
      BY <2>1
    <3>2. CASE x = y
      BY <1>2, <3>2
    <3>3. CASE y < x
      BY <1>2, <1>3, <3>3
    <3> QED
      BY <3>1, <3>2, <3>3
  <2> QED
    BY <2>1
<1>6. \A x, y \in S : rank[x] = rank[y] => x = y
  <2>1. \A x, y \in S : x < y => rank[x] < rank[y]
    BY <1>2, <1>3
  <2>2. \A x \in S : rank[x] \in Nat
    BY <1>1, <1>4
  <2> HIDE DEF rank
  <2> QED
    BY <2>1, <2>2
<1>7. Cardinality(1..n) = n /\ IsFiniteSet(1..n)
  BY <1>1, FS_Interval
<1> HIDE DEF rank
<1>8. rank \in Injection(S, 1..n)
  BY <1>4, <1>6 DEF Injection, IsInjective
<1>9. rank \in Surjection(S, 1..n)
  BY <1>7, <1>8, FS_Injection
<1>10. \A i \in 1..n : \E x \in S : rank[x] = i
  BY <1>9 DEF Surjection
<1> DEFINE s == [i \in 1..n |-> CHOOSE x \in S : rank[x] = i]
<1>11. \A i \in 1..n : s[i] \in S /\ rank[s[i]] = i
  BY <1>10
<1>12. s \in InNumberOrder(S)
  <2>1. s \in [1..n -> S] /\ DOMAIN s = 1..n
    BY <1>11
  <2> HIDE DEF s
  <2>2. \A i, j \in 1..n : i < j => s[i] < s[j]
    BY <1>5, <1>11
  <2> QED
    BY <2>1, <2>2 DEF InNumberOrder
<1>13. ASSUME NEW q \in InNumberOrder(S)
       PROVE  /\ q \in [1..n -> S]
              /\ \A i, j \in 1..n : i < j => q[i] < q[j]
              /\ \A x \in S : \E i \in 1..n : q[i] = x
  <2>1. q \in [1..n -> S] /\ \A i, j \in 1..n : i < j => q[i] < q[j]
    BY DEF InNumberOrder
  <2>2. \A i, j \in 1..n : q[i] = q[j] => i = j
    <3>1. \A i \in 1..n : q[i] \in Nat
      BY <2>1
    <3> QED
      BY <1>1, <2>1, <3>1
  <2>3. q \in Injection(1..n, S)
    BY <2>1, <2>2 DEF Injection, IsInjective
  <2>4. q \in Surjection(1..n, S)
    BY <1>7, <2>3, FS_Injection
  <2> QED
    BY <2>1, <2>4 DEF Surjection
<1> QED
  BY <1>1, <1>12, <1>13

(* A sequence of rows in order has as many rows as it is long. *)
LEMMA AscendingHasNoDoubles ==
  ASSUME NEW s \in Seq(Stamps), Ascending(s)
  PROVE  /\ Len(s) \in Nat /\ DOMAIN s = 1..Len(s) /\ \A i \in 1..Len(s) : s[i] \in Stamps
         /\ \A i, j \in 1..Len(s) : Later(s[j], s[i]) => i < j
         /\ \A i, j \in 1..Len(s) : i < j => Later(s[j], s[i])
         /\ \A i, j \in 1..Len(s) : s[i] = s[j] => i = j
         /\ IsFiniteSet(Range(s)) /\ Cardinality(Range(s)) = Len(s)
<1>1. Len(s) \in Nat /\ DOMAIN s = 1..Len(s) /\ \A i \in 1..Len(s) : s[i] \in Stamps
  OBVIOUS
<1>2. \A i, j \in 1..Len(s) : i < j => Later(s[j], s[i])
  BY <1>1 DEF Ascending
<1>3. \A i, j \in 1..Len(s) : Later(s[j], s[i]) => i < j
  BY <1>1, <1>2, LaterIsAnOrder
<1>4. \A i, j \in 1..Len(s) : s[i] = s[j] => i = j
  BY <1>1, <1>2, LaterIsAnOrder
<1>5. ExistsBijection(1..Len(s), Range(s))
  <2>1. s \in [1..Len(s) -> Range(s)]
    BY <1>1 DEF Range
  <2>2. s \in Bijection(1..Len(s), Range(s))
    BY <1>1, <1>4, <2>1 DEF Bijection, Injection, Surjection, IsInjective, Range
  <2> QED
    BY <2>2 DEF ExistsBijection
<1>6. IsFiniteSet(Range(s)) /\ Cardinality(Range(s)) = Len(s)
  <2>1. \A n \in Nat : IsFiniteSet(1..n) /\ Cardinality(1..n) = n
    BY FS_Interval
  <2>2. IsFiniteSet(1..Len(s)) /\ Cardinality(1..Len(s)) = Len(s)
    BY <1>1, <2>1
  <2> QED
    BY <1>5, <2>2, FS_Bijection
<1> QED
  BY <1>1, <1>2, <1>3, <1>4, <1>6

(* Two sequences of the same rows in order are one. *)
LEMMA AscendingIsUnique ==
  ASSUME NEW a \in Seq(Stamps), NEW b \in Seq(Stamps), Ascending(a), Ascending(b), Range(a) = Range(b)
  PROVE  a = b
<1>1. ASSUME NEW s \in Seq(Stamps), Ascending(s)
      PROVE  /\ Len(s) \in Nat /\ DOMAIN s = 1..Len(s)
             /\ \A i \in 1..Len(s) : s[i] \in Stamps
             /\ \A i, j \in 1..Len(s) : Later(s[j], s[i]) => i < j
             /\ \A i, j \in 1..Len(s) : i < j => Later(s[j], s[i])
             /\ Cardinality(Range(s)) = Len(s)
  BY <1>1, AscendingHasNoDoubles
<1> DEFINE n == Len(a)
<1>2. n \in Nat /\ Len(b) = n
  BY <1>1
<1>3. SUFFICES ASSUME \E i \in 1..n : a[i] # b[i]
               PROVE  FALSE
  <2>1. a \in [1..n -> Stamps] /\ b \in [1..n -> Stamps]
    BY <1>2
  <2> QED
    BY <2>1, <1>3
<1>4. PICK i \in 1..n : a[i] # b[i] /\ \A j \in 1..n : j < i => a[j] = b[j]
  <2> DEFINE differ == {i \in 1..n : a[i] # b[i]}
  <2>1. differ \in SUBSET Nat /\ differ # {}
    BY <1>2, <1>3
  <2>2. PICK i \in differ : \A m \in differ : i <= m
    BY <2>1, LeastOf
  <2>3. \A j \in 1..n : j < i => j \notin differ
    BY <1>2, <2>1, <2>2
  <2> QED
    BY <2>2, <2>3
<1>5. ASSUME NEW u \in Seq(Stamps), NEW v \in Seq(Stamps), Ascending(u), Ascending(v),
             Len(u) = n, Len(v) = n, Range(u) = Range(v), u[i] # v[i],
             \A j \in 1..n : j < i => u[j] = v[j]
      PROVE  Later(u[i], v[i])
  <2>1. u[i] \in Range(v)
    BY <1>1, <1>5 DEF Range
  <2>2. PICK j \in 1..n : v[j] = u[i]
    BY <1>1, <1>5, <2>1 DEF Range
  <2>3. i \in Nat /\ j \in Nat /\ i # j
    BY <1>2, <1>5, <2>2
  <2>4. ~(j < i)
    <3>1. SUFFICES ASSUME j < i PROVE FALSE
      OBVIOUS
    <3>2. u[j] = u[i] /\ Later(u[i], u[j])
      BY <1>1, <1>5, <2>2, <3>1
    <3>3. u[i] \in Stamps
      BY <1>1, <1>5
    <3> QED
      BY <3>2, <3>3, LaterIsAnOrder
  <2> QED
    BY <1>1, <1>5, <2>2, <2>3, <2>4
<1>6. Later(a[i], b[i])
  BY <1>2, <1>4, <1>5
<1>7. Later(b[i], a[i])
  BY <1>2, <1>4, <1>5
<1>8. a[i] \in Stamps /\ b[i] \in Stamps
  BY <1>1, <1>2
<1> QED
  BY <1>6, <1>7, <1>8, LaterIsAnOrder

(* Sequences of rows, one after the other, each in order and after those   *)
(* before it, are one sequence in order.                                   *)
LEMMA FlatteningInOrder ==
  ASSUME NEW n \in Nat, NEW seqs \in [1..n -> Seq(Stamps)],
         \A i \in 1..n : Ascending(seqs[i]),
         \A i, j \in 1..n : i < j => \A x \in Range(seqs[i]), y \in Range(seqs[j]) : Later(y, x)
  PROVE  /\ FlattenSeq(seqs) \in Seq(Stamps)
         /\ Ascending(FlattenSeq(seqs))
         /\ Range(FlattenSeq(seqs)) = UNION {Range(seqs[i]) : i \in 1..n}
<1> DEFINE Joins(f, m) ==
             f = [i \in 1..m |-> IF i = 1 THEN seqs[i] ELSE f[i - 1] \o seqs[i]]
           Good(f, i) == /\ f[i] \in Seq(Stamps) /\ Ascending(f[i])
                         /\ Range(f[i]) = UNION {Range(seqs[j]) : j \in 1..i}
<1>1. Len(seqs) = n /\ DOMAIN seqs = 1..n
  BY LenProperties
<1>2. CASE n = 0
  <2>1. FlattenSeq(seqs) = seqs
    BY <1>1, <1>2 DEF FlattenSeq
  <2>2. seqs = << >>
    BY <1>1, <1>2
  <2>3. Range(<< >>) = {} /\ Ascending(<< >>) /\ << >> \in Seq(Stamps)
    BY DEF Range, Ascending
  <2> QED
    BY <1>2, <2>1, <2>2, <2>3
<1>3. CASE n # 0
  <2>1. \E f : Joins(f, n)
    <3> DEFINE Joinable(m) == \E f : Joins(f, m)
               lacking == {m \in 1..n : ~Joinable(m)}
    <3>1. SUFFICES ASSUME lacking # {} PROVE FALSE
      <4> SUFFICES Joinable(n)
        OBVIOUS
      <4> HIDE DEF Joinable
      <4> QED
        BY <1>3
    <3>2. PICK m \in lacking : \A k \in lacking : m <= k
      <4> HIDE DEF Joins
      <4>1. lacking \in SUBSET Nat
        OBVIOUS
      <4> QED
        BY <3>1, <4>1, LeastOf
    <3>3. CASE m = 1
      <4>1. Joins([i \in 1..1 |-> seqs[i]], 1)
        OBVIOUS
      <4> QED
        BY <3>2, <3>3, <4>1
    <3>4. CASE m # 1
      <4>1. m - 1 \in 1..n /\ m \in Nat /\ ~(m <= m - 1) /\ m - 1 # 0
        BY <3>4
      <4>2. PICK f : Joins(f, m - 1)
        BY <3>2, <4>1
      <4> DEFINE g == [i \in 1..m |-> IF i = m THEN f[m - 1] \o seqs[m] ELSE f[i]]
      <4>3. \A i \in 1..m : g[i] = IF i = 1 THEN seqs[i] ELSE g[i - 1] \o seqs[i]
        <5>1. TAKE i \in 1..m
        <5>2. CASE i = m
          <6>1. g[m] = f[m - 1] \o seqs[m] /\ g[m - 1] = f[m - 1]
            BY <4>1
          <6> QED
            BY <3>4, <5>2, <6>1
        <5>3. CASE i # m
          <6>1. i \in 1..(m - 1)
            BY <4>1, <5>3
          <6>2. f[i] = IF i = 1 THEN seqs[i] ELSE f[i - 1] \o seqs[i]
            BY <4>2, <6>1
          <6>3. g[i] = f[i] /\ (i # 1 => g[i - 1] = f[i - 1])
            BY <4>1, <5>3, <6>1
          <6> QED
            BY <6>2, <6>3
        <5> QED
          BY <5>2, <5>3
      <4>4. Joins(g, m)
        <5>1. g = [i \in 1..m |-> g[i]]
          OBVIOUS
        <5> HIDE DEF g
        <5> QED
          BY <4>3, <5>1
      <4> QED
        BY <3>2, <4>4
    <3> QED
      BY <3>3, <3>4
  <2>2. PICK f : Joins(f, n) /\ FlattenSeq(seqs) = f[n]
    <3>1. FlattenSeq(seqs) = (CHOOSE h : Joins(h, Len(seqs)))[Len(seqs)]
      BY <1>1, <1>3 DEF FlattenSeq
    <3> HIDE DEF Joins
    <3> QED
      BY <1>1, <2>1, <3>1
  <2>3. /\ f[1] = seqs[1]
        /\ \A i \in 1..n : i # 1 => f[i] = f[i - 1] \o seqs[i]
    <3>1. PICK h : h = [i \in 1..n |-> IF i = 1 THEN seqs[i] ELSE f[i - 1] \o seqs[i]]
      OBVIOUS
    <3>2. f = h
      BY <2>2, <3>1
    <3>3. /\ h[1] = seqs[1]
          /\ \A i \in 1..n : i # 1 => h[i] = f[i - 1] \o seqs[i]
      BY <1>3, <3>1
    <3> QED
      BY <3>2, <3>3
  <2>4. Good(f, n)
    <3> HIDE DEF Joins
    <3> DEFINE bad == {i \in 1..n : ~Good(f, i)}
    <3>1. SUFFICES ASSUME bad # {} PROVE FALSE
      <4> HIDE DEF Good
      <4> QED
        BY <1>3
    <3>2. PICK i \in bad : \A k \in bad : i <= k
      <4>1. bad \in SUBSET Nat
        OBVIOUS
      <4> QED
        BY <3>1, <4>1, LeastOf
    <3>3. i \in 1..n /\ i \in Nat /\ seqs[i] \in Seq(Stamps)
      BY <3>2
    <3>4. CASE i = 1
      <4>1. UNION {Range(seqs[j]) : j \in 1..1} = Range(seqs[1])
        OBVIOUS
      <4> QED
        BY <2>3, <3>2, <3>3, <3>4, <4>1
    <3>5. CASE i # 1
      <4>1. i - 1 \in 1..n /\ ~(i <= i - 1)
        BY <3>3, <3>5
      <4>2. Good(f, i - 1)
        BY <3>2, <4>1
      <4>3. f[i] = f[i - 1] \o seqs[i]
        BY <2>3, <3>3, <3>5
      <4>4. \A x \in Range(f[i - 1]), y \in Range(seqs[i]) : Later(y, x)
        <5>1. TAKE x \in Range(f[i - 1]), y \in Range(seqs[i])
        <5>2. PICK j \in 1..(i - 1) : x \in Range(seqs[j])
          BY <4>2
        <5>3. j \in 1..n /\ j < i
          BY <3>3, <5>2
        <5> QED
          BY <3>3, <5>2, <5>3
      <4>5. /\ f[i - 1] \o seqs[i] \in Seq(Stamps)
            /\ Ascending(f[i - 1] \o seqs[i])
            /\ Range(f[i - 1] \o seqs[i]) = Range(f[i - 1]) \cup Range(seqs[i])
        <5>1. f[i - 1] \in Seq(Stamps) /\ Ascending(f[i - 1]) /\ Ascending(seqs[i])
          BY <3>3, <4>2
        <5> HIDE DEF Good
        <5> QED
          BY <3>3, <4>4, <5>1, JoiningInOrder
      <4>6. 1..i = (1..(i - 1)) \cup {i}
        BY <3>3
      <4>7. UNION {Range(seqs[j]) : j \in 1..i} = (UNION {Range(seqs[j]) : j \in 1..(i - 1)}) \cup Range(seqs[i])
        BY <4>6
      <4>8. Good(f, i)
        BY <4>2, <4>3, <4>5, <4>7
      <4> QED
        BY <3>2, <4>8
    <3> QED
      BY <3>4, <3>5
  <2> QED
    BY <2>2, <2>4
<1> QED
  BY <1>2, <1>3

-----------------------------------------------------------------------------
(* Sums. *)

(* Two sets that share nothing. *)
LEMMA DisjointUnion ==
  ASSUME NEW A, IsFiniteSet(A), NEW B, IsFiniteSet(B), A \cap B = {}
  PROVE  /\ IsFiniteSet(A \cup B) /\ Cardinality(A) \in Nat /\ Cardinality(B) \in Nat
         /\ Cardinality(A \cup B) = Cardinality(A) + Cardinality(B)
<1>1. Cardinality(A) \in Nat /\ Cardinality(B) \in Nat
  BY FS_CardinalityType
<1>2. IsFiniteSet(A \cup B) /\ Cardinality(A \cup B) = Cardinality(A) + Cardinality(B) - Cardinality(A \cap B)
  BY FS_Union
<1>3. Cardinality(A \cap B) = 0
  BY FS_EmptySet
<1> QED
  BY <1>1, <1>2, <1>3

(* Each x of S as often as f says. *)
Counted(f, S) == UNION {{x} \X (1..f[x]) : x \in S}

(* It is finite, and one more element counts as often as f says. *)
LEMMA CountingOneMore ==
  ASSUME NEW S, IsFiniteSet(S), NEW f, \A x \in S : f[x] \in Nat
  PROVE  /\ IsFiniteSet(Counted(f, S)) /\ Cardinality(Counted(f, S)) \in Nat
         /\ \A x \in S : Cardinality(Counted(f, S)) = f[x] + Cardinality(Counted(f, S \ {x}))
<1> DEFINE Copies(x) == {x} \X (1..f[x])
<1>1. ASSUME NEW x \in S
      PROVE  IsFiniteSet(Copies(x)) /\ Cardinality(Copies(x)) = f[x]
  <2>1. IsFiniteSet(1..f[x]) /\ Cardinality(1..f[x]) = f[x] /\ f[x] \in Nat
    <3>1. PICK n \in Nat : n = f[x]
      OBVIOUS
    <3>2. IsFiniteSet(1..n) /\ Cardinality(1..n) = n
      BY FS_Interval
    <3> QED
      BY <3>1, <3>2
  <2>2. IsFiniteSet({x}) /\ Cardinality({x}) = 1
    BY FS_Singleton
  <2> QED
    BY <2>1, <2>2, FS_Product
<1>2. ASSUME NEW T \in SUBSET S
      PROVE  IsFiniteSet(Counted(f, T))
  <2> DEFINE copies == {Copies(x) : x \in T}
  <2>1. IsFiniteSet(T)
    BY FS_Subset
  <2>2. [x \in T |-> Copies(x)] \in Surjection(T, copies)
    BY DEF Surjection
  <2>3. IsFiniteSet(copies)
    BY <2>1, <2>2, FS_Surjection
  <2>4. \A c \in copies : IsFiniteSet(c)
    BY <1>1
  <2>5. Counted(f, T) = UNION copies
    BY DEF Counted
  <2> HIDE DEF copies
  <2> QED
    BY <2>3, <2>4, <2>5, FS_UNION
<1>3. ASSUME NEW x \in S
      PROVE  Cardinality(Counted(f, S)) = f[x] + Cardinality(Counted(f, S \ {x}))
  <2>1. Counted(f, S) = Copies(x) \cup Counted(f, S \ {x})
    BY DEF Counted
  <2>2. Copies(x) \cap Counted(f, S \ {x}) = {}
    BY DEF Counted
  <2>3. IsFiniteSet(Counted(f, S \ {x})) /\ Cardinality(Counted(f, S \ {x})) \in Nat
    BY <1>2, FS_CardinalityType
  <2> HIDE DEF Copies
  <2>4. Cardinality(Counted(f, S)) = Cardinality(Copies(x)) + Cardinality(Counted(f, S \ {x}))
    <3>1. PICK a, b : a = Copies(x) /\ b = Counted(f, S \ {x})
      OBVIOUS
    <3>2. Cardinality(a \cup b) = Cardinality(a) + Cardinality(b)
      BY <1>1, <2>2, <2>3, <3>1, DisjointUnion
    <3> QED
      BY <2>1, <3>1, <3>2
  <2> QED
    BY <1>1, <2>3, <2>4
<1> QED
  BY <1>2, <1>3, FS_CardinalityType

(* The sum over a finite set is what is counted. *)
LEMMA SumIsCount ==
  ASSUME NEW S, IsFiniteSet(S), NEW f, \A x \in S : f[x] \in Nat
  PROVE  /\ IsFiniteSet(Counted(f, S)) /\ Cardinality(Counted(f, S)) \in Nat
         /\ SumFunctionOnSet(f, S) = Cardinality(Counted(f, S))
<1> DEFINE Pick(s) == CHOOSE x \in s : TRUE
           Sums(it) == it = [s \in SUBSET S |-> IF s = {} THEN 0 ELSE f[Pick(s)] + it[s \ {Pick(s)}]]
           count == [s \in SUBSET S |-> Cardinality(Counted(f, s))]
<1>1. SumFunctionOnSet(f, S) = (CHOOSE it : Sums(it))[S]
  BY DEF SumFunctionOnSet, FoldFunctionOnSet, MapThenFoldSet
<1>2. ASSUME NEW s \in SUBSET S, s # {}
      PROVE  /\ Pick(s) \in s /\ s \ {Pick(s)} \in SUBSET S
             /\ count[s] = f[Pick(s)] + count[s \ {Pick(s)}]
             /\ IsFiniteSet(s) /\ Cardinality(s \ {Pick(s)}) \in Nat
             /\ ~(Cardinality(s) <= Cardinality(s \ {Pick(s)}))
  <2>1. PICK x : x = Pick(s)
    OBVIOUS
  <2>2. x \in s
    BY <1>2, <2>1
  <2>3. IsFiniteSet(s)
    BY FS_Subset
  <2>4. \A y \in s : f[y] \in Nat
    OBVIOUS
  <2>5. Cardinality(Counted(f, s)) = f[x] + Cardinality(Counted(f, s \ {x}))
    BY <2>2, <2>3, <2>4, CountingOneMore
  <2>6. Cardinality(s) \in Nat /\ Cardinality(s \ {x}) \in Nat /\ Cardinality(s \ {x}) = Cardinality(s) - 1
    BY <2>2, <2>3, FS_RemoveElement, FS_CardinalityType
  <2>7. s \ {x} \in SUBSET S
    OBVIOUS
  <2>8. count[s] = f[x] + count[s \ {x}]
    BY <2>5, <2>7
  <2> HIDE DEF Pick, count
  <2> QED
    BY <2>1, <2>2, <2>3, <2>6, <2>7, <2>8
<1>3. count[{}] = 0
  <2>1. Counted(f, {}) = {}
    BY DEF Counted
  <2> QED
    BY <2>1, FS_EmptySet
<1>4. Sums(count)
  <2>1. count = [s \in SUBSET S |-> count[s]]
    OBVIOUS
  <2> HIDE DEF count, Pick
  <2> QED
    BY <1>2, <1>3, <2>1
<1>5. PICK it : Sums(it) /\ SumFunctionOnSet(f, S) = it[S]
  <2> HIDE DEF Sums, count
  <2> QED
    BY <1>1, <1>4
<1>6. \A s \in SUBSET S : it[s] = IF s = {} THEN 0 ELSE f[Pick(s)] + it[s \ {Pick(s)}]
  <2>1. PICK h : h = [s \in SUBSET S |-> IF s = {} THEN 0 ELSE f[Pick(s)] + it[s \ {Pick(s)}]]
    OBVIOUS
  <2>2. it = h
    BY <1>5, <2>1
  <2>3. \A s \in SUBSET S : h[s] = IF s = {} THEN 0 ELSE f[Pick(s)] + it[s \ {Pick(s)}]
    BY <2>1
  <2> QED
    BY <2>2, <2>3
<1> HIDE DEF Sums, Pick, count
<1>7. \A s \in SUBSET S : it[s] = count[s]
  <2> DEFINE bad == {s \in SUBSET S : it[s] # count[s]}
             sizes == {Cardinality(s) : s \in bad}
  <2>1. SUFFICES ASSUME bad # {} PROVE FALSE
    OBVIOUS
  <2>2. sizes \in SUBSET Nat /\ sizes # {}
    <3>1. \A s \in SUBSET S : Cardinality(s) \in Nat
      BY FS_Subset, FS_CardinalityType
    <3> QED
      BY <2>1, <3>1
  <2>3. PICK s \in bad : \A q \in bad : Cardinality(s) <= Cardinality(q)
    <3>1. PICK n \in sizes : \A m \in sizes : n <= m
      <4> HIDE DEF sizes
      <4> QED
        BY <2>2, LeastOf
    <3> QED
      BY <3>1
  <2>4. s # {}
    BY <1>3, <1>6, <2>3
  <2>5. PICK x : x = Pick(s)
    OBVIOUS
  <2>6. s \ {x} \in SUBSET S /\ s \ {x} \notin bad
    BY <1>2, <2>3, <2>4, <2>5
  <2>7. it[s] = f[x] + it[s \ {x}] /\ count[s] = f[x] + count[s \ {x}]
    BY <1>2, <1>6, <2>3, <2>4, <2>5
  <2> QED
    BY <2>3, <2>6, <2>7
<1>8. count[S] = Cardinality(Counted(f, S))
  BY DEF count
<1> QED
  BY <1>5, <1>7, <1>8, CountingOneMore
=============================================================================
