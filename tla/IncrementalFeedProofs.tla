----------------------- MODULE IncrementalFeedProofs -----------------------
(***************************************************************************)
(* Proofs about IncrementalFeed, for any tables, times and keys.           *)
(***************************************************************************)
EXTENDS IncrementalFeed, WatermarkTheorems, TLAPS

-----------------------------------------------------------------------------
(* The inductive invariant. *)

(* Types. *)
FeedTypes ==
  /\ source \in Sources
  /\ snap \in Sources \cup {<< >>}
  /\ log \in [Tables -> Seq(Stamps)]
  /\ mark \in [Tables -> Stamps]
  /\ batch \in [Tables -> Seq(Stamps)]

(* The source has reached the watermarks and is a successor of the look at *)
(* it that the next batch is taken from.                                   *)
SourceAhead ==
  \A t \in Tables :
    /\ Reached(source[t], mark[t])
    /\ snap # << >> => Successor(snap[t], source[t])

FeedInv == FeedTypes /\ InOrder /\ NothingSkipped /\ SourceAhead

-----------------------------------------------------------------------------
(* The invariant holds at first and every step keeps it. *)

(* At first there is nothing to deliver.                                   *)
LEMMA FeedInit ==
  ASSUME Init
  PROVE  FeedInv
<1>1. << >> \in Partial(1..MaxPk, 1..MaxTime) /\ Rows(<< >>) = {}
  BY EmptyPartial DEF Rows
<1>2. EmptyWatermark \in Stamps
  BY DEF EmptyWatermark, Row, Stamps
<1>3. FeedTypes
  BY <1>1, <1>2 DEF Init, FeedTypes, Sources
<1>4. InOrder
  BY DEF Init, InOrder, Ascending
<1>5. NothingSkipped /\ SourceAhead
  BY <1>1 DEF Init, NothingSkipped, SourceAhead, Reached
<1> QED
  BY <1>3, <1>4, <1>5 DEF FeedInv

(* Writers leave logs and watermarks alone and come after them. *)
LEMMA WriteKeeps ==
  ASSUME MaxTime \in Nat, MaxPk \in Nat, FeedInv, Write
  PROVE  FeedInv'
<1> USE DEF FeedInv
<1>1. FeedTypes'
  BY DEF FeedTypes, Write
<1>2. InOrder'
  BY DEF InOrder, Write
<1>3. \A t \in Tables :
        /\ source[t] \in Partial(1..MaxPk, 1..MaxTime)
        /\ source'[t] \in Partial(1..MaxPk, 1..MaxTime)
        /\ mark[t] \in Stamps
        /\ Successor(source[t], source'[t])
  BY DEF Write, FeedTypes, Sources, Successor
<1>4. NothingSkipped'
  <2> SUFFICES ASSUME NEW t \in Tables, NEW row \in Rows(source'[t])
               PROVE  Later(row, mark[t]) \/ row \in Range(log[t])
    BY DEF Write, NothingSkipped
  <2>1. CASE row \in Rows(source[t])
    BY <2>1 DEF NothingSkipped
  <2>2. CASE row \notin Rows(source[t])
    <3>1. row \in Stamps /\ Later(row, EmptyWatermark)
      BY <1>3, RowsAreStamps
    <3>2. CASE mark[t] = EmptyWatermark
      BY <3>1, <3>2
    <3>3. CASE mark[t] # EmptyWatermark
      <4>1. PICK old \in Rows(source[t]) : old = mark[t] \/ Later(old, mark[t])
        BY <3>3 DEF SourceAhead, Reached
      <4>2. Later(row, old) /\ old \in Stamps
        BY <1>3, <2>2, <4>1, RowsAreStamps DEF Successor
      <4> QED
        BY <1>3, <3>1, <4>1, <4>2, LaterIsAnOrder
    <3> QED
      BY <3>2, <3>3
  <2> QED
    BY <2>1, <2>2
<1>5. SourceAhead'
  <2> SUFFICES ASSUME NEW t \in Tables
               PROVE  /\ Reached(source'[t], mark[t])
                      /\ snap # << >> => Successor(snap[t], source'[t])
    BY DEF Write, SourceAhead
  <2>1. Reached(source'[t], mark[t])
    BY <1>3, ReachedForEver DEF SourceAhead
  <2>2. ASSUME snap # << >> PROVE Successor(snap[t], source'[t])
    <3>1. snap[t] \in Partial(1..MaxPk, 1..MaxTime)
      BY <2>2 DEF FeedTypes, Sources
    <3>2. Successor(snap[t], source[t])
      BY <2>2 DEF SourceAhead
    <3> QED
      BY <1>3, <3>1, <3>2, SuccessorsCompose
  <2> QED
    BY <2>1, <2>2
<1> QED
  BY <1>1, <1>2, <1>4, <1>5

(* A table is its own successor. *)
LEMMA LookKeeps ==
  ASSUME FeedInv, Look
  PROVE  FeedInv'
BY DEF FeedInv, FeedTypes, InOrder, NothingSkipped, SourceAhead, Reached, Successor, Look

(* Forgetting a look changes no log.                                       *)
LEMMA ForgetKeeps ==
  ASSUME FeedInv, Forget
  PROVE  FeedInv'
BY DEF FeedInv, FeedTypes, InOrder, NothingSkipped, SourceAhead, Reached, Forget

(* A delivery keeps every table's log in order and leaves nothing behind.  *)
LEMMA DeliverKeeps ==
  ASSUME MaxTime \in Nat, MaxPk \in Nat, FeedInv, Deliver
  PROVE  FeedInv'
<1> USE DEF FeedInv
<1>1. PICK delta \in Deltas :
        /\ log' = [t \in Tables |-> log[t] \o delta[t]]
        /\ mark' = AdvanceCheckpoint(mark, delta)
        /\ batch' = [t \in Tables |-> IF delta[t] = << >> THEN batch[t] ELSE delta[t]]
  BY DEF Deliver
<1>2. snap # << >> /\ snap' = << >> /\ source' = source /\ DOMAIN mark = Tables
  BY DEF Deliver, FeedTypes
<1>3. \A t \in Tables :
        /\ snap[t] \in Partial(1..MaxPk, 1..MaxTime)
        /\ source[t] \in Partial(1..MaxPk, 1..MaxTime)
        /\ log[t] \in Seq(Stamps) /\ mark[t] \in Stamps /\ batch[t] \in Seq(Stamps)
        /\ Ascending(log[t])
        /\ mark[t] = IF log[t] = << >> THEN EmptyWatermark ELSE log[t][Len(log[t])]
        /\ delta[t] \in Ordered(Matching(snap[t], mark[t]))
        /\ mark'[t] = IF delta[t] = << >> THEN mark[t] ELSE delta[t][Len(delta[t])]
        /\ log'[t] = log[t] \o delta[t]
  <2>1. \A t \in Tables : delta[t] \in Ordered(Matching(snap[t], mark[t]))
    BY DEF Deltas
  <2>2. \A t \in Tables : mark'[t] = IF delta[t] = << >> THEN mark[t] ELSE delta[t][Len(delta[t])]
    BY <1>1, <1>2 DEF AdvanceCheckpoint
  <2>3. \A t \in Tables : snap[t] \in Partial(1..MaxPk, 1..MaxTime)
                         /\ source[t] \in Partial(1..MaxPk, 1..MaxTime)
    BY <1>2 DEF FeedTypes, Sources
  <2> QED
    BY <1>1, <2>1, <2>2, <2>3 DEF FeedTypes, InOrder
<1>4. \A t \in Tables :
        /\ delta[t] \in Seq(Stamps) /\ log'[t] \in Seq(Stamps) /\ mark'[t] \in Stamps
        /\ Ascending(log'[t])
        /\ mark'[t] = IF log'[t] = << >> THEN EmptyWatermark ELSE log'[t][Len(log'[t])]
        /\ delta[t] # << >> => mark'[t] \in Rows(snap[t])
        /\ Matching(snap[t], mark[t]) \subseteq Range(log'[t])
        /\ Range(log[t]) \subseteq Range(log'[t])
  <2> SUFFICES ASSUME NEW t \in Tables
               PROVE  /\ delta[t] \in Seq(Stamps) /\ log'[t] \in Seq(Stamps) /\ mark'[t] \in Stamps
                      /\ Ascending(log'[t])
                      /\ mark'[t] = IF log'[t] = << >> THEN EmptyWatermark ELSE log'[t][Len(log'[t])]
                      /\ delta[t] # << >> => mark'[t] \in Rows(snap[t])
                      /\ Matching(snap[t], mark[t]) \subseteq Range(log'[t])
                      /\ Range(log[t]) \subseteq Range(log'[t])
    OBVIOUS
  <2> DEFINE table == snap[t]
             given == log[t]
             w     == mark[t]
             d     == delta[t]
             next  == mark'[t]
  <2>1. /\ table \in Partial(1..MaxPk, 1..MaxTime) /\ given \in Seq(Stamps) /\ w \in Stamps
        /\ Ascending(given) /\ w = IF given = << >> THEN EmptyWatermark ELSE given[Len(given)]
        /\ d \in Ordered(Matching(table, w))
        /\ next = IF d = << >> THEN w ELSE d[Len(d)]
        /\ log'[t] = given \o d
    BY <1>3
  <2> HIDE DEF table, given, w, d, next
  <2>2. /\ d \in Seq(Stamps)
        /\ given \o d \in Seq(Stamps)
        /\ Ascending(given \o d)
        /\ next = IF given \o d = << >> THEN EmptyWatermark ELSE (given \o d)[Len(given \o d)]
        /\ d # << >> => next \in Rows(table)
        /\ next \in Stamps
        /\ Matching(table, w) \subseteq Range(given \o d)
        /\ Range(given) \subseteq Range(given \o d)
    BY <2>1, DeltaExtends
  <2> QED
    BY <2>1, <2>2 DEF table, given, w, d, next
<1>5. FeedTypes'
  <2>1. log' \in [Tables -> Seq(Stamps)]
    BY <1>1, <1>4
  <2>2. mark' \in [Tables -> Stamps]
    BY <1>1, <1>2, <1>4 DEF AdvanceCheckpoint
  <2>3. batch' \in [Tables -> Seq(Stamps)]
    BY <1>1, <1>3, <1>4
  <2> QED
    BY <1>2, <2>1, <2>2, <2>3 DEF FeedTypes
<1>6. InOrder'
  BY <1>4 DEF InOrder
<1>7. NothingSkipped'
  <2> SUFFICES ASSUME NEW t \in Tables, NEW row \in Rows(source[t])
               PROVE  Later(row, mark'[t]) \/ row \in Range(log'[t])
    BY <1>2 DEF NothingSkipped
  <2>1. CASE row \in Rows(snap[t])
    BY <1>4, <2>1 DEF NothingSkipped, Matching
  <2>2. CASE row \notin Rows(snap[t]) /\ delta[t] # << >>
    BY <1>2, <1>4, <2>2 DEF SourceAhead, Successor
  <2>3. CASE delta[t] = << >>
    BY <1>3, <1>4, <2>3 DEF NothingSkipped
  <2> QED
    BY <2>1, <2>2, <2>3
<1>8. SourceAhead'
  <2> SUFFICES ASSUME NEW t \in Tables
               PROVE  Reached(source[t], mark'[t])
    BY <1>2 DEF SourceAhead
  <2>1. CASE delta[t] = << >>
    BY <1>3, <2>1 DEF SourceAhead
  <2>2. CASE delta[t] # << >>
    <3>1. Reached(snap[t], mark'[t])
      BY <1>4, <2>2 DEF Reached
    <3>2. Successor(snap[t], source[t])
      BY <1>2 DEF SourceAhead
    <3> QED
      BY <1>3, <1>4, <3>1, <3>2, ReachedForEver
  <2> QED
    BY <2>1, <2>2
<1> QED
  BY <1>5, <1>6, <1>7, <1>8

-----------------------------------------------------------------------------
(* Theorems. *)

(* The inductive invariant of the feed. *)
THEOREM FeedInvariant ==
  ASSUME MaxTime \in Nat, MaxPk \in Nat
  PROVE  Spec => []FeedInv
<1>1. Init => FeedInv
  BY FeedInit
<1>2. FeedInv /\ [Next]_vars => FeedInv'
  <2> SUFFICES ASSUME FeedInv, [Next]_vars PROVE FeedInv'
    OBVIOUS
  <2>1. CASE Write
    BY <2>1, WriteKeeps
  <2>2. CASE Look
    BY <2>2, LookKeeps
  <2>3. CASE Forget
    BY <2>3, ForgetKeeps
  <2>4. CASE Deliver
    BY <2>4, DeliverKeeps
  <2>5. CASE UNCHANGED vars
    BY <2>5 DEF FeedInv, FeedTypes, InOrder, NothingSkipped, SourceAhead, Reached, vars
  <2> QED
    BY <2>1, <2>2, <2>3, <2>4, <2>5 DEF Next
<1> QED
  BY <1>1, <1>2, PTL DEF Spec

(* A table's log is in order, has no row twice and ends at its watermark,  *)
(* however the looks at the source interleave with its writers.            *)
THEOREM FeedIsInOrder ==
  ASSUME MaxTime \in Nat, MaxPk \in Nat
  PROVE  Spec => []InOrder
<1>1. FeedInv => InOrder
  BY DEF FeedInv
<1> QED
  BY <1>1, FeedInvariant, PTL

(* No row of the source is passed by a watermark without being delivered,  *)
(* although it may have been written between a look and its delivery.      *)
THEOREM FeedSkipsNothing ==
  ASSUME MaxTime \in Nat, MaxPk \in Nat
  PROVE  Spec => []NothingSkipped
<1>1. FeedInv => NothingSkipped
  BY DEF FeedInv
<1> QED
  BY <1>1, FeedInvariant, PTL
=============================================================================
