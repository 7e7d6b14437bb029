----------------------- MODULE ProviderBulkheadProofs -----------------------
(***************************************************************************)
(* Theorems about ProviderBulkhead, for any number of calls, streams,      *)
(* slots and attempts.                                                     *)
(***************************************************************************)
EXTENDS ProviderBulkhead, FiniteSetTheorems, SequenceTheorems, TLAPS

USE DEF Users, Holding, Over, Places

-----------------------------------------------------------------------------
\* The slots

\* The holders can be counted.
LEMMA HoldersFinite == IsFiniteSet(Holders) /\ Cardinality(Holders) \in Nat
  <1>1. Holders \in SUBSET Users
    BY DEF Holders
  <1>2. IsFiniteSet(Users)
    BY BulkheadAssumption, FS_Union
  <1> QED
    BY <1>1, <1>2, FS_Subset, FS_CardinalityType

\* Leaving the block gives one slot back, which somebody had.
LEMMA LeaveKeeps ==
    ASSUME TypeOK, SlotsAccounted, NEW u \in Users, at[u] \in Holding,
           NEW place \in {"backoff"} \union Over, Leave(u, place)
    PROVE  SlotsAccounted' /\ free' \in 0..MaxConcurrency
  <1>1. u \in Holders /\ Holders' = Holders \ {u} /\ free' = free + 1
    BY DEF Holders, Leave, Release, TypeOK
  <1>2. Cardinality(Holders') = Cardinality(Holders) - 1 /\ Cardinality(Holders') \in Nat
    BY <1>1, HoldersFinite, FS_RemoveElement, FS_CardinalityType
  <1> QED
    BY <1>1, <1>2, HoldersFinite, BulkheadAssumption DEF SlotsAccounted, TypeOK

\* Whoever is woken takes one.
LEMMA AcquireKeeps ==
    ASSUME BulkheadInvariant, Acquire
    PROVE  SlotsAccounted' /\ free' \in 0..MaxConcurrency
  <1> DEFINE u == Head(line)
  <1>1. u \in Users /\ at[u] = "waiting"
    BY HeadTailProperties, LenProperties, EmptySeq
    DEF Acquire, BulkheadInvariant, TypeOK, LineHoldsTheWaiting, Range, Waiting
  <1>2. u \notin Holders /\ Holders' = Holders \union {u} /\ free' = free - 1
    BY <1>1 DEF Acquire, Holders, BulkheadInvariant, TypeOK
  <1>3. Cardinality(Holders') = Cardinality(Holders) + 1
    BY <1>2, HoldersFinite, FS_AddElement
  <1> QED
    BY <1>2, <1>3, HoldersFinite, BulkheadAssumption
    DEF Acquire, BulkheadInvariant, SlotsAccounted, TypeOK

-----------------------------------------------------------------------------
\* The line

\* What RemoveAt leaves of a sequence.
LEMMA RemoveAtIs ==
    ASSUME NEW S, NEW s \in Seq(S), NEW i \in 1..Len(s)
    PROVE  /\ RemoveAt(s, i) \in Seq(S)
           /\ Len(RemoveAt(s, i)) = Len(s) - 1
           /\ \A j \in 1..(Len(s) - 1) :
                 RemoveAt(s, i)[j] = IF j < i THEN s[j] ELSE s[j + 1]
  <1> DEFINE before == SubSeq(s, 1, i - 1)
             after == SubSeq(s, i + 1, Len(s))
  <1>1. Len(s) \in Nat
    BY LenProperties
  <1>2. /\ before \in Seq(S) /\ Len(before) = i - 1
        /\ \A j \in 1..(i - 1) : before[j] = s[j]
    BY <1>1, SubSeqProperties
  <1>3. /\ after \in Seq(S) /\ Len(after) = Len(s) - i
        /\ \A j \in 1..(Len(s) - i) : after[j] = s[i + j]
    BY <1>1, SubSeqProperties
  <1>4. RemoveAt(s, i) = before \o after
    BY DEF RemoveAt
  <1> HIDE DEF before, after
  <1>5. /\ before \o after \in Seq(S)
        /\ Len(before \o after) = Len(before) + Len(after)
        /\ \A j \in 1..(Len(before) + Len(after)) : (before \o after)[j] =
              IF j <= Len(before) THEN before[j] ELSE after[j - Len(before)]
    BY <1>2, <1>3, ConcatProperties
  <1>6. ASSUME NEW j \in 1..(Len(s) - 1)
        PROVE  RemoveAt(s, i)[j] = IF j < i THEN s[j] ELSE s[j + 1]
    <2>1. CASE j < i
      BY <1>1, <1>2, <1>3, <1>4, <1>5, <2>1
    <2>2. CASE j >= i
      <3>1. j - (i - 1) \in 1..(Len(s) - i) /\ i + (j - (i - 1)) = j + 1
        BY <1>1, <2>2
      <3>2. RemoveAt(s, i)[j] = after[j - (i - 1)]
        BY <1>1, <1>2, <1>3, <1>4, <1>5, <2>2
      <3> QED
        BY <1>1, <1>3, <2>2, <3>1, <3>2
    <2> QED
      BY <1>1, <2>1, <2>2
  <1> QED
    BY <1>1, <1>2, <1>3, <1>4, <1>5, <1>6

\* The line without one of its waiters.
LEMMA WaiterLeaves ==
    ASSUME TypeOK, LineHoldsTheWaiting, NEW u \in Users, CancelWaiting(u)
    PROVE  LineHoldsTheWaiting' /\ line' \in Seq(Users)
  <1>1. PICK i \in 1..Len(line) : line[i] = u /\ line' = RemoveAt(line, i)
    BY LenProperties DEF CancelWaiting, TypeOK
  <1>2. Len(line) \in Nat /\ DOMAIN line = 1..Len(line) /\ line \in Seq(Users)
    BY LenProperties DEF TypeOK
  <1>3. /\ line' \in Seq(Users)
        /\ DOMAIN line' = 1..(Len(line) - 1)
        /\ \A j \in 1..(Len(line) - 1) :
              line'[j] = IF j < i THEN line[j] ELSE line[j + 1]
    BY <1>1, <1>2, RemoveAtIs, LenProperties
  <1>4. Waiting' = Waiting \ {u}
    BY DEF Waiting, CancelWaiting, TypeOK
  <1>5. IsInjective(line')
    <2>1. ASSUME NEW j \in DOMAIN line', NEW k \in DOMAIN line', line'[j] = line'[k]
          PROVE  j = k
      <3> DEFINE back(n) == IF n < i THEN n ELSE n + 1
      <3>1. back(j) \in 1..Len(line) /\ back(k) \in 1..Len(line)
        BY <1>2, <1>3
      <3>2. line'[j] = line[back(j)] /\ line'[k] = line[back(k)]
        BY <1>3
      <3>3. back(j) = back(k)
        BY <1>2, <2>1, <3>1, <3>2 DEF LineHoldsTheWaiting, IsInjective
      <3> QED
        BY <1>2, <1>3, <3>3
    <2> QED
      BY <2>1 DEF IsInjective
  <1>6. ASSUME NEW v \in Range(line') PROVE v \in Waiting \ {u}
    <2>1. PICK j \in 1..(Len(line) - 1) : v = line'[j]
      BY <1>3 DEF Range
    <2>2. PICK k \in 1..Len(line) : k # i /\ v = line[k]
      BY <1>2, <1>3, <2>1
    <2> QED
      BY <1>1, <1>2, <2>2 DEF LineHoldsTheWaiting, IsInjective, Range
  <1>7. ASSUME NEW v \in Waiting \ {u} PROVE v \in Range(line')
    <2>1. PICK k \in 1..Len(line) : k # i /\ v = line[k]
      BY <1>1, <1>2 DEF LineHoldsTheWaiting, Range
    <2>2. CASE k < i
      <3>1. k \in 1..(Len(line) - 1) /\ v = line'[k]
        BY <1>2, <1>3, <2>1, <2>2
      <3> QED
        BY <1>3, <3>1 DEF Range
    <2>3. CASE k > i
      <3>1. k - 1 \in 1..(Len(line) - 1) /\ v = line'[k - 1]
        BY <1>2, <1>3, <2>1, <2>3
      <3> QED
        BY <1>3, <3>1 DEF Range
    <2> QED
      BY <1>2, <2>1, <2>2, <2>3
  <1> QED
    BY <1>3, <1>4, <1>5, <1>6, <1>7 DEF LineHoldsTheWaiting

\* The line with a newcomer.
LEMMA WaiterJoins ==
    ASSUME TypeOK, LineHoldsTheWaiting, NEW u \in Users, at[u] # "waiting", Join(u)
    PROVE  LineHoldsTheWaiting' /\ line' \in Seq(Users)
  <1>1. /\ Len(line) \in Nat /\ DOMAIN line = 1..Len(line)
        /\ line' \in Seq(Users) /\ DOMAIN line' = 1..(Len(line) + 1)
        /\ \A j \in 1..Len(line) : line'[j] = line[j]
        /\ line'[Len(line) + 1] = u
    BY AppendProperties, LenProperties DEF Join, TypeOK
  <1>2. Waiting' = Waiting \union {u} /\ u \notin Waiting
    BY DEF Waiting, Join, TypeOK
  <1>3. IsInjective(line')
    BY <1>1, <1>2 DEF LineHoldsTheWaiting, IsInjective, Range
  <1>4. Range(line') = Range(line) \union {u}
    BY <1>1 DEF Range
  <1> QED
    BY <1>1, <1>2, <1>3, <1>4 DEF LineHoldsTheWaiting

\* The line without its head.
LEMMA HeadLeaves ==
    ASSUME TypeOK, LineHoldsTheWaiting, Acquire
    PROVE  /\ LineHoldsTheWaiting' /\ line' \in Seq(Users)
           /\ Head(line) \in Users /\ at[Head(line)] = "waiting"
  <1> DEFINE u == Head(line)
  <1>1. /\ Len(line) \in Nat /\ Len(line) > 0 /\ DOMAIN line = 1..Len(line)
        /\ line' \in Seq(Users) /\ DOMAIN line' = 1..(Len(line) - 1)
        /\ \A j \in 1..(Len(line) - 1) : line'[j] = line[j + 1]
        /\ u = line[1]
    BY HeadTailProperties, LenProperties, EmptySeq DEF Acquire, TypeOK
  <1>2. u \in Waiting
    BY <1>1 DEF LineHoldsTheWaiting, Range
  <1>3. Waiting' = Waiting \ {u}
    BY <1>2 DEF Waiting, Acquire, TypeOK
  <1>4. IsInjective(line')
    BY <1>1 DEF LineHoldsTheWaiting, IsInjective
  <1>5. Range(line') \subseteq Range(line) \ {u}
    <2>1. ASSUME NEW v \in Range(line')
          PROVE  v \in Range(line) /\ v # u
      <3>1. PICK j \in 1..(Len(line) - 1) : v = line[j + 1]
        BY <1>1 DEF Range
      <3>2. j + 1 \in 1..Len(line) /\ j + 1 # 1
        BY <1>1
      <3> QED
        BY <1>1, <3>1, <3>2 DEF LineHoldsTheWaiting, IsInjective, Range
    <2> QED
      BY <2>1
  <1>6. ASSUME NEW v \in Range(line) \ {u} PROVE v \in Range(line')
    <2>1. PICK k \in 1..Len(line) : v = line[k] /\ k # 1
      BY <1>1 DEF Range
    <2>2. k - 1 \in 1..(Len(line) - 1) /\ line'[k - 1] = v
      BY <1>1, <2>1
    <2> QED
      BY <1>1, <2>2 DEF Range
  <1> QED
    BY <1>1, <1>2, <1>3, <1>4, <1>5, <1>6 DEF LineHoldsTheWaiting, Waiting

\* A step that moves nobody in or out of the line leaves it exact.
LEMMA LineAside ==
    ASSUME LineHoldsTheWaiting, UNCHANGED line, Waiting' = Waiting
    PROVE  LineHoldsTheWaiting'
  BY DEF LineHoldsTheWaiting

-----------------------------------------------------------------------------
\* The invariant

LEMMA InitHolds == Init => BulkheadInvariant
  <1> SUFFICES ASSUME Init PROVE BulkheadInvariant
    OBVIOUS
  <1>1. TypeOK
    BY BulkheadAssumption, EmptySeq DEF Init, TypeOK
  <1>2. SlotsAccounted
    <2>1. Holders = {}
      BY DEF Init, Holders
    <2> QED
      BY <2>1, FS_EmptySet, BulkheadAssumption DEF Init, SlotsAccounted
  <1>3. LineHoldsTheWaiting
    <2>1. Waiting = {} /\ DOMAIN line = {}
      BY EmptySeq DEF Init, Waiting
    <2> QED
      BY <2>1 DEF LineHoldsTheWaiting, Range, IsInjective
  <1>4. StreamsNeverReplayed /\ AttemptsLeft
    BY BulkheadAssumption DEF Init, StreamsNeverReplayed, AttemptsLeft
  <1> QED
    BY <1>1, <1>2, <1>3, <1>4 DEF BulkheadInvariant

\* Leaving the block keeps the invariant: a call may come back while it has an
\* attempt left, a stream may not.
LEMMA LeaveKeepsAll ==
    ASSUME BulkheadInvariant, NEW u \in Users, at[u] \in Holding,
           NEW place \in {"backoff"} \union Over, Leave(u, place),
           place = "backoff" => u \in Calls /\ MayRetry(u)
    PROVE  BulkheadInvariant'
  <1> USE DEF BulkheadInvariant
  <1>1. SlotsAccounted' /\ free' \in 0..MaxConcurrency
    BY LeaveKeeps
  <1>2. TypeOK'
    BY <1>1 DEF TypeOK, Leave
  <1>3. LineHoldsTheWaiting'
    <2>1. Waiting' = Waiting
      BY DEF Waiting, Leave, TypeOK
    <2> QED
      BY <2>1, LineAside DEF Leave
  <1>4. StreamsNeverReplayed' /\ AttemptsLeft'
    BY BulkheadAssumption
    DEF StreamsNeverReplayed, AttemptsLeft, Leave, TypeOK, MayRetry
  <1> QED
    BY <1>1, <1>2, <1>3, <1>4

\* A move that touches neither the line nor the slots keeps it too.
LEMMA MoveKeepsAll ==
    ASSUME BulkheadInvariant, NEW u \in Users, NEW place \in Places,
           at' = [at EXCEPT ![u] = place], UNCHANGED <<attempt, line, free>>,
           \/ at[u] \in Holding /\ place \in Holding
           \/ at[u] = "backoff" /\ place \in Over
    PROVE  BulkheadInvariant'
  <1> USE DEF BulkheadInvariant
  <1>1. TypeOK'
    BY DEF TypeOK
  <1>2. Holders' = Holders /\ Waiting' = Waiting
    BY DEF Holders, Waiting, TypeOK
  <1>3. SlotsAccounted' /\ LineHoldsTheWaiting'
    BY <1>2, LineAside DEF SlotsAccounted
  <1>4. StreamsNeverReplayed' /\ AttemptsLeft'
    BY DEF StreamsNeverReplayed, AttemptsLeft, TypeOK
  <1> QED
    BY <1>1, <1>3, <1>4

\* Joining the line, from outside or after a backoff.
LEMMA JoinKeepsAll ==
    ASSUME BulkheadInvariant, NEW u \in Users, at[u] \in {"new", "backoff"}, Join(u)
    PROVE  BulkheadInvariant'
  <1> USE DEF BulkheadInvariant
  <1>1. LineHoldsTheWaiting' /\ line' \in Seq(Users)
    BY WaiterJoins
  <1>2. TypeOK'
    BY <1>1 DEF TypeOK, Join
  <1>3. Holders' = Holders
    BY DEF Holders, Join, TypeOK
  <1>4. SlotsAccounted'
    BY <1>3 DEF SlotsAccounted, Join
  <1>5. StreamsNeverReplayed' /\ AttemptsLeft'
    BY DEF StreamsNeverReplayed, AttemptsLeft, Join, TypeOK
  <1> QED
    BY <1>1, <1>2, <1>4, <1>5

LEMMA NextKeeps ==
    ASSUME BulkheadInvariant, [Next]_vars
    PROVE  BulkheadInvariant'
  <1> USE DEF BulkheadInvariant
  <1>1. CASE UNCHANGED vars
    BY <1>1 DEF vars, TypeOK, SlotsAccounted, Holders, LineHoldsTheWaiting,
                Waiting, StreamsNeverReplayed, AttemptsLeft
  <1>2. CASE Acquire
    <2>1. SlotsAccounted' /\ free' \in 0..MaxConcurrency
      BY <1>2, AcquireKeeps
    <2>2. /\ LineHoldsTheWaiting' /\ line' \in Seq(Users)
          /\ Head(line) \in Users /\ at[Head(line)] = "waiting"
      BY <1>2, HeadLeaves
    <2>3. TypeOK'
      BY <1>2, <2>1, <2>2, BulkheadAssumption DEF Acquire, TypeOK, AttemptsLeft
    <2>4. StreamsNeverReplayed' /\ AttemptsLeft'
      BY <1>2, <2>2, BulkheadAssumption
      DEF Acquire, TypeOK, AttemptsLeft, StreamsNeverReplayed
    <2> QED
      BY <2>1, <2>2, <2>3, <2>4
  <1>3. ASSUME NEW u \in Users, Begin(u) PROVE BulkheadInvariant'
    BY <1>3, JoinKeepsAll DEF Begin
  <1>4. ASSUME NEW u \in Users, Cancel(u) PROVE BulkheadInvariant'
    <2>1. CASE CancelWaiting(u)
      <3>1. LineHoldsTheWaiting' /\ line' \in Seq(Users)
        BY <2>1, WaiterLeaves
      <3>2. TypeOK'
        BY <2>1, <3>1 DEF TypeOK, CancelWaiting
      <3>3. Holders' = Holders
        BY <2>1 DEF Holders, CancelWaiting, TypeOK
      <3>4. SlotsAccounted'
        BY <2>1, <3>3 DEF SlotsAccounted, CancelWaiting
      <3>5. StreamsNeverReplayed' /\ AttemptsLeft'
        BY <2>1 DEF StreamsNeverReplayed, AttemptsLeft, CancelWaiting, TypeOK
      <3> QED
        BY <3>1, <3>2, <3>4, <3>5
    <2>2. CASE CancelAsleep(u)
      BY <2>2, MoveKeepsAll DEF CancelAsleep
    <2>3. CASE CancelAtWork(u)
      BY <2>3, LeaveKeepsAll DEF CancelAtWork
    <2> QED
      BY <1>4, <2>1, <2>2, <2>3 DEF Cancel
  <1>5. ASSUME NEW c \in Calls, CallStep(c) PROVE BulkheadInvariant'
    <2>1. CASE Answer(c) \/ FailForNow(c) \/ FailForGood(c)
      BY <2>1, LeaveKeepsAll DEF Answer, FailForNow, FailForGood
    <2>2. CASE WakeFromBackoff(c)
      BY <2>2, JoinKeepsAll DEF WakeFromBackoff
    <2> QED
      BY <1>5, <2>1, <2>2 DEF CallStep
  <1>6. ASSUME NEW s \in Streams, StreamStep(s) PROVE BulkheadInvariant'
    <2>1. CASE FailToOpen(s) \/ EndStream(s) \/ Close(s)
      BY <2>1, LeaveKeepsAll DEF FailToOpen, EndStream, Close
    <2>2. CASE Open(s) \/ Yield(s) \/ AskForMore(s) \/ Drop(s)
      BY <2>2, MoveKeepsAll DEF Open, Yield, AskForMore, Drop
    <2> QED
      BY <1>6, <2>1, <2>2 DEF StreamStep
  <1> QED
    BY <1>1, <1>2, <1>3, <1>4, <1>5, <1>6 DEF Next

\* The invariant holds in every state.
THEOREM InvariantHolds == Spec => []BulkheadInvariant
  BY InitHolds, NextKeeps, PTL DEF Spec

\* Values have their types; in them, no call is tried more often than allowed.
THEOREM BulkheadTypes == Spec => []TypeOK
  <1>1. BulkheadInvariant => TypeOK
    BY DEF BulkheadInvariant
  <1> QED
    BY <1>1, InvariantHolds, PTL

\* No slot leaks and none is given back twice, however calls and streams end.
THEOREM SlotsNeverLeak == Spec => []SlotsAccounted
  <1>1. BulkheadInvariant => SlotsAccounted
    BY DEF BulkheadInvariant
  <1> QED
    BY <1>1, InvariantHolds, PTL
=============================================================================
