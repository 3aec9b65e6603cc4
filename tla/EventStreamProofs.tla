------------------------- MODULE EventStreamProofs -------------------------
(***************************************************************************)
(* Proofs about the event log and about the event stream with its          *)
(* connections and pages: for every number of pages, events, kills and     *)
(* lost connections, and for every pair of limits with                     *)
(* FlushThreshold <= HistoryLimit. The stream implements EventLog, so what *)
(* is shown of the log holds with every page attached; no event falls      *)
(* between the replay and the subscription; and a page shows the history   *)
(* in order, without gaps but for the race of the greeting.                *)
(*                                                                         *)
(* The invariant of a page, PageOK, is an operator of the values the page  *)
(* and its connection hold, so that a move of one page is a fact about     *)
(* those values with the log standing still, and a step of the log is a    *)
(* fact about every such tuple of values at once.                          *)
(***************************************************************************)
EXTENDS EventStream, FiniteSetTheorems, WellFoundedInduction, TLAPS

---------------------------------------------------------------------------
(* Lemmas about sets of event numbers                                      *)

(* A non-empty set of event numbers has an oldest event.                   *)
LEMMA LeastElement ==
    ASSUME NEW S \in SUBSET Nat, S # {}
    PROVE  \E n \in S : \A m \in S : n <= m
<1>1. IsWellFoundedOn({ss \in Nat \X Nat : ss[1] < ss[2]}, Nat)
  BY NatLessThanWellFounded, Zenon DEF OpToRel
<1>2. PICK n \in S : \A m \in S : <<m, n>> \notin {ss \in Nat \X Nat : ss[1] < ss[2]}
  BY <1>1, WFMin, Zenon
<1>3. \A m \in S : ~(m < n)
  BY <1>2
<1> QED  BY <1>3

(* A non-empty set of events published so far has a newest event.          *)
LEMMA GreatestElement ==
    ASSUME NEW N \in Nat, NEW S \in SUBSET (1..N), S # {}
    PROVE  \E n \in S : \A m \in S : m <= n
<1> DEFINE T == {k \in Nat : N - k \in S}
<1>1. T # {}
  <2>1. PICK n \in S : TRUE
    OBVIOUS
  <2>2. N - n \in Nat /\ N - (N - n) = n
    OBVIOUS
  <2> QED  BY <2>1, <2>2
<1>2. PICK k \in T : \A j \in T : k <= j
  <2> HIDE DEF T
  <2>1. T \in SUBSET Nat
    BY DEF T
  <2> QED  BY <1>1, <2>1, LeastElement
<1>3. N - k \in S
  OBVIOUS
<1>4. ASSUME NEW m \in S PROVE m <= N - k
  <2>1. N - m \in Nat /\ N - (N - m) = m
    OBVIOUS
  <2>2. N - m \in T
    BY <2>1
  <2>3. k <= N - m
    BY <1>2, <2>2
  <2> QED  BY <2>1, <2>3
<1> QED  BY <1>3, <1>4

(* Newest and Oldest are what their names say.                             *)
LEMMA NewestIsNewest ==
    ASSUME NEW N \in Nat, NEW S \in SUBSET (1..N), S # {}
    PROVE  Newest(S) \in S /\ \A m \in S : m <= Newest(S)
BY GreatestElement DEF Newest

(* Oldest picks the least event of a non-empty set.                        *)
LEMMA OldestIsOldest ==
    ASSUME NEW S \in SUBSET Nat, S # {}
    PROVE  Oldest(S) \in S /\ \A m \in S : Oldest(S) <= m
BY LeastElement DEF Oldest

(* Sets of events published so far are finite.                             *)
LEMMA EventsAreFinite ==
    ASSUME NEW N \in Nat, NEW S \in SUBSET (1..N)
    PROVE  IsFiniteSet(S) /\ Cardinality(S) \in Nat
BY FS_Interval, FS_Subset, FS_CardinalityType, 1 \in Int, N \in Int

(* The replay buffer keeps a most recent part of what is put into it.      *)
LEMMA TrimmedIsRecent ==
    ASSUME NEW N \in Nat, NEW S \in SUBSET (1..N),
           NEW h \in Trimmed(S), NEW k \in S, h <= k
    PROVE  k \in Trimmed(S)
<1> DEFINE From(n) == {m \in S : m >= n}
<1>0. h \in Nat /\ k \in Nat /\ \A m \in S : m \in Nat
  BY DEF Trimmed
<1>1. From(k) \subseteq From(h)
  <2>1. ASSUME NEW m \in S, m >= k PROVE m >= h
    BY <1>0, <2>1
  <2> QED  BY <2>1
<1>2. /\ IsFiniteSet(From(h)) /\ Cardinality(From(h)) \in Nat
      /\ Cardinality(From(k)) \in Nat
  BY EventsAreFinite
<1>3. Cardinality(From(k)) <= Cardinality(From(h))
  BY <1>1, <1>2, FS_Subset
<1>4. Cardinality(From(h)) <= HistoryLimit
  BY DEF Trimmed
<1>5. HistoryLimit \in Nat
  BY LimitsAssumption
<1>6. Cardinality(From(k)) <= HistoryLimit
  BY <1>2, <1>3, <1>4, <1>5
<1> QED  BY <1>6 DEF Trimmed

(* What is among the FlushThreshold most recent events is not evicted.     *)
LEMMA TrimmedKeeps ==
    ASSUME NEW N \in Nat, NEW S \in SUBSET (1..N), NEW B \in SUBSET S,
           Cardinality(B) < FlushThreshold,
           \A n \in B : \A m \in S : m >= n => m \in B
    PROVE  B \subseteq Trimmed(S)
<1> SUFFICES ASSUME NEW n \in B PROVE n \in Trimmed(S)
  OBVIOUS
<1> DEFINE From == {m \in S : m >= n}
<1>1. From \subseteq B
  OBVIOUS
<1>2. IsFiniteSet(B) /\ Cardinality(B) \in Nat /\ Cardinality(From) \in Nat
  BY EventsAreFinite
<1>3. Cardinality(From) <= Cardinality(B)
  BY <1>1, <1>2, FS_Subset
<1>4. Cardinality(From) <= HistoryLimit
  BY <1>2, <1>3, LimitsAssumption
<1> QED  BY <1>4 DEF Trimmed

---------------------------------------------------------------------------
(* The inductive invariant                                                 *)

(* The write buffer holds the newest events, fewer than the threshold, and *)
(* all of them are in the replay buffer, which is empty while the process  *)
(* is down.                                                                *)
BufferIsRecent ==
    /\ buffered \subseteq history
    /\ Cardinality(buffered) < FlushThreshold
    /\ \A n \in buffered : \A m \in 1..published : m >= n => m \in buffered
    /\ ~up => history = {}

(* Every event is on disk, waits to be written, or is accounted for.       *)
Accounted == \A n \in 1..published : n \in durable \cup lost \cup buffered

(* The counter is not behind any event that can be replayed.               *)
CounterIsAhead == up => \A n \in history \cup durable : seqOf[n] <= seq

(* The replay buffer holds the newest of what can be replayed.             *)
HistoryIsRecent ==
    \A h \in history : \A n \in durable : h < n => n \in history

IInv ==
    /\ LogTypeOK
    /\ BufferIsRecent
    /\ Accounted
    /\ CounterIsAhead
    /\ HistoryIsRecent
    /\ SequenceIsOrder

(* Rows of different events have different sequence numbers, so writing a  *)
(* batch overwrites nothing.                                               *)
LEMMA InsertedKeeps ==
    ASSUME NEW B, NEW seqs,
           \A n \in durable : \A m \in B : n # m => seqs[m] # seqs[n]
    PROVE  Inserted(B, seqs) = durable \cup B
BY DEF Inserted

(* The empty log of a new session satisfies the invariant.                 *)
LEMMA LogInitInv == LogInit => IInv
<1> SUFFICES ASSUME LogInit PROVE IInv
  OBVIOUS
<1> USE LimitsAssumption DEF LogInit
<1>1. LogTypeOK
  BY DEF LogTypeOK, Events
<1>2. BufferIsRecent
  BY FS_EmptySet DEF BufferIsRecent
<1>3. Accounted /\ CounterIsAhead /\ HistoryIsRecent /\ SequenceIsOrder
  BY DEF Accounted, CounterIsAhead, HistoryIsRecent, SequenceIsOrder
<1> QED  BY <1>1, <1>2, <1>3 DEF IInv

---------------------------------------------------------------------------
(* publish preserves the invariant                                         *)

(* What publish does to the stores: the batch with the new event stays in  *)
(* the buffer, is written without touching a row, or is lost.              *)
LEMMA PublishOutcome ==
    ASSUME IInv, NEW ok \in BOOLEAN, Publish(ok)
    PROVE  LET n == published + 1
               B == buffered \cup {n}
           IN  /\ n \in Events /\ published' = n
               /\ seqOf' \in [Events -> Nat]
               /\ seqOf'[n] = seq + 1
               /\ \A m \in 1..published : seqOf'[m] = seqOf[m]
               /\ \/ /\ Cardinality(B) < FlushThreshold
                     /\ buffered' = B /\ durable' = durable /\ lost' = lost
                  \/ buffered' = {} /\ durable' = durable \cup B /\ lost' = lost
                  \/ buffered' = {} /\ durable' = durable /\ lost' = lost \cup B
<1> DEFINE n == published + 1
           B == buffered \cup {n}
<1>1. /\ n \in Events /\ published' = n /\ n \in Nat
      /\ \A m \in 1..published : m \in Events /\ m # n
  BY LimitsAssumption DEF IInv, LogTypeOK, Publish, Events
<1>2. /\ seqOf' \in [Events -> Nat] /\ seqOf'[n] = seq + 1
      /\ \A m \in 1..published : seqOf'[m] = seqOf[m]
  BY <1>1 DEF IInv, LogTypeOK, Publish
<1>3. Persist(n, seqOf', ok)
  BY DEF Publish
<1>4. \A k \in durable : \A m \in B : k # m => seqOf'[m] # seqOf'[k]
  <2> SUFFICES ASSUME NEW k \in durable, NEW m \in B, k # m
               PROVE  seqOf'[m] # seqOf'[k]
    OBVIOUS
  <2>1. k \in 1..published /\ seqOf'[k] = seqOf[k] /\ seqOf[k] \in Nat /\ seq \in Nat
    BY <1>1, <1>2 DEF IInv, LogTypeOK
  <2>2. seqOf[k] <= seq
    BY DEF IInv, CounterIsAhead, Publish
  <2>3. CASE m = n
    BY <1>2, <2>1, <2>2, <2>3
  <2>4. CASE m \in buffered
    <3>1. m \in 1..published /\ seqOf'[m] = seqOf[m] /\ seqOf[m] \in Nat
      BY <1>1, <1>2, <2>4 DEF IInv, LogTypeOK
    <3>2. m \in history
      BY <2>4 DEF IInv, BufferIsRecent
    <3>3. m < k \/ k < m
      BY <2>1, <3>1
    <3>4. seqOf[m] < seqOf[k] \/ seqOf[k] < seqOf[m]
      BY <3>2, <3>3 DEF IInv, SequenceIsOrder
    <3> QED  BY <2>1, <3>1, <3>4
  <2> QED  BY <2>3, <2>4
<1>5. Inserted(B, seqOf') = durable \cup B
  BY <1>4, InsertedKeeps
<1>6. IsFiniteSet(B) /\ Cardinality(B) \in Nat
  <2>1. B \in SUBSET (1..n)
    BY <1>1 DEF IInv, LogTypeOK
  <2> QED  BY <1>1, <2>1, EventsAreFinite
<1>7. \/ /\ Cardinality(B) < FlushThreshold
         /\ buffered' = B /\ durable' = durable /\ lost' = lost
      \/ buffered' = {} /\ durable' = durable \cup B /\ lost' = lost
      \/ buffered' = {} /\ durable' = durable /\ lost' = lost \cup B
  <2>1. CASE Cardinality(B) >= FlushThreshold
    <3>1. Write(B, seqOf', ok)
      BY <1>3, <2>1 DEF Persist
    <3> QED  BY <1>5, <3>1 DEF Write
  <2>2. CASE Cardinality(B) < FlushThreshold
    <3>1. ~(Cardinality(B) >= FlushThreshold)
      BY <1>6, <2>2, LimitsAssumption
    <3> QED  BY <1>3, <2>2, <3>1 DEF Persist
  <2> QED  BY <1>6, <2>1, <2>2, LimitsAssumption
<1> QED  BY <1>1, <1>2, <1>7

(* Publishing, with or without the flush it triggers, preserves it.        *)
LEMMA PublishInv ==
    ASSUME IInv, NEW ok \in BOOLEAN, Publish(ok)
    PROVE  IInv'
<1> DEFINE n == published + 1
           B == buffered \cup {n}
           S == history \cup {n}
<1>1. /\ n \in Events /\ published' = n
      /\ seqOf' \in [Events -> Nat]
      /\ seqOf'[n] = seq + 1
      /\ \A m \in 1..published : seqOf'[m] = seqOf[m]
      /\ \/ /\ Cardinality(B) < FlushThreshold
            /\ buffered' = B /\ durable' = durable /\ lost' = lost
         \/ buffered' = {} /\ durable' = durable \cup B /\ lost' = lost
         \/ buffered' = {} /\ durable' = durable /\ lost' = lost \cup B
  BY PublishOutcome
<1>2. /\ up /\ up' = up /\ kills' = kills
      /\ seq' = seq + 1
      /\ history' = Trimmed(S)
  BY DEF Publish
<1>3. /\ published \in Nat /\ n \in Nat /\ 1..n = (1..published) \cup {n}
      /\ history \subseteq 1..published /\ buffered \subseteq 1..published
      /\ durable \subseteq 1..published /\ lost \subseteq 1..published
      /\ seq \in Nat
      /\ \A m \in 1..published : m < n /\ seqOf[m] \in Nat
  BY LimitsAssumption DEF IInv, LogTypeOK, Events
<1>4. /\ B \subseteq S /\ S \in SUBSET (1..n)
      /\ history' \subseteq S
      /\ durable' \subseteq durable \cup B
      /\ buffered' \subseteq B
      /\ lost' \subseteq lost \cup B
  BY <1>1, <1>2, <1>3 DEF Trimmed, IInv, BufferIsRecent
<1>5. LogTypeOK'
  <2>1. /\ up' \in BOOLEAN /\ seq' \in Nat /\ kills' \in Nat
        /\ seqOf' \in [Events -> Nat]
    BY <1>1, <1>2, <1>3 DEF IInv, LogTypeOK
  <2>2. published' \in 0..MaxEvents
    BY <1>1, <1>3, LimitsAssumption DEF Events
  <2>3. /\ history' \subseteq 1..n /\ buffered' \subseteq 1..n
        /\ durable' \subseteq 1..n /\ lost' \subseteq 1..n
    BY <1>3, <1>4
  <2> QED  BY <1>1, <2>1, <2>2, <2>3 DEF LogTypeOK
<1>6. BufferIsRecent'
  <2>1. \A k \in B : \A m \in 1..n : m >= k => m \in B
    BY <1>3 DEF IInv, BufferIsRecent
  <2>2. CASE buffered' = {}
    BY <1>2, <2>2, FS_EmptySet, LimitsAssumption DEF BufferIsRecent
  <2>3. CASE Cardinality(B) < FlushThreshold /\ buffered' = B
    <3>1. B \subseteq Trimmed(S)
      <4>1. Cardinality(B) < FlushThreshold /\ B \in SUBSET S
        BY <1>4, <2>3
      <4>2. \A k \in B : \A m \in S : m >= k => m \in B
        BY <1>4, <2>1
      <4> HIDE DEF B, S, n
      <4> QED  BY <1>3, <1>4, <4>1, <4>2, TrimmedKeeps
    <3>2. buffered' \subseteq history' /\ Cardinality(buffered') < FlushThreshold
      BY <1>2, <2>3, <3>1
    <3>3. \A k \in buffered' : \A m \in 1..published' : m >= k => m \in buffered'
      BY <1>1, <2>1, <2>3
    <3>4. up'
      BY <1>2
    <3> QED  BY <3>2, <3>3, <3>4 DEF BufferIsRecent
  <2> QED  BY <1>1, <2>2, <2>3
<1>7. Accounted'
  BY <1>1, <1>3 DEF IInv, Accounted
<1>8. CounterIsAhead'
  <2> SUFFICES ASSUME NEW m \in history' \cup durable'
               PROVE  seqOf'[m] <= seq'
    BY DEF CounterIsAhead
  <2>1. CASE m = n
    BY <1>1, <1>2, <1>3, <2>1
  <2>2. CASE m # n
    <3>1. m \in history \cup durable /\ m \in 1..published
      BY <1>3, <1>4, <2>2 DEF IInv, BufferIsRecent
    <3>2. seqOf[m] <= seq
      BY <1>2, <3>1 DEF IInv, CounterIsAhead
    <3> QED  BY <1>1, <1>2, <1>3, <3>1, <3>2
  <2> QED  BY <2>1, <2>2
<1>9. HistoryIsRecent'
  <2> SUFFICES ASSUME NEW h \in history', NEW m \in durable', h < m
               PROVE  m \in history'
    BY DEF HistoryIsRecent
  <2>1. m \in S
    <3>1. CASE m \in B
      BY <1>4, <3>1
    <3>2. CASE m \in durable
      <4>1. h \in history
        BY <1>3, <1>4, <3>2
      <4> QED  BY <3>2, <4>1 DEF IInv, HistoryIsRecent
    <3> QED  BY <1>4, <3>1, <3>2
  <2>2. h \in Nat /\ m \in Nat /\ h <= m
    BY <1>3, <1>4, <2>1
  <2> QED  BY <1>2, <1>3, <1>4, <2>1, <2>2, TrimmedIsRecent
<1>10. SequenceIsOrder'
  <2> SUFFICES ASSUME NEW k \in history' \cup durable',
                      NEW m \in history' \cup durable', k < m
               PROVE  seqOf'[k] < seqOf'[m]
    BY DEF SequenceIsOrder
  <2>1. /\ k \in history \cup durable \cup {n}
        /\ m \in history \cup durable \cup {n}
    BY <1>4 DEF IInv, BufferIsRecent
  <2>2. k # n /\ k \in history \cup durable /\ k \in 1..published
    BY <1>3, <2>1
  <2>3. seqOf'[k] = seqOf[k] /\ seqOf[k] <= seq
    BY <1>1, <1>2, <2>2 DEF IInv, CounterIsAhead
  <2>4. CASE m = n
    BY <1>1, <1>3, <2>2, <2>3, <2>4
  <2>5. CASE m # n
    BY <1>1, <1>3, <2>1, <2>2, <2>3, <2>5 DEF IInv, SequenceIsOrder
  <2> QED  BY <2>4, <2>5
<1> QED  BY <1>5, <1>6, <1>7, <1>8, <1>9, <1>10 DEF IInv

---------------------------------------------------------------------------
(* The other steps preserve it                                             *)

(* What flush_events does to the stores.                                   *)
LEMMA FlushOutcome ==
    ASSUME IInv, NEW ok \in BOOLEAN, Flush(ok)
    PROVE  /\ up /\ buffered' = {}
           /\ up' = up /\ published' = published /\ seqOf' = seqOf /\ seq' = seq
           /\ history' = history /\ kills' = kills
           /\ \/ durable' = durable \cup buffered /\ lost' = lost
              \/ durable' = durable /\ lost' = lost \cup buffered
<1>1. ASSUME NEW k \in durable, NEW m \in buffered, k # m
      PROVE  seqOf[m] # seqOf[k]
  <2>1. /\ k \in Nat /\ m \in Nat /\ m \in history
        /\ seqOf[k] \in Nat /\ seqOf[m] \in Nat
    BY LimitsAssumption DEF IInv, LogTypeOK, BufferIsRecent, Events
  <2>2. m < k \/ k < m
    BY <1>1, <2>1
  <2> QED  BY <2>1, <2>2 DEF IInv, SequenceIsOrder
<1>2. Inserted(buffered, seqOf) = durable \cup buffered
  BY <1>1, InsertedKeeps
<1> QED  BY <1>2 DEF Flush, Write

(* Writing the buffer out, or losing it to a failing append, preserves     *)
(* it.                                                                     *)
LEMMA FlushInv ==
    ASSUME IInv, NEW ok \in BOOLEAN, Flush(ok)
    PROVE  IInv'
<1>1. /\ up /\ buffered' = {}
      /\ up' = up /\ published' = published /\ seqOf' = seqOf /\ seq' = seq
      /\ history' = history /\ kills' = kills
      /\ \/ durable' = durable \cup buffered /\ lost' = lost
         \/ durable' = durable /\ lost' = lost \cup buffered
  BY FlushOutcome
<1>3. LogTypeOK'
  BY <1>1 DEF IInv, LogTypeOK
<1>4. BufferIsRecent'
  BY <1>1, FS_EmptySet, LimitsAssumption DEF BufferIsRecent
<1>5. Accounted'
  BY <1>1 DEF IInv, Accounted
<1>6. history' \cup durable' \subseteq history \cup durable
  BY <1>1 DEF IInv, BufferIsRecent
<1>7. CounterIsAhead' /\ SequenceIsOrder'
  BY <1>1, <1>6 DEF IInv, CounterIsAhead, SequenceIsOrder
<1>8. HistoryIsRecent'
  BY <1>1 DEF IInv, HistoryIsRecent, BufferIsRecent
<1> QED  BY <1>3, <1>4, <1>5, <1>7, <1>8 DEF IInv

(* A hard kill preserves it: what was only in memory becomes lost.         *)
LEMMA KillInv ==
    ASSUME IInv, Kill
    PROVE  IInv'
<1>1. LogTypeOK'
  <2>0. up' \in BOOLEAN
    BY DEF Kill
  <2>1. /\ seq' \in Nat /\ kills' \in Nat
        /\ published' \in 0..MaxEvents /\ seqOf' \in [Events -> Nat]
    BY DEF IInv, LogTypeOK, Kill
  <2>2. /\ history' \subseteq 1..published' /\ buffered' \subseteq 1..published'
        /\ durable' \subseteq 1..published' /\ lost' \subseteq 1..published'
    BY DEF IInv, LogTypeOK, Kill
  <2> QED  BY <2>0, <2>1, <2>2 DEF LogTypeOK
<1>2. BufferIsRecent'
  BY FS_EmptySet, LimitsAssumption DEF BufferIsRecent, Kill
<1>3. Accounted'
  BY DEF IInv, Accounted, Kill
<1>4. CounterIsAhead' /\ HistoryIsRecent' /\ SequenceIsOrder'
  BY DEF IInv, CounterIsAhead, HistoryIsRecent, SequenceIsOrder, Kill
<1> QED  BY <1>1, <1>2, <1>3, <1>4 DEF IInv

(* Restoring the buffer and the counter from the store re-establishes it   *)
(* in the new process.                                                     *)
LEMMA ReopenInv ==
    ASSUME IInv, Reopen
    PROVE  IInv'
<1>1. /\ published \in Nat /\ durable \in SUBSET (1..published)
      /\ durable \subseteq Nat
      /\ \A m \in durable : seqOf[m] \in Nat
      /\ buffered = {}
  BY LimitsAssumption DEF IInv, LogTypeOK, BufferIsRecent, Reopen, Events
<1>2. history' \subseteq durable
  BY DEF Reopen, Trimmed
<1>3. \A m \in durable : seqOf[m] <= LatestSeq
  <2> SUFFICES ASSUME NEW m \in durable PROVE seqOf[m] <= LatestSeq
    OBVIOUS
  <2>1. Newest(durable) \in durable /\ m <= Newest(durable)
    BY <1>1, NewestIsNewest
  <2>2. m \in Nat /\ Newest(durable) \in Nat
    BY <1>1, <2>1
  <2>3. LatestSeq = seqOf[Newest(durable)]
    BY DEF LatestSeq
  <2>4. CASE m = Newest(durable)
    BY <1>1, <2>1, <2>3, <2>4
  <2>5. CASE m < Newest(durable)
    <3>1. seqOf[m] < seqOf[Newest(durable)]
      BY <2>1, <2>5 DEF IInv, SequenceIsOrder
    <3>2. seqOf[m] \in Nat /\ seqOf[Newest(durable)] \in Nat
      BY <1>1, <2>1
    <3> QED  BY <2>3, <3>1, <3>2
  <2> QED  BY <2>1, <2>2, <2>4, <2>5
<1>4. LatestSeq \in Nat
  BY <1>1, NewestIsNewest DEF LatestSeq
<1>5. LogTypeOK'
  BY <1>1, <1>2, <1>4 DEF IInv, LogTypeOK, Reopen
<1>6. BufferIsRecent'
  BY <1>1, FS_EmptySet, LimitsAssumption DEF BufferIsRecent, Reopen
<1>7. Accounted'
  BY DEF IInv, Accounted, Reopen
<1>8. CounterIsAhead' /\ SequenceIsOrder'
  BY <1>2, <1>3 DEF IInv, CounterIsAhead, SequenceIsOrder, Reopen
<1>9. HistoryIsRecent'
  <2> SUFFICES ASSUME NEW h \in history', NEW m \in durable, h < m
               PROVE  m \in history'
    BY DEF HistoryIsRecent, Reopen
  <2>1. h \in Nat /\ m \in Nat /\ h <= m
    BY <1>1, <1>2
  <2> QED  BY <1>1, <2>1, TrimmedIsRecent DEF Reopen
<1> QED  BY <1>5, <1>6, <1>7, <1>8, <1>9 DEF IInv

(* Every step of the log preserves the invariant.                          *)
LEMMA NextInv == IInv /\ [LogNext]_logVars => IInv'
<1> SUFFICES ASSUME IInv, [LogNext]_logVars PROVE IInv'
  OBVIOUS
<1>1. ASSUME NEW ok \in BOOLEAN, Publish(ok) PROVE IInv'
  BY <1>1, PublishInv
<1>2. ASSUME NEW ok \in BOOLEAN, Flush(ok) PROVE IInv'
  BY <1>2, FlushInv
<1>3. CASE Kill
  BY <1>3, KillInv
<1>4. CASE Reopen
  BY <1>4, ReopenInv
<1>5. CASE UNCHANGED logVars
  BY <1>5 DEF logVars, IInv, LogTypeOK, BufferIsRecent, Accounted,
              CounterIsAhead, HistoryIsRecent, SequenceIsOrder
<1> QED  BY <1>1, <1>2, <1>3, <1>4, <1>5 DEF LogNext

(* The invariant holds in every reachable state of the log.                *)
LEMMA Invariance == LogSpec => []IInv
<1> QED  BY LogInitInv, NextInv, PTL DEF LogSpec

---------------------------------------------------------------------------
(* Theorems                                                                *)

(* Every variable of the log keeps its type: what is buffered, retained or *)
(* stored is always a set of events that were published.                   *)
THEOREM Typing == LogSpec => []LogTypeOK
<1>1. IInv => LogTypeOK
  BY DEF IInv
<1> QED  BY <1>1, Invariance, PTL

(* No event is evicted from the replay buffer while it only waits in the   *)
(* write buffer: at every moment it can be replayed, or it is accounted    *)
(* for as lost.  This is where FlushThreshold <= HistoryLimit is needed.   *)
THEOREM NothingForgotten == LogSpec => []Recorded
<1>1. IInv => Recorded
  BY DEF IInv, Recorded, Accounted, BufferIsRecent
<1> QED  BY <1>1, Invariance, PTL

(* Sequence numbers order the events that can be replayed, through kills   *)
(* that wind the counter back.                                             *)
THEOREM Ordering == LogSpec => []SequenceIsOrder
<1>1. IInv => SequenceIsOrder
  BY DEF IInv
<1> QED  BY <1>1, Invariance, PTL

(* replay_since leaves nothing out of the log as it is.                    *)
LEMMA ReplayAtOnce ==
    ASSUME IInv
    PROVE  ReplayIsComplete
<1> SUFFICES ASSUME up, NEW since \in 0..seq,
                    NEW n \in durable, seqOf[n] > since, n \notin history
             PROVE  n \in Backfill(since)
  BY DEF ReplayIsComplete, Replay, Backfill
<1>1. CASE history = {}
  BY <1>1 DEF Backfill, HasGap
<1>2. CASE history # {}
  <2> DEFINE o == Oldest(history)
  <2>1. history \subseteq Nat /\ n \in Nat
    BY <1>1 DEF IInv, LogTypeOK
  <2>2. o \in history /\ o \in Nat
    BY <1>2, <2>1, OldestIsOldest
  <2>3. n < o
    BY <2>1, <2>2 DEF IInv, HistoryIsRecent
  <2>4. seqOf[n] < seqOf[o]
    BY <2>2, <2>3 DEF IInv, SequenceIsOrder
  <2>5. seqOf[n] \in Nat /\ seqOf[o] \in Nat /\ since \in Nat
    BY <2>2, LimitsAssumption DEF IInv, LogTypeOK, Events
  <2>6. since + 1 < seqOf[o]
    BY <2>4, <2>5
  <2> QED  BY <2>4, <2>6 DEF Backfill, HasGap
<1> QED  BY <1>1, <1>2

(* replay_since leaves nothing out, whatever the cursor and however much   *)
(* the buffer has evicted.                                                 *)
THEOREM Replaying == LogSpec => []ReplayIsComplete
<1>1. IInv => ReplayIsComplete
  BY ReplayAtOnce
<1> QED  BY <1>1, Invariance, PTL

(* A restart never reuses the number of a row that is on disk, so the log  *)
(* only grows.                                                             *)
THEOREM Growing == LogSpec => LogOnlyGrows
<1>1. ASSUME IInv, [LogNext]_logVars PROVE [durable \subseteq durable']_logVars
  <2>1. ASSUME NEW ok \in BOOLEAN, Publish(ok) PROVE durable \subseteq durable'
    BY <1>1, <2>1, PublishOutcome
  <2>2. ASSUME NEW ok \in BOOLEAN, Flush(ok) PROVE durable \subseteq durable'
    BY <1>1, <2>2, FlushOutcome
  <2>3. CASE Kill \/ Reopen
    BY <2>3 DEF Kill, Reopen
  <2> QED  BY <1>1, <2>1, <2>2, <2>3 DEF LogNext
<1> QED  BY <1>1, Invariance, PTL DEF LogSpec, LogOnlyGrows

---------------------------------------------------------------------------
(* The log beneath                                                         *)

(* What connections and pages do never touches the log: no page, however   *)
(* it reconnects, makes the session forget, reorder or rewrite an event.   *)
THEOREM StreamImplementsLog == Spec => LogSpec
<1>1. Init => LogInit
  BY DEF Init
<1>2. [Next]_vars => [LogNext]_logVars
  <2> SUFFICES ASSUME [Next]_vars PROVE [LogNext]_logVars
    OBVIOUS
  <2>1. ASSUME NEW ok \in BOOLEAN, PublishToAll(ok) PROVE LogNext
    BY <2>1 DEF PublishToAll, LogNext
  <2>2. ASSUME NEW ok \in BOOLEAN, Flush(ok) PROVE LogNext
    BY <2>2 DEF LogNext
  <2>3. CASE Reopen
    BY <2>3 DEF LogNext
  <2>4. CASE KillAll
    BY <2>4 DEF KillAll, LogNext
  <2>5. ASSUME NEW p \in Pages, PageStep(p) \/ Disconnect(p) \/ Reload(p)
        PROVE  UNCHANGED logVars
    BY <2>5 DEF PageStep, Attach, SendBacklog, SendHello, Forward, Deliver,
                Disconnect, Reload
  <2>6. CASE UNCHANGED vars
    BY <2>6 DEF vars
  <2> QED  BY <2>1, <2>2, <2>3, <2>4, <2>5, <2>6 DEF Next
<1> QED  BY <1>1, <1>2, PTL DEF Spec, LogSpec

(* With every page attached, no event is forgotten, the log is never       *)
(* rewritten, and a reconnecting page is offered everything it may ask for. *)
THEOREM StreamKeepsEvents ==
    Spec => [](Recorded /\ SequenceIsOrder /\ ReplayIsComplete) /\ LogOnlyGrows
BY StreamImplementsLog, NothingForgotten, Ordering, Replaying, Growing, PTL

---------------------------------------------------------------------------
(* Lemmas about the sequences the model is built from                      *)

(* What Append adds, and where.                                            *)
LEMMA Appended ==
    ASSUME NEW T, NEW s \in Seq(T), NEW e \in T
    PROVE  /\ Append(s, e) \in Seq(T)
           /\ Len(s) \in Nat /\ Len(Append(s, e)) = Len(s) + 1
           /\ \A i \in 1..Len(s) : Append(s, e)[i] = s[i]
           /\ Append(s, e)[Len(s) + 1] = e
OBVIOUS

(* What Tail leaves, and where.                                            *)
LEMMA Tailed ==
    ASSUME NEW T, NEW s \in Seq(T), s # << >>
    PROVE  /\ Tail(s) \in Seq(T)
           /\ Len(s) \in Nat \ {0} /\ Len(Tail(s)) = Len(s) - 1
           /\ Head(s) = s[1] /\ Head(s) \in T
           /\ \A i \in 1..Len(s) - 1 : Tail(s)[i] = s[i + 1] /\ i + 1 \in 1..Len(s)
<1>1. /\ Len(s) \in Nat \ {0} /\ Head(s) = s[1]
      /\ Tail(s) \in Seq(T) /\ Len(Tail(s)) = Len(s) - 1
  OBVIOUS
<1>2. \A i \in 1..Len(s) - 1 : Tail(s)[i] = s[i + 1] /\ i + 1 \in 1..Len(s)
  BY <1>1
<1>3. s[1] \in T
  BY <1>1
<1> QED  BY <1>1, <1>2, <1>3

Increasing(s) == \A i, j \in 1..Len(s) : i < j => s[i] < s[j]

(* An increasing map of a finite set of numbers into another of the same   *)
(* size reaches all of it.                                                 *)
LEMMA IncreasingReaches ==
    ASSUME NEW N \in Nat, NEW S \in SUBSET (1..N),
           NEW s \in [1..Cardinality(S) -> S],
           \A i, j \in DOMAIN s : i < j => s[i] < s[j]
    PROVE  \A n \in S : \E i \in 1..Cardinality(S) : s[i] = n
<1> DEFINE k == Cardinality(S)
<1>1. IsFiniteSet(S) /\ k \in Nat
  BY EventsAreFinite
<1>2. IsFiniteSet(1..k) /\ Cardinality(1..k) = k
  BY <1>1, FS_Interval, 1 \in Int
<1>3. s \in Injection(1..k, S)
  <2>1. ASSUME NEW i \in 1..k, NEW j \in 1..k, i # j PROVE s[i] # s[j]
    <3>1. i < j \/ j < i
      BY <2>1, <1>1
    <3>2. s[i] < s[j] \/ s[j] < s[i]
      <4>1. i \in DOMAIN s /\ j \in DOMAIN s
        OBVIOUS
      <4> HIDE DEF k
      <4> QED  BY <3>1, <4>1
    <3>3. s[i] \in Nat /\ s[j] \in Nat
      <4>1. s[i] \in S /\ s[j] \in S
        OBVIOUS
      <4>2. \A n \in S : n \in Nat
        OBVIOUS
      <4> QED  BY <4>1, <4>2
    <3> HIDE DEF k
    <3> QED  BY <3>2, <3>3
  <2> QED  BY <2>1 DEF Injection, IsInjective
<1>4. s \in Surjection(1..k, S)
  BY <1>1, <1>2, <1>3, FS_Injection, Zenon
<1> QED  BY <1>4 DEF Surjection

(* Every set of events published so far can be listed oldest first.        *)
LEMMA ListedInOrder ==
    ASSUME NEW N \in Nat, NEW S \in SUBSET (1..N)
    PROVE  \E s \in [1..Cardinality(S) -> S] :
              \A i, j \in DOMAIN s : i < j => s[i] < s[j]
<1> DEFINE k == Cardinality(S)
           UpTo(n) == {m \in S : m <= n}
           rank == [n \in S |-> Cardinality(UpTo(n))]
<1>1. IsFiniteSet(S) /\ k \in Nat
  BY EventsAreFinite
<1>2. IsFiniteSet(1..k) /\ Cardinality(1..k) = k
  BY <1>1, FS_Interval, 1 \in Int
<1>3. \A n \in S : IsFiniteSet(UpTo(n)) /\ Cardinality(UpTo(n)) \in Nat
  BY EventsAreFinite
<1>4. ASSUME NEW m \in S, NEW n \in S, m < n
      PROVE  Cardinality(UpTo(m)) < Cardinality(UpTo(n))
  <2>0. \A j \in S : j \in Nat
    OBVIOUS
  <2>1. UpTo(m) \subseteq UpTo(n) /\ n \in UpTo(n) /\ n \notin UpTo(m)
    <3>1. \A j \in S : j <= m => j <= n
      BY <1>4, <2>0
    <3>2. n <= n /\ ~(n <= m)
      BY <1>4, <2>0
    <3> QED  BY <3>1, <3>2
  <2>2. UpTo(m) # UpTo(n)
    BY <2>1
  <2> HIDE DEF UpTo
  <2> QED  BY <1>3, <2>1, <2>2, FS_Subset
<1>5. ASSUME NEW n \in S PROVE Cardinality(UpTo(n)) \in 1..k
  <2>1. UpTo(n) \subseteq S /\ UpTo(n) # {}
    BY <1>5
  <2>2. Cardinality(UpTo(n)) <= k /\ Cardinality(UpTo(n)) # 0
    <3> HIDE DEF UpTo
    <3> QED  BY <1>1, <1>3, <2>1, FS_Subset, FS_EmptySet
  <2> HIDE DEF UpTo, k
  <2> QED  BY <1>1, <1>3, <2>2
<1>6. rank \in Injection(S, 1..k)
  <2>1. rank \in [S -> 1..k]
    BY <1>5
  <2>2. ASSUME NEW m \in S, NEW n \in S, m # n PROVE rank[m] # rank[n]
    <3>1. m < n \/ n < m
      BY <2>2
    <3>2. rank[m] < rank[n] \/ rank[n] < rank[m]
      BY <1>4, <3>1
    <3>3. rank[m] \in Nat /\ rank[n] \in Nat
      BY <1>3
    <3> HIDE DEF rank
    <3> QED  BY <3>2, <3>3
  <2> HIDE DEF rank
  <2> QED  BY <2>1, <2>2 DEF Injection, IsInjective
<1>7. rank \in Surjection(S, 1..k)
  <2> HIDE DEF rank
  <2> QED  BY <1>1, <1>2, <1>6, FS_Injection, Zenon
<1>8. \A i \in 1..k : \E n \in S : rank[n] = i
  <2> HIDE DEF rank, k
  <2> QED  BY <1>7 DEF Surjection
<1> DEFINE s == [i \in 1..k |-> CHOOSE n \in S : rank[n] = i]
<1>9. ASSUME NEW i \in 1..k PROVE s[i] \in S /\ rank[s[i]] = i
  <2> HIDE DEF rank, k
  <2> QED  BY <1>8
<1>10. ASSUME NEW i \in 1..k, NEW j \in 1..k, i < j PROVE s[i] < s[j]
  <2>1. s[i] \in S /\ rank[s[i]] = i /\ s[j] \in S /\ rank[s[j]] = j
    BY <1>9
  <2>2. PICK a \in S, b \in S : a = s[i] /\ b = s[j] /\ rank[a] = i /\ rank[b] = j
    BY <2>1
  <2>3. a # b /\ ~(b < a)
    <3>1. b < a => rank[b] < rank[a]
      BY <1>4
    <3> HIDE DEF rank, s, k
    <3> QED  BY <2>2, <3>1, <1>10, <1>1
  <2>4. a \in Nat /\ b \in Nat
    OBVIOUS
  <2>5. a < b
    BY <2>3, <2>4
  <2> QED  BY <2>2, <2>5
<1>11. s \in [1..k -> S]
  <2> HIDE DEF rank, k
  <2> QED  BY <1>9
<1>12. DOMAIN s = 1..k
  OBVIOUS
<1> HIDE DEF s
<1> QED  BY <1>10, <1>11, <1>12

(* InOrder lists exactly the events of a set, in increasing order.         *)
LEMMA InOrderLists ==
    ASSUME NEW N \in Nat, NEW S \in SUBSET (1..N)
    PROVE  /\ InOrder(S) \in Seq(S)
           /\ Increasing(InOrder(S))
           /\ \A n \in S : \E i \in 1..Len(InOrder(S)) : InOrder(S)[i] = n
<1> DEFINE k == Cardinality(S)
<1>1. k \in Nat
  BY EventsAreFinite
<1>2. PICK s : s = InOrder(S)
  OBVIOUS
<1>3. s \in [1..k -> S] /\ \A i, j \in DOMAIN s : i < j => s[i] < s[j]
  BY <1>2, ListedInOrder DEF InOrder
<1>4. \A n \in S : \E i \in 1..k : s[i] = n
  BY <1>3, IncreasingReaches
<1>5. s \in Seq(S) /\ Len(s) = k /\ DOMAIN s = 1..k
  <2> HIDE DEF k
  <2> QED  BY <1>1, <1>3
<1> HIDE DEF k
<1>6. Increasing(s)
  BY <1>3, <1>5 DEF Increasing
<1> QED  BY <1>2, <1>4, <1>5, <1>6

---------------------------------------------------------------------------
(* The invariant of a page                                                 *)

(* Without a kill the events are numbered as they were published.          *)
Unkilled ==
    kills = 0 => /\ up /\ seq = published
                 /\ \A n \in 1..published : seqOf[n] = n

FrameType == [n : Events \cup {0}, s : Nat]

(* Every event published after n carries a larger number.                  *)
Newer(n) == \A m \in 1..published : n < m => seqOf[n] < seqOf[m]

(* What is on its way to a page: an event of this incarnation's numbers,   *)
(* not above the counter.                                                  *)
Carried(n) == n \in 1..published /\ seqOf[n] <= seq /\ Newer(n)

(* What waits for a page to be sent, oldest first.                         *)
Pending(b) ==
    /\ b \in Seq(Events)
    /\ \A i \in 1..Len(b) : Carried(b[i])
    /\ Increasing(b)

FrameOK(f) == f \in FrameType /\ (f.n # 0 => Carried(f.n) /\ f.s = seqOf[f.n])

Frames(w) == w \in Seq(FrameType) /\ \A i \in 1..Len(w) : FrameOK(w[i])

OnWire(w, n) == \E i \in 1..Len(w) : w[i].n = n

(* What a page with cursor c shows.                                        *)
Shown(s, c) ==
    /\ c \in Nat /\ s \in Seq(Events)
    /\ \A i \in 1..Len(s) : s[i] \in 1..published /\ seqOf[s[i]] <= c
    /\ Increasing(s)

(* What a page with cursor c is still to be shown, but for the excuses of  *)
(* MissesOnlyRaced.                                                        *)
Owed(c, r, pt) ==
    {m \in 1..published : m > c /\ m \notin r /\ m \notin lost /\ ~pt}

(* A frame that would move the cursor past an event owed comes behind it.  *)
Covering(w, O) ==
    \A i \in 1..Len(w) : \A m \in O :
        m <= w[i].s => \E j \in 1..i : w[j].n = m

(* As long as nothing was killed, an event owed is on the wire or still to *)
(* be sent, and one passed over was shown or is excused.                   *)
Covered(l, b, q, w, c, s, r, pt) ==
    /\ c <= published
    /\ \A i \in 1..Len(w) : w[i].s <= published
    /\ Covering(w, Owed(c, r, pt))
    /\ l = "replaying" => \A m \in Owed(c, r, pt) : OnWire(w, m) \/ Contains(b, m)
    /\ l = "live" => \A m \in Owed(c, r, pt) : OnWire(w, m) \/ Contains(q, m)
    /\ \A m \in 1..published :
          m <= c => Contains(s, m) \/ m \in r \/ m \in lost \/ pt

(* What can be replayed to a page.                                         *)
Kept(pt) == history \cup (IF pt THEN {} ELSE durable)

EnRoute(b, q, w, n) == Contains(b, n) \/ Contains(q, n) \/ OnWire(w, n)

PageOK(l, b, q, w, c, s, r, pt) ==
    /\ Pending(b) /\ Pending(q) /\ Frames(w) /\ Shown(s, c)
    /\ l # "replaying" => b = << >>
    /\ l = "off" => q = << >> /\ w = << >>
    /\ l # "off" => \A n \in Kept(pt) : seqOf[n] > c => EnRoute(b, q, w, n)
    /\ kills = 0 => Covered(l, b, q, w, c, s, r, pt)

---------------------------------------------------------------------------
(* What moves along the connection                                         *)

(* The head of what is pending is older than the rest.                     *)
LEMMA PendingTail ==
    ASSUME NEW b, Pending(b), b # << >>
    PROVE  /\ Pending(Tail(b)) /\ Carried(Head(b))
           /\ \A n : Contains(b, n) => n = Head(b) \/ Contains(Tail(b), n)
           /\ \A n : Contains(b, n) => n \in Nat /\ Head(b) <= n
<1>1. b \in Seq(Events) /\ Events \subseteq Nat
  BY LimitsAssumption DEF Pending, Events
<1>2. /\ Tail(b) \in Seq(Events)
      /\ Len(b) \in Nat \ {0} /\ Len(Tail(b)) = Len(b) - 1
      /\ Head(b) = b[1] /\ Head(b) \in Events
      /\ \A i \in 1..Len(b) - 1 : Tail(b)[i] = b[i + 1] /\ i + 1 \in 1..Len(b)
  BY <1>1, Tailed
<1>3. PICK t, k, h : t = Tail(b) /\ k = Len(b) /\ h = Head(b)
  OBVIOUS
<1>4. /\ k \in Nat \ {0} /\ t \in Seq(Events) /\ Len(t) = k - 1 /\ h = b[1]
      /\ \A i \in 1..k - 1 : t[i] = b[i + 1] /\ i + 1 \in 1..k
      /\ \A i \in 1..k : Carried(b[i])
      /\ \A i, j \in 1..k : i < j => b[i] < b[j]
  BY <1>2, <1>3 DEF Pending, Increasing
<1>5. \A i \in 1..k - 1 : Carried(t[i])
  BY <1>4
<1>6. ASSUME NEW i \in 1..k - 1, NEW j \in 1..k - 1, i < j PROVE t[i] < t[j]
  <2>1. i + 1 \in 1..k /\ j + 1 \in 1..k /\ i + 1 < j + 1
    BY <1>4, <1>6
  <2>2. t[i] = b[i + 1] /\ t[j] = b[j + 1]
    BY <1>4
  <2>3. b[i + 1] < b[j + 1]
    BY <1>4, <2>1
  <2> QED  BY <2>2, <2>3
<1>7. Pending(t)
  <2>1. Increasing(t)
    BY <1>4, <1>6 DEF Increasing
  <2> QED  BY <1>4, <1>5, <2>1 DEF Pending
<1>8. 1 \in 1..k
  BY <1>4
<1>9. Carried(h)
  BY <1>4, <1>8
<1>10. ASSUME NEW i \in 1..k
       PROVE  /\ b[i] = h \/ \E j \in 1..k - 1 : t[j] = b[i]
              /\ b[i] \in Nat /\ h <= b[i]
  <2>1. b[i] \in Nat /\ h \in Nat
    <3>1. b[i] \in Events /\ b[1] \in Events
      BY <1>1, <1>3, <1>4, <1>8
    <3> QED  BY <1>1, <1>4, <3>1
  <2>2. CASE i = 1
    BY <1>4, <2>1, <2>2
  <2>3. CASE i # 1
    <3>1. i - 1 \in 1..k - 1 /\ (i - 1) + 1 = i /\ 1 < i
      BY <1>4, <2>3
    <3>2. t[i - 1] = b[i] /\ h < b[i]
      BY <1>4, <1>8, <3>1
    <3> QED  BY <2>1, <3>1, <3>2
  <2> QED  BY <2>2, <2>3
<1>11. ASSUME NEW n, Contains(b, n)
       PROVE  (n = h \/ Contains(t, n)) /\ n \in Nat /\ h <= n
  <2>1. PICK i \in 1..k : b[i] = n
    BY <1>3, <1>11 DEF Contains
  <2> QED  BY <1>4, <1>10, <2>1 DEF Contains
<1> QED  BY <1>3, <1>7, <1>9, <1>11

(* What was on the wire stays on it when a frame is sent.                  *)
LEMMA FramesAppend ==
    ASSUME NEW w, Frames(w), NEW f, FrameOK(f)
    PROVE  /\ Frames(Append(w, f))
           /\ \A n : OnWire(w, n) => OnWire(Append(w, f), n)
           /\ OnWire(Append(w, f), f.n)
<1>1. w \in Seq(FrameType) /\ f \in FrameType
  BY DEF Frames, FrameOK
<1>2. PICK v, k : v = Append(w, f) /\ k = Len(w)
  OBVIOUS
<1>3. /\ v \in Seq(FrameType) /\ k \in Nat /\ Len(v) = k + 1
      /\ \A i \in 1..k : v[i] = w[i]
      /\ v[k + 1] = f
  BY <1>1, <1>2, Appended
<1>4. \A i \in 1..k + 1 : i \in 1..k \/ i = k + 1
  BY <1>3
<1>5. \A i \in 1..k : i \in 1..k + 1
  BY <1>3
<1>6. k + 1 \in 1..k + 1
  BY <1>3
<1>7. Frames(v)
  <2>1. \A i \in 1..k : FrameOK(v[i])
    BY <1>2, <1>3 DEF Frames
  <2> QED  BY <1>3, <1>4, <2>1 DEF Frames
<1>8. \A n : OnWire(w, n) => OnWire(v, n)
  BY <1>2, <1>3, <1>5 DEF OnWire
<1>9. OnWire(v, f.n)
  BY <1>3, <1>6 DEF OnWire
<1> QED  BY <1>2, <1>7, <1>8, <1>9

(* What is left on the wire when the first frame is handled.               *)
LEMMA FramesTail ==
    ASSUME NEW w, Frames(w), w # << >>
    PROVE  /\ Frames(Tail(w)) /\ FrameOK(Head(w))
           /\ \A n : OnWire(w, n) => n = Head(w).n \/ OnWire(Tail(w), n)
<1>1. w \in Seq(FrameType)
  BY DEF Frames
<1>2. PICK t, k, h : t = Tail(w) /\ k = Len(w) /\ h = Head(w)
  OBVIOUS
<1>3. /\ t \in Seq(FrameType)
      /\ k \in Nat \ {0} /\ Len(t) = k - 1
      /\ h = w[1]
      /\ \A i \in 1..k - 1 : t[i] = w[i + 1] /\ i + 1 \in 1..k
  BY <1>1, <1>2, Tailed
<1>4. \A i \in 1..k : FrameOK(w[i])
  BY <1>2 DEF Frames
<1>5. 1 \in 1..k
  BY <1>3
<1>6. Frames(t) /\ FrameOK(h)
  BY <1>3, <1>4, <1>5 DEF Frames
<1>7. ASSUME NEW n, OnWire(w, n) PROVE n = h.n \/ OnWire(t, n)
  <2>1. PICK i \in 1..k : w[i].n = n
    BY <1>2, <1>7 DEF OnWire
  <2>2. CASE i = 1
    BY <1>3, <2>1, <2>2
  <2>3. CASE i # 1
    <3>1. i - 1 \in 1..k - 1 /\ (i - 1) + 1 = i
      BY <1>3, <2>3
    <3> QED  BY <1>3, <2>1, <3>1 DEF OnWire
  <2> QED  BY <2>2, <2>3
<1> QED  BY <1>2, <1>6, <1>7

(* What is appended keeps the order if it is newer than all before it.     *)
LEMMA IncreasingAppend ==
    ASSUME NEW s \in Seq(Events), Increasing(s), NEW e \in Events,
           \A i \in 1..Len(s) : s[i] < e
    PROVE  /\ Append(s, e) \in Seq(Events) /\ Increasing(Append(s, e))
           /\ \A n : Contains(s, n) => Contains(Append(s, e), n)
           /\ Contains(Append(s, e), e)
           /\ \A i \in 1..Len(Append(s, e)) : Append(s, e)[i] = e \/
                 \E j \in 1..Len(s) : Append(s, e)[i] = s[j]
<1>1. PICK v, k : v = Append(s, e) /\ k = Len(s)
  OBVIOUS
<1>2. /\ v \in Seq(Events) /\ k \in Nat /\ Len(v) = k + 1
      /\ \A i \in 1..k : v[i] = s[i]
      /\ v[k + 1] = e
  BY <1>1, Appended
<1>3. \A i \in 1..k + 1 : i \in 1..k \/ i = k + 1
  BY <1>2
<1>4. \A i \in 1..k : i \in 1..k + 1
  BY <1>2
<1>5. k + 1 \in 1..k + 1
  BY <1>2
<1>6. ASSUME NEW i \in 1..k + 1, NEW j \in 1..k + 1, i < j PROVE v[i] < v[j]
  <2>1. i \in 1..k
    BY <1>2, <1>6
  <2> QED  BY <1>1, <1>2, <1>3, <1>6, <2>1 DEF Increasing
<1>7. Increasing(v)
  BY <1>2, <1>6 DEF Increasing
<1>8. \A n : Contains(s, n) => Contains(v, n)
  BY <1>1, <1>2, <1>4 DEF Contains
<1>9. Contains(v, e)
  BY <1>2, <1>5 DEF Contains
<1>10. \A i \in 1..Len(v) : v[i] = e \/ \E j \in 1..k : v[i] = s[j]
  BY <1>2, <1>3
<1> QED  BY <1>1, <1>2, <1>7, <1>8, <1>9, <1>10

(* A frame that passes over nothing owed keeps the wire covering.          *)
LEMMA CoveringAppend ==
    ASSUME NEW w, Frames(w), NEW f, FrameOK(f), NEW O, Covering(w, O),
           \A m \in O : m <= f.s => OnWire(w, m) \/ f.n = m
    PROVE  Covering(Append(w, f), O)
<1>1. w \in Seq(FrameType) /\ f \in FrameType
  BY DEF Frames, FrameOK
<1>2. PICK v, k : v = Append(w, f) /\ k = Len(w)
  OBVIOUS
<1>3. /\ v \in Seq(FrameType) /\ k \in Nat /\ Len(v) = k + 1
      /\ \A i \in 1..k : v[i] = w[i]
      /\ v[k + 1] = f
  BY <1>1, <1>2, Appended
<1>4. ASSUME NEW i \in 1..k + 1, NEW m \in O, m <= v[i].s
      PROVE  \E j \in 1..i : v[j].n = m
  <2>1. CASE i = k + 1
    <3>1. OnWire(w, m) \/ f.n = m
      BY <1>3, <1>4, <2>1
    <3>2. CASE f.n = m
      <4>1. k + 1 \in 1..i
        BY <1>3, <2>1
      <4> QED  BY <1>3, <3>2, <4>1
    <3>3. CASE OnWire(w, m)
      <4>1. PICK j \in 1..k : w[j].n = m
        BY <1>2, <3>3 DEF OnWire
      <4>2. j \in 1..i
        BY <1>3, <2>1
      <4> QED  BY <1>3, <4>1, <4>2
    <3> QED  BY <3>1, <3>2, <3>3
  <2>2. CASE i # k + 1
    <3>1. i \in 1..k
      BY <1>3, <2>2
    <3>2. PICK j \in 1..i : w[j].n = m
      BY <1>2, <1>3, <1>4, <3>1 DEF Covering
    <3>3. j \in 1..k
      BY <1>3, <3>1
    <3> QED  BY <1>3, <3>2, <3>3
  <2> QED  BY <2>1, <2>2
<1>5. Covering(v, O)
  BY <1>3, <1>4 DEF Covering
<1> QED  BY <1>2, <1>5

(* Nothing owed is left behind by the first frame, once it is handled.     *)
LEMMA CoveringTail ==
    ASSUME NEW w, Frames(w), w # << >>, NEW O, Covering(w, O),
           NEW R \in SUBSET O, Head(w).n \notin R
    PROVE  Covering(Tail(w), R)
<1>1. w \in Seq(FrameType)
  BY DEF Frames
<1>2. PICK t, k, h : t = Tail(w) /\ k = Len(w) /\ h = Head(w)
  OBVIOUS
<1>3. /\ t \in Seq(FrameType)
      /\ k \in Nat \ {0} /\ Len(t) = k - 1
      /\ h = w[1]
      /\ \A i \in 1..k - 1 : t[i] = w[i + 1] /\ i + 1 \in 1..k
  BY <1>1, <1>2, Tailed
<1>4. ASSUME NEW i \in 1..k - 1, NEW m \in R, m <= t[i].s
      PROVE  \E j \in 1..i : t[j].n = m
  <2>1. PICK j \in 1..i + 1 : w[j].n = m
    <3>1. i + 1 \in 1..k /\ m <= w[i + 1].s /\ m \in O
      BY <1>3, <1>4
    <3> QED  BY <1>2, <3>1 DEF Covering
  <2>2. j # 1
    BY <1>2, <1>3, <2>1
  <2>3. j - 1 \in 1..i /\ (j - 1) + 1 = j /\ j - 1 \in 1..k - 1
    BY <1>3, <2>2
  <2>4. t[j - 1] = w[j]
    BY <1>3, <2>3
  <2> QED  BY <2>1, <2>3, <2>4
<1>5. Covering(t, R)
  BY <1>3, <1>4 DEF Covering
<1> QED  BY <1>2, <1>5

(* A frame that covers is the first owed: the page misses nothing.         *)
LEMMA CoveredByHead ==
    ASSUME NEW w, Frames(w), w # << >>, NEW O, Covering(w, O),
           NEW m \in O, m <= Head(w).s
    PROVE  Head(w).n = m
<1>1. w \in Seq(FrameType)
  BY DEF Frames
<1>2. Len(w) \in Nat \ {0} /\ Head(w) = w[1]
  BY <1>1, Tailed
<1>3. 1 \in 1..Len(w)
  BY <1>2
<1>4. PICK j \in 1..1 : w[j].n = m
  BY <1>2, <1>3 DEF Covering
<1>5. j = 1
  OBVIOUS
<1> QED  BY <1>2, <1>4, <1>5

---------------------------------------------------------------------------
(* The moves of a connection keep a page in order, the log being as it is  *)

(* An event is sent, from the backlog or from the queue.                   *)
LEMMA Sending ==
    ASSUME IInv, Unkilled, NEW l, NEW b, NEW q, NEW w, NEW c, NEW s, NEW r, NEW pt,
           PageOK(l, b, q, w, c, s, r, pt)
    PROVE  /\ l = "replaying" /\ b # << >> =>
                PageOK(l, Tail(b), q, Append(w, Frame(Head(b))), c, s, r, pt)
           /\ l = "live" /\ q # << >> =>
                PageOK(l, b, Tail(q), Append(w, Frame(Head(q))), c, s, r, pt)
<1>0. /\ Pending(b) /\ Pending(q) /\ Frames(w) /\ Shown(s, c)
      /\ l # "replaying" => b = << >>
      /\ l # "off" => \A n \in Kept(pt) : seqOf[n] > c => EnRoute(b, q, w, n)
      /\ kills = 0 => Covered(l, b, q, w, c, s, r, pt)
  BY DEF PageOK
<1>1. published \in Nat /\ seqOf \in [Events -> Nat] /\ 1..published \subseteq Events
  BY LimitsAssumption DEF IInv, LogTypeOK, Events
<1>2. ASSUME NEW h, Carried(h)
      PROVE  FrameOK(Frame(h)) /\ Frame(h).n = h /\ Frame(h).s = seqOf[h]
  BY <1>1, <1>2 DEF Carried, FrameOK, Frame, FrameType
<1>3. ASSUME NEW x, x = b \/ x = q, x # << >>, NEW f, f = Frame(Head(x)),
             kills = 0 => \A m \in Owed(c, r, pt) : OnWire(w, m) \/ Contains(x, m)
      PROVE  /\ Pending(Tail(x)) /\ Frames(Append(w, f))
             /\ \A n : Contains(x, n) \/ OnWire(w, n) =>
                   Contains(Tail(x), n) \/ OnWire(Append(w, f), n)
             /\ kills = 0 => /\ Covering(Append(w, f), Owed(c, r, pt))
                             /\ \A i \in 1..Len(Append(w, f)) :
                                   Append(w, f)[i].s <= published
  <2>1. Pending(x)
    BY <1>0, <1>3
  <2>2. PICK h : h = Head(x)
    OBVIOUS
  <2>3. /\ Pending(Tail(x)) /\ Carried(h)
        /\ \A n : Contains(x, n) => n = h \/ Contains(Tail(x), n)
        /\ \A n : Contains(x, n) => n \in Nat /\ h <= n
    BY <1>3, <2>1, <2>2, PendingTail
  <2>4. FrameOK(f) /\ f.n = h /\ f.s = seqOf[h]
    BY <1>2, <1>3, <2>2, <2>3
  <2>5. /\ Frames(Append(w, f))
        /\ \A n : OnWire(w, n) => OnWire(Append(w, f), n)
        /\ OnWire(Append(w, f), h)
    BY <1>0, <2>4, FramesAppend
  <2>6. ASSUME kills = 0
        PROVE  /\ Covering(Append(w, f), Owed(c, r, pt))
               /\ \A i \in 1..Len(Append(w, f)) : Append(w, f)[i].s <= published
    <3>1. f.s = h /\ h \in 1..published /\ h <= published
      BY <1>1, <2>3, <2>4, <2>6 DEF Carried, Unkilled
    <3>2. Covering(w, Owed(c, r, pt)) /\ \A i \in 1..Len(w) : w[i].s <= published
      BY <1>0, <2>6 DEF Covered
    <3>3. \A m \in Owed(c, r, pt) : m <= f.s => OnWire(w, m) \/ f.n = m
      <4> SUFFICES ASSUME NEW m \in Owed(c, r, pt), m <= f.s, ~OnWire(w, m)
                   PROVE  m = h
        BY <2>4
      <4>1. Contains(x, m)
        BY <1>3, <2>6
      <4>2. m \in Nat /\ h <= m /\ h \in Nat
        BY <2>3, <3>1, <4>1
      <4> QED  BY <3>1, <4>2
    <3>4. Covering(Append(w, f), Owed(c, r, pt))
      BY <1>0, <2>4, <3>2, <3>3, CoveringAppend
    <3>5. \A i \in 1..Len(Append(w, f)) : Append(w, f)[i].s <= published
      <4>1. w \in Seq(FrameType) /\ f \in FrameType
        BY <1>0, <2>4 DEF Frames, FrameOK
      <4>2. /\ Len(w) \in Nat /\ Len(Append(w, f)) = Len(w) + 1
            /\ \A i \in 1..Len(w) : Append(w, f)[i] = w[i]
            /\ Append(w, f)[Len(w) + 1] = f
        BY <4>1, Appended
      <4>3. \A i \in 1..Len(w) + 1 : i \in 1..Len(w) \/ i = Len(w) + 1
        BY <4>2
      <4> QED  BY <3>1, <3>2, <4>2, <4>3
    <3> QED  BY <3>4, <3>5
  <2> QED  BY <2>3, <2>5, <2>6
<1>4. CASE l = "replaying" /\ b # << >>
  <2>1. kills = 0 => \A m \in Owed(c, r, pt) : OnWire(w, m) \/ Contains(b, m)
    BY <1>0, <1>4 DEF Covered
  <2>2. PICK f, v, t : f = Frame(Head(b)) /\ v = Append(w, f) /\ t = Tail(b)
    OBVIOUS
  <2>3. /\ Pending(t) /\ Frames(v)
        /\ \A n : Contains(b, n) \/ OnWire(w, n) => Contains(t, n) \/ OnWire(v, n)
        /\ kills = 0 => /\ Covering(v, Owed(c, r, pt))
                        /\ \A i \in 1..Len(v) : v[i].s <= published
    BY <1>3, <1>4, <2>1, <2>2
  <2>4. \A n \in Kept(pt) : seqOf[n] > c => EnRoute(t, q, v, n)
    BY <1>0, <1>4, <2>3 DEF EnRoute
  <2>5. kills = 0 => Covered(l, t, q, v, c, s, r, pt)
    BY <1>0, <1>4, <2>3 DEF Covered
  <2>6. PageOK(l, t, q, v, c, s, r, pt)
    BY <1>0, <1>4, <2>3, <2>4, <2>5 DEF PageOK
  <2> QED  BY <1>4, <2>2, <2>6
<1>5. CASE l = "live" /\ q # << >>
  <2>1. kills = 0 => \A m \in Owed(c, r, pt) : OnWire(w, m) \/ Contains(q, m)
    BY <1>0, <1>5 DEF Covered
  <2>2. PICK f, v, t : f = Frame(Head(q)) /\ v = Append(w, f) /\ t = Tail(q)
    OBVIOUS
  <2>3. /\ Pending(t) /\ Frames(v)
        /\ \A n : Contains(q, n) \/ OnWire(w, n) => Contains(t, n) \/ OnWire(v, n)
        /\ kills = 0 => /\ Covering(v, Owed(c, r, pt))
                        /\ \A i \in 1..Len(v) : v[i].s <= published
    BY <1>3, <1>5, <2>1, <2>2
  <2>4. \A n \in Kept(pt) : seqOf[n] > c => EnRoute(b, t, v, n)
    BY <1>0, <1>5, <2>3 DEF EnRoute
  <2>5. kills = 0 => Covered(l, b, t, v, c, s, r, pt)
    BY <1>0, <1>5, <2>3 DEF Covered
  <2>6. PageOK(l, b, t, v, c, s, r, pt)
    BY <1>0, <1>5, <2>3, <2>4, <2>5 DEF PageOK
  <2> QED  BY <1>5, <2>2, <2>6
<1> QED  BY <1>4, <1>5

(* The greeting that ends a replay passes over nothing that is owed.       *)
LEMMA Greeting ==
    ASSUME IInv, Unkilled, NEW b, NEW q, NEW w, NEW c, NEW s, NEW r, NEW pt,
           PageOK("replaying", b, q, w, c, s, r, pt), b = << >>
    PROVE  PageOK("live", b, q, Append(w, Snapshot(seq)), c, s, r, pt)
<1>0. /\ Pending(b) /\ Pending(q) /\ Frames(w) /\ Shown(s, c)
      /\ \A n \in Kept(pt) : seqOf[n] > c => EnRoute(b, q, w, n)
      /\ kills = 0 => Covered("replaying", b, q, w, c, s, r, pt)
  BY DEF PageOK
<1>1. PICK f, v : f = Snapshot(seq) /\ v = Append(w, f)
  OBVIOUS
<1>2. FrameOK(f) /\ f.n = 0 /\ f.s = seq
  BY <1>1 DEF IInv, LogTypeOK, FrameOK, FrameType, Snapshot
<1>3. Frames(v) /\ \A n : OnWire(w, n) => OnWire(v, n)
  BY <1>0, <1>1, <1>2, FramesAppend
<1>4. \A n \in Kept(pt) : seqOf[n] > c => EnRoute(b, q, v, n)
  BY <1>0, <1>3 DEF EnRoute
<1>5. ASSUME kills = 0 PROVE Covered("live", b, q, v, c, s, r, pt)
  <2>1. /\ c <= published
        /\ \A i \in 1..Len(w) : w[i].s <= published
        /\ Covering(w, Owed(c, r, pt))
        /\ \A m \in Owed(c, r, pt) : OnWire(w, m) \/ Contains(b, m)
        /\ \A m \in 1..published :
              m <= c => Contains(s, m) \/ m \in r \/ m \in lost \/ pt
    BY <1>0, <1>5 DEF Covered
  <2>2. \A m \in Owed(c, r, pt) : OnWire(w, m)
    BY <2>1 DEF Contains
  <2>3. Covering(v, Owed(c, r, pt))
    BY <1>0, <1>1, <1>2, <2>1, <2>2, CoveringAppend
  <2>4. \A i \in 1..Len(v) : v[i].s <= published
    <3>1. w \in Seq(FrameType) /\ f \in FrameType
      BY <1>0, <1>2 DEF Frames, FrameOK
    <3>2. /\ Len(w) \in Nat /\ Len(v) = Len(w) + 1
          /\ \A i \in 1..Len(w) : v[i] = w[i]
          /\ v[Len(w) + 1] = f
      BY <1>1, <3>1, Appended
    <3>3. \A i \in 1..Len(w) + 1 : i \in 1..Len(w) \/ i = Len(w) + 1
      BY <3>2
    <3>4. f.s <= published
      BY <1>2, <1>5 DEF Unkilled, IInv, LogTypeOK
    <3> QED  BY <2>1, <3>2, <3>3, <3>4
  <2> QED  BY <1>3, <2>1, <2>2, <2>3, <2>4 DEF Covered
<1>6. PageOK("live", b, q, v, c, s, r, pt)
  BY <1>0, <1>3, <1>4, <1>5 DEF PageOK
<1> QED  BY <1>1, <1>6

(* A page takes the first frame off the wire.                              *)
LEMMA Handling ==
    ASSUME IInv, Unkilled, NEW l, NEW b, NEW q, NEW w, NEW c, NEW s, NEW r, NEW pt,
           PageOK(l, b, q, w, c, s, r, pt), w # << >>, l # "off"
    PROVE  LET f == Head(w) IN
           /\ f.n # 0 /\ f.s <= c => PageOK(l, b, q, Tail(w), c, s, r, pt)
           /\ ~(f.n # 0 /\ f.s <= c) =>
                PageOK(l, b, q, Tail(w), Processed(c, f),
                       IF f.n = 0 THEN s ELSE Append(s, f.n), r, pt)
<1>0. /\ Pending(b) /\ Pending(q) /\ Frames(w) /\ Shown(s, c)
      /\ l # "replaying" => b = << >>
      /\ \A n \in Kept(pt) : seqOf[n] > c => EnRoute(b, q, w, n)
      /\ kills = 0 => Covered(l, b, q, w, c, s, r, pt)
  BY DEF PageOK
<1>1. PICK f, t : f = Head(w) /\ t = Tail(w)
  OBVIOUS
<1>2. /\ Frames(t) /\ FrameOK(f)
      /\ \A n : OnWire(w, n) => n = f.n \/ OnWire(t, n)
  BY <1>0, <1>1, FramesTail
<1>3. /\ published \in Nat /\ seqOf \in [Events -> Nat] /\ 1..published \subseteq Events
      /\ history \subseteq 1..published /\ durable \subseteq 1..published
  BY LimitsAssumption DEF IInv, LogTypeOK, Events
<1>4. /\ f.s \in Nat /\ c \in Nat /\ s \in Seq(Events)
      /\ f.n # 0 => f.n \in 1..published /\ f.s = seqOf[f.n]
  BY <1>0, <1>2 DEF FrameOK, FrameType, Shown, Carried
<1>5. PICK d : d = IF f.n # 0 /\ f.s <= c THEN c ELSE Processed(c, f)
  OBVIOUS
<1>6. PICK u : u = IF f.n = 0 \/ f.s <= c THEN s ELSE Append(s, f.n)
  OBVIOUS
<1>7. d \in Nat /\ c <= d /\ f.s <= d /\ (d = c \/ d = f.s)
  BY <1>4, <1>5 DEF Processed, Highest
(* What the page shows stays in order.                                     *)
<1>8. Shown(u, d) /\ \A n : Contains(s, n) => Contains(u, n)
  <2>1. CASE f.n = 0 \/ f.s <= c
    <3>1. u = s
      BY <1>6, <2>1
    <3>2. \A i \in 1..Len(s) : s[i] \in 1..published /\ seqOf[s[i]] <= d
      BY <1>0, <1>3, <1>4, <1>7 DEF Shown
    <3> QED  BY <1>0, <1>7, <3>1, <3>2 DEF Shown
  <2>2. CASE f.n # 0 /\ f.s > c
    <3>1. u = Append(s, f.n) /\ f.n \in 1..published /\ f.n \in Events
      BY <1>3, <1>4, <1>6, <2>2
    <3>2. \A i \in 1..Len(s) : s[i] \in 1..published /\ seqOf[s[i]] <= c
      BY <1>0 DEF Shown
    <3>3. \A i \in 1..Len(s) : s[i] < f.n
      <4> SUFFICES ASSUME NEW i \in 1..Len(s) PROVE s[i] < f.n
        OBVIOUS
      <4>1. PICK n : n = s[i]
        OBVIOUS
      <4>2. n \in 1..published /\ seqOf[n] <= c
        BY <3>2, <4>1
      <4>3. seqOf[n] < seqOf[f.n]
        BY <1>3, <1>4, <2>2, <3>1, <4>2
      <4>4. f.n < n => seqOf[f.n] < seqOf[n]
        BY <1>2, <2>2, <4>2 DEF FrameOK, Carried, Newer
      <4>5. seqOf[n] \in Nat /\ seqOf[f.n] \in Nat
        BY <1>3, <3>1, <4>2
      <4>6. f.n # n /\ ~(f.n < n)
        BY <4>3, <4>4, <4>5
      <4> QED  BY <1>3, <3>1, <4>1, <4>2, <4>6
    <3>4. Increasing(s)
      BY <1>0 DEF Shown
    <3>5. /\ u \in Seq(Events) /\ Increasing(u)
          /\ \A n : Contains(s, n) => Contains(u, n)
          /\ \A i \in 1..Len(u) : u[i] = f.n \/ \E j \in 1..Len(s) : u[i] = s[j]
      BY <1>4, <3>1, <3>3, <3>4, IncreasingAppend
    <3>6. \A i \in 1..Len(s) : seqOf[s[i]] <= d
      BY <1>3, <1>4, <1>7, <3>2
    <3>7. seqOf[f.n] <= d
      BY <1>4, <1>7, <2>2
    <3>8. \A i \in 1..Len(u) : u[i] \in 1..published /\ seqOf[u[i]] <= d
      BY <3>1, <3>2, <3>5, <3>6, <3>7
    <3> QED  BY <1>7, <3>5, <3>8 DEF Shown
  <2> QED  BY <1>4, <2>1, <2>2
(* Nothing newer than the new cursor was on that frame.                    *)
<1>9. \A n \in Kept(pt) : seqOf[n] > d => EnRoute(b, q, t, n)
  <2> SUFFICES ASSUME NEW n \in Kept(pt), seqOf[n] > d PROVE EnRoute(b, q, t, n)
    OBVIOUS
  <2>1. n \in 1..published /\ seqOf[n] \in Nat
    BY <1>3 DEF Kept
  <2>2. EnRoute(b, q, w, n)
    BY <1>0, <1>4, <1>7, <2>1
  <2>3. n # f.n
    BY <1>4, <1>7, <2>1
  <2> QED  BY <1>2, <2>2, <2>3 DEF EnRoute
<1>10. ASSUME kills = 0 PROVE Covered(l, b, q, t, d, u, r, pt)
  <2>1. /\ c <= published
        /\ \A i \in 1..Len(w) : w[i].s <= published
        /\ Covering(w, Owed(c, r, pt))
        /\ l = "replaying" => \A m \in Owed(c, r, pt) : OnWire(w, m) \/ Contains(b, m)
        /\ l = "live" => \A m \in Owed(c, r, pt) : OnWire(w, m) \/ Contains(q, m)
        /\ \A m \in 1..published :
              m <= c => Contains(s, m) \/ m \in r \/ m \in lost \/ pt
    BY <1>0, <1>10 DEF Covered
  <2>2. \A n \in 1..published : seqOf[n] = n
    BY <1>10 DEF Unkilled
  <2>3. w \in Seq(FrameType)
    BY <1>0 DEF Frames
  <2>4. /\ Len(w) \in Nat \ {0} /\ Len(t) = Len(w) - 1 /\ f = w[1]
        /\ \A i \in 1..Len(w) - 1 : t[i] = w[i + 1] /\ i + 1 \in 1..Len(w)
    BY <1>1, <2>3, Tailed
  <2>5. f.s <= published /\ d <= published
    <3>1. 1 \in 1..Len(w)
      BY <2>4
    <3> QED  BY <1>7, <2>1, <2>4, <3>1
  <2>6. \A i \in 1..Len(t) : t[i].s <= published
    BY <2>1, <2>4
  <2>7. Owed(d, r, pt) \subseteq Owed(c, r, pt) /\ f.n \notin Owed(d, r, pt)
    <3>1. \A m \in 1..published : m > d => m > c
      BY <1>3, <1>4, <1>7
    <3>2. f.n # 0 => ~(f.n > d)
      BY <1>4, <1>7, <2>2
    <3>3. 0 \notin 1..published
      BY <1>3
    <3> QED  BY <3>1, <3>2, <3>3 DEF Owed
  <2>8. Covering(t, Owed(d, r, pt))
    BY <1>0, <1>1, <2>1, <2>7, CoveringTail
  <2>9. /\ l = "replaying" => \A m \in Owed(d, r, pt) : OnWire(t, m) \/ Contains(b, m)
        /\ l = "live" => \A m \in Owed(d, r, pt) : OnWire(t, m) \/ Contains(q, m)
    BY <1>2, <2>1, <2>7
  <2>10. ASSUME NEW m \in 1..published, m <= d
         PROVE  Contains(u, m) \/ m \in r \/ m \in lost \/ pt
    <3>1. CASE m <= c
      BY <1>8, <2>1, <3>1
    <3>2. CASE m > c
      <4> SUFFICES ASSUME m \notin r, m \notin lost, ~pt PROVE Contains(u, m)
        OBVIOUS
      <4>1. m \in Owed(c, r, pt)
        BY <3>2 DEF Owed
      <4>2. m <= f.s
        BY <1>3, <1>4, <1>7, <2>10, <3>2
      <4>3. f.n = m
        BY <1>0, <1>1, <2>1, <4>1, <4>2, CoveredByHead
      <4>4. f.n # 0 /\ f.s = m /\ m \in Events
        BY <1>3, <1>4, <2>2, <4>3
      <4>5. u = Append(s, m)
        BY <1>3, <1>4, <1>6, <3>2, <4>3, <4>4
      <4>6. PICK k : k = Len(s)
        OBVIOUS
      <4>7. k \in Nat /\ Len(u) = k + 1 /\ u[k + 1] = m
        BY <1>4, <4>4, <4>5, <4>6, Appended
      <4>8. k + 1 \in 1..k + 1
        BY <4>7
      <4> QED  BY <4>7, <4>8 DEF Contains
    <3>3. m \in Nat
      OBVIOUS
    <3> QED  BY <1>4, <3>1, <3>2, <3>3
  <2> QED  BY <2>5, <2>6, <2>8, <2>9, <2>10 DEF Covered
<1>11. PageOK(l, b, q, t, d, u, r, pt)
  BY <1>0, <1>2, <1>8, <1>9, <1>10 DEF PageOK
<1> QED  BY <1>1, <1>4, <1>5, <1>6, <1>11

(* Nothing pending and nothing on the wire is in order.                    *)
LEMMA NothingPending ==
    /\ Pending(<< >>) /\ Frames(<< >>)
    /\ \A n : ~Contains(<< >>, n) /\ ~OnWire(<< >>, n)
<1>1. << >> \in Seq(Events) /\ << >> \in Seq(FrameType) /\ Len(<< >>) = 0
  OBVIOUS
<1>2. 1..0 = {}
  OBVIOUS
<1> QED  BY <1>1, <1>2 DEF Pending, Increasing, Frames, Contains, OnWire

(* Events that can be replayed are older than everything published later.  *)
Fresh == \A n \in history \cup durable : Newer(n)

(* A page that connects is sent everything kept that is newer than its     *)
(* cursor, in order.                                                       *)
LEMMA Connecting ==
    ASSUME IInv, Unkilled, Fresh, ReplayIsComplete, up,
           NEW b, NEW q, NEW w, NEW c, NEW s, NEW r, NEW pt \in BOOLEAN,
           PageOK("off", b, q, w, c, s, r, pt),
           NEW readable \in BOOLEAN, NEW S,
           S = IF readable THEN Replay(c) ELSE {n \in history : seqOf[n] > c}
    PROVE  PageOK("replaying", InOrder(S), q, w, c, s, r, pt \/ ~readable)
<1>0. /\ Pending(q) /\ Frames(w) /\ Shown(s, c) /\ q = << >> /\ w = << >>
      /\ kills = 0 => Covered("off", b, q, w, c, s, r, pt)
  BY DEF PageOK
<1>1. /\ published \in Nat /\ seqOf \in [Events -> Nat] /\ 1..published \subseteq Events
      /\ history \subseteq 1..published /\ durable \subseteq 1..published
      /\ lost \subseteq 1..published /\ buffered \subseteq history
      /\ c \in Nat /\ seq \in Nat
  BY <1>0, LimitsAssumption DEF IInv, LogTypeOK, BufferIsRecent, Events, Shown
<1>2. S \subseteq {n \in history \cup durable : seqOf[n] > c}
  BY DEF Replay, Backfill
<1>3. PICK v, x : v = InOrder(S) /\ x = (pt \/ ~readable)
  OBVIOUS
<1>4. {n \in Kept(x) : seqOf[n] > c} \subseteq S
  <2>1. CASE ~readable
    BY <1>3, <2>1 DEF Kept
  <2>2. CASE readable /\ c \in 0..seq
    BY <2>2 DEF Kept, ReplayIsComplete
  <2>3. CASE c > seq
    <3>1. \A n \in history \cup durable : seqOf[n] <= seq /\ seqOf[n] \in Nat
      BY <1>1 DEF IInv, CounterIsAhead
    <3>2. \A n \in history \cup durable : ~(seqOf[n] > c)
      BY <1>1, <2>3, <3>1
    <3> QED  BY <3>2 DEF Kept
  <2> QED  BY <1>1, <2>1, <2>2, <2>3
<1>5. /\ v \in Seq(S) /\ Increasing(v)
      /\ \A n \in S : \E i \in 1..Len(v) : v[i] = n
  <2>1. S \in SUBSET (1..published)
    BY <1>1, <1>2
  <2> QED  BY <1>1, <1>3, <2>1, InOrderLists
<1>6. Pending(v)
  <2>1. \A n \in S : Carried(n) /\ n \in Events
    BY <1>1, <1>2 DEF IInv, CounterIsAhead, Fresh, Carried
  <2>2. \A i \in 1..Len(v) : v[i] \in S
    BY <1>5
  <2>3. v \in Seq(Events)
    BY <1>5, <2>1
  <2> QED  BY <1>5, <2>1, <2>2, <2>3 DEF Pending
<1>7. \A n \in S : Contains(v, n)
  BY <1>5 DEF Contains
<1>8. \A n \in Kept(x) : seqOf[n] > c => EnRoute(v, q, w, n)
  BY <1>4, <1>7 DEF EnRoute
<1>9. ASSUME kills = 0 PROVE Covered("replaying", v, q, w, c, s, r, x)
  <2>1. \A m \in Owed(c, r, x) : Contains(v, m)
    <3> SUFFICES ASSUME NEW m \in Owed(c, r, x) PROVE m \in Kept(x) /\ seqOf[m] > c
      BY <1>4, <1>7
    <3>1. m \in 1..published /\ m > c /\ m \notin lost /\ ~x
      BY DEF Owed
    <3>2. m \in durable \cup buffered
      BY <3>1 DEF IInv, Accounted
    <3>3. seqOf[m] = m
      BY <1>9, <3>1 DEF Unkilled
    <3> QED  BY <1>1, <3>1, <3>2, <3>3 DEF Kept
  <2>2. Len(w) = 0 /\ 1..0 = {}
    BY <1>0
  <2>3. Covering(w, Owed(c, r, x))
    BY <2>2 DEF Covering
  <2>4. /\ c <= published
        /\ \A m \in 1..published :
              m <= c => Contains(s, m) \/ m \in r \/ m \in lost \/ pt
    BY <1>0, <1>9 DEF Covered
  <2> QED  BY <1>3, <2>1, <2>2, <2>3, <2>4 DEF Covered
<1>10. PageOK("replaying", v, q, w, c, s, r, x)
  BY <1>0, <1>6, <1>8, <1>9 DEF PageOK
<1> QED  BY <1>3, <1>10

(* A connection that ends leaves the page as it was.                       *)
LEMMA Ending ==
    ASSUME NEW l, NEW b, NEW q, NEW w, NEW c, NEW s, NEW r, NEW pt,
           PageOK(l, b, q, w, c, s, r, pt)
    PROVE  PageOK("off", << >>, << >>, << >>, c, s, r, pt)
<1>1. 1..Len(<< >>) = {}
  OBVIOUS
<1>2. kills = 0 => Covered("off", << >>, << >>, << >>, c, s, r, pt)
  BY <1>1 DEF PageOK, Covered, Covering
<1> QED  BY <1>2, NothingPending DEF PageOK

(* A reloaded page starts from nothing.                                    *)
LEMMA Reloading ==
    ASSUME IInv
    PROVE  PageOK("off", << >>, << >>, << >>, 0, << >>, {}, FALSE)
<1>1. 1..Len(<< >>) = {} /\ << >> \in Seq(Events) /\ Len(<< >>) = 0
  OBVIOUS
<1>2. published \in Nat /\ \A m \in 1..published : ~(m <= 0)
  BY LimitsAssumption DEF IInv, LogTypeOK
<1>3. Covered("off", << >>, << >>, << >>, 0, << >>, {}, FALSE)
  BY <1>1, <1>2 DEF Covered, Covering
<1>4. Shown(<< >>, 0)
  BY <1>1 DEF Shown, Increasing
<1> QED  BY <1>3, <1>4, NothingPending DEF PageOK

---------------------------------------------------------------------------
(* The steps of the log                                                    *)

(* publish makes nothing older, and the new event newest.                  *)
LEMMA PublishKeepsOrder ==
    ASSUME IInv, Unkilled, Fresh, NEW ok \in BOOLEAN, Publish(ok), NEW n, n = published + 1
    PROVE  /\ Unkilled' /\ Fresh' /\ Carried(n)'
           /\ \A m : Carried(m) => Carried(m)' /\ m < n /\ seqOf'[m] = seqOf[m]
<1>1. /\ n \in Events /\ published' = n
      /\ seqOf' \in [Events -> Nat]
      /\ seqOf'[n] = seq + 1
      /\ \A m \in 1..published : seqOf'[m] = seqOf[m]
      /\ durable' \subseteq durable \cup buffered \cup {n}
  BY PublishOutcome
<1>2. /\ published \in Nat /\ seqOf \in [Events -> Nat] /\ 1..published \subseteq Events
      /\ history \subseteq 1..published /\ durable \subseteq 1..published
      /\ buffered \subseteq history
      /\ seq \in Nat /\ up /\ seq' = seq + 1 /\ kills' = kills /\ up' = up
      /\ history' \subseteq history \cup {n}
  BY LimitsAssumption DEF IInv, LogTypeOK, BufferIsRecent, Events, Publish, Trimmed
<1>3. \A m \in 1..n : m \in 1..published \/ m = n
  BY <1>2
<1>4. \A m \in 1..published : m < n /\ m \in 1..n /\ seqOf[m] \in Nat
  BY <1>2
<1>5. ASSUME NEW m, Carried(m) PROVE Carried(m)' /\ m < n /\ seqOf'[m] = seqOf[m]
  <2>1. m \in 1..published /\ seqOf[m] <= seq /\ Newer(m)
    BY <1>5 DEF Carried
  <2>2. seqOf'[m] = seqOf[m] /\ m \in 1..n /\ m < n /\ seqOf[m] \in Nat
    BY <1>1, <1>4, <2>1
  <2>3. ASSUME NEW k \in 1..n, m < k PROVE seqOf'[m] < seqOf'[k]
    <3>1. CASE k = n
      BY <1>1, <1>2, <2>1, <2>2, <3>1
    <3>2. CASE k # n
      <4>1. k \in 1..published
        BY <1>3, <3>2
      <4> QED  BY <1>1, <2>1, <2>2, <2>3, <4>1 DEF Newer
    <3> QED  BY <3>1, <3>2
  <2>4. Newer(m)'
    BY <1>1, <2>3 DEF Newer
  <2> QED  BY <1>1, <1>2, <2>1, <2>2, <2>4 DEF Carried
<1>6. Carried(n)'
  <2>1. n \in 1..n /\ ~(\E m \in 1..n : n < m)
    BY <1>2
  <2>2. seqOf'[n] <= seq'
    BY <1>1, <1>2
  <2> QED  BY <1>1, <2>1, <2>2 DEF Carried, Newer
<1>7. Fresh'
  <2> SUFFICES ASSUME NEW m \in history' \cup durable' PROVE Newer(m)'
    BY DEF Fresh
  <2>1. CASE m = n
    BY <1>6, <2>1 DEF Carried
  <2>2. CASE m # n
    <3>1. m \in history \cup durable
      BY <1>1, <1>2, <2>2
    <3>2. Carried(m)
      BY <1>2, <3>1 DEF IInv, CounterIsAhead, Fresh, Carried
    <3> QED  BY <1>5, <3>2 DEF Carried
  <2> QED  BY <2>1, <2>2
<1>8. Unkilled'
  BY <1>1, <1>2, <1>3 DEF Unkilled
<1> QED  BY <1>5, <1>6, <1>7, <1>8

(* A published event reaches every connection, and is excused where a      *)
(* backlog is being sent.                                                  *)
LEMMA Publishing ==
    ASSUME IInv, Unkilled, Fresh, NEW ok \in BOOLEAN, Publish(ok), NEW n, n = published + 1,
           NEW l, NEW b, NEW q, NEW w, NEW c, NEW s, NEW r, NEW pt,
           PageOK(l, b, q, w, c, s, r, pt), l \in {"off", "replaying", "live"}
    PROVE  PageOK(l, b, IF l # "off" THEN Append(q, n) ELSE q, w, c, s,
                  IF l = "replaying" THEN r \cup {n} ELSE r, pt)'
<1>0. /\ Pending(b) /\ Pending(q) /\ Frames(w) /\ Shown(s, c)
      /\ l # "replaying" => b = << >>
      /\ l = "off" => q = << >> /\ w = << >>
      /\ l # "off" => \A m \in Kept(pt) : seqOf[m] > c => EnRoute(b, q, w, m)
      /\ kills = 0 => Covered(l, b, q, w, c, s, r, pt)
  BY DEF PageOK
<1>1. /\ n \in Events /\ published' = n
      /\ seqOf' \in [Events -> Nat]
      /\ seqOf'[n] = seq + 1
      /\ \A m \in 1..published : seqOf'[m] = seqOf[m]
      /\ durable' \subseteq durable \cup buffered \cup {n}
      /\ lost \subseteq lost'
  BY PublishOutcome
<1>2. /\ published \in Nat /\ seqOf \in [Events -> Nat] /\ 1..published \subseteq Events
      /\ history \subseteq 1..published /\ durable \subseteq 1..published
      /\ buffered \subseteq history
      /\ kills' = kills /\ history' \subseteq history \cup {n}
  BY LimitsAssumption DEF IInv, LogTypeOK, BufferIsRecent, Events, Publish, Trimmed
<1>3. /\ Carried(n)' /\ Unkilled'
      /\ \A m : Carried(m) => Carried(m)' /\ m < n /\ seqOf'[m] = seqOf[m]
  BY PublishKeepsOrder
<1>4. PICK x, y : /\ x = IF l # "off" THEN Append(q, n) ELSE q
                  /\ y = IF l = "replaying" THEN r \cup {n} ELSE r
  OBVIOUS
<1>5. Pending(b)' /\ Pending(x)' /\ \A m : Contains(q, m) => Contains(x, m)
  <2>1. \A i \in 1..Len(q) : Carried(q[i])' /\ q[i] < n
    BY <1>0, <1>3 DEF Pending
  <2>2. CASE l = "off"
    BY <1>0, <1>3, <1>4, <2>2 DEF Pending
  <2>3. CASE l # "off"
    <3>1. /\ x \in Seq(Events) /\ Increasing(x)
          /\ \A m : Contains(q, m) => Contains(x, m)
          /\ \A i \in 1..Len(x) : x[i] = n \/ \E j \in 1..Len(q) : x[i] = q[j]
      BY <1>0, <1>1, <1>4, <2>1, <2>3, IncreasingAppend DEF Pending
    <3>2. \A i \in 1..Len(x) : Carried(x[i])'
      BY <1>3, <2>1, <3>1
    <3> QED  BY <1>0, <1>3, <3>1, <3>2 DEF Pending
  <2> QED  BY <2>2, <2>3
<1>6. Frames(w)'
  <2>1. \A i \in 1..Len(w) : FrameOK(w[i])'
    <3> SUFFICES ASSUME NEW i \in 1..Len(w) PROVE FrameOK(w[i])'
      OBVIOUS
    <3>1. PICK f : f = w[i]
      OBVIOUS
    <3>2. FrameOK(f)
      BY <1>0, <3>1 DEF Frames
    <3>3. FrameOK(f)'
      BY <1>3, <3>2 DEF FrameOK
    <3> QED  BY <3>1, <3>3
  <2> QED  BY <1>0, <2>1 DEF Frames
<1>7. Shown(s, c)'
  <2>1. \A m \in 1..published : m \in 1..n
    BY <1>2
  <2> QED  BY <1>0, <1>1, <2>1 DEF Shown
<1>8. ASSUME l # "off", NEW m \in Kept(pt)', seqOf'[m] > c PROVE EnRoute(b, x, w, m)
  <2>1. CASE m = n
    <3>1. Contains(x, n)
      <4>1. PICK k : k = Len(q)
        OBVIOUS
      <4>2. k \in Nat /\ Len(x) = k + 1 /\ x[k + 1] = n
        BY <1>0, <1>1, <1>4, <1>8, <4>1, Appended DEF Pending
      <4>3. k + 1 \in 1..k + 1
        BY <4>2
      <4> QED  BY <4>2, <4>3 DEF Contains
    <3> QED  BY <2>1, <3>1 DEF EnRoute
  <2>2. CASE m # n
    <3>1. m \in Kept(pt) /\ m \in 1..published
      BY <1>1, <1>2, <1>8, <2>2 DEF Kept
    <3>2. EnRoute(b, q, w, m)
      BY <1>0, <1>1, <1>8, <3>1
    <3> QED  BY <1>5, <3>2 DEF EnRoute
  <2> QED  BY <2>1, <2>2
<1>9. ASSUME kills = 0 PROVE Covered(l, b, x, w, c, s, y, pt)'
  <2>1. /\ c <= published
        /\ \A i \in 1..Len(w) : w[i].s <= published
        /\ Covering(w, Owed(c, r, pt))
        /\ l = "replaying" => \A m \in Owed(c, r, pt) : OnWire(w, m) \/ Contains(b, m)
        /\ l = "live" => \A m \in Owed(c, r, pt) : OnWire(w, m) \/ Contains(q, m)
        /\ \A m \in 1..published :
              m <= c => Contains(s, m) \/ m \in r \/ m \in lost \/ pt
    BY <1>0, <1>9 DEF Covered
  <2>2. c \in Nat /\ \A i \in 1..Len(w) : w[i].s \in Nat
    <3>1. \A i \in 1..Len(w) : w[i] \in FrameType
      BY <1>0 DEF Frames
    <3> QED  BY <1>0, <3>1 DEF Shown, FrameType
  <2>3. c <= n /\ c < n /\ \A i \in 1..Len(w) : w[i].s <= n /\ w[i].s < n
    BY <1>2, <2>1, <2>2
  <2>4. \A m \in 1..n : m \in 1..published \/ m = n
    BY <1>2
  <2>5. ASSUME NEW m \in Owed(c, y, pt)'
        PROVE  m \in Owed(c, r, pt) \/ (m = n /\ l # "replaying")
    BY <1>1, <1>4, <2>4, <2>5 DEF Owed
  <2>6. Covering(w, Owed(c, y, pt)')
    <3> SUFFICES ASSUME NEW i \in 1..Len(w), NEW m \in Owed(c, y, pt)', m <= w[i].s
                 PROVE  \E j \in 1..i : w[j].n = m
      BY DEF Covering
    <3>1. m # n
      BY <1>2, <2>2, <2>3
    <3> QED  BY <2>1, <2>5, <3>1 DEF Covering
  <2>7. l = "replaying" =>
           \A m \in Owed(c, y, pt)' : OnWire(w, m) \/ Contains(b, m)
    BY <2>1, <2>5
  <2>8. l = "live" =>
           \A m \in Owed(c, y, pt)' : OnWire(w, m) \/ Contains(x, m)
    <3>1. l = "live" => Contains(x, n)
      <4>1. PICK k : k = Len(q)
        OBVIOUS
      <4>2. l = "live" => k \in Nat /\ Len(x) = k + 1 /\ x[k + 1] = n
        BY <1>0, <1>1, <1>4, <4>1, Appended DEF Pending
      <4>3. k \in Nat => k + 1 \in 1..k + 1
        OBVIOUS
      <4> QED  BY <4>2, <4>3 DEF Contains
    <3> QED  BY <1>5, <2>1, <2>5, <3>1
  <2>9. \A m \in 1..n :
              m <= c => Contains(s, m) \/ m \in y \/ m \in lost' \/ pt
    <3> SUFFICES ASSUME NEW m \in 1..n, m <= c
                 PROVE  Contains(s, m) \/ m \in y \/ m \in lost' \/ pt
      OBVIOUS
    <3>1. m \in 1..published
      BY <1>2, <2>2, <2>3, <2>4
    <3> QED  BY <1>1, <1>4, <2>1, <3>1
  <2> QED  BY <1>1, <2>3, <2>6, <2>7, <2>8, <2>9 DEF Covered, Covering
<1>10. PageOK(l, b, x, w, c, s, y, pt)'
  <2>1. l # "replaying" => b = << >>
    BY <1>0
  <2>2. l = "off" => x = << >> /\ w = << >>
    BY <1>0, <1>4
  <2> QED  BY <1>2, <1>5, <1>6, <1>7, <1>8, <1>9, <2>1, <2>2 DEF PageOK
<1> QED  BY <1>4, <1>10

(* flush_events changes nothing for a page: what it writes was in the      *)
(* replay buffer, and what it loses is excused.                            *)
LEMMA Flushing ==
    ASSUME IInv, Unkilled, Fresh, NEW ok \in BOOLEAN, Flush(ok)
    PROVE  /\ Unkilled' /\ Fresh'
           /\ \A l, b, q, w, c, s, r, pt :
                 PageOK(l, b, q, w, c, s, r, pt) => PageOK(l, b, q, w, c, s, r, pt)'
<1>1. /\ published' = published /\ seqOf' = seqOf /\ seq' = seq /\ up' = up
      /\ history' = history /\ kills' = kills
      /\ durable' \subseteq durable \cup buffered
      /\ lost \subseteq lost'
  BY FlushOutcome
<1>2. buffered \subseteq history
  BY DEF IInv, BufferIsRecent
<1>3. Unkilled' /\ Fresh'
  BY <1>1, <1>2 DEF Unkilled, Fresh, Newer
<1>4. ASSUME NEW l, NEW b, NEW q, NEW w, NEW c, NEW s, NEW r, NEW pt,
             PageOK(l, b, q, w, c, s, r, pt)
      PROVE  PageOK(l, b, q, w, c, s, r, pt)'
  <2>1. Pending(b)' /\ Pending(q)' /\ Frames(w)' /\ Shown(s, c)'
    BY <1>1, <1>4 DEF PageOK, Pending, Frames, FrameOK, Carried, Newer, Shown
  <2>2. Kept(pt)' \subseteq Kept(pt)
    BY <1>1, <1>2 DEF Kept
  <2>3. ASSUME kills = 0 PROVE Covered(l, b, q, w, c, s, r, pt)'
    <3>1. Owed(c, r, pt)' \subseteq Owed(c, r, pt)
      BY <1>1 DEF Owed
    <3>2. Covered(l, b, q, w, c, s, r, pt)
      BY <1>4, <2>3 DEF PageOK
    <3> QED  BY <1>1, <3>1, <3>2 DEF Covered, Covering
  <2> QED  BY <1>1, <1>4, <2>1, <2>2, <2>3 DEF PageOK
<1> QED  BY <1>3, <1>4

(* The death and the return of the process leave a page that is cut off    *)
(* with what it shows.                                                     *)
LEMMA CutOff ==
    ASSUME IInv, Unkilled, Fresh, Kill \/ Reopen
    PROVE  /\ Unkilled' /\ Fresh'
           /\ \A l, b, q, w, c, s, r, pt :
                 PageOK(l, b, q, w, c, s, r, pt) =>
                    PageOK("off", << >>, << >>, << >>, c, s, r, pt)'
<1>1. /\ published' = published /\ seqOf' = seqOf /\ durable' = durable
      /\ history' \subseteq durable
  BY DEF Kill, Reopen, Trimmed
<1>2. kills' # 0
  <2>1. CASE Kill
    BY <2>1 DEF Kill, IInv, LogTypeOK
  <2>2. CASE Reopen
    BY <2>2 DEF Reopen, Unkilled
  <2> QED  BY <2>1, <2>2
<1>3. Unkilled' /\ Fresh'
  BY <1>1, <1>2 DEF Unkilled, Fresh, Newer
<1>4. ASSUME NEW s, NEW c, Shown(s, c) PROVE Shown(s, c)'
  BY <1>1, <1>4 DEF Shown
<1>5. Pending(<< >>)' /\ Frames(<< >>)'
  <2>1. << >> \in Seq(Events) /\ << >> \in Seq(FrameType) /\ 1..Len(<< >>) = {}
    OBVIOUS
  <2> QED  BY <2>1 DEF Pending, Increasing, Frames
<1>6. ASSUME NEW l, NEW b, NEW q, NEW w, NEW c, NEW s, NEW r, NEW pt,
             PageOK(l, b, q, w, c, s, r, pt)
      PROVE  PageOK("off", << >>, << >>, << >>, c, s, r, pt)'
  BY <1>2, <1>4, <1>5, <1>6 DEF PageOK
<1> QED  BY <1>3, <1>6

---------------------------------------------------------------------------
(* The inductive invariant of the stream                                   *)

PageInv(p) ==
    PageOK(link[p], backlog[p], queue[p], wire[p], cursor[p], seen[p], raced[p],
           partial[p])

(* No page is connected to a process that does not run.                    *)
DownIsOff == ~up => \A p \in Pages : link[p] = "off"

StreamInv ==
    /\ IInv /\ Unkilled /\ Fresh
    /\ StreamTypeOK
    /\ DownIsOff
    /\ \A p \in Pages : PageInv(p)

(* A function changed at one place.                                        *)
LEMMA Updated ==
    ASSUME NEW S, NEW T, NEW f \in [S -> T], NEW p \in S, NEW x \in T
    PROVE  /\ [f EXCEPT ![p] = x] \in [S -> T]
           /\ [f EXCEPT ![p] = x][p] = x
           /\ \A q \in S : q # p => [f EXCEPT ![p] = x][q] = f[q]
           /\ f = [f EXCEPT ![p] = f[p]]
OBVIOUS

LinkState == {"off", "replaying", "live"}

(* The types of a page in order.                                           *)
LEMMA PageTypes ==
    ASSUME NEW l, NEW b, NEW q, NEW w, NEW c, NEW s, NEW r, NEW pt,
           PageOK(l, b, q, w, c, s, r, pt)
    PROVE  /\ b \in Seq(Events) /\ q \in Seq(Events) /\ w \in Seq(FrameType)
           /\ c \in Nat /\ s \in Seq(Events)
           /\ l # "replaying" => b = << >>
           /\ l = "off" => q = << >> /\ w = << >>
BY DEF PageOK, Pending, Frames, Shown

(* A page is in order whatever else happens, if the log stands still.      *)
LEMMA Standing ==
    ASSUME NEW l, NEW b, NEW q, NEW w, NEW c, NEW s, NEW r, NEW pt,
           PageOK(l, b, q, w, c, s, r, pt), UNCHANGED logVars
    PROVE  PageOK(l, b, q, w, c, s, r, pt)'
BY DEF logVars, PageOK, Pending, Increasing, Frames, FrameOK, Carried, Newer, Shown,
       Kept, EnRoute, OnWire, Contains, Covered, Covering, Owed

(* A step of one page that leaves it in order preserves the invariant.     *)
LEMMA PageMove ==
    ASSUME StreamInv, UNCHANGED logVars, NEW p \in Pages,
           NEW l \in LinkState, NEW b, NEW q, NEW w, NEW c, NEW s,
           NEW r \in SUBSET Events, NEW pt \in BOOLEAN,
           PageOK(l, b, q, w, c, s, r, pt), up \/ l = "off",
           drops' \in 0..MaxDrops,
           link' = [link EXCEPT ![p] = l],
           backlog' = [backlog EXCEPT ![p] = b],
           queue' = [queue EXCEPT ![p] = q],
           wire' = [wire EXCEPT ![p] = w],
           cursor' = [cursor EXCEPT ![p] = c],
           seen' = [seen EXCEPT ![p] = s],
           raced' = [raced EXCEPT ![p] = r],
           partial' = [partial EXCEPT ![p] = pt]
    PROVE  StreamInv'
<1>1. /\ b \in Seq(Events) /\ q \in Seq(Events) /\ w \in Seq(FrameType)
      /\ c \in Nat /\ s \in Seq(Events)
  BY PageTypes
<1>2. /\ link \in [Pages -> LinkState]
      /\ backlog \in [Pages -> Seq(Events)]
      /\ queue \in [Pages -> Seq(Events)]
      /\ wire \in [Pages -> Seq(FrameType)]
      /\ cursor \in [Pages -> Nat]
      /\ seen \in [Pages -> Seq(Events)]
      /\ raced \in [Pages -> SUBSET Events]
      /\ partial \in [Pages -> BOOLEAN]
  BY DEF StreamInv, StreamTypeOK, LinkState, FrameType
<1>3. /\ link' \in [Pages -> LinkState] /\ link'[p] = l
      /\ \A k \in Pages : k # p => link'[k] = link[k]
  BY <1>2, Updated
<1>4. /\ backlog' \in [Pages -> Seq(Events)] /\ backlog'[p] = b
      /\ \A k \in Pages : k # p => backlog'[k] = backlog[k]
  BY <1>1, <1>2, Updated
<1>5. /\ queue' \in [Pages -> Seq(Events)] /\ queue'[p] = q
      /\ \A k \in Pages : k # p => queue'[k] = queue[k]
  BY <1>1, <1>2, Updated
<1>6. /\ wire' \in [Pages -> Seq(FrameType)] /\ wire'[p] = w
      /\ \A k \in Pages : k # p => wire'[k] = wire[k]
  BY <1>1, <1>2, Updated
<1>7. /\ cursor' \in [Pages -> Nat] /\ cursor'[p] = c
      /\ \A k \in Pages : k # p => cursor'[k] = cursor[k]
  BY <1>1, <1>2, Updated
<1>8. /\ seen' \in [Pages -> Seq(Events)] /\ seen'[p] = s
      /\ \A k \in Pages : k # p => seen'[k] = seen[k]
  BY <1>1, <1>2, Updated
<1>9. /\ raced' \in [Pages -> SUBSET Events] /\ raced'[p] = r
      /\ \A k \in Pages : k # p => raced'[k] = raced[k]
  BY <1>2, Updated
<1>10. /\ partial' \in [Pages -> BOOLEAN] /\ partial'[p] = pt
       /\ \A k \in Pages : k # p => partial'[k] = partial[k]
  BY <1>2, Updated
<1>11. ASSUME NEW k \in Pages PROVE PageInv(k)'
  <2>1. PICK x1, x2, x3, x4, x5, x6, x7, x8 :
           /\ x1 = link'[k] /\ x2 = backlog'[k] /\ x3 = queue'[k] /\ x4 = wire'[k]
           /\ x5 = cursor'[k] /\ x6 = seen'[k] /\ x7 = raced'[k] /\ x8 = partial'[k]
    OBVIOUS
  <2>2. PageOK(x1, x2, x3, x4, x5, x6, x7, x8)
    <3>1. CASE k = p
      BY <1>3, <1>4, <1>5, <1>6, <1>7, <1>8, <1>9, <1>10, <2>1, <3>1
    <3>2. CASE k # p
      <4>1. PageInv(k)
        BY DEF StreamInv
      <4> QED  BY <1>3, <1>4, <1>5, <1>6, <1>7, <1>8, <1>9, <1>10, <2>1, <3>2, <4>1
               DEF PageInv
    <3> QED  BY <3>1, <3>2
  <2>3. PageOK(x1, x2, x3, x4, x5, x6, x7, x8)'
    BY <2>2, Standing
  <2> QED  BY <2>1, <2>3 DEF PageInv
<1>12. IInv' /\ Unkilled' /\ Fresh' /\ LogTypeOK'
  <2>1. IInv'
    BY NextInv DEF StreamInv
  <2>2. Unkilled' /\ Fresh'
    BY DEF StreamInv, logVars, Unkilled, Fresh, Newer
  <2> QED  BY <2>1, <2>2 DEF IInv
<1>13. DownIsOff'
  BY <1>3 DEF StreamInv, DownIsOff, logVars
<1>14. \A k \in Pages :
          /\ link'[k] # "replaying" => backlog'[k] = << >>
          /\ link'[k] = "off" => queue'[k] = << >> /\ wire'[k] = << >>
  BY <1>11 DEF PageInv, PageOK
<1>15. StreamTypeOK'
  BY <1>3, <1>4, <1>5, <1>6, <1>7, <1>8, <1>9, <1>10, <1>12, <1>14
     DEF StreamTypeOK, LinkState, FrameType
<1> QED  BY <1>11, <1>12, <1>13, <1>15 DEF StreamInv

---------------------------------------------------------------------------
(* Every step preserves the invariant                                      *)

(* A new session with its pages not yet connected satisfies it.            *)
LEMMA StreamInitInv == Init => StreamInv
<1> SUFFICES ASSUME Init PROVE StreamInv
  OBVIOUS
<1>1. IInv
  BY LogInitInv DEF Init
<1>2. /\ up /\ published = 0 /\ seq = 0 /\ history = {} /\ durable = {}
  BY DEF Init, LogInit
<1>3. Unkilled /\ Fresh /\ DownIsOff
  <2>1. 1..0 = {}
    OBVIOUS
  <2> QED  BY <1>2, <2>1 DEF Unkilled, Fresh, DownIsOff
<1>4. \A p \in Pages :
         /\ link[p] = "off" /\ backlog[p] = << >> /\ queue[p] = << >> /\ wire[p] = << >>
         /\ cursor[p] = 0 /\ seen[p] = << >> /\ raced[p] = {} /\ partial[p] = FALSE
  BY DEF Init
<1>5. \A p \in Pages : PageInv(p)
  BY <1>1, <1>4, Reloading DEF PageInv
<1>6. StreamTypeOK
  <2>1. << >> \in Seq(Events) /\ << >> \in Seq([n : Events \cup {0}, s : Nat])
    OBVIOUS
  <2>2. LogTypeOK
    BY <1>1 DEF IInv
  <2> QED  BY <2>1, <2>2, StreamAssumption DEF Init, StreamTypeOK
<1> QED  BY <1>1, <1>3, <1>5, <1>6 DEF StreamInv

(* What every page step may start from.                                    *)
LEMMA PageFacts ==
    ASSUME StreamInv, NEW p \in Pages
    PROVE  /\ PageInv(p) /\ (up \/ link[p] = "off")
           /\ link[p] \in LinkState /\ raced[p] \in SUBSET Events
           /\ partial[p] \in BOOLEAN
           /\ link = [link EXCEPT ![p] = link[p]]
           /\ backlog = [backlog EXCEPT ![p] = backlog[p]]
           /\ queue = [queue EXCEPT ![p] = queue[p]]
           /\ wire = [wire EXCEPT ![p] = wire[p]]
           /\ cursor = [cursor EXCEPT ![p] = cursor[p]]
           /\ seen = [seen EXCEPT ![p] = seen[p]]
           /\ raced = [raced EXCEPT ![p] = raced[p]]
           /\ partial = [partial EXCEPT ![p] = partial[p]]
<1>1. /\ link \in [Pages -> LinkState]
      /\ backlog \in [Pages -> Seq(Events)]
      /\ queue \in [Pages -> Seq(Events)]
      /\ wire \in [Pages -> Seq(FrameType)]
      /\ cursor \in [Pages -> Nat]
      /\ seen \in [Pages -> Seq(Events)]
      /\ raced \in [Pages -> SUBSET Events]
      /\ partial \in [Pages -> BOOLEAN]
  BY DEF StreamInv, StreamTypeOK, LinkState, FrameType
<1>2. PageInv(p) /\ (up \/ link[p] = "off")
  BY DEF StreamInv, DownIsOff
<1> QED  BY <1>1, <1>2

(* What a page does preserves the invariant.                               *)
LEMMA PageStepInv ==
    ASSUME StreamInv, NEW p \in Pages, PageStep(p) \/ Disconnect(p) \/ Reload(p)
    PROVE  StreamInv'
<1>0. PICK l, b, q, w, c, s, r, pt :
         /\ l = link[p] /\ b = backlog[p] /\ q = queue[p] /\ w = wire[p]
         /\ c = cursor[p] /\ s = seen[p] /\ r = raced[p] /\ pt = partial[p]
  OBVIOUS
<1>1. /\ PageOK(l, b, q, w, c, s, r, pt) /\ (up \/ l = "off")
      /\ l \in LinkState /\ r \in SUBSET Events /\ pt \in BOOLEAN
      /\ link = [link EXCEPT ![p] = l]
      /\ backlog = [backlog EXCEPT ![p] = b]
      /\ queue = [queue EXCEPT ![p] = q]
      /\ wire = [wire EXCEPT ![p] = w]
      /\ cursor = [cursor EXCEPT ![p] = c]
      /\ seen = [seen EXCEPT ![p] = s]
      /\ raced = [raced EXCEPT ![p] = r]
      /\ partial = [partial EXCEPT ![p] = pt]
  BY <1>0, PageFacts DEF PageInv
<1>2. IInv /\ Unkilled /\ Fresh /\ drops \in 0..MaxDrops
  BY DEF StreamInv, StreamTypeOK
<1>3. ASSUME NEW readable \in BOOLEAN, Attach(p, readable) PROVE StreamInv'
  <2>1. /\ up /\ l = "off" /\ UNCHANGED logVars
        /\ queue' = [queue EXCEPT ![p] = q]
        /\ cursor' = [cursor EXCEPT ![p] = c]
        /\ seen' = [seen EXCEPT ![p] = s]
        /\ drops' \in 0..MaxDrops
        /\ raced' = [raced EXCEPT ![p] = r]
    BY <1>0, <1>1, <1>2, <1>3 DEF Attach
  <2>2. PICK S : S = IF readable THEN Replay(c) ELSE {n \in history : seqOf[n] > c}
    OBVIOUS
  <2>3. PICK x : x = InOrder(S)
    OBVIOUS
  <2>4. x = Backlog(p, readable)
    BY <1>0, <2>2, <2>3 DEF Backlog, Missed
  <2>5. PICK pr \in BOOLEAN : pr = (pt \/ ~readable)
    OBVIOUS
  <2>6. ReplayIsComplete
    BY <1>2, ReplayAtOnce
  <2>7. PageOK("replaying", x, q, w, c, s, r, pr)
    BY <1>1, <1>2, <2>1, <2>2, <2>3, <2>5, <2>6, Connecting
  <2>8. /\ backlog' = [backlog EXCEPT ![p] = x]
        /\ partial' = [partial EXCEPT ![p] = pr]
    BY <1>0, <1>1, <1>3, <2>4, <2>5 DEF Attach
  <2>9. CASE x = << >>
    <3>1. PICK v : v = Append(w, Snapshot(seq))
      OBVIOUS
    <3>2. PageOK("live", x, q, v, c, s, r, pr)
      BY <1>2, <2>7, <2>9, <3>1, Greeting
    <3>3. /\ link' = [link EXCEPT ![p] = "live"]
          /\ wire' = [wire EXCEPT ![p] = v]
      BY <1>0, <1>1, <1>3, <2>4, <2>9, <3>1 DEF Attach, Greets
    <3> QED  BY <1>1, <1>2, <2>1, <2>8, <3>2, <3>3, PageMove, Zenon DEF LinkState
  <2>10. CASE x # << >>
    <3>1. link' = [link EXCEPT ![p] = "replaying"] /\ wire' = [wire EXCEPT ![p] = w]
      BY <1>1, <1>3, <2>4, <2>10 DEF Attach
    <3> QED  BY <1>1, <1>2, <2>1, <2>7, <2>8, <3>1, PageMove, Zenon DEF LinkState
  <2> QED  BY <2>9, <2>10
<1>4. CASE SendBacklog(p)
  <2>1. /\ l = "replaying" /\ b # << >> /\ UNCHANGED logVars
        /\ link' = [link EXCEPT ![p] = l]
        /\ queue' = [queue EXCEPT ![p] = q]
        /\ cursor' = [cursor EXCEPT ![p] = c]
        /\ seen' = [seen EXCEPT ![p] = s]
        /\ drops' \in 0..MaxDrops
        /\ raced' = [raced EXCEPT ![p] = r]
        /\ partial' = [partial EXCEPT ![p] = pt]
    BY <1>0, <1>1, <1>2, <1>4 DEF SendBacklog
  <2>2. PICK v, t : v = Append(w, Frame(Head(b))) /\ t = Tail(b)
    OBVIOUS
  <2>3. PageOK(l, t, q, v, c, s, r, pt)
    BY <1>1, <1>2, <2>1, <2>2, Sending
  <2>4. backlog' = [backlog EXCEPT ![p] = t] /\ wire' = [wire EXCEPT ![p] = v]
    BY <1>0, <1>1, <1>4, <2>2 DEF SendBacklog
  <2> QED  BY <1>1, <1>2, <2>1, <2>3, <2>4, PageMove, Zenon
<1>5. CASE SendHello(p)
  <2>1. /\ l = "replaying" /\ b = << >> /\ UNCHANGED logVars
        /\ backlog' = [backlog EXCEPT ![p] = b]
        /\ queue' = [queue EXCEPT ![p] = q]
        /\ cursor' = [cursor EXCEPT ![p] = c]
        /\ seen' = [seen EXCEPT ![p] = s]
        /\ drops' \in 0..MaxDrops
        /\ raced' = [raced EXCEPT ![p] = r]
        /\ partial' = [partial EXCEPT ![p] = pt]
    BY <1>0, <1>1, <1>2, <1>5 DEF SendHello
  <2>2. PICK v : v = Append(w, Snapshot(seq))
    OBVIOUS
  <2>3. PageOK("live", b, q, v, c, s, r, pt)
    BY <1>1, <1>2, <2>1, <2>2, Greeting
  <2>4. link' = [link EXCEPT ![p] = "live"] /\ wire' = [wire EXCEPT ![p] = v]
    BY <1>0, <1>1, <1>5, <2>2 DEF SendHello, Greets
  <2> QED  BY <1>1, <1>2, <2>1, <2>3, <2>4, PageMove, Zenon DEF LinkState
<1>6. CASE Forward(p)
  <2>1. /\ l = "live" /\ q # << >> /\ UNCHANGED logVars
        /\ link' = [link EXCEPT ![p] = l]
        /\ backlog' = [backlog EXCEPT ![p] = b]
        /\ cursor' = [cursor EXCEPT ![p] = c]
        /\ seen' = [seen EXCEPT ![p] = s]
        /\ drops' \in 0..MaxDrops
        /\ raced' = [raced EXCEPT ![p] = r]
        /\ partial' = [partial EXCEPT ![p] = pt]
    BY <1>0, <1>1, <1>2, <1>6 DEF Forward
  <2>2. PICK v, t : v = Append(w, Frame(Head(q))) /\ t = Tail(q)
    OBVIOUS
  <2>3. PageOK(l, b, t, v, c, s, r, pt)
    BY <1>1, <1>2, <2>1, <2>2, Sending
  <2>4. queue' = [queue EXCEPT ![p] = t] /\ wire' = [wire EXCEPT ![p] = v]
    BY <1>0, <1>1, <1>6, <2>2 DEF Forward
  <2> QED  BY <1>1, <1>2, <2>1, <2>3, <2>4, PageMove, Zenon
<1>7. CASE Deliver(p)
  <2>1. /\ w # << >> /\ UNCHANGED logVars
        /\ link' = [link EXCEPT ![p] = l]
        /\ backlog' = [backlog EXCEPT ![p] = b]
        /\ queue' = [queue EXCEPT ![p] = q]
        /\ drops' \in 0..MaxDrops
        /\ raced' = [raced EXCEPT ![p] = r]
        /\ partial' = [partial EXCEPT ![p] = pt]
    BY <1>0, <1>1, <1>2, <1>7 DEF Deliver
  <2>2. l # "off"
    BY <1>1, <2>1 DEF PageOK
  <2>3. PICK f, t : f = Head(w) /\ t = Tail(w)
    OBVIOUS
  <2>4. wire' = [wire EXCEPT ![p] = t]
    BY <1>0, <1>1, <1>7, <2>3 DEF Deliver
  <2>5. CASE f.n # 0 /\ f.s <= c
    <3>1. PageOK(l, b, q, t, c, s, r, pt)
      BY <1>1, <1>2, <2>1, <2>2, <2>3, <2>5, Handling
    <3>2. cursor' = [cursor EXCEPT ![p] = c] /\ seen' = [seen EXCEPT ![p] = s]
      BY <1>0, <1>1, <1>7, <2>3, <2>5 DEF Deliver
    <3> QED  BY <1>1, <1>2, <2>1, <2>4, <3>1, <3>2, PageMove, Zenon
  <2>6. CASE ~(f.n # 0 /\ f.s <= c)
    <3>1. PICK d, u : d = Processed(c, f) /\ u = IF f.n = 0 THEN s ELSE Append(s, f.n)
      OBVIOUS
    <3>2. PageOK(l, b, q, t, d, u, r, pt)
      BY <1>1, <1>2, <2>1, <2>2, <2>3, <2>6, <3>1, Handling
    <3>3. cursor' = [cursor EXCEPT ![p] = d] /\ seen' = [seen EXCEPT ![p] = u]
      BY <1>0, <1>1, <1>7, <2>3, <2>6, <3>1 DEF Deliver
    <3> QED  BY <1>1, <1>2, <2>1, <2>4, <3>2, <3>3, PageMove, Zenon
  <2> QED  BY <2>5, <2>6
<1>8. CASE Disconnect(p)
  <2>1. /\ UNCHANGED logVars /\ drops < MaxDrops /\ drops' = drops + 1
        /\ cursor' = [cursor EXCEPT ![p] = c]
        /\ seen' = [seen EXCEPT ![p] = s]
        /\ raced' = [raced EXCEPT ![p] = r]
        /\ partial' = [partial EXCEPT ![p] = pt]
        /\ link' = [link EXCEPT ![p] = "off"]
        /\ backlog' = [backlog EXCEPT ![p] = << >>]
        /\ queue' = [queue EXCEPT ![p] = << >>]
        /\ wire' = [wire EXCEPT ![p] = << >>]
    BY <1>0, <1>1, <1>8 DEF Disconnect, Ended
  <2>2. PageOK("off", << >>, << >>, << >>, c, s, r, pt)
    BY <1>1, Ending
  <2>3. drops' \in 0..MaxDrops
    BY <1>2, <2>1, StreamAssumption
  <2> QED  BY <1>1, <2>1, <2>2, <2>3, PageMove, Zenon DEF LinkState
<1>9. CASE Reload(p)
  <2>1. /\ UNCHANGED logVars /\ drops < MaxDrops /\ drops' = drops + 1
        /\ cursor' = [cursor EXCEPT ![p] = 0]
        /\ seen' = [seen EXCEPT ![p] = << >>]
        /\ raced' = [raced EXCEPT ![p] = {}]
        /\ partial' = [partial EXCEPT ![p] = FALSE]
        /\ link' = [link EXCEPT ![p] = "off"]
        /\ backlog' = [backlog EXCEPT ![p] = << >>]
        /\ queue' = [queue EXCEPT ![p] = << >>]
        /\ wire' = [wire EXCEPT ![p] = << >>]
    BY <1>9 DEF Reload, Ended
  <2>2. PageOK("off", << >>, << >>, << >>, 0, << >>, {}, FALSE)
    BY <1>2, Reloading
  <2>3. drops' \in 0..MaxDrops
    BY <1>2, <2>1, StreamAssumption
  <2> QED  BY <2>1, <2>2, <2>3, PageMove, Zenon DEF LinkState
<1> QED  BY <1>3, <1>4, <1>5, <1>6, <1>7, <1>8, <1>9 DEF PageStep

(* An event published to every page preserves the invariant.               *)
LEMMA PublishToAllInv ==
    ASSUME StreamInv, NEW ok \in BOOLEAN, PublishToAll(ok)
    PROVE  StreamInv'
<1>1. IInv /\ Unkilled /\ Fresh /\ StreamTypeOK /\ DownIsOff
  BY DEF StreamInv
<1>2. PICK n : n = published + 1
  OBVIOUS
<1>3. /\ Publish(ok) /\ published' = n /\ n \in Events /\ up' = up
      /\ link' = link /\ backlog' = backlog /\ wire' = wire /\ cursor' = cursor
      /\ seen' = seen /\ drops' = drops /\ partial' = partial
  BY <1>1, <1>2, PublishOutcome DEF PublishToAll, Publish
<1>4. IInv' /\ Unkilled' /\ Fresh'
  BY <1>1, <1>2, <1>3, PublishInv, PublishKeepsOrder
<1>5. \A p \in Pages :
         /\ queue'[p] = IF link[p] # "off" THEN Append(queue[p], n) ELSE queue[p]
         /\ raced'[p] = IF link[p] = "replaying" THEN raced[p] \cup {n} ELSE raced[p]
  BY <1>3 DEF PublishToAll, Attached
<1>6. ASSUME NEW p \in Pages PROVE PageInv(p)'
  <2>1. PICK l, b, q, w, c, s, r, pt :
         /\ l = link[p] /\ b = backlog[p] /\ q = queue[p] /\ w = wire[p]
         /\ c = cursor[p] /\ s = seen[p] /\ r = raced[p] /\ pt = partial[p]
    OBVIOUS
  <2>2. PageOK(l, b, q, w, c, s, r, pt) /\ l \in {"off", "replaying", "live"}
    BY <1>1, <2>1 DEF StreamInv, PageInv, StreamTypeOK
  <2>3. PICK x, y : /\ x = IF l # "off" THEN Append(q, n) ELSE q
                    /\ y = IF l = "replaying" THEN r \cup {n} ELSE r
    OBVIOUS
  <2>4. PageOK(l, b, x, w, c, s, y, pt)'
    BY <1>1, <1>2, <1>3, <2>2, <2>3, Publishing
  <2>5. /\ link'[p] = l /\ backlog'[p] = b /\ queue'[p] = x /\ wire'[p] = w
        /\ cursor'[p] = c /\ seen'[p] = s /\ raced'[p] = y /\ partial'[p] = pt
    BY <1>3, <1>5, <2>1, <2>3
  <2> QED  BY <2>4, <2>5 DEF PageInv
<1>7. StreamTypeOK'
  <2>1. queue' \in [Pages -> Seq(Events)]
    <3>1. ASSUME NEW p \in Pages
          PROVE  (IF Attached(p) THEN Append(queue[p], published') ELSE queue[p])
                    \in Seq(Events)
      <4>1. queue[p] \in Seq(Events)
        BY <1>1 DEF StreamTypeOK
      <4> QED  BY <1>3, <4>1
    <3> QED  BY <3>1 DEF PublishToAll
  <2>2. raced' \in [Pages -> SUBSET Events]
    <3>1. ASSUME NEW p \in Pages
          PROVE  (IF link[p] = "replaying" THEN raced[p] \cup {published'} ELSE raced[p])
                    \in SUBSET Events
      <4>1. raced[p] \in SUBSET Events
        BY <1>1 DEF StreamTypeOK
      <4> QED  BY <1>3, <4>1
    <3> QED  BY <3>1 DEF PublishToAll
  <2>3. LogTypeOK'
    BY <1>4 DEF IInv
  <2>4. \A p \in Pages :
           /\ link'[p] # "replaying" => backlog'[p] = << >>
           /\ link'[p] = "off" => queue'[p] = << >> /\ wire'[p] = << >>
    BY <1>6 DEF PageInv, PageOK
  <2> QED  BY <1>1, <1>3, <2>1, <2>2, <2>3, <2>4 DEF StreamTypeOK
<1>8. DownIsOff'
  BY <1>1, <1>3 DEF DownIsOff
<1> QED  BY <1>4, <1>6, <1>7, <1>8 DEF StreamInv

(* flush_events, a kill and a restart preserve the invariant.              *)
LEMMA LogStepInv ==
    ASSUME StreamInv,
           \/ \E ok \in BOOLEAN : Flush(ok) /\ UNCHANGED streamVars
           \/ Reopen /\ UNCHANGED streamVars
           \/ KillAll
    PROVE  StreamInv'
<1>1. /\ IInv /\ Unkilled /\ Fresh /\ StreamTypeOK /\ DownIsOff
      /\ \A p \in Pages : PageInv(p)
  BY DEF StreamInv
<1>2. CASE \E ok \in BOOLEAN : Flush(ok) /\ UNCHANGED streamVars
  <2>1. PICK ok \in BOOLEAN : Flush(ok)
    BY <1>2
  <2>2. UNCHANGED streamVars /\ up' = up
    BY <1>2 DEF Flush
  <2>3. /\ Unkilled' /\ Fresh'
        /\ \A l, b, q, w, c, s, r, pt :
              PageOK(l, b, q, w, c, s, r, pt) => PageOK(l, b, q, w, c, s, r, pt)'
    BY <1>1, <2>1, Flushing
  <2>4. IInv' /\ LogTypeOK'
    BY <1>1, <2>1, FlushInv DEF IInv
  <2>5. ASSUME NEW p \in Pages PROVE PageInv(p)'
    <3>1. PICK l, b, q, w, c, s, r, pt :
             /\ l = link[p] /\ b = backlog[p] /\ q = queue[p] /\ w = wire[p]
             /\ c = cursor[p] /\ s = seen[p] /\ r = raced[p] /\ pt = partial[p]
      OBVIOUS
    <3>2. PageOK(l, b, q, w, c, s, r, pt)'
      BY <1>1, <2>3, <3>1 DEF PageInv
    <3> QED  BY <2>2, <3>1, <3>2 DEF PageInv, streamVars
  <2>6. StreamTypeOK' /\ DownIsOff'
    BY <1>1, <2>2, <2>4 DEF StreamTypeOK, DownIsOff, streamVars
  <2> QED  BY <2>3, <2>4, <2>5, <2>6 DEF StreamInv
<1>3. CASE (Reopen /\ UNCHANGED streamVars) \/ KillAll
  <2>1. Kill \/ Reopen
    BY <1>3 DEF KillAll
  <2>2. /\ Unkilled' /\ Fresh'
        /\ \A l, b, q, w, c, s, r, pt :
              PageOK(l, b, q, w, c, s, r, pt) =>
                 PageOK("off", << >>, << >>, << >>, c, s, r, pt)'
    BY <1>1, <2>1, CutOff
  <2>3. IInv' /\ LogTypeOK'
    BY <1>1, <2>1, KillInv, ReopenInv DEF IInv
  <2>4. /\ cursor' = cursor /\ seen' = seen /\ raced' = raced /\ partial' = partial
        /\ drops' = drops
    BY <1>3 DEF KillAll, streamVars
  <2>5. \A p \in Pages :
           /\ link'[p] = "off" /\ backlog'[p] = << >>
           /\ queue'[p] = << >> /\ wire'[p] = << >>
    <3>1. CASE KillAll
      BY <3>1 DEF KillAll
    <3>2. CASE Reopen /\ UNCHANGED streamVars
      BY <1>1, <3>2 DEF Reopen, DownIsOff, StreamTypeOK, streamVars
    <3> QED  BY <1>3, <3>1, <3>2
  <2>6. ASSUME NEW p \in Pages PROVE PageInv(p)'
    <3>1. PICK l, b, q, w, c, s, r, pt :
             /\ l = link[p] /\ b = backlog[p] /\ q = queue[p] /\ w = wire[p]
             /\ c = cursor[p] /\ s = seen[p] /\ r = raced[p] /\ pt = partial[p]
      OBVIOUS
    <3>2. PageOK("off", << >>, << >>, << >>, c, s, r, pt)'
      BY <1>1, <2>2, <3>1 DEF PageInv
    <3> QED  BY <2>4, <2>5, <3>1, <3>2 DEF PageInv
  <2>7. /\ link' \in [Pages -> {"off", "replaying", "live"}]
        /\ backlog' \in [Pages -> Seq(Events)]
        /\ queue' \in [Pages -> Seq(Events)]
        /\ wire' \in [Pages -> Seq([n : Events \cup {0}, s : Nat])]
    <3>1. << >> \in Seq(Events) /\ << >> \in Seq([n : Events \cup {0}, s : Nat])
      OBVIOUS
    <3> QED  BY <1>1, <1>3, <3>1 DEF KillAll, streamVars, StreamTypeOK
  <2>8. StreamTypeOK' /\ DownIsOff'
    BY <1>1, <2>3, <2>4, <2>5, <2>7 DEF StreamTypeOK, DownIsOff
  <2> QED  BY <2>2, <2>3, <2>6, <2>8 DEF StreamInv
<1> QED  BY <1>2, <1>3

(* Every step of the stream preserves it.                                  *)
LEMMA StreamNextInv == StreamInv /\ [Next]_vars => StreamInv'
<1> SUFFICES ASSUME StreamInv, [Next]_vars PROVE StreamInv'
  OBVIOUS
<1>1. ASSUME NEW ok \in BOOLEAN, PublishToAll(ok) PROVE StreamInv'
  BY <1>1, PublishToAllInv
<1>2. ASSUME NEW ok \in BOOLEAN, Flush(ok) /\ UNCHANGED streamVars PROVE StreamInv'
  BY <1>2, LogStepInv
<1>3. CASE Reopen /\ UNCHANGED streamVars
  BY <1>3, LogStepInv
<1>4. CASE KillAll
  BY <1>4, LogStepInv
<1>5. ASSUME NEW p \in Pages, PageStep(p) \/ Disconnect(p) \/ Reload(p) PROVE StreamInv'
  BY <1>5, PageStepInv
<1>6. CASE UNCHANGED vars
  <2>1. UNCHANGED logVars /\ UNCHANGED streamVars
    BY <1>6 DEF vars
  <2>2. IInv' /\ LogTypeOK'
    BY <2>1, NextInv DEF StreamInv, IInv
  <2>3. Unkilled' /\ Fresh' /\ DownIsOff'
    BY <2>1 DEF StreamInv, logVars, streamVars, Unkilled, Fresh, Newer, DownIsOff
  <2>4. ASSUME NEW p \in Pages PROVE PageInv(p)'
    <3>1. PICK l, b, q, w, c, s, r, pt :
             /\ l = link[p] /\ b = backlog[p] /\ q = queue[p] /\ w = wire[p]
             /\ c = cursor[p] /\ s = seen[p] /\ r = raced[p] /\ pt = partial[p]
      OBVIOUS
    <3>2. PageOK(l, b, q, w, c, s, r, pt)
      BY <3>1 DEF StreamInv, PageInv
    <3>3. PageOK(l, b, q, w, c, s, r, pt)'
      BY <2>1, <3>2, Standing
    <3> QED  BY <2>1, <3>1, <3>3 DEF PageInv, streamVars
  <2>5. StreamTypeOK'
    BY <2>1, <2>2 DEF StreamInv, StreamTypeOK, streamVars
  <2> QED  BY <2>2, <2>3, <2>4, <2>5 DEF StreamInv
<1> QED  BY <1>1, <1>2, <1>3, <1>4, <1>5, <1>6 DEF Next

(* The invariant holds in every reachable state of the stream.             *)
LEMMA StreamInvariance == Spec => []StreamInv
<1> QED  BY StreamInitInv, StreamNextInv, PTL DEF Spec

---------------------------------------------------------------------------
(* Every variable of the stream keeps its type.                            *)
THEOREM StreamTyping == Spec => []StreamTypeOK
<1>1. StreamInv => StreamTypeOK
  BY DEF StreamInv
<1> QED  BY <1>1, StreamInvariance, PTL

(* While a page is connected, every event newer than its cursor that the   *)
(* session still has is on its way to it.                                  *)
THEOREM NothingFallsBetween == Spec => []OnItsWay
<1>1. ASSUME StreamInv PROVE OnItsWay
  <2> SUFFICES ASSUME NEW p \in Pages, Attached(p),
                      NEW n \in history \cup (IF partial[p] THEN {} ELSE durable),
                      seqOf[n] > cursor[p], ~Contains(backlog[p], n),
                      ~Contains(queue[p], n)
               PROVE  Contains(wire[p], Frame(n))
    BY DEF OnItsWay
  <2>1. PageInv(p)
    BY <1>1 DEF StreamInv
  <2>2. OnWire(wire[p], n) /\ Frames(wire[p])
    BY <2>1 DEF PageInv, PageOK, Attached, Kept, EnRoute
  <2>3. PICK i \in 1..Len(wire[p]) : wire[p][i].n = n
    BY <2>2 DEF OnWire
  <2>4. n # 0
    BY <1>1 DEF StreamInv, IInv, LogTypeOK
  <2>5. PICK f : f = wire[p][i]
    OBVIOUS
  <2>6. f \in FrameType /\ f.n = n /\ f.s = seqOf[n]
    BY <2>2, <2>3, <2>4, <2>5 DEF Frames, FrameOK
  <2>7. f = [n |-> n, s |-> seqOf[n]]
    BY <2>6 DEF FrameType
  <2> QED  BY <2>3, <2>5, <2>7 DEF Contains, Frame
<1> QED  BY <1>1, StreamInvariance, PTL

(* What a page shows is the history of the session: in order, each event   *)
(* once, and none passed over but in the race of the greeting.             *)
THEOREM PagesStayFaithful == Spec => []PagesAreFaithful
<1>1. ASSUME StreamInv PROVE PagesAreFaithful
  <2>1. InOrderOnce
    BY <1>1 DEF StreamInv, PageInv, PageOK, Shown, Increasing, InOrderOnce
  <2>2. ASSUME kills = 0, NEW p \in Pages, NEW n \in 1..published, seqOf[n] <= cursor[p]
        PROVE  Contains(seen[p], n) \/ n \in raced[p] \/ partial[p] \/ n \in lost
    <3>1. PageInv(p) /\ seqOf[n] = n
      BY <1>1, <2>2 DEF StreamInv, Unkilled
    <3> QED  BY <2>2, <3>1 DEF PageInv, PageOK, Covered
  <2> QED  BY <2>1, <2>2 DEF PagesAreFaithful, MissesOnlyRaced
<1> QED  BY <1>1, StreamInvariance, PTL
=============================================================================
