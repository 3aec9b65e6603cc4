----------------------------- MODULE EventLog -----------------------------
(***************************************************************************)
(* The event stream of one session on the server: EventBus with its        *)
(* bounded replay buffer (core/application/events.py), the write buffer    *)
(* AgentSession puts in front of the durable log (session.py), and         *)
(* EventStore (event_store.py), through kills and restarts of the process. *)
(*                                                                         *)
(* Events are numbered in the order they were published, over all          *)
(* incarnations of the process; seqOf gives the sequence number the bus    *)
(* stamped on each, which a restart may wind back.                         *)
(***************************************************************************)
EXTENDS Naturals, FiniteSets

CONSTANTS
    MaxEvents,       \* bound: events published in one behaviour
    MaxKills,        \* bound: hard kills of the process
    HistoryLimit,    \* EventBus.history_limit (500)
    FlushThreshold   \* EVENT_FLUSH_THRESHOLD (25)

(* The write buffer is smaller than the replay buffer.  Nothing in the     *)
(* code compares the two constants; Recorded below depends on it.          *)
ASSUME LimitsAssumption ==
    /\ MaxEvents \in Nat
    /\ MaxKills \in Nat
    /\ HistoryLimit \in Nat
    /\ FlushThreshold \in Nat \ {0}
    /\ FlushThreshold <= HistoryLimit

Events == 1..MaxEvents

VARIABLES
    up,         \* the process runs and the session is in memory
    published,  \* events published so far
    seqOf,      \* StoredEvent.seq of each event
    seq,        \* EventBus._seq
    history,    \* EventBus._history
    buffered,   \* AgentSession._pending_events
    durable,    \* the session's rows of session_events
    lost,       \* history variable: events that will never be durable
    kills       \* kills so far

logVars == <<up, published, seqOf, seq, history, buffered, durable, lost, kills>>

LogTypeOK ==
    /\ up \in BOOLEAN
    /\ published \in 0..MaxEvents
    /\ seqOf \in [Events -> Nat]
    /\ seq \in Nat
    /\ history \subseteq 1..published
    /\ buffered \subseteq 1..published
    /\ durable \subseteq 1..published
    /\ lost \subseteq 1..published
    /\ kills \in Nat

LogInit ==
    /\ up = TRUE
    /\ published = 0
    /\ seqOf = [n \in Events |-> 0]
    /\ seq = 0
    /\ history = {}
    /\ buffered = {}
    /\ durable = {}
    /\ lost = {}
    /\ kills = 0

---------------------------------------------------------------------------

(* popleft until the deque fits.                                           *)
Trimmed(S) == {n \in S : Cardinality({m \in S : m >= n}) <= HistoryLimit}

(* INSERT OR REPLACE: a row with the same sequence number is overwritten.  *)
Inserted(batch, seqs) ==
    {n \in durable : \A m \in batch : seqs[m] # seqs[n]} \cup batch

(* Mutant of Write: the buffer is swapped out after the append, so that a  *)
(* failing append leaves the batch in it.                                  *)
MutantWrite(batch, seqs, ok) ==
    /\ buffered' = IF ok THEN {} ELSE batch
    /\ durable' = IF ok THEN Inserted(batch, seqs) ELSE durable
    /\ UNCHANGED lost

(* flush_events: the buffer is swapped out first, and a failing append     *)
(* (ok = FALSE) drops the batch.                                           *)
Write(batch, seqs, ok) ==
    /\ buffered' = {}
    /\ durable' = IF ok THEN Inserted(batch, seqs) ELSE durable
    /\ lost' = IF ok THEN lost ELSE lost \cup batch

(* Mutant of Persist: written only at the end of a run and on close.       *)
MutantPersist(n, seqs, ok) ==
    /\ buffered' = buffered \cup {n}
    /\ UNCHANGED <<durable, lost>>

(* _persist_event: buffer, and flush at the threshold.                     *)
Persist(n, seqs, ok) ==
    IF Cardinality(buffered \cup {n}) >= FlushThreshold
    THEN Write(buffered \cup {n}, seqs, ok)
    ELSE buffered' = buffered \cup {n} /\ UNCHANGED <<durable, lost>>

(* EventBus.publish.  Its lock is never contended and no subscriber of a   *)
(* session awaits anything unfinished, so it is one step.                  *)
Publish(ok) ==
    /\ up
    /\ published < MaxEvents
    /\ LET n == published + 1 IN
          /\ published' = n
          /\ seq' = seq + 1
          /\ seqOf' = [seqOf EXCEPT ![n] = seq + 1]
          /\ history' = Trimmed(history \cup {n})
          /\ Persist(n, seqOf', ok)
    /\ UNCHANGED <<up, kills>>

(* flush_events at the end of a run and in close().                        *)
Flush(ok) ==
    /\ up
    /\ buffered # {}
    /\ Write(buffered, seqOf, ok)
    /\ UNCHANGED <<up, published, seqOf, seq, history, kills>>

(* The process is killed: what is only in memory is gone.  A graceful      *)
(* shutdown is Flush followed by this step.                                *)
Kill ==
    /\ up
    /\ kills < MaxKills
    /\ up' = FALSE
    /\ kills' = kills + 1
    /\ seq' = 0
    /\ history' = {}
    /\ buffered' = {}
    /\ lost' = lost \cup buffered
    /\ UNCHANGED <<published, seqOf, durable>>

Newest(S) == CHOOSE n \in S : \A m \in S : m <= n

(* Mutant of LatestSeq: the counter is restored to the number of rows.     *)
MutantLatestSeq == Cardinality(durable)

LatestSeq == IF durable = {} THEN 0 ELSE seqOf[Newest(durable)]

(* The first access after the restart: SessionManager._restore_transcript, *)
(* AgentSession.restore_transcript, EventBus.restore.                      *)
Reopen ==
    /\ ~up
    /\ up' = TRUE
    /\ history' = Trimmed(durable)
    /\ seq' = LatestSeq
    /\ UNCHANGED <<published, seqOf, buffered, durable, lost, kills>>

LogNext == \/ \E ok \in BOOLEAN : Publish(ok) \/ Flush(ok)
           \/ Kill
           \/ Reopen

LogSpec == LogInit /\ [][LogNext]_logVars

---------------------------------------------------------------------------
(* replay_since                                                            *)

Oldest(S) == CHOOSE n \in S : \A m \in S : n <= m

(* Mutant of HasGap: off by one.                                           *)
MutantHasGap(since) == (history = {}) \/ (since + 2 < seqOf[Oldest(history)])

(* The retained buffer does not reach back to the cursor.                  *)
HasGap(since) == (history = {}) \/ (since + 1 < seqOf[Oldest(history)])

Backfill(since) ==
    IF HasGap(since)
    THEN {n \in durable : /\ seqOf[n] > since
                          /\ history = {} \/ seqOf[n] < seqOf[Oldest(history)]}
    ELSE {}

Replay(since) == Backfill(since) \cup {n \in history : seqOf[n] > since}

---------------------------------------------------------------------------
(* Safety                                                                  *)

(* Everything published is still in the replay buffer, or on disk, or is   *)
(* accounted for as lost by a failed append or a kill: an event is never   *)
(* evicted from memory while it only waits in the write buffer.            *)
Recorded ==
    \A n \in 1..published :
        (n \in durable \cup lost) \/ (up /\ n \in history)

(* A sequence number names one event, among those that can be replayed,    *)
(* and later events carry larger numbers, also after a restart.            *)
SequenceIsOrder ==
    \A m, n \in history \cup durable : m < n => seqOf[m] < seqOf[n]

(* replay_since reads the disk only when the buffer does not reach back to *)
(* the cursor, and still returns exactly what a read of everything would:  *)
(* no event newer than the cursor is left out, wherever the cursor is.     *)
ReplayIsComplete ==
    up => \A since \in 0..seq :
             Replay(since) = {n \in history \cup durable : seqOf[n] > since}

(* The log on disk only grows: no row is overwritten by a reused number.   *)
LogOnlyGrows == [][durable \subseteq durable']_logVars
=============================================================================
