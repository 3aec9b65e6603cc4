------------------------------- MODULE Memory -------------------------------
(***************************************************************************)
(* The notes of an agent: one database file that every process shares, the *)
(* migration of its old shape, the manager that rewrites a note and the    *)
(* tools and the snapshot that read notes.  Inside a process nothing is    *)
(* suspended between a read and its write; two processes (a web server and *)
(* a terminal) interleave at every statement, and each may be killed.      *)
(* Keys carry no surrounding blanks and tags no comma.                     *)
(***************************************************************************)
EXTENDS Integers, FiniteSets, Sequences

CONSTANTS Processes, Tasks, Boards,   \* task ids, and names a note may be filed under
          Keys, Values, Tags,         \* a value stands for its significant words
          KeyWords,                   \* [Keys -> sets of words]: the significant words of a key
          Place,                      \* [Cells -> Nat]: ORDER BY scope, key
          TailMessages, SnapshotLimit,        \* RETRIEVAL_TAIL_MESSAGES, DEFAULT_SNAPSHOT_LIMIT
          Objectives, Dialogues,      \* words of a task, of its messages
          MaxWrites                   \* bound on writes

VARIABLES at,        \* where SQLiteStore stands in each process
          schema, scratch,            \* the shape of the table memory; whether memory_scoped exists
          rows,      \* what the table holds, per scope and key
          writing,   \* the statement a process has prepared from what it read
          told, disturbed, cut, met, writes   \* history, see below

memoryVars == <<at, schema, scratch, rows, writing, told, disturbed, cut, met, writes>>

Global == ""
Scopes == {Global} \cup Tasks \cup Boards
Cells == Scopes \X Keys
NoNote == [value |-> {}, tags |-> {"no note"}]
Notes == [value : Values, tags : SUBSET Tags]
Nothing == [cell |-> <<"nothing", "nothing">>, note |-> NoNote, given |-> {}, seen |-> NoNote]

\* The old table kept no scope and no tags: all of its notes are global.
OldRows == {r \in [Cells -> Notes \cup {NoNote}] :
              \A c \in Cells : r[c] # NoNote => c[1] = Global /\ r[c].tags = {}}

Init == /\ at = [p \in Processes |-> "closed"] /\ writing = [p \in Processes |-> Nothing]
        /\ schema = "absent" /\ scratch = FALSE /\ rows = [c \in Cells |-> NoNote]
        /\ told = rows /\ disturbed = {} /\ cut = FALSE /\ met = FALSE /\ writes = 0

\* A release from before the scopes has run here.
OldRelease == /\ schema = "absent" /\ schema' = "old"
              /\ rows' \in OldRows /\ told' = rows'
              /\ UNCHANGED <<at, scratch, writing, disturbed, cut, met, writes>>

-----------------------------------------------------------------------------
\* _migrate: CREATE TABLE IF NOT EXISTS commits by itself; a table without the
\* column scope has to be moved.
Start(p) ==
    /\ at[p] \in {"closed", "failed"}
    /\ schema' = IF schema = "absent" THEN "scoped" ELSE schema
    /\ at' = [at EXCEPT ![p] = IF schema = "old" THEN "looked" ELSE "open"]
    /\ UNCHANGED <<scratch, rows, writing, told, disturbed, cut, met, writes>>

\* CREATE TABLE memory_scoped commits by itself too, and raises when one is there.
CreateScratch(p) ==
    /\ at[p] = "looked"
    /\ scratch' = TRUE
    /\ at' = [at EXCEPT ![p] = IF scratch THEN "failed" ELSE "created"]
    /\ met' = (met \/ \E q \in Processes : at[q] = "created")
    /\ UNCHANGED <<schema, rows, writing, told, disturbed, cut, writes>>

\* The rows the transaction leaves: every one global and without tags; of two
\* with one key the later replaces the earlier.
Moved == {[c \in Cells |-> IF c[1] = Global /\ rows[<<from[c[2]], c[2]>>] # NoNote
                           THEN [rows[<<from[c[2]], c[2]>>] EXCEPT !.tags = {}] ELSE NoNote] :
             from \in {f \in [Keys -> Scopes] : \A k \in Keys :
                         rows[<<f[k], k>>] # NoNote \/ \A s \in Scopes : rows[<<s, k>>] = NoNote}}

\* MutantMove: the rows are moved without the ones that were there.
MutantMove(p) ==
    /\ at[p] = "created"
    /\ rows' = [c \in Cells |-> NoNote] /\ schema' = "scoped" /\ scratch' = FALSE
    /\ disturbed' = IF schema = "old" THEN disturbed ELSE Cells
    /\ at' = [at EXCEPT ![p] = "open"]
    /\ UNCHANGED <<writing, told, cut, met, writes>>

\* INSERT, DROP and ALTER commit together.  A table somebody else has moved in the
\* meantime is moved once more, with what has been written to it since.
Move(p) ==
    /\ at[p] = "created"
    /\ rows' \in Moved /\ schema' = "scoped" /\ scratch' = FALSE
    /\ disturbed' = IF schema = "old" THEN disturbed ELSE Cells
    /\ at' = [at EXCEPT ![p] = "open"]
    /\ UNCHANGED <<writing, told, cut, met, writes>>

\* Killed, or the runtime is closed: what was not committed is gone.
Kill(p) ==
    /\ at[p] # "closed"
    /\ at' = [at EXCEPT ![p] = "closed"] /\ writing' = [writing EXCEPT ![p] = Nothing]
    /\ cut' = (cut \/ at[p] = "created")
    /\ UNCHANGED <<schema, scratch, rows, told, disturbed, met, writes>>

-----------------------------------------------------------------------------
\* resolve_scope: the model's word, or a name taken as it is.  Without a task
\* the current scope is the global one.
ScopeOf(ask, current) == CASE ask = "task" -> current
                           [] ask = "global" -> Global
                           [] OTHER -> ask

\* MemoryManager.remember reads the note first: tags accumulate.
Prepare(p, cell, value, given) ==
    /\ at[p] = "open" /\ writing[p] = Nothing /\ writes < MaxWrites
    /\ writes' = writes + 1
    /\ writing' = [writing EXCEPT ![p] =
                     [cell |-> cell, given |-> given, seen |-> rows[cell],
                      note |-> [value |-> value,
                                tags |-> given \cup (IF rows[cell] = NoNote THEN {} ELSE rows[cell].tags)]]]
    /\ UNCHANGED <<at, schema, scratch, rows, told, disturbed, cut, met>>

Remember(p) == \E current \in Tasks \cup {Global}, ask \in {"task", "global"} \cup Boards,
                  k \in Keys, value \in Values, given \in SUBSET Tags :
                  Prepare(p, <<ScopeOf(ask, current), k>>, value, given)

\* A copy: the note stays in the scope it came from.
Promote(p) == \E from \in Scopes \ {Global}, k \in Keys, given \in SUBSET Tags :
                 /\ rows[<<from, k>>] # NoNote
                 /\ Prepare(p, <<Global, k>>, rows[<<from, k>>].value,
                            IF given = {} THEN rows[<<from, k>>].tags ELSE given)

\* SQLiteStore.set.  A database that stays locked raises, and nothing is written.
Write(p) ==
    LET w == writing[p] IN
    /\ w # Nothing
    /\ writing' = [writing EXCEPT ![p] = Nothing]
    /\ \/ /\ rows' = [rows EXCEPT ![w.cell] = w.note]
          /\ told' = [told EXCEPT ![w.cell] =
                        [value |-> w.note.value,
                         tags |-> w.given \cup (IF @ = NoNote THEN {} ELSE @.tags)]]
          /\ disturbed' = IF rows[w.cell] = w.seen THEN disturbed ELSE disturbed \cup {w.cell}
       \/ UNCHANGED <<rows, told, disturbed>>
    /\ UNCHANGED <<at, schema, scratch, cut, met, writes>>

Forget(p) == \E cell \in Cells :
    /\ at[p] = "open" /\ writing[p] = Nothing /\ rows[cell] # NoNote
    /\ rows' = [rows EXCEPT ![cell] = NoNote] /\ told' = [told EXCEPT ![cell] = NoNote]
    /\ UNCHANGED <<at, schema, scratch, writing, disturbed, cut, met, writes>>

Next == \/ OldRelease
        \/ \E p \in Processes : \/ Start(p) \/ CreateScratch(p) \/ Move(p) \/ Kill(p)
                                \/ Remember(p) \/ Promote(p) \/ Write(p) \/ Forget(p)

Spec == Init /\ [][Next]_memoryVars

-----------------------------------------------------------------------------
(* Reading *)

\* recall: the own scope of the task, then the global one.
Recalled(task, k) == IF rows[<<task, k>>] # NoNote THEN <<task, k>> ELSE <<Global, k>>

\* visible_entries, query_terms and retrieve_snapshot: the highest overlap first,
\* the order of the store for ties, and nothing that shares no word.
Visible(task) == {c \in {task, Global} \X Keys : rows[c] # NoNote}
Score(c, query) == Cardinality((KeyWords[c[2]] \cup rows[c].value) \cap query)
Precedes(c, d, query) == \/ Score(c, query) > Score(d, query)
                         \/ Score(c, query) = Score(d, query) /\ Place[c] < Place[d]
Selected(task, query, limit) ==
    {c \in Visible(task) : /\ Score(c, query) > 0
                           /\ Cardinality({d \in Visible(task) : Precedes(d, c, query)}) < limit}

\* retrieval_query: the task and the last messages.  recall_matching asks for a topic.
RetrievalTerms(objective, dialogue) ==
    objective \cup UNION {dialogue[i] : i \in {j \in DOMAIN dialogue : j > Len(dialogue) - TailMessages}}
Snapshot(task, objective, dialogue) ==
    Selected(task, RetrievalTerms(objective, dialogue), SnapshotLimit)

-----------------------------------------------------------------------------
\* What the table holds is what was last told to it, tags of earlier tellings
\* included, over restarts, failed writes and the migration, except where two
\* processes rewrote one note at a time or migrated one after the other.
NotesAreKept == \A c \in Cells \ disturbed : rows[c] = told[c]

\* So a task finds what it filed for itself or for all by its key, its own note
\* first; and what the last messages are about is offered to it, though the
\* task's words do not name it, unless as many notes as fit come before.
NotesAreFound ==
    \A t \in Tasks :
        /\ \A k \in Keys : LET own == <<t, k>> all == <<Global, k>> IN
              {own, all} \cap disturbed = {} =>
                 rows[Recalled(t, k)] = IF told[own] # NoNote THEN told[own] ELSE told[all]
        /\ \A o \in Objectives, d \in Dialogues : LET offered == Snapshot(t, o, d) IN
              \A c \in Visible(t) : d # <<>> /\ Score(c, d[Len(d)]) > 0 =>
                 c \in offered \/ Cardinality(offered) = SnapshotLimit

\* A start fails only over a half-made migration: one that was killed, or one
\* that another process was in the middle of.
StartsCleanly == /\ scratch => cut \/ \E p \in Processes : at[p] = "created"
                 /\ (\E p \in Processes : at[p] = "failed") => cut \/ met

MemoryIsFaithful == NotesAreKept /\ NotesAreFound /\ StartsCleanly
=============================================================================
