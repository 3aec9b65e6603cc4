--------------------------- MODULE ContextWindow ---------------------------
(***************************************************************************)
(* The dialogue of a run (ContextManager), the request assembled from it   *)
(* (ContextAssembler.build) and what happens when it does not fit: the     *)
(* window is compacted into a note and rolled over (Compactor,             *)
(* ContextController.rollover).  Text is its cost in units of the          *)
(* per-message overhead; the approximate counter is assumed, with which a  *)
(* text cut to an allowance plus the marker never fits that allowance.     *)
(***************************************************************************)
EXTENDS Naturals, Sequences, SequencesExt

CONSTANTS Sizes,       \* costs of a message, overhead included
          Available,   \* ContextBudget.available
          Reserved,    \* ContextBudget.fixed_reserved
          FixedSizes,  \* costs the blocks that are always sent can have
          Notes,       \* what memory can hold: sequences of costs, without overhead
          Pages,       \* the excerpts collected, likewise
          Pasts,       \* what the history of the window left behind keeps, likewise
          NoticeCost,  \* the notice of what was left out
          MaxMessages, \* ContextPolicy.max_messages
          MaxBatch,    \* calls of one answer
          MaxSaid      \* bound on the messages ever added

VARIABLES dialogue,  \* ContextManager._messages: role, call group, cost
          phase,     \* of the run: at rest, to send, sent, or acting on calls
          owed,      \* results the batch still has to bring
          request,   \* the last request
          window,    \* ContextController._window_counter
          said       \* bound

windowVars == <<dialogue, phase, owed, request, window, said>>

Overhead  == 1
Evictable == IF Available > Reserved THEN Available - Reserved ELSE 0
NoRequest == [dialogue |-> <<>>, fixed |-> 0, cost |-> 0]

Message(role, call, cost) == [role |-> role, call |-> call, cost |-> cost]
IsUser(m) == m.role \in {"human", "note"}     \* a note is added with role "user"
Cost(d)   == FoldLeft(LAMBDA n, m : n + m.cost, 0, d)

\* A tool result belongs to the call it follows without a break.
Belongs(d, i) == \E j \in 1..(i - 1) : /\ d[j].role = "call"
                                       /\ \A k \in (j + 1)..i : d[k].role = "tool" /\ d[k].call = d[j].call
Starts(d)     == {i \in DOMAIN d : ~Belongs(d, i)}
Groups(d)     == LET starts == SetToSortSeq(Starts(d) \cup {Len(d) + 1}, <)
                 IN  [g \in 1..(Len(starts) - 1) |-> SubSeq(d, starts[g], starts[g + 1] - 1)]

From(d, i)     == SubSeq(d, i, Len(d))
MutantDropOrphans(d) == d
DropOrphans(d) == From(d, Min({i \in DOMAIN d : d[i].role # "tool"} \cup {Len(d) + 1}))

\* _trim: whole groups leave from the front, then results without their call.
Trim(d) == DropOrphans(From(d, Min({i \in Starts(d) \cup {Len(d) + 1} : Len(d) + 1 - i <= MaxMessages})))

-----------------------------------------------------------------------------
(* build *)

\* Newest groups first, whole; one too big is passed over.  If none fits, the
\* newest message that does.
Select(d, budget) ==
    LET Keep(acc, g) == IF Cost(acc) + Cost(g) > budget THEN acc ELSE g \o acc
        kept  == FoldLeft(Keep, <<>>, Reverse(Groups(d)))
        alone == {i \in DOMAIN d : d[i].role # "tool" /\ d[i].cost <= budget}
    IN  CASE kept # <<>>                 -> DropOrphans(kept)
          [] kept = <<>> /\ alone # {}   -> <<d[Max(alone)]>>
          [] OTHER                       -> <<>>

\* _fit_items and _select_evidence, newest first: each item is charged `charge`
\* above its text, and the block its overhead once.
Fit(items, budget, charge) ==
    LET Take(acc, c) == IF c + charge > acc.left
                        THEN [acc EXCEPT !.cut = TRUE]
                        ELSE [acc EXCEPT !.left = acc.left - c - charge, !.used = acc.used + c]
        all == FoldLeft(Take, [left |-> budget, used |-> 0, cut |-> FALSE], Reverse(items))
    IN  [cut |-> all.cut, cost |-> IF all.used = 0 THEN 0 ELSE all.used + Overhead]

Less(n, m) == IF n > m THEN n - m ELSE 0

MutantRoom(fixed) == Evictable
Room(fixed) == Min({Evictable, Less(Available, fixed)})

\* The blocks in their order: each takes of the room that the ones before left.
Blocks(room, pages, notes, past) ==
    LET Add(acc, block) ==
            LET fit == Fit(block.items, acc.left, block.charge)
            IN  [left |-> Less(acc.left, fit.cost), cost |-> acc.cost + fit.cost,
                 cut |-> acc.cut \/ fit.cut]
    IN  FoldLeft(Add, [left |-> room, cost |-> 0, cut |-> FALSE],
                 <<[items |-> pages, charge |-> Overhead], [items |-> notes, charge |-> 0],
                   [items |-> past, charge |-> 0]>>)

\* The notice of what was left out is paid from the room that is left, and the
\* dialogue is selected again (`told`), although what was chosen is deducted already.
Noticed(fixed, chosen, blocks, told) ==
    IF /\ blocks.cut /\ NoticeCost <= blocks.left /\ Cost(chosen) <= Room(fixed)
       /\ (told # <<>> \/ chosen = <<>>)
    THEN [dialogue |-> told, fixed |-> fixed, cost |-> fixed + Cost(told) + blocks.cost + NoticeCost]
    ELSE [dialogue |-> chosen, fixed |-> fixed, cost |-> fixed + Cost(chosen) + blocks.cost]

WithBlocks(d, fixed, chosen, blocks) ==
    Noticed(fixed, chosen, blocks, Select(d, Less(blocks.left, NoticeCost)))

WithDialogue(d, fixed, first, chosen, pages, notes, past) ==
    WithBlocks(d, fixed, chosen,
               LET blocks == Blocks(Less(Room(fixed), Cost(chosen)), pages, notes, past)
               IN  [blocks EXCEPT !.cut = @ \/ Len(first) < Len(d)])

\* Without any room for dialogue, one allowance is granted above the fixed blocks.
Chosen(d, first) == IF first = <<>> THEN Select(d, Evictable) ELSE first

BuildFrom(d, fixed, first, pages, notes, past) ==
    WithDialogue(d, fixed, first, Chosen(d, first), pages, notes, past)

Build(d, fixed, pages, notes, past) ==
    BuildFrom(d, fixed, Select(d, Room(fixed)), pages, notes, past)

-----------------------------------------------------------------------------
Init == /\ dialogue = <<>> /\ phase = "rest" /\ owed = 0
        /\ request = NoRequest /\ window = 0 /\ said = 0

Say(d, m) == /\ said < MaxSaid /\ said' = said + 1
             /\ dialogue' = Trim(Append(d, m))

\* run: a new task clears the dialogue and opens a window.
Create == /\ phase = "rest" /\ phase' = "ready" /\ window' = window + 1
          /\ \E c \in Sizes : Say(<<>>, Message("human", 0, c))
          /\ UNCHANGED <<owed, request>>

\* A further prompt of the same conversation.
Follow == /\ phase = "rest" /\ dialogue # <<>> /\ phase' = "ready"
          /\ \E c \in Sizes : Say(dialogue, Message("human", 0, c))
          /\ UNCHANGED <<owed, request, window>>

\* regenerate: the trailing answer goes, with its calls and results.
Regenerate ==
    /\ phase = "rest" /\ dialogue # <<>> /\ ~IsUser(Last(dialogue)) /\ phase' = "ready"
    /\ dialogue' = SubSeq(dialogue, 1, Max({i \in DOMAIN dialogue : IsUser(dialogue[i])} \cup {0}))
    /\ UNCHANGED <<owed, request, window, said>>

\* One iteration sends what build returns when it is within the budget.
Send == /\ phase = "ready" /\ phase' = "sent"
        /\ \E f \in FixedSizes, p \in Pages, n \in Notes :
              request' = Build(dialogue, f, p, n, <<>>) /\ request'.cost <= Available
        /\ UNCHANGED <<dialogue, owed, window, said>>

\* Over the budget: compact, keep the newest user message, add the note and build
\* once more, with the tail of the history of the window that is left.  Saving the
\* checkpoint cannot fail here: build_checkpoint has just succeeded.
Rollover ==
    /\ phase = "ready" /\ phase' = "sent" /\ window' = window + 1
    /\ \E f \in FixedSizes, p \in Pages, n \in Notes, c \in Sizes :
          /\ Build(dialogue, f, p, n, <<>>).cost > Available
          /\ LET users == {i \in DOMAIN dialogue : IsUser(dialogue[i])}
                 keep  == IF users = {} THEN <<>> ELSE <<dialogue[Max(users)]>>
             IN  IF dialogue = <<>> THEN UNCHANGED <<dialogue, said>>
                                    ELSE Say(keep, Message("note", 0, c))
          /\ \E h \in Pasts : request' = Build(dialogue', f, p, n, h)
    /\ UNCHANGED owed

\* CompactionError: an empty summary or a failing call ends the run, nothing cleared.
CompactionFails ==
    /\ phase = "ready" /\ phase' = "rest" /\ dialogue # <<>>
    /\ \E f \in FixedSizes, p \in Pages, n \in Notes : Build(dialogue, f, p, n, <<>>).cost > Available
    /\ UNCHANGED <<dialogue, owed, request, window, said>>

Answer == /\ phase = "sent" /\ phase' = "rest" /\ request' = NoRequest
          /\ \E c \in Sizes : Say(dialogue, Message("text", 0, c))
          /\ UNCHANGED <<owed, window>>

\* The answer calls tools; their results follow one by one.
Call == /\ phase = "sent" /\ phase' = "acting" /\ request' = NoRequest /\ owed' \in 1..MaxBatch
        /\ \E c \in Sizes : Say(dialogue, Message("call", said + 1, c))
        /\ UNCHANGED window

Result == /\ phase = "acting" /\ owed' = owed - 1
          /\ phase' = IF owed = 1 THEN "ready" ELSE "acting"
          /\ LET calls == {i \in DOMAIN dialogue : dialogue[i].role = "call"}
             IN  \E c \in Sizes : Say(dialogue, Message("tool", IF calls = {} THEN 0 ELSE dialogue[Max(calls)].call, c))
          /\ UNCHANGED <<request, window>>

\* A cancelled run leaves its batch incomplete.
Stop == /\ phase \in {"sent", "acting"} /\ phase' = "rest" /\ owed' = 0 /\ request' = NoRequest
        /\ UNCHANGED <<dialogue, window, said>>

Next == \/ Create \/ Follow \/ Regenerate \/ Send \/ Rollover \/ CompactionFails
        \/ Answer \/ Call \/ Result \/ Stop
Spec == Init /\ [][Next]_windowVars

-----------------------------------------------------------------------------
\* What is sent is an honest part of the dialogue, in its order: every result follows
\* the call it answers, and the whole request exceeds the budget only by the
\* overheads build does not charge, or where the fixed blocks leave no room and one
\* allowance is granted above them.
RequestIsSound ==
    /\ Len(dialogue) <= MaxMessages
    /\ \A i \in DOMAIN request.dialogue : request.dialogue[i].role = "tool" => Belongs(request.dialogue, i)
    /\ \E at \in [DOMAIN request.dialogue -> DOMAIN dialogue] : \A i, j \in DOMAIN at :
          (i < j => at[i] < at[j]) /\ request.dialogue[i] = dialogue[at[i]]
    /\ request.cost <= Max({Available + 2 * Overhead, request.fixed + Evictable})

\* "the dialogue still wins the budget": what fits of it is sent whole.
DialogueFirst ==
    LET fits == Select(dialogue, Room(request.fixed))
    IN  request # NoRequest /\ fits # <<>> => request.dialogue = fits

\* "clear the window, keeping the most recent user instruction": a rollover does not
\* lose what the user asked.
Asked(d) == \E i \in DOMAIN d : d[i].role = "human"
InstructionKept == [][phase = "ready" /\ window' # window /\ Asked(dialogue) => Asked(dialogue')]_windowVars
=============================================================================
