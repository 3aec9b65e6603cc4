------------------------------ MODULE Restore ------------------------------
(***************************************************************************)
(* The conversation of a session and what a restart makes of it: the agent *)
(* keeps a window of messages and publishes events, the events are what is *)
(* stored, and dialogue_from_events rebuilds a window from the stored ones.*)
(* A text is a number.  The calls of a turn are numbered within the turn:  *)
(* a provider may use the same ids again.  Trimming is ContextWindow's.    *)
(***************************************************************************)
EXTENDS Integers, Sequences, SequencesExt

CONSTANTS MaxBatch,   \* calls of one answer
          MaxSaid,    \* bound on prompts, answers and results
          MaxRestarts \* bound on kills

VARIABLES dialogue,  \* ContextManager._messages
          used,      \* AgentSession._first_message_used
          phase,     \* of the run: at rest, thinking, to act, or in a tool
          owed,      \* calls of the batch that wait
          log,       \* the stored events
          said, restarts,
          apart      \* history: the window and the events went different ways

restoreVars == <<dialogue, used, phase, owed, log, said, restarts, apart>>

Event(kind, text, id) == [kind |-> kind, text |-> text, id |-> id]
Message(role, text, calls, id) == [role |-> role, text |-> text, calls |-> calls, id |-> id]
Says(role, text) == Message(role, text, <<>>, 0)
Count(n) == [i \in 1..n |-> i]

Init == /\ dialogue = <<>> /\ used = FALSE /\ phase = "rest" /\ owed = <<>>
        /\ log = <<>> /\ said = 0 /\ restarts = 0 /\ apart = FALSE

-----------------------------------------------------------------------------
(* dialogue_from_events *)

Borders == {"started", "finished", "answered", "called"}

\* The events of the turn that begins at i: _skip_turn.
TurnOf(events, i) ==
    LET ends == {j \in (i + 1)..Len(events) : events[j].kind \in Borders} \cup {Len(events) + 1}
    IN  SubSeq(events, i + 1, Min(ends) - 1)

\* MutantToolTurn: a call whose result did not survive is kept.
MutantToolTurn(event, turn) ==
    LET started == SelectSeq(turn, LAMBDA e : e.kind = "toolStarted")
        kept == [k \in DOMAIN started |-> started[k].id]
        Result(id) == SelectSeq(turn, LAMBDA e : e.kind = "toolFinished" /\ e.id = id)
        found == SelectSeq(kept, LAMBDA id : Result(id) # <<>>)
    IN  <<Message("assistant", event.text, kept, 0)>>
        \o [k \in DOMAIN found |-> Message("tool", Last(Result(found[k])).text, <<>>, found[k])]

\* _tool_turn: only the calls whose result survived, and the results in call order.
ToolTurn(event, turn) ==
    LET started == SelectSeq(turn, LAMBDA e : e.kind = "toolStarted")
        Result(id) == SelectSeq(turn, LAMBDA e : e.kind = "toolFinished" /\ e.id = id)
        calls == SelectSeq([k \in DOMAIN started |-> started[k].id], LAMBDA id : Result(id) # <<>>)
    IN  <<Message("assistant", event.text, calls, 0)>>
        \o [k \in DOMAIN calls |-> Message("tool", Last(Result(calls[k])).text, <<>>, calls[k])]

Rebuilt(events, i) ==
    CASE events[i].kind = "started"  -> <<Says("user", events[i].text)>>
      [] events[i].kind = "called"   -> ToolTurn(events[i], TurnOf(events, i))
      [] events[i].kind = "finished" -> <<Says("assistant", events[i].text)>>
      [] OTHER                       -> <<>>

\* _drop_orphan_tools
DropOrphans(d) ==
    LET answered == UNION {ToSet(d[i].calls) : i \in DOMAIN d}
    IN  SelectSeq(d, LAMBDA m : m.role # "tool" \/ m.id \in answered)

DialogueFromEvents(events) ==
    DropOrphans(FoldLeft(\o, <<>>, [i \in DOMAIN events |-> Rebuilt(events, i)]))

\* load without the rows first..last: a batch whose append failed, or a row that no
\* longer decodes and is skipped.
Without(first, last) ==
    LET kept == SelectSeq(Count(Len(log)), LAMBDA k : k \notin first..last)
    IN  [k \in DOMAIN kept |-> log[kept[k]]]

-----------------------------------------------------------------------------
Publish(events) == log' = log \o events

Say(message) == dialogue' = Append(dialogue, message)
Speak == said < MaxSaid /\ said' = said + 1

\* run clears the window, continue_run adds to it.
Ask == /\ phase = "rest" /\ phase' = "thinking" /\ Speak
       /\ Publish(<<Event("started", said', 0)>>)
       /\ dialogue' = (IF used THEN dialogue ELSE <<>>) \o <<Says("user", said')>>
       /\ used' = TRUE
       /\ UNCHANGED <<restarts, owed, apart>>

Answer == /\ phase = "thinking" /\ phase' = "rest" /\ Speak
          /\ Publish(<<Event("answered", said', 0), Event("finished", said', 0)>>)
          /\ Say(Says("assistant", said'))
          /\ UNCHANGED <<restarts, used, owed, apart>>

\* _synthesis_revision: a draft enters the window, and no event tells a draft.
Draft == /\ phase = "thinking" /\ Speak
         /\ Publish(<<Event("answered", said', 0)>>)
         /\ Say(Says("draft", said'))
         /\ UNCHANGED <<restarts, used, phase, owed, apart>>

Call == /\ phase = "thinking" /\ phase' = "acting" /\ Speak
        /\ \E n \in 1..MaxBatch : /\ owed' = Count(n)
                                  /\ Say(Message("assistant", said', Count(n), 0))
        /\ Publish(<<Event("called", said', 0)>>)
        /\ UNCHANGED <<restarts, used, apart>>

StartTool == /\ phase = "acting" /\ phase' = "running"
             /\ Publish(<<Event("toolStarted", 0, Head(owed))>>)
             /\ UNCHANGED <<restarts, dialogue, used, owed, said, apart>>

\* A subagent publishes its own run on the bus of its parent.
Delegate == /\ phase = "running" /\ Speak /\ apart' = TRUE
            /\ Publish(<<Event("started", said', 0), Event("answered", said', 0), Event("finished", said', 0)>>)
            /\ UNCHANGED <<restarts, dialogue, used, phase, owed>>

\* A result is told by the turn and the call it belongs to.
Turn == Last(SelectSeq(dialogue, LAMBDA m : m.calls # <<>>)).text
FinishTool == /\ phase = "running"
              /\ Publish(<<Event("toolFinished", Turn, Head(owed))>>)
              /\ Say(Message("tool", Turn, <<>>, Head(owed)))
              /\ owed' = Tail(owed)
              /\ phase' = IF Len(owed) = 1 THEN "thinking" ELSE "acting"
              /\ UNCHANGED <<restarts, used, said, apart>>

\* repeat_blocked: the first call is refused with an event alone, and the final
\* answer is published but not put into the window.
Refuse == /\ phase = "acting" /\ phase' = "rest" /\ Speak /\ apart' = TRUE
          /\ Head(owed) = 1 /\ owed' = <<>>
          /\ Publish(<<Event("toolFinished", said', 1), Event("answered", said', 0), Event("finished", said', 0)>>)
          /\ UNCHANGED <<restarts, dialogue, used>>

\* _stop_for_budget: likewise.
Exhaust == /\ phase = "thinking" /\ phase' = "rest" /\ Speak /\ apart' = TRUE
           /\ Publish(<<Event("finished", said', 0)>>)
           /\ UNCHANGED <<restarts, dialogue, used, owed>>

\* Cancelled or failed: the batch stays incomplete.
Stop == /\ phase # "rest" /\ phase' = "rest" /\ owed' = <<>>
        /\ UNCHANGED <<restarts, dialogue, used, log, said, apart>>

\* The trailing answer goes from the window, with its calls and results, not from the log.
Users == {i \in DOMAIN dialogue : dialogue[i].role = "user"}
Regenerate ==
    /\ phase = "rest" /\ dialogue # <<>> /\ Last(dialogue).role # "user" /\ phase' = "thinking"
    /\ apart' = TRUE /\ Users # {}
    /\ dialogue' = SubSeq(dialogue, 1, Max(Users))
    /\ Publish(<<Event("started", dialogue[Max(Users)].text, 0)>>)
    /\ UNCHANGED <<restarts, used, owed, said>>

\* Killed, with what was not flushed: the next access rebuilds the window.  An empty
\* one leaves the session as new.
Restart == \E n \in 0..Len(log) :
    /\ log' = SubSeq(log, 1, n)
    /\ dialogue' = DialogueFromEvents(log') /\ used' = (dialogue' # <<>>)
    /\ phase' = "rest" /\ owed' = <<>>
    /\ restarts < MaxRestarts /\ restarts' = restarts + 1
    /\ UNCHANGED <<said, apart>>

Next == \/ Ask \/ Answer \/ Draft \/ Call \/ StartTool \/ Delegate \/ FinishTool
        \/ Refuse \/ Exhaust \/ Stop \/ Regenerate \/ Restart

Spec == Init /\ [][Next]_restoreVars

-----------------------------------------------------------------------------
\* "so a restored window is still a valid request": whatever part of the log
\* survives, each call of a turn is answered right after it, in the order of the
\* calls, and there is no other result.
Valid(d) ==
    /\ \A i \in DOMAIN d : \A k \in DOMAIN d[i].calls :
          i + k <= Len(d) /\ d[i + k].role = "tool" /\ d[i + k].id = d[i].calls[k]
    /\ \A i \in DOMAIN d : d[i].role = "tool" => \E j \in 1..(i - 1) : i - j <= Len(d[j].calls)

\* The window without what a restart is free to forget: drafts, and calls that
\* were never answered.
AnsweredAfter(d, i) ==
    {k \in DOMAIN d[i].calls : i + k <= Len(d) /\ d[i + k].role = "tool" /\ \A j \in 1..k : d[i + j].role = "tool"}
Settled(d) ==
    SelectSeq([i \in DOMAIN d |->
                 [d[i] EXCEPT !.calls = SelectSeq(@, LAMBDA c : c \in AnsweredAfter(d, i))]],
              LAMBDA m : m.role # "draft")

\* And when every event was stored and the window and the events did not go
\* different ways, the rebuilt window is the one the agent had: nothing the user
\* said, the agent answered or a tool returned is lost, moved or repeated.
RestoredIsFaithful ==
    /\ phase = "rest" => \A i \in DOMAIN log : \A j \in {i, i + MaxBatch} : Valid(DialogueFromEvents(Without(i, j)))
    /\ ~apart => DialogueFromEvents(log) = Settled(dialogue)
=============================================================================
