----------------------------- MODULE Transcript -----------------------------
(***************************************************************************)
(* The browser's view of a session: reduce() folds each event into the     *)
(* transcript. The events are those a main agent and the subagents it      *)
(* calls publish, in the order the session's bus numbers them; a run may   *)
(* fail, be cancelled without an event, be regenerated, or be cut by a     *)
(* restart of the server, after which the main runs are numbered from 1    *)
(* again.                                                                  *)
(***************************************************************************)
EXTENDS Naturals, FiniteSetsExt, Sequences

CONSTANTS Kids,      \* run ids of subagents, each used once
          MaxRuns, MaxRequests, MaxChunks, MaxCalls   \* bounds

VARIABLES entries,   \* transcript.entries
          blocks,    \* run.blocks: thinking and content entry of the current request
          runs,      \* run.runs: the runs seen, and whether each is a child
          ids,       \* the counter of nextId
          actor,     \* the agents: what "main" and "child" are doing
          counter,   \* Agent._run_counter of the main agent
          said,      \* history: per LLM request, its run and the chunks published
          calls,     \* history: per tool call, its outcome
          discarded, \* history: the requests of discarded answers
          finished,  \* history: the last request of each main run that finished
          started    \* bound: main runs

agentVars == <<actor, counter, said, calls, finished, started>>
transcriptVars == <<entries, blocks, runs, ids, discarded, agentVars>>

Off == [stage |-> "off", run |-> 0, request |-> 0, call |-> 0]
EMPTY_BLOCKS == [thinking |-> 0, assistant |-> 0]   \* 0: no entry

Init == /\ entries = <<>> /\ blocks = <<>> /\ runs = <<>> /\ ids = 0
        /\ actor = [a \in {"main", "child"} |-> Off] /\ counter = 0
        /\ said = <<>> /\ calls = <<>> /\ finished = {} /\ discarded = {} /\ started = 0

-----------------------------------------------------------------------------
(* The reducer's helpers *)

blocksOf(run) == IF run \in DOMAIN blocks THEN blocks[run] ELSE EMPTY_BLOCKS
Set(f, k, v) == [x \in DOMAIN f \cup {k} |-> IF x = k THEN v ELSE f[x]]
withBlocks(run, b) == blocks' = Set(blocks, run, b)

\* Registers a run the events speak of; an unknown one is a stub without a parent.
appendToRun(run) ==
    runs' = IF run \in DOMAIN runs THEN runs ELSE Set(runs, run, FALSE)

Entry(kind, run, text) == [kind |-> kind, id |-> ids + 1, run |-> run, text |-> text, call |-> 0, status |-> "none"]

\* dropTrailingAssistant: the assistant and tool entries at the end.
dropTrailingAssistant(es) ==
    LET keep == {i \in DOMAIN es : es[i].kind \notin {"assistant", "tool"}}
        cut  == IF keep = {} THEN 0 ELSE Max(keep)
    IN  SubSeq(es, 1, cut)

-----------------------------------------------------------------------------
(* reduce(), one operator per event type *)

OnStarted(run, child, regenerated) ==
    LET isSubagent == child \/ (run \in DOMAIN runs /\ runs[run])
        kept       == dropTrailingAssistant(entries)
    IN  /\ entries' = IF isSubagent THEN entries ELSE IF regenerated THEN kept
                      ELSE Append(entries, Entry("user", run, <<>>))
        /\ ids' = IF isSubagent \/ regenerated THEN ids ELSE ids + 1
        /\ runs' = Set(runs, run, child)
        /\ discarded' = discarded \cup {entries[i].text[1].request :
               i \in {j \in (Len(entries') + 1)..Len(entries) : entries[j].kind = "assistant"}}
        /\ UNCHANGED blocks

MutantOnRequested(run) ==
    /\ withBlocks(run, [blocksOf(run) EXCEPT !.thinking = 0])
    /\ UNCHANGED <<entries, runs, ids, discarded>>
OnRequested(run) ==
    /\ withBlocks(run, [blocksOf(run) EXCEPT !.thinking = 0, !.assistant = 0])
    /\ UNCHANGED <<entries, runs, ids, discarded>>

\* llm.thinking_chunk and llm.content_chunk: the entry the run's request is filling
\* grows, or, when there is none any more, a new one is opened.
OnChunk(run, kind, chunk) ==
    LET b    == blocksOf(run)
        at   == {i \in DOMAIN entries : b[kind] # 0 /\ entries[i].id = b[kind]}
    IN  IF at # {}
        THEN /\ entries' = [i \in DOMAIN entries |-> IF i \in at THEN [entries[i] EXCEPT !.text = Append(@, chunk)]
                                                     ELSE entries[i]]
             /\ withBlocks(run, b) /\ UNCHANGED <<runs, ids, discarded>>
        ELSE /\ entries' = Append(entries, Entry(kind, run, <<chunk>>)) /\ ids' = ids + 1
             /\ withBlocks(run, [b EXCEPT ![kind] = ids + 1])
             /\ appendToRun(run) /\ UNCHANGED discarded

OnResponded(run) == OnRequested(run)   \* and its entries stream no more

OnToolStarted(run, call) ==
    /\ entries' = Append(entries, [Entry("tool", run, <<>>) EXCEPT !.call = call, !.status = "running"])
    /\ ids' = ids + 1 /\ appendToRun(run)
    /\ UNCHANGED <<blocks, discarded>>

OnToolFinished(call, status) ==
    /\ entries' = [i \in DOMAIN entries |-> IF entries[i].kind = "tool" /\ entries[i].call = call
                                            THEN [entries[i] EXCEPT !.status = status] ELSE entries[i]]
    /\ UNCHANGED <<blocks, runs, ids, discarded>>

\* The result itself is only appended for an event that carries no run id.
OnFinished(run) ==
    /\ withBlocks(run, EMPTY_BLOCKS)
    /\ runs' = Set(runs, run, run \in DOMAIN runs /\ runs[run])
    /\ UNCHANGED <<entries, ids, discarded>>

OnFailed(run) == /\ entries' = Append(entries, Entry("error", run, <<>>)) /\ ids' = ids + 1
                 /\ UNCHANGED <<blocks, runs, discarded>>

Unseen == UNCHANGED <<entries, blocks, runs, ids, discarded>>

-----------------------------------------------------------------------------
(* The agents, and the event each step publishes *)

Free(a) == actor[a].stage = "ready"

Start(regenerated) ==
    /\ actor["main"] = Off /\ started < MaxRuns /\ started' = started + 1
    /\ regenerated => \E q \in DOMAIN said : said[q].run \notin Kids
    /\ counter' = counter + 1
    /\ actor' = [actor EXCEPT !["main"] = [Off EXCEPT !.stage = "ready", !.run = counter + 1]]
    /\ OnStarted(counter + 1, FALSE, regenerated)
    /\ UNCHANGED <<said, calls, finished>>

\* subagent.run: the main agent waits inside the tool call.
StartChild(k) ==
    /\ actor["main"].stage = "tool" /\ actor["child"] = Off /\ k \notin DOMAIN runs
    /\ actor' = [actor EXCEPT !["child"] = [Off EXCEPT !.stage = "ready", !.run = k]]
    /\ OnStarted(k, TRUE, FALSE)
    /\ UNCHANGED <<counter, said, calls, finished, started>>

Request(a) ==
    /\ Free(a) /\ Len(said) < MaxRequests
    /\ said' = Append(said, [run |-> actor[a].run, thinking |-> 0, assistant |-> 0])
    /\ actor' = [actor EXCEPT ![a].stage = "streaming", ![a].request = Len(said) + 1]
    /\ OnRequested(actor[a].run)
    /\ UNCHANGED <<counter, calls, finished, started>>

Chunk(a, kind) ==
    LET q == actor[a].request
    IN  /\ actor[a].stage = "streaming" /\ said[q].thinking + said[q].assistant < MaxChunks
        /\ said' = [said EXCEPT ![q][kind] = @ + 1]
        /\ OnChunk(actor[a].run, kind, [request |-> q, n |-> said[q][kind] + 1])
        /\ UNCHANGED <<actor, counter, calls, finished, started>>

Responded(a) ==
    /\ actor[a].stage = "streaming" /\ actor' = [actor EXCEPT ![a].stage = "ready"]
    /\ OnResponded(actor[a].run) /\ UNCHANGED <<counter, said, calls, finished, started>>

CallTool(a) ==
    /\ Free(a) /\ actor[a].request # 0 /\ Len(calls) < MaxCalls
    /\ calls' = Append(calls, "running")
    /\ actor' = [actor EXCEPT ![a].stage = "tool", ![a].call = Len(calls) + 1]
    /\ OnToolStarted(actor[a].run, Len(calls) + 1)
    /\ UNCHANGED <<counter, said, finished, started>>

ToolFinished(a, status) ==
    /\ actor[a].stage = "tool" /\ (a = "main" => actor["child"] = Off)
    /\ calls' = [calls EXCEPT ![actor[a].call] = status]
    /\ actor' = [actor EXCEPT ![a].stage = "ready"]
    /\ OnToolFinished(actor[a].call, status)
    /\ UNCHANGED <<counter, said, finished, started>>

\* The result of a run is the text of its last answer, or one the agent makes up
\* itself (a budget is used up, the provider does not stream).
Finish(a) ==
    /\ Free(a) /\ actor[a].request # 0
    /\ actor' = [actor EXCEPT ![a] = Off]
    /\ finished' = IF a = "main" THEN finished \cup {actor[a].request} ELSE finished
    /\ OnFinished(actor[a].run)
    /\ UNCHANGED <<counter, said, calls, started>>

\* RunFailed is the session's event for the main run; a subagent's error only ends
\* its tool call, and a cancelled run publishes nothing more.
Fail == /\ actor["main"] # Off /\ actor' = [a \in DOMAIN actor |-> Off]
        /\ OnFailed(actor["main"].run) /\ UNCHANGED <<counter, said, calls, finished, started>>
ChildDies == /\ actor["child"] # Off /\ actor' = [actor EXCEPT !["child"] = Off]
             /\ Unseen /\ UNCHANGED <<counter, said, calls, finished, started>>
Cancel == /\ actor["main"] # Off /\ actor' = [a \in DOMAIN actor |-> Off]
          /\ Unseen /\ UNCHANGED <<counter, said, calls, finished, started>>

\* After a restart the socket reconnects, the page keeps what it shows (a
\* snapshot only sets the fields of the status line).
Restart == /\ counter > 0 /\ counter' = 0 /\ actor' = [a \in DOMAIN actor |-> Off]
           /\ Unseen /\ UNCHANGED <<said, calls, finished, started>>

Next == \/ \E regenerated \in BOOLEAN : Start(regenerated)
        \/ \E k \in Kids : StartChild(k)
        \/ \E a \in DOMAIN actor :
              \/ Request(a) \/ Responded(a) \/ CallTool(a) \/ Finish(a)
              \/ \E kind \in {"thinking", "assistant"} : Chunk(a, kind)
              \/ \E status \in {"success", "error"} : ToolFinished(a, status)
        \/ Fail \/ ChildDies \/ Cancel \/ Restart
Spec == Init /\ [][Next]_transcriptVars

-----------------------------------------------------------------------------
Texts(kind) == {i \in DOMAIN entries : entries[i].kind = kind /\ entries[i].text # <<>>}
Of(e) == e.text[1].request

\* What the transcript shows is what was said: every text holds all the chunks of one
\* request of its own run, in order, none of another run or request, however runs,
\* subagents, cancellations and restarts interleave; no text is shown twice or
\* missing unless its answer was discarded; a tool row shows its own call's outcome.
TranscriptIsFaithful ==
    /\ \A kind \in {"thinking", "assistant"} :
          /\ \A i \in Texts(kind) :
                LET q == Of(entries[i])
                IN  /\ said[q].run = entries[i].run
                    /\ entries[i].text = [n \in 1..said[q][kind] |-> [request |-> q, n |-> n]]
          /\ \A i, j \in Texts(kind) : i < j => Of(entries[i]) < Of(entries[j])
          /\ \A q \in DOMAIN said : said[q][kind] > 0 =>
                (q \in discarded \/ \E i \in Texts(kind) : Of(entries[i]) = q)
    /\ \A i \in DOMAIN entries : entries[i].kind = "tool" => entries[i].status = calls[entries[i].call]

\* A run's answer is on the page when the run has finished: one that was streamed
\* as chunks, or else the result its agent.finished carries.
AnswerIsShown == \A q \in finished \ discarded : \E i \in Texts("assistant") : Of(entries[i]) = q
=============================================================================
