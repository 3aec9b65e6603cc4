------------------------------ MODULE Services ------------------------------
(***************************************************************************)
(* The components around a session that share no state with one another,   *)
(* checked side by side: a behaviour picks one of them and is a behaviour  *)
(* of that component; the others stay as they start. The registry comes    *)
(* with its module, the rest are instances with variables of their own.    *)
(***************************************************************************)
EXTENDS SessionRegistry, Sequences

\* The constants of the components, each under the name of the component it belongs
\* to where two of them use one name.
CONSTANTS PoolSessions, MaxEntries,                                  \* McpPool
          ClientCalls, MaxProcesses,                                 \* McpClient
          Servers, ToolRequests, Versions, MaxClients, MaxToolRequests,    \* McpTools
          PluginNames, PluginTools, Brings, DisabledPlugins,         \* Plugins
          SkillNames, FromPlugin,                                    \* Skills
          Catalog, SubRequests, ParentTools, VramBudget, SingleModel, Escalation,
          MaxDelegations,                                            \* Subagents
          Signatures, MaxFailures, MaxSuccesses, MaxCycles, MaxToolCalls,
          MaxPromptTokens, MaxIterations, MaxLoopRuns, MaxLoopBatch, \* LoopGuards
          Sizes, Available, Reserved, FixedSizes, StoredNotes, Pages, Pasts, NoticeCost,
          MaxMessages, MaxCallBatch, MaxSaid,                        \* ContextWindow
          Prompts, Site, Assets, MaxRedirects, CrawlStarts, CrawlPolicy, MaxItems,
          MaxResults,                                                \* Research
          Kids, MaxPageRuns, MaxPageRequests, MaxChunks, MaxPageCalls,     \* Transcript
          SettingsNames, Form, SettingsTools, SettingsSessions, Tabs, MaxWrites,  \* Settings
          MaxTuiRuns, MaxTuiRequests,                                \* TerminalUI
          StatsSessions, StatsTools, MaxEvents, MaxStatsRuns, MaxStatsFaults,     \* ToolStats
          Processes, Tasks, Boards, Keys, Values, Tags, KeyWords, Place, TailMessages,
          SnapshotLimit, Objectives, Dialogues, MaxNotes,            \* Memory
          MaxTurnCalls, MaxTexts, MaxKills                           \* Restore

\* The configuration names finitely many servers; 0 stands for a server without an entry.
ASSUME ToolsAssumption == IsFiniteSet(Servers) /\ Versions # {} /\ 0 \notin Versions

\* Plugins have names (the model writes "none" for a tool nobody owns).
ASSUME PluginsAssumption ==
    /\ Brings \in [PluginNames -> SUBSET PluginTools]
    /\ "none" \notin PluginNames

\* Every creator of an agent leaves max_identical_failures at its default of 2.
ASSUME LoopAssumption == MaxFailures \in Nat \ {0} /\ MaxLoopBatch \in Nat

\* A request has the fields of SubagentTask, and no model is called "none", which
\* stands for Python's None.
TaskFields == {"role", "capability", "model", "power", "complexity", "minContext", "tools"}
ASSUME SubAssumption ==
    /\ \A r \in SubRequests : DOMAIN r = TaskFields /\ r.model # "none"
    /\ \A m \in Catalog : m.name # "none"

\* The statistics are of finitely many sessions and tools.
ASSUME StatsAssumption == IsFiniteSet(StatsSessions) /\ IsFiniteSet(StatsTools)

VARIABLES part,   \* the component this behaviour is about
          pool_entry, pool_shared, pool_claims, pool_gone, pool_escaped,
          client_process, client_started, client_reading, client_exited, client_call,
          client_waiters, client_lastId, client_answers,
          tools_entries, tools_clients, tools_owned, tools_registry, tools_known,
          tools_disabled, tools_open, tools_made, tools_request, tools_shut,
          tools_served, tools_switched, tools_overlapped, tools_unapplied,
          plugins_state, plugins_owner, plugins_tracked,
          skills_files, skills_catalog, skills_scanned, skills_loaded, skills_active,
          skills_pinned, skills_applied, skills_stored, skills_byAgent, skills_partial,
          sub_call, sub_loaded, sub_resident, sub_locked, sub_nested, sub_calls,
          sub_disturbed,
          loop_at, loop_iteration, loop_run, loop_used, loop_tokens, loop_batch,
          loop_offered, loop_failures, loop_repeats, loop_recent, loop_cycles,
          loop_cycling, loop_repeatDetected, loop_repeatedSuccess, loop_streak,
          loop_circled,
          context_dialogue, context_phase, context_owed, context_request,
          context_window, context_said,
          research_contract, research_crawl, research_coverage, research_done, research_evidence,
          research_counter, research_baseline, research_attempt, research_discarded,
          research_rounds,
          page_entries, page_blocks, page_runs, page_ids, page_actor, page_counter,
          page_said, page_calls, page_discarded, page_finished, page_started,
          settings_disk, settings_tabs, settings_toggles, settings_writes,
          tui_ui, tui_approval, tui_pending, tui_actor, tui_remembered, tui_said,
          tui_calls, tui_homes, tui_finished, tui_decisions, tui_runsMade, tui_cleared,
          stats_phase, stats_usage, stats_approval, stats_open, stats_waiting, stats_late,
          stats_rows, stats_decisions, stats_ended, stats_missed, stats_events, stats_runs,
          stats_faults,
          memory_at, memory_schema, memory_scratch, memory_rows, memory_writing,
          memory_told, memory_disturbed, memory_cut, memory_met, memory_writes,
          restore_dialogue, restore_used, restore_phase, restore_owed, restore_log,
          restore_said, restore_restarts, restore_apart

poolVars == <<pool_entry, pool_shared, pool_claims, pool_gone, pool_escaped>>
clientVars == <<client_process, client_started, client_reading, client_exited,
                client_call, client_waiters, client_lastId, client_answers>>
toolsVars == <<tools_entries, tools_clients, tools_owned, tools_registry, tools_known,
               tools_disabled, tools_open, tools_made, tools_request, tools_shut,
               tools_served, tools_switched, tools_overlapped, tools_unapplied>>
pluginsVars == <<plugins_state, plugins_owner, plugins_tracked>>
skillsVars == <<skills_files, skills_catalog, skills_scanned, skills_loaded,
                skills_active, skills_pinned, skills_applied, skills_stored,
                skills_byAgent, skills_partial>>
subVars == <<sub_call, sub_loaded, sub_resident, sub_locked, sub_nested, sub_calls,
             sub_disturbed>>
loopVars == <<loop_at, loop_iteration, loop_run, loop_used, loop_tokens, loop_batch,
              loop_offered, loop_failures, loop_repeats, loop_recent, loop_cycles,
              loop_cycling, loop_repeatDetected, loop_repeatedSuccess, loop_streak,
              loop_circled>>
contextVars == <<context_dialogue, context_phase, context_owed, context_request,
                 context_window, context_said>>
researchVars == <<research_contract, research_crawl, research_coverage, research_done, research_evidence,
                  research_counter, research_baseline, research_attempt,
                  research_discarded, research_rounds>>
pageVars == <<page_entries, page_blocks, page_runs, page_ids, page_actor, page_counter,
              page_said, page_calls, page_discarded, page_finished, page_started>>
settingsVars == <<settings_disk, settings_tabs, settings_toggles, settings_writes>>
tuiVars == <<tui_ui, tui_approval, tui_pending, tui_actor, tui_remembered, tui_said,
             tui_calls, tui_homes, tui_finished, tui_decisions, tui_runsMade,
             tui_cleared>>
statsVars == <<stats_phase, stats_usage, stats_approval, stats_open, stats_waiting,
               stats_late, stats_rows, stats_decisions, stats_ended, stats_missed,
               stats_events, stats_runs, stats_faults>>
notesVars == <<memory_at, memory_schema, memory_scratch, memory_rows, memory_writing,
               memory_told, memory_disturbed, memory_cut, memory_met, memory_writes>>
restoreVars == <<restore_dialogue, restore_used, restore_phase, restore_owed,
                 restore_log, restore_said, restore_restarts, restore_apart>>

Pool == INSTANCE McpPool WITH
    Sessions <- PoolSessions, entry <- pool_entry,
    shared <- pool_shared, claims <- pool_claims, gone <- pool_gone,
    escaped <- pool_escaped
Client == INSTANCE McpClient WITH
    Calls <- ClientCalls, process <- client_process,
    started <- client_started, reading <- client_reading, exited <- client_exited,
    call <- client_call, waiters <- client_waiters, lastId <- client_lastId,
    answers <- client_answers
Sync == INSTANCE McpTools WITH
    Requests <- ToolRequests, MaxRequests <- MaxToolRequests, entries <- tools_entries,
    clients <- tools_clients, owned <- tools_owned, registry <- tools_registry,
    known <- tools_known, disabled <- tools_disabled, open <- tools_open,
    made <- tools_made, request <- tools_request, shut <- tools_shut,
    served <- tools_served, switched <- tools_switched, overlapped <- tools_overlapped,
    unapplied <- tools_unapplied
Plugins == INSTANCE Plugins WITH
    Names <- PluginNames, ToolNames <- PluginTools, Disabled <- DisabledPlugins,
    state <- plugins_state, owner <- plugins_owner,
    tracked <- plugins_tracked
Skills == INSTANCE Skills WITH
    Names <- SkillNames, files <- skills_files,
    catalog <- skills_catalog, scanned <- skills_scanned, loaded <- skills_loaded,
    active <- skills_active, pinned <- skills_pinned, applied <- skills_applied,
    stored <- skills_stored, byAgent <- skills_byAgent, partial <- skills_partial
Sub == INSTANCE Subagents WITH
    Requests <- SubRequests, Registered <- ParentTools, MaxCalls <- MaxDelegations, call <- sub_call, loaded <- sub_loaded,
    resident <- sub_resident, locked <- sub_locked, nested <- sub_nested,
    calls <- sub_calls, disturbed <- sub_disturbed
Loop == INSTANCE LoopGuards WITH
    MaxRuns <- MaxLoopRuns, MaxBatch <- MaxLoopBatch, at <- loop_at, iteration <- loop_iteration, run <- loop_run,
    used <- loop_used, tokens <- loop_tokens, batch <- loop_batch,
    offered <- loop_offered, failures <- loop_failures, repeats <- loop_repeats,
    recent <- loop_recent, cycles <- loop_cycles, cycling <- loop_cycling,
    repeatDetected <- loop_repeatDetected, repeatedSuccess <- loop_repeatedSuccess,
    streak <- loop_streak, circled <- loop_circled
Context == INSTANCE ContextWindow WITH
    Notes <- StoredNotes, MaxBatch <- MaxCallBatch, dialogue <- context_dialogue, phase <- context_phase, owed <- context_owed,
    request <- context_request, window <- context_window, said <- context_said
Research == INSTANCE Research WITH
    Policy <- CrawlPolicy, Starts <- CrawlStarts, contract <- research_contract,
    crawl <- research_crawl, coverage <- research_coverage, done <- research_done,
    evidence <- research_evidence, counter <- research_counter,
    baseline <- research_baseline, attempt <- research_attempt,
    discarded <- research_discarded, rounds <- research_rounds
Page == INSTANCE Transcript WITH
    MaxRuns <- MaxPageRuns, MaxRequests <- MaxPageRequests, MaxCalls <- MaxPageCalls,
    entries <- page_entries, blocks <- page_blocks, runs <- page_runs, ids <- page_ids,
    actor <- page_actor, counter <- page_counter, said <- page_said,
    calls <- page_calls, discarded <- page_discarded, finished <- page_finished,
    started <- page_started
Settings == INSTANCE Settings WITH
    Names <- SettingsNames, Tools <- SettingsTools, Sessions <- SettingsSessions,
    disk <- settings_disk, tabs <- settings_tabs,
    toggles <- settings_toggles, writes <- settings_writes
Tui == INSTANCE TerminalUI WITH
    MaxRuns <- MaxTuiRuns, MaxRequests <- MaxTuiRequests, MaxCalls <- MaxPageCalls,
    ui <- tui_ui, approval <- tui_approval, pending <- tui_pending, actor <- tui_actor,
    remembered <- tui_remembered, said <- tui_said, calls <- tui_calls,
    homes <- tui_homes, finished <- tui_finished, decisions <- tui_decisions,
    runsMade <- tui_runsMade, cleared <- tui_cleared
Stats == INSTANCE ToolStats WITH
    Sessions <- StatsSessions, Tools <- StatsTools, MaxRuns <- MaxStatsRuns,
    MaxFaults <- MaxStatsFaults, phase <- stats_phase, usage <- stats_usage,
    approval <- stats_approval, open <- stats_open, waiting <- stats_waiting,
    late <- stats_late, rows <- stats_rows, decisions <- stats_decisions,
    ended <- stats_ended, missed <- stats_missed, events <- stats_events,
    runs <- stats_runs, faults <- stats_faults
Memory == INSTANCE Memory WITH
    MaxWrites <- MaxNotes, at <- memory_at, schema <- memory_schema,
    scratch <- memory_scratch, rows <- memory_rows, writing <- memory_writing,
    told <- memory_told, disturbed <- memory_disturbed, cut <- memory_cut,
    met <- memory_met, writes <- memory_writes
\* A policy holds numbers, and so does what a prompt asks for; the links of a page are a
\* list, and nothing is served at what is no URL.
ASSUME ResearchAssumption ==
    /\ CrawlPolicy \in [depth : Int, pages : Int, total : Int, page : Int, links : Int]
    /\ MaxRedirects \in Nat /\ MaxItems \in Nat
    /\ \A p \in Prompts : IsFiniteSet(p.urls) /\ p.pages \in Int /\ p.depth \in Nat \cup {Research!Unsaid}
    /\ Research!NoUrl \notin DOMAIN Site
    /\ \A u \in DOMAIN Site :
          /\ Site[u].kind \in {"html", "text"} => Site[u].bytes \in Nat
          /\ Site[u].kind = "html" =>
                Len(Site[u].links) \in Nat /\ DOMAIN Site[u].links = 1..Len(Site[u].links)
\* Keys and words are finite in number, ORDER BY scope, key is a total order, and the
\* two defaults are positive.
ASSUME MemoryAssumption ==
    /\ IsFiniteSet(Keys)
    /\ \A k \in Keys : IsFiniteSet(KeyWords[k])
    /\ \A v \in Values : IsFiniteSet(v)
    /\ Place \in [Memory!Cells -> Nat]
    /\ \A c, d \in Memory!Cells : Place[c] = Place[d] => c = d
    /\ SnapshotLimit \in Nat /\ TailMessages \in Nat \ {0}
    /\ \A d \in Dialogues : d \in Seq({d[i] : i \in DOMAIN d})

Restore == INSTANCE Restore WITH
    MaxBatch <- MaxTurnCalls, MaxSaid <- MaxTexts, MaxRestarts <- MaxKills,
    dialogue <- restore_dialogue, used <- restore_used, phase <- restore_phase,
    owed <- restore_owed, log <- restore_log, said <- restore_said,
    restarts <- restore_restarts, apart <- restore_apart

Parts == {"registry", "pool", "client", "tools", "plugins", "skills", "sub", "loop",
          "context", "research", "page", "settings", "tui", "stats",
          "memory", "restore"}

ServicesInit ==
    /\ part \in Parts /\ Init
    /\ Pool!Init /\ Client!Init /\ Sync!Init /\ Plugins!Init /\ Skills!Init /\ Sub!Init
    /\ Loop!Init /\ Context!Init /\ Research!Init /\ Page!Init /\ Settings!Init
    /\ Tui!Init /\ Stats!Init /\ Memory!Init /\ Restore!Init

\* Every component but p stands still.
Only(p) ==
    /\ UNCHANGED part
    /\ p # "registry" => UNCHANGED registryVars
    /\ p # "pool" => UNCHANGED poolVars
    /\ p # "client" => UNCHANGED clientVars
    /\ p # "tools" => UNCHANGED toolsVars
    /\ p # "plugins" => UNCHANGED pluginsVars
    /\ p # "skills" => UNCHANGED skillsVars
    /\ p # "sub" => UNCHANGED subVars
    /\ p # "loop" => UNCHANGED loopVars
    /\ p # "context" => UNCHANGED contextVars
    /\ p # "research" => UNCHANGED researchVars
    /\ p # "page" => UNCHANGED pageVars
    /\ p # "settings" => UNCHANGED settingsVars
    /\ p # "tui" => UNCHANGED tuiVars
    /\ p # "stats" => UNCHANGED statsVars
    /\ p # "memory" => UNCHANGED notesVars
    /\ p # "restore" => UNCHANGED restoreVars

ServicesNext ==
    \/ part = "registry" /\ Next /\ Only("registry")
    \/ part = "pool" /\ Pool!Next /\ Only("pool")
    \/ part = "client" /\ Client!Next /\ Only("client")
    \/ part = "tools" /\ Sync!Next /\ Only("tools")
    \/ part = "plugins" /\ Plugins!Next /\ Only("plugins")
    \/ part = "skills" /\ Skills!Next /\ Only("skills")
    \/ part = "sub" /\ Sub!Next /\ Only("sub")
    \/ part = "loop" /\ Loop!Next /\ Only("loop")
    \/ part = "context" /\ Context!Next /\ Only("context")
    \/ part = "research" /\ Research!Next /\ Only("research")
    \/ part = "page" /\ Page!Next /\ Only("page")
    \/ part = "settings" /\ Settings!Next /\ Only("settings")
    \/ part = "tui" /\ Tui!Next /\ Only("tui")
    \/ part = "stats" /\ Stats!Next /\ Only("stats")
    \/ part = "memory" /\ Memory!Next /\ Only("memory")
    \/ part = "restore" /\ Restore!Next /\ Only("restore")

servicesVars == <<part, registryVars, poolVars, clientVars, toolsVars, pluginsVars,
                  skillsVars, subVars, loopVars, contextVars, researchVars, pageVars,
                  settingsVars, tuiVars, statsVars, notesVars, restoreVars>>
ServicesSpec == ServicesInit /\ [][ServicesNext]_servicesVars

-----------------------------------------------------------------------------
(* What the components promise, under their own names *)

PoolIsExact == part = "pool" => Pool!PoolIsExact
ClientIsExact == part = "client" => Client!ClientIsExact
ToolsetIsHonest == part = "tools" => Sync!ToolsetIsHonest
PluginOwnsItsTools == part = "plugins" => Plugins!PluginOwnsItsTools
SkillsAreReachable == part = "skills" => Skills!SkillsAreReachable
SubagentsAreSound == part = "sub" => Sub!SubagentsAreSound
HopelessCallStops == part = "loop" => Loop!HopelessCallStops
RequestIsSound == part = "context" => Context!RequestIsSound
ResearchIsHonest == part = "research" => Research!ResearchIsHonest
TranscriptIsFaithful == part = "page" => Page!TranscriptIsFaithful
TokensKept == [][part = "settings" => Settings!KeepsTokens]_settingsVars
TerminalIsFaithful == part = "tui" => Tui!TerminalIsFaithful
EveryCallIsCounted == part = "stats" => Stats!EveryCallIsCounted
MemoryIsFaithful == part = "memory" => Memory!MemoryIsFaithful
RestoredIsFaithful == part = "restore" => Restore!RestoredIsFaithful
=============================================================================
