------------------------------ MODULE Settings ------------------------------
(***************************************************************************)
(* config.toml and those who rewrite it: the settings editor of a browser, *)
(* the MCP endpoints and the tool toggles of the running sessions. Each    *)
(* reads the document, with its secrets redacted or not, changes its part, *)
(* and writes the whole document back; _merge_secrets puts back what the   *)
(* reader could not see. One request is one step: nothing awaits between   *)
(* the read and the atomic replacement of the file.                        *)
(***************************************************************************)
EXTENDS Naturals, Sequences, SequencesExt

CONSTANTS Names,     \* MCP servers
          Form,      \* how the user's file lists them: "table" or "array" of tables
          Tools,     \* tools a session may switch off
          Sessions, Tabs,
          MaxWrites  \* bound

VARIABLES disk,      \* config.toml: form, servers (in order), mcp.enabled, tools.disabled
          tabs,      \* per settings editor: the document it holds and whether that is still current
          toggles,   \* per session: ToolToggle's disabled names
          writes     \* bound; also the number of the last token typed

settingsVars == <<disk, tabs, toggles, writes>>

None     == 0        \* no token
REDACTED == 100      \* "***"; tokens are 1, 2, ...
Closed   == [open |-> FALSE]

\* extras: the fields the MCP endpoints do not render (prefix, timeouts); usable: a
\* command or an address is given.
Server(n, token, extras) == [name |-> n, token |-> token, extras |-> extras, usable |-> TRUE]
Order == CHOOSE s \in [1..2 -> Names] : s[1] # s[2]

Init == /\ disk = [form |-> Form, servers |-> <<Server(Order[1], 1, TRUE), Server(Order[2], 2, FALSE)>>,
                   enabled |-> TRUE, disabled |-> {}]
        /\ tabs = [t \in Tabs |-> Closed] /\ toggles = [s \in Sessions |-> {}] /\ writes = 2

-----------------------------------------------------------------------------
(* redact and _merge_secrets *)

redact(doc) == [doc EXCEPT !.servers = [i \in DOMAIN @ |->
                   [@[i] EXCEPT !.token = IF @ = None THEN None ELSE REDACTED]]]

\* The stored value wins over the placeholder and over a secret that is missing.
Restored(server, stored) == IF server.token \in {REDACTED, None} THEN [server EXCEPT !.token = stored.token] ELSE server

\* Tables are merged by key, arrays by position; a table and an array not at all.
MutantMerged(doc, stored) ==
    [doc EXCEPT !.servers = [i \in DOMAIN @ |->
        IF i \in DOMAIN stored.servers THEN Restored(@[i], stored.servers[i]) ELSE @[i]]]
Merged(doc, stored) ==
    LET At(i) == IF doc.form # stored.form THEN {}
                 ELSE IF doc.form = "array" THEN {i} \cap DOMAIN stored.servers
                 ELSE {j \in DOMAIN stored.servers : stored.servers[j].name = doc.servers[i].name}
        Entry(i) == IF At(i) = {} THEN doc.servers[i]
                    ELSE Restored(doc.servers[i], stored.servers[CHOOSE j \in At(i) : TRUE])
    IN  [doc EXCEPT !.servers = [i \in DOMAIN @ |-> Entry(i)]]

\* Validated, backed up and replaced; no editor holds the current document any more.
Write(doc) == /\ writes < MaxWrites /\ writes' = writes + 1
              /\ disk' = Merged(doc, disk)
Outdated(ts) == [t \in Tabs |-> IF ts[t].open THEN [ts[t] EXCEPT !.fresh = FALSE] ELSE ts[t]]

-----------------------------------------------------------------------------
(* The settings editor *)

Open(t) == /\ tabs' = [tabs EXCEPT ![t] = [open |-> TRUE, doc |-> redact(disk), fresh |-> TRUE]]
           /\ UNCHANGED <<disk, toggles, writes>>

\* What its user may do to the document: nothing of interest here (another
\* setting), drop a server, type a token, leave the command out or put one in.
Edits == [kind : {"other"}, name : {"-"}] \cup [kind : {"drop", "type", "break", "mend"}, name : Names]
Edited(doc, e) ==
    CASE e.kind = "drop" -> [doc EXCEPT !.servers = SelectSeq(@, LAMBDA s : s.name # e.name)]
      [] e.kind = "type" -> [doc EXCEPT !.servers = [i \in DOMAIN @ |->
                                IF @[i].name = e.name THEN [@[i] EXCEPT !.token = writes + 1] ELSE @[i]]]
      [] e.kind \in {"break", "mend"} ->
            [doc EXCEPT !.servers = [i \in DOMAIN @ |->
                IF @[i].name = e.name THEN [@[i] EXCEPT !.usable = (e.kind = "mend")] ELSE @[i]]]
      [] OTHER -> doc

\* PUT /api/settings/config.toml: the editor then holds what was stored, redacted.
Save(t, e) ==
    /\ tabs[t].open /\ Write(Edited(tabs[t].doc, e))
    /\ tabs' = [Outdated(tabs) EXCEPT ![t] = [open |-> TRUE, doc |-> redact(disk'), fresh |-> TRUE]]
    /\ UNCHANGED toggles

\* The document would not load: 422, and nothing is replaced.
SaveInvalid(t) == tabs[t].open /\ UNCHANGED settingsVars

-----------------------------------------------------------------------------
(* The MCP endpoints render [mcp] anew from the parsed configuration *)

\* ConfigLoader passes over an entry that could not be started, and so do they.
Parsed == SelectSeq(disk.servers, LAMBDA s : s.usable)

mcpTable(servers, enabled) ==
    [redact(disk) EXCEPT !.form = "table", !.enabled = enabled,
                         !.servers = [i \in DOMAIN servers |-> [servers[i] EXCEPT !.extras = FALSE]]]
Persist(servers, enabled) == /\ Write(mcpTable(servers, enabled)) /\ tabs' = Outdated(tabs) /\ UNCHANGED toggles

Has(n) == \E i \in DOMAIN Parsed : Parsed[i].name = n

\* POST servers: without headers in the request the stored ones are kept.
UpsertServer(n, typed) ==
    LET token(old) == IF typed THEN writes + 1 ELSE old
    IN  Persist(IF Has(n) THEN [i \in DOMAIN Parsed |-> IF Parsed[i].name # n THEN Parsed[i]
                                ELSE [Parsed[i] EXCEPT !.token = token(@)]]
                ELSE Append(Parsed, Server(n, token(None), FALSE)), TRUE)

DeleteServer(n) == Has(n) /\ Persist(SelectSeq(Parsed, LAMBDA s : s.name # n), disk.enabled)

\* POST enabled: switching MCP off leaves the servers out of the table it writes.
SetEnabled(on) == Persist(IF on THEN Parsed ELSE <<>>, on)

-----------------------------------------------------------------------------
(* Tool toggles: a session starts from the stored set and writes its own *)

StartSession(s) == toggles' = [toggles EXCEPT ![s] = disk.disabled] /\ UNCHANGED <<disk, tabs, writes>>

SetToolEnabled(s, tool, on) ==
    /\ toggles' = [toggles EXCEPT ![s] = IF on THEN @ \ {tool} ELSE @ \cup {tool}]
    /\ Write([redact(disk) EXCEPT !.disabled = toggles'[s]])
    /\ tabs' = Outdated(tabs)

Next == \/ \E t \in Tabs : Open(t) \/ SaveInvalid(t) \/ \E e \in Edits : Save(t, e)
        \/ \E n \in Names : DeleteServer(n) \/ \E typed \in BOOLEAN : UpsertServer(n, typed)
        \/ \E on \in BOOLEAN : SetEnabled(on)
        \/ \E s \in Sessions : StartSession(s) \/ \E tool \in Tools, on \in BOOLEAN : SetToolEnabled(s, tool, on)
Spec == Init /\ [][Next]_settingsVars

-----------------------------------------------------------------------------
Tokens(n) == {Parsed[i].token : i \in {j \in DOMAIN Parsed : Parsed[j].name = n}} \ {None}
About(n) == \/ \E t \in Tabs, e \in Edits : Save(t, e) /\ (~tabs[t].fresh \/ e.name = n)
            \/ DeleteServer(n) \/ UpsertServer(n, TRUE) \/ SetEnabled(FALSE)

\* A write that is not about a server leaves its token as it is, whoever writes the
\* document and however little of it he could see: no token is lost, turned into
\* the placeholder or given to another server. (A stale editor overwrites what
\* was written since it was opened, and switching MCP off is for ServersKept; an
\* entry without a command is not a server, and the MCP endpoints drop it.)
KeepsTokens == \A n \in Names : Tokens(n) # {} /\ ~About(n) => Tokens(n)' = Tokens(n)
TokensKept == [][KeepsTokens]_settingsVars

\* Switching MCP off and on only toggles [mcp] enabled: it keeps every definition that works.
ServersKept == [][\A on \in BOOLEAN : SetEnabled(on) => Len(disk'.servers) >= Len(Parsed)]_settingsVars
=============================================================================
