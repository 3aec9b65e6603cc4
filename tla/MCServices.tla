----------------------------- MODULE MCServices -----------------------------
(***************************************************************************)
(* Services on small instances of its components.                          *)
(***************************************************************************)
EXTENDS Services, TLC

\* Two plugins claim the tool u; a third is switched off in the configuration.
MCBrings == ("p" :> {"t", "u"}) @@ ("q" :> {"u"}) @@ ("r" :> {"v"})

\* Models that fit the budget of 24 or do not, one that declares nothing it can do,
\* one that is not for code, one whose context size is not stated.
Model(name, usage, quality, speed, capabilities, vram, context) ==
    [name |-> name, usage |-> usage, quality |-> quality, speed |-> speed,
     capabilities |-> capabilities, vram |-> vram, context |-> context,
     thinking |-> usage = 5]
Skill(general, coding) == ("general" :> general) @@ ("coding" :> coding)
MCCatalog == {Model("tiny", 1, 2, "fast", Skill(2, 1), 4, 8), Model("mid", 3, 3, "medium", <<>>, 8, 16),
           Model("odd", 3, 4, "slow", "general" :> 1, 8, -1),
           Model("big", 5, 5, "slow", Skill(5, 5), 16, 32),
           Model("huge", 5, 5, "slow", Skill(5, 5), 80, 32)}
MCSubRequests == [role : {"coder", "helper"}, capability : {"general"}, model : {"auto", "mid", "own"},
                power : {"auto", "low", "high"}, complexity : {"simple", "medium", "complex"},
                minContext : {0, 8}, tools : {{}, {"subagent.run"}}]

\* A site of four pages with a cycle, spelled in more ways than one, with links that
\* leave it, must not be followed or are no pages, and a redirect.
Url(host, port, path) ==
    [scheme |-> "http", host |-> host, port |-> port, path |-> path, login |-> FALSE]
At(path) == [scheme |-> "http", host |-> "site", port |-> "", path |-> path]
Link(url) == [to |-> url, nofollow |-> FALSE]
Html(size, links) == [kind |-> "html", bytes |-> size, links |-> links]
MCSite ==
    (At("/") :> Html(1, <<Link(Url("site", "80", "/b")), Link(Url("else", "", "/b")),
                          Link([Url("site", "", "/b") EXCEPT !.login = TRUE]),
                          [to |-> Url("site", "", "/d"), nofollow |-> TRUE],
                          Link(Url("site", "", "/p.png")), Link(Url("site", "", "/c"))>>))
    @@ (At("/b") :> Html(1, <<Link(Url("site", "", "")), Link(Url("site", "", "/d"))>>))
    @@ (At("/c") :> [kind |-> "redirect", to |-> Url("site", "80", "/b")])
    @@ (At("/d") :> Html(2, <<Link(Url("site", "", "/c"))>>))
    @@ (At("/o") :> [kind |-> "redirect", to |-> Url("else", "", "/b")])
Asks(urls, pages, depth, deep) == [urls |-> urls, pages |-> pages, depth |-> depth, deep |-> deep]
MCPrompts == {Asks({}, 0, 0, TRUE), Asks({Url("site", "", "")}, -1, -1, FALSE),
              Asks({Url("site", "", ""), Url("site", "80", "/b")}, 1, 1, FALSE)}
MCStarts == {Url("site", "80", ""), Url("site", "", "/d"), Url("site", "", "/o")}
MCPolicy == [depth |-> 2, pages |-> 3, total |-> 4, page |-> 3, links |-> 2]

MCNotes == {<<>>, <<1, 3>>}
MCPages == {<<>>, <<3, 1>>}
MCPasts == {<<>>, <<1, 1>>}

\* Values are sets of words; the key says nothing.
MCValues == {{"x"}, {"w"}}
MCKeyWords == [k \in {"k"} |-> {}]
MCPlace == [c \in {"", "t", "b"} \X {"k"} |-> CASE c[1] = "" -> 0 [] c[1] = "b" -> 1 [] OTHER -> 2]
MCObjectives == {{}, {"w"}}
MCDialogues == {<<>>, <<{"x"}>>, <<{"x"}, {"w"}>>}
=============================================================================
