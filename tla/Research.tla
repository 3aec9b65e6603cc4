------------------------------ MODULE Research ------------------------------
(***************************************************************************)
(* web_crawl (WebCrawler.crawl, one fetch at a time), and what becomes of  *)
(* its result: the pages enter the evidence store, the coverage of the     *)
(* current run is merged, and the research contract is judged by it.       *)
(* Evidence outlives runs and restarts, coverage only lasts a run.         *)
(***************************************************************************)
EXTENDS Integers, FiniteSets, Sequences, SequencesExt

CONSTANTS Prompts,      \* what a task asks: urls as written, pages, depth, deep
          Starts,       \* URLs as the model writes them into web_crawl
          Site,         \* canonical URL |-> what the server answers there
          Assets,       \* paths with a suffix that is not crawled
          MaxRedirects, \* WebFetcher
          Policy,       \* WebCrawlPolicy: depth, pages, total, page (bytes), links
          MaxItems,     \* soft limit of EvidenceStore
          MaxResults    \* bound on crawls and runs

VARIABLES contract,  \* ResearchContract of the task, or NoContract
          crawl,     \* the crawl under way: a record, or Nothing
          coverage,  \* ResearchCoverage: fetched, failed, depth
          done,      \* research_completed
          evidence,  \* EvidenceStore._items, oldest first: id, url
          counter,   \* EvidenceStore._counter
          baseline,  \* _attempt_baseline: ids, or Unknown after a restart
          attempt,   \* history: ids added since the baseline was taken
          discarded, \* history: ids of discarded attempts
          rounds     \* bound

taskVars == <<contract, coverage, done>>
storeVars == <<evidence, counter, baseline, attempt, discarded>>
researchVars == <<crawl, taskVars, storeVars, rounds>>

Nothing == [root |-> "none"]
Unknown == {0}                     \* no evidence has number 0
NoCoverage == [fetched |-> {}, failed |-> {}, depth |-> 0]
NoContract == [roots |-> {}, pages |-> 0, depth |-> 0]
Unsaid == -1
ItemIds(ev) == {ev[i].id : i \in DOMAIN ev}

\* What is at the given positions of a sequence, in its order.
Pick(s, keep) ==
    LET at == CHOOSE p \in [1..Cardinality(keep) -> keep] : \A i, j \in DOMAIN p : i < j => p[i] < p[j]
    IN  [i \in DOMAIN at |-> s[at[i]]]

-----------------------------------------------------------------------------
(* URLs and contracts *)

\* A URL as written has a scheme, a host, a port and a path ("" when left out), a
\* fragment and maybe a login; the canonical form is what two spellings share.
NoUrl == [host |-> "none"]
CanonicalUrl(u) ==
    IF u.scheme \notin {"http", "https"} \/ u.host = "" \/ u.login THEN NoUrl
    ELSE [scheme |-> u.scheme, host |-> u.host, path |-> IF u.path = "" THEN "/" ELSE u.path,
          port |-> IF <<u.scheme, u.port>> \in {<<"http", "80">>, <<"https", "443">>} THEN "" ELSE u.port]

ExtractUrls(prompt) == {CanonicalUrl(u) : u \in prompt.urls} \ {NoUrl}

\* What the user asks for, more for a deep question, one page per root at least.
MinPages(prompt) == LET asked == IF prompt.pages # Unsaid THEN Max({1, prompt.pages})
                                 ELSE IF prompt.deep THEN 5 ELSE 1
                    IN  Max({asked, Cardinality(ExtractUrls(prompt))})
MinDepth(prompt) == IF prompt.depth # Unsaid THEN prompt.depth ELSE IF prompt.deep THEN 1 ELSE 0

ExtractResearch(prompt) ==
    IF ExtractUrls(prompt) = {} THEN NoContract
    ELSE [roots |-> ExtractUrls(prompt), pages |-> MinPages(prompt), depth |-> MinDepth(prompt)]

\* ResearchContract.__post_init__ and WebCrawlPolicy.__post_init__ raise otherwise.
ValidContract(c) == c.roots # {} /\ NoUrl \notin c.roots /\ c.pages >= 1 /\ c.depth >= 0
ValidPolicy(p) == p.depth >= 0 /\ \A limit \in {p.pages, p.total, p.page, p.links} : limit >= 1

Init == /\ ValidPolicy(Policy) /\ contract = NoContract
        /\ crawl = Nothing /\ coverage = NoCoverage /\ done = FALSE
        /\ evidence = <<>> /\ counter = 0 /\ baseline = {} /\ attempt = {} /\ discarded = {} /\ rounds = 0

-----------------------------------------------------------------------------
(* One fetch *)

\* One answer of the server: a redirect is followed while it stays on the host, and
\* a URL nothing answers at is an error.
Hop(u, host) ==
    IF u \notin DOMAIN Site \/ Site[u].kind # "redirect" THEN u
    ELSE LET to == CanonicalUrl(Site[u].to) IN IF to.host = host THEN to ELSE NoUrl

\* The links of a page, once each; rel=nofollow and what is no http URL is left out.
\* Only HTML has links.
PageLinks(u) ==
    LET links    == IF Site[u].kind = "html" THEN Site[u].links ELSE <<>>
        to       == [i \in DOMAIN links |-> CanonicalUrl(links[i].to)]
        followed == {i \in DOMAIN links : ~links[i].nofollow /\ to[i] # NoUrl}
    IN  Pick(to, {i \in followed : \A j \in followed : j < i => to[j] # to[i]})

\* What came back: a page under its final URL, whose text is no larger than there
\* is room for, or NoPage.
NoPage == [url |-> NoUrl, bytes |-> 0, links |-> <<>>]
Fetched(u, host, room) ==
    LET at[n \in 0..MaxRedirects] == IF n = 0 THEN u ELSE Hop(at[n - 1], host)
        final == at[MaxRedirects]
    IN  IF final \notin DOMAIN Site \/ Site[final].kind \notin {"html", "text"} \/ Site[final].bytes > room THEN NoPage
        ELSE [url |-> final, bytes |-> Site[final].bytes, links |-> PageLinks(final)]

-----------------------------------------------------------------------------
(* One crawl *)

StartCrawl(start) ==
    LET root == CanonicalUrl(start) IN
    /\ crawl = Nothing /\ root # NoUrl /\ rounds < MaxResults /\ rounds' = rounds + 1
    /\ crawl' = [root |-> root, queue |-> <<[url |-> root, depth |-> 0]>>, queued |-> {root}, attempted |-> {},
                 pages |-> <<>>, failed |-> {}, bytes |-> 0, byteLimit |-> FALSE, pageLimit |-> FALSE]
    /\ UNCHANGED <<taskVars, storeVars>>

More(c) == c.queue # <<>> /\ Cardinality(c.attempted) < Policy.pages /\ c.bytes < Policy.total

\* _select_links: the first links of the root's host that may be pages.
Selected(links, host) ==
    LET chosen == Pick(links, {i \in DOMAIN links : links[i].host = host /\ links[i].path \notin Assets})
    IN  SubSeq(chosen, 1, Min({Len(chosen), Policy.links}))

\* The links of a page that are new join the queue until attempted and queued pages
\* are as many as the crawl may visit.
New(c, links) == Pick(links, {i \in DOMAIN links : links[i] \notin c.attempted \cup c.queued})
Joining(c, links) ==
    LET room == Max({0, Policy.pages - Cardinality(c.attempted) - Len(c.queue)})
    IN  SubSeq(New(c, links), 1, Min({Len(New(c, links)), room}))
Joined(c, links, depth) ==
    [c EXCEPT !.queued = @ \cup ToSet(Joining(c, links)),
              !.queue = @ \o [i \in DOMAIN Joining(c, links) |-> [url |-> Joining(c, links)[i], depth |-> depth]]]
MutantEnqueue(c, links, depth) == Joined(c, links, depth)
Enqueue(c, links, depth) ==
    [Joined(c, links, depth) EXCEPT !.pageLimit = @ \/ Len(Joining(c, links)) < Len(New(c, links))]

Visit(fails) ==
    /\ crawl # Nothing /\ More(crawl)
    /\ LET at    == Head(crawl.queue)
           room  == Min({Policy.page, Policy.total - crawl.bytes})
           page  == IF fails THEN NoPage ELSE Fetched(at.url, crawl.root.host, room)
           tried == [crawl EXCEPT !.queue = Tail(@), !.attempted = @ \cup {at.url}]
           read  == [tried EXCEPT !.pages = Append(@, [url |-> page.url, depth |-> at.depth]), !.bytes = @ + page.bytes]
       IN  crawl' = IF page = NoPage THEN [tried EXCEPT !.failed = @ \cup {at.url}]
                    ELSE IF at.depth >= Policy.depth THEN read
                    ELSE Enqueue(read, Selected(page.links, crawl.root.host), at.depth + 1)
    /\ UNCHANGED <<taskVars, storeVars, rounds>>

Finished(c) == [c EXCEPT !.pageLimit = @ \/ (c.queue # <<>> /\ Cardinality(c.attempted) >= Policy.pages),
                         !.byteLimit = @ \/ (c.queue # <<>> /\ c.bytes >= Policy.total)]

\* The tool's time limit, an error, or an output cut by the executor: what is left
\* does not parse, and nothing is recorded.
Lost == /\ crawl # Nothing /\ crawl' = Nothing
        /\ UNCHANGED <<taskVars, storeVars, rounds>>

-----------------------------------------------------------------------------
(* store_research_evidence *)

Evict(ev) == SubSeq(ev, IF Len(ev) > MaxItems THEN Len(ev) + 1 - MaxItems ELSE 1, Len(ev))

Merge(cov, c) ==
    LET fetched == cov.fetched \cup {c.pages[i].url : i \in DOMAIN c.pages}
    IN  [fetched |-> fetched,
         failed  |-> (cov.failed \cup c.failed) \ fetched,
         depth   |-> Max({cov.depth} \cup {c.pages[i].depth : i \in DOMAIN c.pages})]

Satisfied(c, cov) == /\ Cardinality(cov.fetched) >= c.pages
                     /\ cov.depth >= c.depth
                     /\ c.roots \subseteq cov.fetched

Record ==
    /\ crawl # Nothing /\ ~More(crawl) /\ crawl' = Nothing
    /\ LET new == [i \in DOMAIN crawl.pages |-> [id |-> counter + i, url |-> crawl.pages[i].url]]
       IN  /\ evidence' = Evict(evidence \o new)
           /\ counter' = counter + Len(new)
           /\ attempt' = attempt \cup ItemIds(new)
    /\ coverage' = Merge(coverage, crawl)
    /\ done' = (done \/ (contract # NoContract /\ Satisfied(contract, coverage')))
    /\ UNCHANGED <<contract, baseline, discarded, rounds>>

-----------------------------------------------------------------------------
(* Runs *)

Afresh == coverage' = NoCoverage /\ done' = FALSE     \* reset_for_run

\* A prompt brings its own contract; the baseline is what the store holds now.
NewRun(prompt) ==
    /\ rounds < MaxResults /\ rounds' = rounds + 1
    /\ contract' = ExtractResearch(prompt)
    /\ crawl' = Nothing /\ Afresh
    /\ baseline' = ItemIds(evidence) /\ attempt' = {}
    /\ UNCHANGED <<evidence, counter, discarded>>

\* regenerate: what the discarded attempt gathered goes (nothing goes after a restart).
MutantRegenerate ==
    /\ rounds < MaxResults /\ rounds' = rounds + 1
    /\ crawl' = Nothing /\ Afresh
    /\ baseline' = ItemIds(evidence) /\ attempt' = {}
    /\ discarded' = IF baseline = Unknown THEN discarded ELSE discarded \cup attempt
    /\ UNCHANGED <<contract, evidence, counter>>
Regenerate ==
    /\ rounds < MaxResults /\ rounds' = rounds + 1
    /\ crawl' = Nothing /\ Afresh
    /\ IF baseline = Unknown THEN UNCHANGED evidence
       ELSE evidence' = Pick(evidence, {i \in DOMAIN evidence : evidence[i].id \in baseline})
    /\ baseline' = ItemIds(evidence') /\ attempt' = {}
    /\ discarded' = IF baseline = Unknown THEN discarded ELSE discarded \cup attempt
    /\ UNCHANGED <<contract, counter>>

\* The store comes back with its counter, as it was saved when the session closed;
\* baseline, coverage and run do not.
Restart == /\ rounds < MaxResults /\ rounds' = rounds + 1
           /\ crawl' = Nothing /\ Afresh
           /\ baseline' = Unknown /\ attempt' = {} /\ contract' = NoContract
           /\ UNCHANGED <<evidence, counter, discarded>>

Next == \/ \E start \in Starts : StartCrawl(start)
        \/ \E fails \in BOOLEAN : Visit(fails)
        \/ \E prompt \in Prompts : NewRun(prompt)
        \/ Record \/ Lost \/ Regenerate \/ Restart
Spec == Init /\ [][Next]_researchVars

-----------------------------------------------------------------------------
\* A crawl says so when it is not complete: without a limit flag every link it
\* selects from a page above the last level was attempted; each page is as deep as
\* the first page that led to it says, neither bound of the policy is passed, and
\* nothing off the root's host is read, whatever links and redirects say.
CrawlIsHonest ==
    crawl # Nothing =>
      LET c == Finished(crawl) IN
        /\ Len(c.pages) <= Policy.pages /\ c.bytes <= Policy.total
        /\ \A i \in DOMAIN c.pages : c.pages[i].url.host = c.root.host
        /\ \A i, j \in DOMAIN c.pages : i < j => c.pages[i].depth <= c.pages[j].depth
        /\ ~More(crawl) /\ ~c.pageLimit /\ ~c.byteLimit =>
              \A i \in DOMAIN c.pages : c.pages[i].depth < Policy.depth =>
                  \A l \in ToSet(Selected(PageLinks(c.pages[i].url), c.root.host)) : l \in c.attempted

\* What the gate counts was fetched in this run and is kept: unless the store was
\* full, every page the contract was satisfied by is among the evidence of this
\* attempt, nothing of a discarded attempt is, and no number is given twice.
EvidenceIsOfThisTask ==
    /\ \A i, j \in DOMAIN evidence : i < j => evidence[i].id < evidence[j].id
    /\ Len(evidence) < MaxItems => coverage.fetched = {evidence[i].url : i \in {k \in DOMAIN evidence : evidence[k].id \in attempt}}
    /\ done => ValidContract(contract) /\ Satisfied(contract, coverage)
    /\ coverage.fetched \cap coverage.failed = {}
    /\ ItemIds(evidence) \cap discarded = {}

\* The two halves of what the gate relies on.
ResearchIsHonest == CrawlIsHonest /\ EvidenceIsOfThisTask
=============================================================================
