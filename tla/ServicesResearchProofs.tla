----------------------- MODULE ServicesResearchProofs ----------------------
(***************************************************************************)
(* What is proved of research, for every site, every prompt, every policy  *)
(* and any number of crawls, runs and restarts: a crawl is honest about    *)
(* what it left out, and the evidence is of this task.  The invariant of a *)
(* crawl is the one of a breadth-first search: what was read is not deeper *)
(* than what waits, what was ever queued was attempted or waits, and what  *)
(* a page leads to was queued unless the crawl says otherwise.             *)
(***************************************************************************)
EXTENDS Services, FiniteSetTheorems, WellFoundedInduction, TLAPS

---------------------------------------------------------------------------
(* Steps and numbers.                                                      *)

(* A step of Services is a step of the research part or leaves it alone.   *)
LEMMA ResearchSteps == [ServicesNext]_servicesVars => [Research!Next]_(Research!researchVars)
BY DEF ServicesNext, Only, servicesVars, researchVars, Research!researchVars,
       Research!taskVars, Research!storeVars

(* The instance counts as FiniteSets does.                                 *)
LEMMA ResearchCounts == \A S : Research!Cardinality(S) = Cardinality(S)
BY DEF Research!Cardinality, Cardinality

(* A set of numbers that is not empty has a least one.                     *)
LEMMA LeastNumber ==
    ASSUME NEW T, T \subseteq Nat, T # {}
    PROVE  \E x \in T : \A y \in T : x <= y
<1>1. IsWellFoundedOn(OpToRel(<, Nat), Nat)
  BY NatLessThanWellFounded
<1>2. \E x \in T : \A y \in T : ~ (<<y, x>> \in OpToRel(<, Nat))
  BY <1>1, WFMin
<1>3. \A x, y \in Nat : x < y => <<x, y>> \in OpToRel(<, Nat)
  BY DEF OpToRel
<1>4. PICK x \in T : \A y \in T : ~ (<<y, x>> \in OpToRel(<, Nat))
  BY <1>2
<1>5. \A y \in T : ~ (y < x)
  BY <1>3, <1>4
<1>6. \A y \in T : x <= y
  BY <1>5
<1> QED  BY <1>6

---------------------------------------------------------------------------
(* Positions of a sequence.                                                *)

(* Positions of a sequence are finitely many.                              *)
LEMMA PositionsAreFinite ==
    ASSUME NEW N \in Nat, NEW S \in SUBSET (1..N)
    PROVE  IsFiniteSet(S) /\ Cardinality(S) \in Nat
BY FS_Interval, FS_Subset, FS_CardinalityType, 1 \in Int, N \in Int

(* An increasing map of as many numbers into a finite set of positions     *)
(* reaches all of it.                                                      *)
LEMMA PositionsReached ==
    ASSUME NEW N \in Nat, NEW S \in SUBSET (1..N),
           NEW s \in [1..Cardinality(S) -> S],
           \A i, j \in DOMAIN s : i < j => s[i] < s[j]
    PROVE  \A n \in S : \E i \in 1..Cardinality(S) : s[i] = n
<1> DEFINE k == Cardinality(S)
<1>1. IsFiniteSet(S) /\ k \in Nat
  BY PositionsAreFinite
<1>2. IsFiniteSet(1..k) /\ Cardinality(1..k) = k
  BY <1>1, FS_Interval, 1 \in Int
<1>3. s \in Injection(1..k, S)
  <2>1. ASSUME NEW i \in 1..k, NEW j \in 1..k, i # j PROVE s[i] # s[j]
    <3>1. i < j \/ j < i
      BY <2>1, <1>1
    <3>2. s[i] < s[j] \/ s[j] < s[i]
      <4>1. i \in DOMAIN s /\ j \in DOMAIN s
        OBVIOUS
      <4> HIDE DEF k
      <4> QED  BY <3>1, <4>1
    <3>3. s[i] \in Nat /\ s[j] \in Nat
      <4>1. s[i] \in S /\ s[j] \in S
        OBVIOUS
      <4>2. \A n \in S : n \in Nat
        OBVIOUS
      <4> QED  BY <4>1, <4>2
    <3> HIDE DEF k
    <3> QED  BY <3>2, <3>3
  <2> QED  BY <2>1 DEF Injection, IsInjective
<1>4. s \in Surjection(1..k, S)
  BY <1>1, <1>2, <1>3, FS_Injection, Zenon
<1> QED  BY <1>4 DEF Surjection

(* Every set of positions can be listed in order.                          *)
LEMMA PositionsListed ==
    ASSUME NEW N \in Nat, NEW S \in SUBSET (1..N)
    PROVE  \E s \in [1..Cardinality(S) -> S] :
              \A i, j \in DOMAIN s : i < j => s[i] < s[j]
<1> DEFINE k == Cardinality(S)
           UpTo(n) == {m \in S : m <= n}
           rank == [n \in S |-> Cardinality(UpTo(n))]
<1>1. IsFiniteSet(S) /\ k \in Nat
  BY PositionsAreFinite
<1>2. IsFiniteSet(1..k) /\ Cardinality(1..k) = k
  BY <1>1, FS_Interval, 1 \in Int
<1>3. \A n \in S : IsFiniteSet(UpTo(n)) /\ Cardinality(UpTo(n)) \in Nat
  BY PositionsAreFinite
<1>4. ASSUME NEW m \in S, NEW n \in S, m < n
      PROVE  Cardinality(UpTo(m)) < Cardinality(UpTo(n))
  <2>0. \A j \in S : j \in Nat
    OBVIOUS
  <2>1. UpTo(m) \subseteq UpTo(n) /\ n \in UpTo(n) /\ n \notin UpTo(m)
    <3>1. \A j \in S : j <= m => j <= n
      BY <1>4, <2>0
    <3>2. n <= n /\ ~(n <= m)
      BY <1>4, <2>0
    <3> QED  BY <3>1, <3>2
  <2>2. UpTo(m) # UpTo(n)
    BY <2>1
  <2> HIDE DEF UpTo
  <2> QED  BY <1>3, <2>1, <2>2, FS_Subset
<1>5. ASSUME NEW n \in S PROVE Cardinality(UpTo(n)) \in 1..k
  <2>1. UpTo(n) \subseteq S /\ UpTo(n) # {}
    BY <1>5
  <2>2. Cardinality(UpTo(n)) <= k /\ Cardinality(UpTo(n)) # 0
    <3> HIDE DEF UpTo
    <3> QED  BY <1>1, <1>3, <2>1, FS_Subset, FS_EmptySet
  <2> HIDE DEF UpTo, k
  <2> QED  BY <1>1, <1>3, <2>2
<1>6. rank \in Injection(S, 1..k)
  <2>1. rank \in [S -> 1..k]
    BY <1>5
  <2>2. ASSUME NEW m \in S, NEW n \in S, m # n PROVE rank[m] # rank[n]
    <3>1. m < n \/ n < m
      BY <2>2
    <3>2. rank[m] < rank[n] \/ rank[n] < rank[m]
      BY <1>4, <3>1
    <3>3. rank[m] \in Nat /\ rank[n] \in Nat
      BY <1>3
    <3> HIDE DEF rank
    <3> QED  BY <3>2, <3>3
  <2> HIDE DEF rank
  <2> QED  BY <2>1, <2>2 DEF Injection, IsInjective
<1>7. rank \in Surjection(S, 1..k)
  <2> HIDE DEF rank
  <2> QED  BY <1>1, <1>2, <1>6, FS_Injection, Zenon
<1>8. \A i \in 1..k : \E n \in S : rank[n] = i
  <2> HIDE DEF rank, k
  <2> QED  BY <1>7 DEF Surjection
<1> DEFINE s == [i \in 1..k |-> CHOOSE n \in S : rank[n] = i]
<1>9. ASSUME NEW i \in 1..k PROVE s[i] \in S /\ rank[s[i]] = i
  <2> HIDE DEF rank, k
  <2> QED  BY <1>8
<1>10. ASSUME NEW i \in 1..k, NEW j \in 1..k, i < j PROVE s[i] < s[j]
  <2>1. s[i] \in S /\ rank[s[i]] = i /\ s[j] \in S /\ rank[s[j]] = j
    BY <1>9
  <2>2. PICK a \in S, b \in S : a = s[i] /\ b = s[j] /\ rank[a] = i /\ rank[b] = j
    BY <2>1
  <2>3. a # b /\ ~(b < a)
    <3>1. b < a => rank[b] < rank[a]
      BY <1>4
    <3> HIDE DEF rank, s, k
    <3> QED  BY <2>2, <3>1, <1>10, <1>1
  <2>4. a \in Nat /\ b \in Nat
    OBVIOUS
  <2>5. a < b
    BY <2>3, <2>4
  <2> QED  BY <2>2, <2>5
<1>11. s \in [1..k -> S]
  <2> HIDE DEF rank, k
  <2> QED  BY <1>9
<1>12. DOMAIN s = 1..k
  OBVIOUS
<1> HIDE DEF s
<1> QED  BY <1>10, <1>11, <1>12

(* at lists the k positions of keep in order, and r is what is there.      *)
Lists(at, r, s, keep, k) ==
    /\ at \in [1..k -> keep]
    /\ \A i, j \in 1..k : i < j => at[i] < at[j]
    /\ \A n \in keep : \E i \in 1..k : at[i] = n
    /\ r = [i \in 1..k |-> s[at[i]]]

(* What is picked: as many elements as positions, in their order.          *)
LEMMA PickIs ==
    ASSUME NEW N \in Nat, NEW keep \in SUBSET (1..N), NEW s
    PROVE  \E at : Lists(at, Research!Pick(s, keep), s, keep, Cardinality(keep))
<1> DEFINE k == Research!Cardinality(keep)
           at == CHOOSE p \in [1..k -> keep] : \A i, j \in DOMAIN p : i < j => p[i] < p[j]
<1>1. k = Cardinality(keep)
  BY ResearchCounts
<1>2. Research!Pick(s, keep) = [i \in DOMAIN at |-> s[at[i]]]
  BY DEF Research!Pick
<1> HIDE DEF k
<1>3. \E p \in [1..k -> keep] : \A i, j \in DOMAIN p : i < j => p[i] < p[j]
  BY <1>1, PositionsListed, Zenon
<1>4. at \in [1..k -> keep] /\ \A i, j \in DOMAIN at : i < j => at[i] < at[j]
  BY <1>3
<1> HIDE DEF at
<1>5. \A n \in keep : \E i \in 1..k : at[i] = n
  <2>1. at \in [1..Cardinality(keep) -> keep]
    BY <1>1, <1>4, Zenon
  <2>2. \A n \in keep : \E i \in 1..Cardinality(keep) : at[i] = n
    BY <1>4, <2>1, PositionsReached
  <2> QED  BY <1>1, <2>2, Zenon
<1>6. DOMAIN at = 1..k
  BY <1>4
<1>7. Research!Pick(s, keep) = [i \in 1..k |-> s[at[i]]]
  BY <1>2, <1>6, Zenon
<1>8. \A i, j \in 1..k : i < j => at[i] < at[j]
  BY <1>4, <1>6, Zenon
<1>9. Lists(at, Research!Pick(s, keep), s, keep, k)
  BY <1>4, <1>5, <1>7, <1>8, Zenon DEF Lists
<1> QED  BY <1>1, <1>9, Zenon

(* It is a sequence of what it was picked from.                            *)
LEMMA PickFrom ==
    ASSUME NEW T, NEW s \in Seq(T), NEW keep \in SUBSET DOMAIN s
    PROVE  /\ Research!Pick(s, keep) \in Seq(T)
           /\ Len(Research!Pick(s, keep)) \in Nat
           /\ \A n \in keep : \E i \in DOMAIN Research!Pick(s, keep) :
                 Research!Pick(s, keep)[i] = s[n]
           /\ \A i \in DOMAIN Research!Pick(s, keep) : \E n \in keep :
                 Research!Pick(s, keep)[i] = s[n]
           /\ \A i, j \in DOMAIN Research!Pick(s, keep) : i < j =>
                 \E m, n \in keep : /\ m < n /\ Research!Pick(s, keep)[i] = s[m]
                                    /\ Research!Pick(s, keep)[j] = s[n]
<1>1. Len(s) \in Nat /\ keep \in SUBSET (1..Len(s)) /\ \A n \in keep : s[n] \in T
  OBVIOUS
<1>2. PICK k \in Nat : k = Cardinality(keep)
  BY <1>1, PositionsAreFinite
<1>3. PICK at : Lists(at, Research!Pick(s, keep), s, keep, k)
  <2>1. \E at : Lists(at, Research!Pick(s, keep), s, keep, Cardinality(keep))
    BY <1>1, PickIs
  <2> QED  BY <1>2, <2>1, Zenon
<1>4. PICK r : r = Research!Pick(s, keep)
  OBVIOUS
<1>5. /\ at \in [1..k -> keep] /\ r = [i \in 1..k |-> s[at[i]]]
      /\ \A i, j \in 1..k : i < j => at[i] < at[j]
      /\ \A n \in keep : \E i \in 1..k : at[i] = n
  BY <1>3, <1>4 DEF Lists
<1>6. r \in Seq(T) /\ DOMAIN r = 1..k /\ Len(r) = k /\ \A i \in 1..k : r[i] = s[at[i]] /\ at[i] \in keep
  <2>1. \A i \in 1..k : at[i] \in keep /\ s[at[i]] \in T
    BY <1>1, <1>5
  <2>2. r \in [1..k -> T]
    BY <1>5, <2>1
  <2> QED  BY <1>5, <2>1, <2>2
<1>7. \A n \in keep : \E i \in DOMAIN r : r[i] = s[n]
  BY <1>5, <1>6
<1>8. \A i \in DOMAIN r : \E n \in keep : r[i] = s[n]
  BY <1>6
<1>9. \A i, j \in DOMAIN r : i < j => \E m, n \in keep : m < n /\ r[i] = s[m] /\ r[j] = s[n]
  BY <1>5, <1>6
<1> QED  BY <1>4, <1>6, <1>7, <1>8, <1>9

---------------------------------------------------------------------------
(* What holds of a crawl and of the evidence.                              *)

(* The URLs a crawl can meet.                                              *)
LinkTargets(u) ==
    IF Site[u].kind = "html"
    THEN {Research!CanonicalUrl(Site[u].links[i].to) : i \in DOMAIN Site[u].links} ELSE {}
Urls == {Research!CanonicalUrl(s) : s \in CrawlStarts} \cup DOMAIN Site
           \cup UNION {LinkTargets(u) : u \in DOMAIN Site}
Visits == [url : Urls, depth : Nat]
Crawls == [root : Urls, queue : Seq(Visits), queued : SUBSET Urls, attempted : SUBSET Urls,
           pages : Seq(Visits), failed : SUBSET Urls, bytes : Nat, byteLimit : BOOLEAN,
           pageLimit : BOOLEAN]

(* The links a crawl follows from a page.                                  *)
Follows(u, c) == Research!ToSet(Research!Selected(Research!PageLinks(u), c.root.host))

(* A page that was read was attempted, and no bound is passed.             *)
Bounded(c) ==
    /\ IsFiniteSet(c.attempted)
    /\ Len(c.pages) <= Cardinality(c.attempted)
    /\ Cardinality(c.attempted) <= CrawlPolicy.pages
    /\ c.bytes <= CrawlPolicy.total

(* What waits is waiting once and was not attempted; what was ever queued  *)
(* was attempted or waits.                                                 *)
Waits(c) ==
    /\ \A i \in DOMAIN c.queue : c.queue[i].url \in c.queued \ c.attempted
    /\ \A i, j \in DOMAIN c.queue : i < j => c.queue[i].url # c.queue[j].url
    /\ c.queued \subseteq c.attempted \cup {c.queue[i].url : i \in DOMAIN c.queue}

(* Nothing read or waiting is off the root's host.                         *)
OnHost(c) ==
    /\ \A i \in DOMAIN c.pages : c.pages[i].url.host = c.root.host
    /\ \A i \in DOMAIN c.queue : c.queue[i].url.host = c.root.host

(* Pages were read, and wait, level by level: what waits is of the level   *)
(* that is being read or of the next.                                      *)
ByLevel(c) ==
    /\ \A i, j \in DOMAIN c.pages : i < j => c.pages[i].depth <= c.pages[j].depth
    /\ \A i \in DOMAIN c.pages, j \in DOMAIN c.queue : c.pages[i].depth <= c.queue[j].depth
    /\ \A i, j \in DOMAIN c.queue : i < j => /\ c.queue[i].depth <= c.queue[j].depth
                                             /\ c.queue[j].depth <= c.queue[i].depth + 1

(* Unless the crawl says that it left some out, every link it follows from *)
(* a page above the last level was queued or attempted.                    *)
FollowsAll(c) ==
    c.pageLimit \/ \A i \in DOMAIN c.pages : c.pages[i].depth < CrawlPolicy.depth =>
                      Follows(c.pages[i].url, c) \subseteq c.attempted \cup c.queued

(* What holds of a crawl under way.                                        *)
CrawlOK(c) == c \in Crawls /\ Bounded(c) /\ Waits(c) /\ OnHost(c) /\ ByLevel(c) /\ FollowsAll(c)

(* The evidence, its numbers, and what the gate counts.                    *)
EvidenceTypes ==
    /\ research_evidence \in Seq([id : Nat, url : Urls])
    /\ research_counter \in Nat
    /\ research_coverage \in [fetched : SUBSET Urls, failed : SUBSET Urls, depth : Nat]
    /\ IsFiniteSet(research_coverage.fetched)
    /\ research_attempt \subseteq 1..research_counter
    /\ research_discarded \subseteq 1..research_counter
    /\ research_baseline \subseteq 0..research_counter
    /\ \A i \in DOMAIN research_evidence : research_evidence[i].id \in 1..research_counter

(* The URLs of the evidence this attempt gathered.                         *)
Gathered(ev, ids) == {ev[i].url : i \in {k \in DOMAIN ev : ev[k].id \in ids}}

(* A contract asks for pages and a depth, or there is none.                *)
ContractOK(c) ==
    c = Research!NoContract \/ (Research!ValidContract(c) /\ c.pages \in Int /\ c.depth \in Int)

(* Numbers grow; what this attempt gathered is not of the baseline, and    *)
(* what an attempt gathered that was discarded is gone.                    *)
EvidenceOK ==
    /\ EvidenceTypes
    /\ \A i, j \in DOMAIN research_evidence :
          i < j => research_evidence[i].id < research_evidence[j].id
    /\ research_baseline \cap research_attempt = {}
    /\ \A i \in DOMAIN research_evidence : research_evidence[i].id \notin research_discarded
    /\ Len(research_evidence) < MaxItems =>
          research_coverage.fetched = Gathered(research_evidence, research_attempt)
    /\ research_coverage.fetched \cap research_coverage.failed = {}
    /\ ContractOK(research_contract)
    /\ research_done => /\ research_contract # Research!NoContract
                        /\ Research!Satisfied(research_contract, research_coverage)

(* The invariant of the component.                                         *)
ResearchInv ==
    /\ Research!ValidPolicy(CrawlPolicy)
    /\ research_crawl = Research!Nothing \/ CrawlOK(research_crawl)
    /\ EvidenceOK

---------------------------------------------------------------------------
(* The links of a page.                                                    *)

(* The least and the greatest of two numbers.                              *)
LEMMA LeastOfTwo ==
    ASSUME NEW a \in Int, NEW b \in Int
    PROVE  /\ Research!Min({a, b}) \in {a, b}
           /\ Research!Min({a, b}) <= a /\ Research!Min({a, b}) <= b
<1>1. \E x \in {a, b} : \A y \in {a, b} : x <= y
  BY DEF Research!Min
<1> QED  BY <1>1 DEF Research!Min

(* The larger of two numbers.                                              *)
LEMMA GreatestOfTwo ==
    ASSUME NEW a \in Int, NEW b \in Int
    PROVE  /\ Research!Max({a, b}) \in {a, b}
           /\ Research!Max({a, b}) >= a /\ Research!Max({a, b}) >= b
<1>1. \E x \in {a, b} : \A y \in {a, b} : x >= y
  OBVIOUS
<1> QED  BY <1>1 DEF Research!Max

(* A list that names nothing twice.                                        *)
Distinct(s) == \A i, j \in DOMAIN s : i < j => s[i] # s[j]

(* A page lists the URLs it links to, each of them once.                   *)
LEMMA PageLinksAre ==
    ASSUME NEW u \in DOMAIN Site
    PROVE  Research!PageLinks(u) \in Seq(Urls) /\ Distinct(Research!PageLinks(u))
<1> DEFINE links == IF Site[u].kind = "html" THEN Site[u].links ELSE <<>>
           to == [i \in DOMAIN links |-> Research!CanonicalUrl(links[i].to)]
           followed == {i \in DOMAIN links : ~links[i].nofollow /\ to[i] # Research!NoUrl}
           keep == {i \in followed : \A j \in followed : j < i => to[j] # to[i]}
<1>1. Research!PageLinks(u) = Research!Pick(to, keep)
  BY DEF Research!PageLinks
<1>2. to \in Seq(Urls)
  <2>1. PICK n \in Nat : DOMAIN links = 1..n
    <3>1. CASE Site[u].kind = "html"
      BY <3>1, ResearchAssumption
    <3>2. CASE Site[u].kind # "html"
      <4>1. links = <<>>
        BY <3>2
      <4>2. DOMAIN links = 1..0
        BY <4>1
      <4> QED  BY <4>2
    <3> QED  BY <3>1, <3>2
  <2>2. \A i \in DOMAIN links : Research!CanonicalUrl(links[i].to) \in Urls
    <3> SUFFICES ASSUME NEW i \in DOMAIN links
                 PROVE  Research!CanonicalUrl(links[i].to) \in Urls
      OBVIOUS
    <3>1. Site[u].kind = "html" /\ links = Site[u].links
      BY SMT
    <3>2. Research!CanonicalUrl(links[i].to) \in LinkTargets(u)
      BY <3>1 DEF LinkTargets
    <3> QED  BY <3>2 DEF Urls
  <2> HIDE DEF links
  <2>3. to \in [1..n -> Urls]
    BY <2>1, <2>2
  <2> QED  BY <2>3
<1>3. DOMAIN to = DOMAIN links
  OBVIOUS
<1>4. keep \in SUBSET DOMAIN to
  BY <1>3
<1>5. \A m, n \in keep : m < n => to[m] # to[n]
  <2> HIDE DEF to, links
  <2> QED  OBVIOUS
<1> HIDE DEF to, links, followed, keep
<1>6. PICK r : r = Research!Pick(to, keep)
  OBVIOUS
<1>7. r \in Seq(Urls) /\ \A i, j \in DOMAIN r : i < j => \E m, n \in keep : m < n /\ r[i] = to[m] /\ r[j] = to[n]
  BY <1>2, <1>4, <1>6, PickFrom
<1>8. Distinct(r)
  BY <1>5, <1>7 DEF Distinct
<1> QED  BY <1>1, <1>6, <1>7, <1>8

(* A part of a sequence.                                                   *)
LEMMA PrefixIs ==
    ASSUME NEW T, NEW r \in Seq(T), NEW m \in Int, m <= Len(r)
    PROVE  /\ SubSeq(r, 1, m) \in Seq(T)
           /\ Len(SubSeq(r, 1, m)) = (IF m < 0 THEN 0 ELSE m)
           /\ \A i \in DOMAIN SubSeq(r, 1, m) : i \in DOMAIN r /\ SubSeq(r, 1, m)[i] = r[i]
<1>1. CASE m < 1
  <2>1. SubSeq(r, 1, m) = <<>>
    BY <1>1
  <2> QED  BY <1>1, <2>1
<1>2. CASE m >= 1
  <2>1. SubSeq(r, 1, m) = [i \in 1..m |-> r[i]]
    BY <1>2
  <2>2. \A i \in 1..m : i \in DOMAIN r /\ r[i] \in T
    BY <1>2
  <2>3. PICK q : q = [i \in 1..m |-> r[i]]
    OBVIOUS
  <2>4. q \in [1..m -> T] /\ DOMAIN q = 1..m
    BY <2>2, <2>3
  <2>5. q \in Seq(T) /\ Len(q) = m
    BY <1>2, <2>4
  <2> QED  BY <1>2, <2>1, <2>2, <2>3, <2>4, <2>5
<1> QED  BY <1>1, <1>2

(* What is selected of them is of the host.                                *)
LEMMA SelectedAre ==
    ASSUME NEW s \in Seq(Urls), Distinct(s), NEW host
    PROVE  /\ Research!Selected(s, host) \in Seq(Urls)
           /\ Distinct(Research!Selected(s, host))
           /\ \A i \in DOMAIN Research!Selected(s, host) :
                 Research!Selected(s, host)[i].host = host
<1> DEFINE keep == {i \in DOMAIN s : s[i].host = host /\ s[i].path \notin Assets}
           chosen == Research!Pick(s, keep)
           n == Research!Min({Len(chosen), CrawlPolicy.links})
<1>1. Research!Selected(s, host) = SubSeq(chosen, 1, n)
  BY DEF Research!Selected
<1>2. keep \in SUBSET DOMAIN s /\ \A i \in keep : s[i].host = host
  OBVIOUS
<1> HIDE DEF keep
<1>3. PICK r : r = chosen
  OBVIOUS
<1>4. /\ r \in Seq(Urls)
      /\ \A i \in DOMAIN r : \E m \in keep : r[i] = s[m]
      /\ \A i, j \in DOMAIN r : i < j => \E m, k \in keep : m < k /\ r[i] = s[m] /\ r[j] = s[k]
  BY <1>2, <1>3, PickFrom
<1>5. n \in Int /\ n <= Len(r)
  <2>1. Len(r) \in Int /\ CrawlPolicy.links \in Int
    BY <1>4, ResearchAssumption
  <2> QED  BY <1>3, <2>1, LeastOfTwo
<1>6. PICK m \in Int : m = n /\ m <= Len(r)
  BY <1>5
<1>7. PICK q : q = SubSeq(r, 1, m)
  OBVIOUS
<1>8. q \in Seq(Urls) /\ \A i \in DOMAIN q : i \in DOMAIN r /\ q[i] = r[i]
  BY <1>4, <1>6, <1>7, PrefixIs
<1>9. \A i \in DOMAIN q : q[i].host = host
  BY <1>2, <1>4, <1>8
<1>10. Distinct(q)
  <2>1. Distinct(r)
    BY <1>2, <1>4 DEF Distinct
  <2> QED  BY <1>8, <2>1 DEF Distinct
<1>11. Research!Selected(s, host) = q
  BY <1>1, <1>3, <1>6, <1>7
<1> QED  BY <1>8, <1>9, <1>10, <1>11

---------------------------------------------------------------------------
(* One fetch.                                                              *)

(* The chain of redirects, hop by hop.                                     *)
Chain(f, u, host, n) == f = [k \in 0..n |-> IF k = 0 THEN u ELSE Research!Hop(f[k - 1], host)]

(* There is one of any length: a least n without one would follow one that *)
(* has it.                                                                 *)
LEMMA ChainsExist ==
    ASSUME NEW u, NEW host, NEW n \in Nat
    PROVE  \E f : Chain(f, u, host, n)
<1> DEFINE Bad == {m \in Nat : ~ \E f : Chain(f, u, host, m)}
<1>1. SUFFICES ASSUME Bad # {} PROVE FALSE
  OBVIOUS
<1>2. PICK m \in Bad : \A k \in Bad : m <= k
  <2>1. Bad \subseteq Nat
    OBVIOUS
  <2> HIDE DEF Bad
  <2> QED  BY <1>1, <2>1, LeastNumber
<1>3. CASE m = 0
  <2> DEFINE f == [k \in 0..0 |-> u]
  <2>1. f = [k \in 0..0 |-> IF k = 0 THEN u ELSE Research!Hop(f[k - 1], host)]
    <3>1. \A k \in 0..0 : k = 0
      OBVIOUS
    <3> QED  BY <3>1
  <2>2. Chain(f, u, host, 0)
    BY <2>1 DEF Chain
  <2> QED  BY <1>3, <2>2
<1>4. CASE m # 0
  <2>1. m - 1 \in Nat /\ m - 1 \notin Bad
    BY <1>2, <1>4
  <2>2. PICK g : Chain(g, u, host, m - 1)
    BY <2>1
  <2> DEFINE f == [k \in 0..m |-> IF k = 0 THEN u ELSE Research!Hop(g[k - 1], host)]
  <2>3. \A k \in 0..(m - 1) : f[k] = g[k]
    <3>1. g = [k \in 0..(m - 1) |-> IF k = 0 THEN u ELSE Research!Hop(g[k - 1], host)]
      BY <2>2 DEF Chain
    <3>2. \A k \in 0..(m - 1) : k \in 0..m
      BY <2>1
    <3>3. \A k \in 0..(m - 1) : g[k] = IF k = 0 THEN u ELSE Research!Hop(g[k - 1], host)
      BY <3>1
    <3> QED  BY <3>2, <3>3
  <2>4. \A k \in 0..m : k # 0 => k - 1 \in 0..(m - 1)
    BY <2>1
  <2>5. f = [k \in 0..m |-> IF k = 0 THEN u ELSE Research!Hop(f[k - 1], host)]
    <3>1. \A k \in 0..m : k # 0 => g[k - 1] = f[k - 1]
      BY <2>3, <2>4
    <3>2. \A k \in 0..m : f[k] = IF k = 0 THEN u ELSE Research!Hop(f[k - 1], host)
      <4>1. \A k \in 0..m : f[k] = IF k = 0 THEN u ELSE Research!Hop(g[k - 1], host)
        OBVIOUS
      <4> HIDE DEF f
      <4> QED  BY <3>1, <4>1
    <3>3. f = [k \in 0..m |-> f[k]]
      OBVIOUS
    <3> HIDE DEF f
    <3> QED  BY <3>2, <3>3
  <2>6. Chain(f, u, host, m)
    <3> HIDE DEF f
    <3> QED  BY <2>5 DEF Chain
  <2> QED  BY <1>2, <2>6
<1> QED  BY <1>3, <1>4

(* No chain leaves the host.                                               *)
LEMMA ChainStays ==
    ASSUME NEW u, NEW host, u.host = host, NEW n \in Nat, NEW f, Chain(f, u, host, n)
    PROVE  f[n] = Research!NoUrl \/ f[n].host = host
<1> DEFINE Bad == {k \in 0..n : ~(f[k] = Research!NoUrl \/ f[k].host = host)}
<1>1. SUFFICES ASSUME Bad # {} PROVE FALSE
  OBVIOUS
<1>2. PICK m \in Bad : \A k \in Bad : m <= k
  <2>1. Bad \subseteq Nat
    OBVIOUS
  <2> HIDE DEF Bad
  <2> QED  BY <1>1, <2>1, LeastNumber
<1>3. m \in 0..n /\ f[m] = IF m = 0 THEN u ELSE Research!Hop(f[m - 1], host)
  BY DEF Chain
<1>4. m # 0
  BY <1>2, <1>3
<1>5. m - 1 \in 0..n /\ m - 1 \notin Bad
  BY <1>2, <1>3, <1>4
<1>6. PICK v : v = f[m - 1] /\ (v = Research!NoUrl \/ v.host = host)
  BY <1>5
<1>7. f[m] = Research!Hop(v, host)
  BY <1>3, <1>4, <1>6
<1>8. CASE v \notin DOMAIN Site \/ Site[v].kind # "redirect"
  <2>1. Research!Hop(v, host) = v
    BY <1>8 DEF Research!Hop
  <2> QED  BY <1>2, <1>6, <1>7, <2>1
<1>9. CASE v \in DOMAIN Site /\ Site[v].kind = "redirect"
  <2>1. PICK to : to = Research!CanonicalUrl(Site[v].to)
    OBVIOUS
  <2>2. Research!Hop(v, host) = IF to.host = host THEN to ELSE Research!NoUrl
    BY <1>9, <2>1 DEF Research!Hop
  <2> QED  BY <1>2, <1>7, <2>2
<1> QED  BY <1>8, <1>9

(* The page of the host at v, if it fits.                                  *)
PageOf(page, v, host, room) ==
    /\ v \in DOMAIN Site /\ v.host = host
    /\ Site[v].bytes \in Nat /\ ~(Site[v].bytes > room)
    /\ page = [url |-> v, bytes |-> Site[v].bytes, links |-> Research!PageLinks(v)]

(* What a fetch gives: nothing, or a page of the host that fits.           *)
LEMMA FetchedIs ==
    ASSUME NEW u, NEW host, u.host = host, NEW room
    PROVE  \/ Research!Fetched(u, host, room) = Research!NoPage
           \/ \E v : PageOf(Research!Fetched(u, host, room), v, host, room)
<1> DEFINE at == CHOOSE f : f = [k \in 0..MaxRedirects |-> IF k = 0 THEN u ELSE Research!Hop(f[k - 1], host)]
           v == at[MaxRedirects]
<1>1. MaxRedirects \in Nat
  BY ResearchAssumption
<1>2. \E f : f = [k \in 0..MaxRedirects |-> IF k = 0 THEN u ELSE Research!Hop(f[k - 1], host)]
  <2>1. PICK g : Chain(g, u, host, MaxRedirects)
    BY <1>1, ChainsExist
  <2>2. g = [k \in 0..MaxRedirects |-> IF k = 0 THEN u ELSE Research!Hop(g[k - 1], host)]
    BY <2>1 DEF Chain
  <2> QED  BY <2>2, Zenon
<1>3. at = [k \in 0..MaxRedirects |-> IF k = 0 THEN u ELSE Research!Hop(at[k - 1], host)]
  BY <1>2
<1>4. Research!Fetched(u, host, room) =
        IF v \notin DOMAIN Site \/ Site[v].kind \notin {"html", "text"} \/ Site[v].bytes > room
        THEN Research!NoPage
        ELSE [url |-> v, bytes |-> Site[v].bytes, links |-> Research!PageLinks(v)]
  BY DEF Research!Fetched
<1> HIDE DEF at
<1>5. Chain(at, u, host, MaxRedirects)
  BY <1>3 DEF Chain
<1>6. v = Research!NoUrl \/ v.host = host
  BY <1>1, <1>5, ChainStays
<1> HIDE DEF v
<1>7. CASE v \notin DOMAIN Site \/ Site[v].kind \notin {"html", "text"} \/ Site[v].bytes > room
  BY <1>4, <1>7
<1>8. CASE ~(v \notin DOMAIN Site \/ Site[v].kind \notin {"html", "text"} \/ Site[v].bytes > room)
  <2>1. v \in DOMAIN Site /\ v.host = host
    BY <1>6, <1>8, ResearchAssumption
  <2>2. Site[v].bytes \in Nat
    BY <1>8, <2>1, ResearchAssumption
  <2> QED  BY <1>4, <1>8, <2>1, <2>2 DEF PageOf
<1> QED  BY <1>7, <1>8

---------------------------------------------------------------------------
(* A visit: the head of the queue is attempted.                            *)

(* The head of the queue is taken and counted as attempted.                *)
Tries(c, t) ==
    /\ t \in Crawls /\ t.root = c.root /\ t.queue = Tail(c.queue) /\ t.queued = c.queued
    /\ t.attempted = c.attempted \cup {Head(c.queue).url}
    /\ t.pages = c.pages /\ t.bytes = c.bytes /\ t.pageLimit = c.pageLimit

(* The level d is being read: what was read is not deeper, and what waits  *)
(* is of this level or of the next.                                        *)
AtLevel(c, d) ==
    /\ \A i \in DOMAIN c.pages : c.pages[i].depth <= d
    /\ \A i \in DOMAIN c.queue : d <= c.queue[i].depth /\ c.queue[i].depth <= d + 1

(* What the parts of a crawl are.                                          *)
LEMMA CrawlTypes ==
    ASSUME NEW c \in Crawls
    PROVE  /\ c.root \in Urls /\ c.queue \in Seq(Visits) /\ c.queued \subseteq Urls
           /\ c.attempted \subseteq Urls /\ c.pages \in Seq(Visits) /\ c.bytes \in Nat
           /\ c.pageLimit \in BOOLEAN /\ c.byteLimit \in BOOLEAN /\ c.failed \subseteq Urls
           /\ \A i \in DOMAIN c.queue : c.queue[i] \in Visits /\ c.queue[i].depth \in Nat
           /\ \A i \in DOMAIN c.pages : c.pages[i] \in Visits /\ c.pages[i].depth \in Nat
           /\ Len(c.pages) \in Nat /\ Len(c.queue) \in Nat
<1>1. c.queue \in Seq(Visits) /\ c.pages \in Seq(Visits)
  BY DEF Crawls
<1>2. \A s \in Seq(Visits) : \A i \in DOMAIN s : s[i] \in Visits
  OBVIOUS
<1>3. \A v \in Visits : v.depth \in Nat
  BY DEF Visits
<1> QED  BY <1>1, <1>2, <1>3 DEF Crawls

(* What is left of a list without its head.                                *)
LEMMA TailIs ==
    ASSUME NEW T, NEW s \in Seq(T), s # <<>>
    PROVE  /\ Head(s) = s[1] /\ 1 \in DOMAIN s /\ Tail(s) \in Seq(T)
           /\ \A i \in DOMAIN Tail(s) : i + 1 \in DOMAIN s /\ i + 1 > 1 /\ Tail(s)[i] = s[i + 1]
           /\ \A i \in DOMAIN s : i # 1 => i - 1 \in DOMAIN Tail(s) /\ Tail(s)[i - 1] = s[i]
<1>1. Len(s) \in Nat /\ Len(s) # 0 /\ DOMAIN s = 1..Len(s)
  OBVIOUS
<1>2. /\ Tail(s) \in Seq(T) /\ Len(Tail(s)) = Len(s) - 1 /\ Head(s) = s[1]
      /\ DOMAIN Tail(s) = 1..(Len(s) - 1)
  BY <1>1
<1>3. \A i \in 1..(Len(s) - 1) : Tail(s)[i] = s[i + 1]
  BY <1>1
<1>4. \A i \in 1..(Len(s) - 1) : i + 1 \in 1..Len(s) /\ i + 1 > 1
  BY <1>1
<1>5. \A i \in 1..Len(s) : i # 1 => i - 1 \in 1..(Len(s) - 1) /\ (i - 1) + 1 = i
  BY <1>1
<1> QED  BY <1>1, <1>2, <1>3, <1>4, <1>5

(* It was not attempted before, and what waits behind it still was not.    *)
LEMMA Attempted ==
    ASSUME NEW c, CrawlOK(c), Research!More(c), NEW t, Tries(c, t)
    PROVE  /\ CrawlOK(t) /\ Len(t.pages) < Cardinality(t.attempted)
           /\ Head(c.queue) \in Visits /\ Head(c.queue).url.host = c.root.host
           /\ AtLevel(t, Head(c.queue).depth)
<1>1. c \in Crawls /\ Bounded(c) /\ Waits(c) /\ OnHost(c) /\ ByLevel(c) /\ FollowsAll(c)
  BY DEF CrawlOK
<1>2. PICK q \in Seq(Visits) : q = c.queue /\ q # <<>>
  BY <1>1, CrawlTypes DEF Research!More
<1>3. PICK p \in Seq(Visits) : p = Tail(q)
  BY <1>2, TailIs
<1>4. PICK h : h = Head(q)
  OBVIOUS
<1>5. /\ h = q[1] /\ 1 \in DOMAIN q
      /\ \A i \in DOMAIN p : i + 1 \in DOMAIN q /\ i + 1 > 1 /\ p[i] = q[i + 1]
      /\ \A i \in DOMAIN q : i # 1 => i - 1 \in DOMAIN p /\ p[i - 1] = q[i]
  BY <1>2, <1>3, <1>4, TailIs
<1>6. h \in Visits /\ h.url.host = c.root.host /\ h.url \in c.queued \ c.attempted
  BY <1>1, <1>2, <1>5 DEF OnHost, Waits
<1>7. /\ t \in Crawls /\ t.root = c.root /\ t.queue = p /\ t.queued = c.queued
      /\ t.attempted = c.attempted \cup {h.url}
      /\ t.pages = c.pages /\ t.bytes = c.bytes /\ t.pageLimit = c.pageLimit
  BY <1>2, <1>3, <1>4 DEF Tries
<1>8. Bounded(t) /\ Len(t.pages) < Cardinality(t.attempted)
  <2>1. /\ IsFiniteSet(c.attempted) /\ Len(c.pages) <= Cardinality(c.attempted)
        /\ c.bytes <= CrawlPolicy.total
    BY <1>1 DEF Bounded
  <2>2. Cardinality(c.attempted) < CrawlPolicy.pages
    BY ResearchCounts DEF Research!More
  <2>3. /\ IsFiniteSet(c.attempted \cup {h.url})
        /\ Cardinality(c.attempted \cup {h.url}) = Cardinality(c.attempted) + 1
        /\ Cardinality(c.attempted) \in Nat
    BY <1>6, <2>1, FS_AddElement, FS_CardinalityType
  <2>4. Len(c.pages) \in Nat /\ CrawlPolicy.pages \in Int
    BY <1>1, CrawlTypes, ResearchAssumption
  <2>5. PICK n : n = c.attempted \cup {h.url}
    OBVIOUS
  <2> QED  BY <1>7, <2>1, <2>2, <2>3, <2>4, <2>5 DEF Bounded
<1>9. Waits(t)
  <2>1. \A i \in DOMAIN p : p[i].url \in c.queued \ (c.attempted \cup {h.url})
    <3> SUFFICES ASSUME NEW i \in DOMAIN p
                 PROVE  p[i].url \in c.queued \ c.attempted /\ p[i].url # h.url
      OBVIOUS
    <3>1. i + 1 \in DOMAIN q /\ 1 < i + 1 /\ p[i] = q[i + 1]
      BY <1>5
    <3> QED  BY <1>1, <1>2, <1>5, <3>1 DEF Waits
  <2>2. \A i, j \in DOMAIN p : i < j => p[i].url # p[j].url
    <3> SUFFICES ASSUME NEW i \in DOMAIN p, NEW j \in DOMAIN p, i < j
                 PROVE  p[i].url # p[j].url
      OBVIOUS
    <3>1. /\ i + 1 \in DOMAIN q /\ p[i] = q[i + 1] /\ j + 1 \in DOMAIN q /\ p[j] = q[j + 1]
          /\ i + 1 < j + 1
      BY <1>5
    <3> QED  BY <1>1, <1>2, <3>1 DEF Waits
  <2>3. c.queued \subseteq (c.attempted \cup {h.url}) \cup {p[i].url : i \in DOMAIN p}
    <3> SUFFICES ASSUME NEW u \in c.queued, u \notin c.attempted, u # h.url
                 PROVE  \E i \in DOMAIN p : u = p[i].url
      OBVIOUS
    <3>1. PICK i \in DOMAIN q : u = q[i].url
      BY <1>1, <1>2 DEF Waits
    <3>2. i # 1
      BY <1>5, <3>1
    <3> QED  BY <1>5, <3>1, <3>2
  <2> QED  BY <1>7, <2>1, <2>2, <2>3 DEF Waits
<1>10. OnHost(t)
  <2>1. \A i \in DOMAIN p : p[i].url.host = c.root.host
    BY <1>1, <1>2, <1>5 DEF OnHost
  <2> QED  BY <1>1, <1>7, <2>1 DEF OnHost
<1>11. ByLevel(t)
  <2>1. \A i \in DOMAIN c.pages, j \in DOMAIN p : c.pages[i].depth <= p[j].depth
    BY <1>1, <1>2, <1>5 DEF ByLevel
  <2>2. \A i, j \in DOMAIN p : i < j => p[i].depth <= p[j].depth /\ p[j].depth <= p[i].depth + 1
    <3> SUFFICES ASSUME NEW i \in DOMAIN p, NEW j \in DOMAIN p, i < j
                 PROVE  p[i].depth <= p[j].depth /\ p[j].depth <= p[i].depth + 1
      OBVIOUS
    <3>1. /\ i + 1 \in DOMAIN q /\ p[i] = q[i + 1] /\ j + 1 \in DOMAIN q /\ p[j] = q[j + 1]
          /\ i + 1 < j + 1
      BY <1>5
    <3> QED  BY <1>1, <1>2, <3>1 DEF ByLevel
  <2> QED  BY <1>1, <1>7, <2>1, <2>2 DEF ByLevel
<1>12. FollowsAll(t)
  BY <1>1, <1>7 DEF FollowsAll, Follows
<1>13. AtLevel(t, h.depth)
  <2>1. \A i \in DOMAIN c.pages : c.pages[i].depth <= h.depth
    BY <1>1, <1>2, <1>5 DEF ByLevel
  <2>2. \A i \in DOMAIN p : h.depth <= p[i].depth /\ p[i].depth <= h.depth + 1
    BY <1>1, <1>2, <1>5 DEF ByLevel
  <2> QED  BY <1>7, <2>1, <2>2 DEF AtLevel
<1>14. CrawlOK(t)
  BY <1>7, <1>8, <1>9, <1>10, <1>11, <1>12 DEF CrawlOK
<1> QED  BY <1>2, <1>4, <1>6, <1>8, <1>13, <1>14

---------------------------------------------------------------------------
(* A visit: the page joins.                                                *)

(* A page of the level d joins those that were read.                       *)
Reads(t, r, v, d, b) ==
    /\ r \in Crawls /\ r.root = t.root /\ r.queue = t.queue /\ r.queued = t.queued
    /\ r.attempted = t.attempted /\ r.pages = Append(t.pages, [url |-> v, depth |-> d])
    /\ r.bytes = t.bytes + b /\ r.pageLimit = t.pageLimit

(* Between reading a page and queueing its links all is well but for these. *)
FollowsButLast(c) ==
    c.pageLimit \/ \A i \in DOMAIN c.pages : i # Len(c.pages) /\ c.pages[i].depth < CrawlPolicy.depth =>
                      Follows(c.pages[i].url, c) \subseteq c.attempted \cup c.queued
JustRead(c, v, d) ==
    /\ c \in Crawls /\ Bounded(c) /\ Waits(c) /\ OnHost(c) /\ ByLevel(c) /\ AtLevel(c, d)
    /\ FollowsButLast(c) /\ Len(c.pages) \in DOMAIN c.pages
    /\ c.pages[Len(c.pages)].url = v /\ c.pages[Len(c.pages)].depth = d

(* A list with one element more.                                           *)
LEMMA AppendIs ==
    ASSUME NEW T, NEW s \in Seq(T), NEW e \in T
    PROVE  /\ Append(s, e) \in Seq(T) /\ Len(Append(s, e)) = Len(s) + 1
           /\ Len(s) \in Nat /\ DOMAIN Append(s, e) = 1..(Len(s) + 1) /\ DOMAIN s = 1..Len(s)
           /\ Append(s, e)[Len(s) + 1] = e
           /\ \A i \in 1..Len(s) : Append(s, e)[i] = s[i]
           /\ \A i \in 1..(Len(s) + 1) : i = Len(s) + 1 \/ i \in 1..Len(s)
OBVIOUS

(* The page joins in order, within the bounds and on the host.             *)
LEMMA PageJoins ==
    ASSUME NEW t, CrawlOK(t), Len(t.pages) < Cardinality(t.attempted),
           NEW d \in Nat, AtLevel(t, d), NEW v \in Urls, v.host = t.root.host,
           NEW b \in Nat, t.bytes + b <= CrawlPolicy.total, NEW r, Reads(t, r, v, d, b)
    PROVE  JustRead(r, v, d)
<1>1. t \in Crawls /\ Bounded(t) /\ Waits(t) /\ OnHost(t) /\ ByLevel(t) /\ FollowsAll(t)
  BY DEF CrawlOK
<1>2. PICK p \in Seq(Visits) : p = t.pages
  BY <1>1, CrawlTypes
<1>3. PICK e \in Visits : e = [url |-> v, depth |-> d] /\ e.url = v /\ e.depth = d
  <2>1. [url |-> v, depth |-> d] \in Visits
    BY DEF Visits
  <2> QED  BY <2>1
<1>4. PICK s : s = Append(p, e)
  OBVIOUS
<1>5. PICK n \in Nat : n = Len(p)
  OBVIOUS
<1>6. /\ s \in Seq(Visits) /\ Len(s) = n + 1 /\ DOMAIN s = 1..(n + 1) /\ DOMAIN p = 1..n
      /\ s[n + 1] = e /\ \A i \in 1..n : s[i] = p[i]
      /\ \A i \in 1..(n + 1) : i = n + 1 \/ i \in 1..n
  BY <1>4, <1>5, AppendIs
<1>7. /\ r \in Crawls /\ r.root = t.root /\ r.queue = t.queue /\ r.queued = t.queued
      /\ r.attempted = t.attempted /\ r.pages = s
      /\ r.bytes = t.bytes + b /\ r.pageLimit = t.pageLimit
  BY <1>2, <1>3, <1>4 DEF Reads
<1>8. Bounded(r)
  <2>1. IsFiniteSet(t.attempted) /\ Cardinality(t.attempted) <= CrawlPolicy.pages
    BY <1>1 DEF Bounded
  <2>2. n + 1 <= Cardinality(t.attempted)
    BY <1>2, <1>5, <2>1, FS_CardinalityType
  <2> QED  BY <1>6, <1>7, <2>1, <2>2 DEF Bounded
<1>9. Waits(r)
  BY <1>1, <1>7 DEF Waits
<1>10. OnHost(r)
  <2>1. \A i \in DOMAIN s : s[i].url.host = t.root.host
    BY <1>1, <1>2, <1>3, <1>6 DEF OnHost
  <2> QED  BY <1>1, <1>7, <2>1 DEF OnHost
<1>11. AtLevel(r, d)
  <2>1. \A i \in DOMAIN s : s[i].depth <= d
    BY <1>2, <1>3, <1>6 DEF AtLevel
  <2> QED  BY <1>7, <2>1 DEF AtLevel
<1>12. ByLevel(r)
  <2>1. \A i, j \in DOMAIN s : i < j => s[i].depth <= s[j].depth
    <3> SUFFICES ASSUME NEW i \in DOMAIN s, NEW j \in DOMAIN s, i < j
                 PROVE  s[i].depth <= s[j].depth
      OBVIOUS
    <3>1. i \in 1..n /\ s[i] = p[i]
      BY <1>6
    <3>2. CASE j = n + 1
      BY <1>2, <1>3, <1>6, <3>1, <3>2 DEF AtLevel
    <3>3. CASE j \in 1..n
      BY <1>1, <1>2, <1>6, <3>1, <3>3 DEF ByLevel
    <3> QED  BY <1>6, <3>2, <3>3
  <2>2. \A i \in DOMAIN s, j \in DOMAIN t.queue : s[i].depth <= t.queue[j].depth
    <3> SUFFICES ASSUME NEW i \in DOMAIN s, NEW j \in DOMAIN t.queue
                 PROVE  s[i].depth <= t.queue[j].depth
      OBVIOUS
    <3>1. CASE i = n + 1
      BY <1>3, <1>6, <3>1 DEF AtLevel
    <3>2. CASE i \in 1..n
      BY <1>1, <1>2, <1>6, <3>2 DEF ByLevel
    <3> QED  BY <1>6, <3>1, <3>2
  <2> QED  BY <1>1, <1>7, <2>1, <2>2 DEF ByLevel
<1>13. FollowsButLast(r)
  <2>1. \A i \in DOMAIN s : i # Len(s) => i \in DOMAIN p /\ s[i] = p[i]
    BY <1>6
  <2>2. \A u : Follows(u, r) = Follows(u, t)
    BY <1>7 DEF Follows
  <2> QED  BY <1>1, <1>2, <1>7, <2>1, <2>2 DEF FollowsAll, FollowsButLast
<1>14. Len(s) \in DOMAIN s /\ s[Len(s)] = e
  BY <1>6
<1> QED  BY <1>3, <1>7, <1>8, <1>9, <1>10, <1>11, <1>12, <1>13, <1>14 DEF JustRead

(* On the last level no link is followed.                                  *)
LEMMA LastLevel ==
    ASSUME NEW c, NEW v, NEW d \in Nat, JustRead(c, v, d), d >= CrawlPolicy.depth
    PROVE  CrawlOK(c)
<1>1. CrawlPolicy.depth \in Int
  BY ResearchAssumption
<1>2. FollowsAll(c)
  <2> SUFFICES ASSUME ~c.pageLimit, NEW i \in DOMAIN c.pages, c.pages[i].depth < CrawlPolicy.depth
               PROVE  Follows(c.pages[i].url, c) \subseteq c.attempted \cup c.queued
    BY DEF FollowsAll
  <2>1. i # Len(c.pages)
    BY <1>1 DEF JustRead
  <2> QED  BY <2>1 DEF JustRead, FollowsButLast
<1> QED  BY <1>2 DEF JustRead, CrawlOK

---------------------------------------------------------------------------
(* A visit: the links are queued.                                          *)

(* What joins the queue: once each, nothing that was queued or attempted,  *)
(* and, if all that is new joins, every link that is neither.              *)
LEMMA JoiningAre ==
    ASSUME NEW c \in Crawls, Bounded(c), NEW links \in Seq(Urls), Distinct(links)
    PROVE  /\ Research!Joining(c, links) \in Seq(Urls) /\ Distinct(Research!Joining(c, links))
           /\ \A i \in DOMAIN Research!Joining(c, links) :
                 /\ Research!Joining(c, links)[i] \notin c.attempted \cup c.queued
                 /\ \E m \in DOMAIN links : Research!Joining(c, links)[i] = links[m]
           /\ ~(Len(Research!Joining(c, links)) < Len(Research!New(c, links))) =>
                 \A m \in DOMAIN links :
                    \/ links[m] \in c.attempted \cup c.queued
                    \/ \E i \in DOMAIN Research!Joining(c, links) :
                          Research!Joining(c, links)[i] = links[m]
<1> DEFINE keep == {i \in DOMAIN links : links[i] \notin c.attempted \cup c.queued}
           room == Research!Max({0, CrawlPolicy.pages - Research!Cardinality(c.attempted) - Len(c.queue)})
<1>1. /\ Research!New(c, links) = Research!Pick(links, keep)
      /\ Research!Joining(c, links) =
            SubSeq(Research!New(c, links), 1, Research!Min({Len(Research!New(c, links)), room}))
  BY DEF Research!New, Research!Joining
<1>2. /\ keep \in SUBSET DOMAIN links /\ \A i \in keep : links[i] \notin c.attempted \cup c.queued
      /\ \A i \in DOMAIN links : i \in keep \/ links[i] \in c.attempted \cup c.queued
  OBVIOUS
<1> HIDE DEF keep, room
<1>3. PICK r : r = Research!New(c, links)
  OBVIOUS
<1>4. /\ r \in Seq(Urls) /\ Len(r) \in Nat
      /\ \A n \in keep : \E i \in DOMAIN r : r[i] = links[n]
      /\ \A i \in DOMAIN r : \E m \in keep : r[i] = links[m]
      /\ \A i, j \in DOMAIN r : i < j => \E m, k \in keep : m < k /\ r[i] = links[m] /\ r[j] = links[k]
  BY <1>1, <1>2, <1>3, PickFrom
<1>5. PICK m : m = Research!Min({Len(r), room})
  OBVIOUS
<1>6. PICK q : q = SubSeq(r, 1, m)
  OBVIOUS
<1>7. Research!Joining(c, links) = q
  BY <1>1, <1>3, <1>5, <1>6
<1>8. m \in Int /\ m <= Len(r)
  <2>1. room \in Int
    <3>1. PICK x \in Int : x = CrawlPolicy.pages - Research!Cardinality(c.attempted) - Len(c.queue)
      <4>1. Research!Cardinality(c.attempted) \in Nat
        BY ResearchCounts, FS_CardinalityType DEF Bounded
      <4>2. Len(c.queue) \in Nat /\ CrawlPolicy.pages \in Int
        BY CrawlTypes, ResearchAssumption
      <4> QED  BY <4>1, <4>2
    <3>2. Research!Max({0, x}) \in {0, x}
      BY 0 \in Int, GreatestOfTwo, Zenon
    <3>3. room = Research!Max({0, x})
      BY <3>1 DEF room
    <3> QED  BY <3>2, <3>3
  <2>2. PICK x \in Int : x = room
    BY <2>1
  <2>3. Research!Min({Len(r), x}) \in {Len(r), x} /\ Research!Min({Len(r), x}) <= Len(r)
    <3>1. Len(r) \in Int
      BY <1>4
    <3> QED  BY <3>1, LeastOfTwo, Zenon
  <2> QED  BY <1>4, <1>5, <2>2, <2>3
<1>9. /\ q \in Seq(Urls) /\ Len(q) = (IF m < 0 THEN 0 ELSE m)
      /\ \A i \in DOMAIN q : i \in DOMAIN r /\ q[i] = r[i]
  BY <1>4, <1>6, <1>8, PrefixIs
<1>10. Distinct(q)
  <2>1. Distinct(r)
    BY <1>2, <1>4 DEF Distinct
  <2> QED  BY <1>9, <2>1 DEF Distinct
<1>11. \A i \in DOMAIN q : /\ q[i] \notin c.attempted \cup c.queued
                           /\ \E k \in DOMAIN links : q[i] = links[k]
  BY <1>2, <1>4, <1>9
<1>12. ASSUME ~(Len(q) < Len(r)), NEW k \in DOMAIN links, links[k] \notin c.attempted \cup c.queued
       PROVE  \E i \in DOMAIN q : q[i] = links[k]
  <2>1. PICK i \in DOMAIN r : r[i] = links[k]
    BY <1>2, <1>4, <1>12
  <2>2. DOMAIN q = DOMAIN r
    <3>1. Len(q) = Len(r)
      BY <1>4, <1>8, <1>9, <1>12
    <3> QED  BY <1>4, <1>9, <3>1
  <2> QED  BY <1>9, <2>1, <2>2
<1> QED  BY <1>3, <1>7, <1>9, <1>10, <1>11, <1>12

(* One list after another.                                                 *)
LEMMA ConcatIs ==
    ASSUME NEW T, NEW s \in Seq(T), NEW a \in Seq(T)
    PROVE  /\ s \o a \in Seq(T) /\ Len(s \o a) = Len(s) + Len(a)
           /\ Len(s) \in Nat /\ Len(a) \in Nat
           /\ \A i \in DOMAIN s : i \in DOMAIN (s \o a) /\ (s \o a)[i] = s[i]
           /\ \A i \in DOMAIN a : Len(s) + i \in DOMAIN (s \o a) /\ (s \o a)[Len(s) + i] = a[i]
           /\ \A i \in DOMAIN (s \o a) :
                 i \in DOMAIN s \/ (i > Len(s) /\ i - Len(s) \in DOMAIN a /\ (s \o a)[i] = a[i - Len(s)])
<1>1. Len(s) \in Nat /\ Len(a) \in Nat /\ DOMAIN s = 1..Len(s) /\ DOMAIN a = 1..Len(a)
  OBVIOUS
<1>2. s \o a \in Seq(T) /\ Len(s \o a) = Len(s) + Len(a) /\ DOMAIN (s \o a) = 1..(Len(s) + Len(a))
  BY <1>1
<1>3. \A i \in 1..(Len(s) + Len(a)) : (s \o a)[i] = IF i <= Len(s) THEN s[i] ELSE a[i - Len(s)]
  BY <1>1
<1>4. \A i \in 1..Len(s) : i \in 1..(Len(s) + Len(a)) /\ i <= Len(s)
  BY <1>1
<1>5. \A i \in 1..Len(a) : Len(s) + i \in 1..(Len(s) + Len(a)) /\ ~(Len(s) + i <= Len(s))
                            /\ (Len(s) + i) - Len(s) = i
  BY <1>1
<1>6. \A i \in 1..(Len(s) + Len(a)) : i \in 1..Len(s) \/ (i > Len(s) /\ ~(i <= Len(s)) /\ i - Len(s) \in 1..Len(a))
  BY <1>1
<1> QED  BY <1>1, <1>2, <1>3, <1>4, <1>5, <1>6

(* e is c with the links j queued as a.                                    *)
Queues(c, links, j, a, e) ==
    /\ e \in Crawls /\ e.root = c.root /\ e.attempted = c.attempted
    /\ e.pages = c.pages /\ e.bytes = c.bytes
    /\ e.queued = c.queued \cup Research!ToSet(j)
    /\ e.queue = c.queue \o a
    /\ e.pageLimit = (c.pageLimit \/ Len(j) < Len(Research!New(c, links)))

(* The fields of a crawl after the links of a page were queued.            *)
LEMMA EnqueueFields ==
    ASSUME NEW c \in Crawls, NEW links, NEW d \in Nat,
           NEW j, j = Research!Joining(c, links), j \in Seq(Urls),
           NEW a, a = [i \in DOMAIN j |-> [url |-> j[i], depth |-> d]],
           NEW e, e = Research!Enqueue(c, links, d)
    PROVE  Queues(c, links, j, a, e)
<1>2. a \in Seq(Visits)
  <2>1. Len(j) \in Nat /\ DOMAIN j = 1..Len(j) /\ \A i \in DOMAIN j : j[i] \in Urls
    OBVIOUS
  <2>2. \A i \in DOMAIN j : [url |-> j[i], depth |-> d] \in Visits
    BY <2>1 DEF Visits
  <2>3. a \in [1..Len(j) -> Visits]
    BY <2>1, <2>2
  <2> QED  BY <2>1, <2>3
<1>3. PICK q \in Seq(Visits) : q = c.queue \o a
  <2>1. c.queue \in Seq(Visits)
    BY CrawlTypes
  <2>2. c.queue \o a \in Seq(Visits)
    BY <1>2, <2>1, ConcatIs
  <2> QED  BY <2>2
<1>4. PICK w \in SUBSET Urls : w = c.queued \cup Research!ToSet(j)
  <2>1. Research!ToSet(j) \subseteq Urls
    <3>1. \A i \in DOMAIN j : j[i] \in Urls
      OBVIOUS
    <3> QED  BY <3>1 DEF Research!ToSet
  <2>2. c.queued \subseteq Urls
    BY CrawlTypes
  <2> QED  BY <2>1, <2>2
<1>5. PICK f \in BOOLEAN : f = (c.pageLimit \/ Len(j) < Len(Research!New(c, links)))
  OBVIOUS
<1>6. \A x \in Crawls, y \in SUBSET Urls :
         /\ [x EXCEPT !.queued = y] \in Crawls
         /\ [x EXCEPT !.queued = y].queued = y
         /\ [x EXCEPT !.queued = y].queue = x.queue
         /\ [x EXCEPT !.queued = y].pageLimit = x.pageLimit
         /\ [x EXCEPT !.queued = y].root = x.root
         /\ [x EXCEPT !.queued = y].attempted = x.attempted
         /\ [x EXCEPT !.queued = y].pages = x.pages
         /\ [x EXCEPT !.queued = y].bytes = x.bytes
  BY DEF Crawls
<1>7. \A x \in Crawls, y \in Seq(Visits) :
         /\ [x EXCEPT !.queue = y] \in Crawls
         /\ [x EXCEPT !.queue = y].queued = x.queued
         /\ [x EXCEPT !.queue = y].queue = y
         /\ [x EXCEPT !.queue = y].pageLimit = x.pageLimit
         /\ [x EXCEPT !.queue = y].root = x.root
         /\ [x EXCEPT !.queue = y].attempted = x.attempted
         /\ [x EXCEPT !.queue = y].pages = x.pages
         /\ [x EXCEPT !.queue = y].bytes = x.bytes
  BY DEF Crawls
<1>8. \A x \in Crawls, y \in BOOLEAN :
         /\ [x EXCEPT !.pageLimit = y] \in Crawls
         /\ [x EXCEPT !.pageLimit = y].queued = x.queued
         /\ [x EXCEPT !.pageLimit = y].queue = x.queue
         /\ [x EXCEPT !.pageLimit = y].pageLimit = y
         /\ [x EXCEPT !.pageLimit = y].root = x.root
         /\ [x EXCEPT !.pageLimit = y].attempted = x.attempted
         /\ [x EXCEPT !.pageLimit = y].pages = x.pages
         /\ [x EXCEPT !.pageLimit = y].bytes = x.bytes
  BY DEF Crawls
<1>9. PICK x \in Crawls :
        /\ x = [c EXCEPT !.queued = w] /\ x.queued = w /\ x.queue = c.queue
        /\ x.pageLimit = c.pageLimit /\ x.root = c.root /\ x.attempted = c.attempted
        /\ x.pages = c.pages /\ x.bytes = c.bytes
  BY <1>6
<1>10. PICK y \in Crawls :
        /\ y = [x EXCEPT !.queue = q] /\ y.queued = w /\ y.queue = q
        /\ y.pageLimit = c.pageLimit /\ y.root = c.root /\ y.attempted = c.attempted
        /\ y.pages = c.pages /\ y.bytes = c.bytes
  <2>1. /\ [x EXCEPT !.queue = q] \in Crawls
          /\ [x EXCEPT !.queue = q].queued = x.queued
          /\ [x EXCEPT !.queue = q].queue = q
          /\ [x EXCEPT !.queue = q].pageLimit = x.pageLimit
          /\ [x EXCEPT !.queue = q].root = x.root
          /\ [x EXCEPT !.queue = q].attempted = x.attempted
          /\ [x EXCEPT !.queue = q].pages = x.pages
          /\ [x EXCEPT !.queue = q].bytes = x.bytes
    BY <1>7
  <2> QED  BY <1>9, <2>1, Zenon
<1>11. Research!Joined(c, links, d) = y
  <2>1. Research!Joined(c, links, d) =
           [[c EXCEPT !.queued = w] EXCEPT !.queue = c.queue \o a]
    BY <1>4, <1>9 DEF Research!Joined
  <2> QED  BY <1>3, <1>9, <1>10, <2>1, Zenon
<1>12. Research!Enqueue(c, links, d) = [y EXCEPT !.pageLimit = f]
  <2>1. Research!Enqueue(c, links, d) =
           [y EXCEPT !.pageLimit = y.pageLimit \/ Len(j) < Len(Research!New(c, links))]
    BY <1>11 DEF Research!Enqueue
  <2> QED  BY <1>5, <1>10, <2>1, Zenon
<1>13. PICK z \in Crawls : z = [y EXCEPT !.pageLimit = f] /\ z.queued = w /\ z.queue = q
        /\ z.pageLimit = f /\ z.root = c.root /\ z.attempted = c.attempted
        /\ z.pages = c.pages /\ z.bytes = c.bytes
  <2>1. /\ [y EXCEPT !.pageLimit = f] \in Crawls
          /\ [y EXCEPT !.pageLimit = f].queued = y.queued
          /\ [y EXCEPT !.pageLimit = f].queue = y.queue
          /\ [y EXCEPT !.pageLimit = f].pageLimit = f
          /\ [y EXCEPT !.pageLimit = f].root = y.root
          /\ [y EXCEPT !.pageLimit = f].attempted = y.attempted
          /\ [y EXCEPT !.pageLimit = f].pages = y.pages
          /\ [y EXCEPT !.pageLimit = f].bytes = y.bytes
    BY <1>8
  <2> QED  BY <1>10, <2>1, Zenon
<1> QED  BY <1>3, <1>4, <1>5, <1>12, <1>13 DEF Queues

(* With its links queued, a page leaves the crawl as it must be.           *)
LEMMA LinksQueued ==
    ASSUME NEW c, NEW v \in DOMAIN Site, NEW d \in Nat, JustRead(c, v, d),
           NEW e, e = Research!Enqueue(c, Research!Selected(Research!PageLinks(v), c.root.host), d + 1)
    PROVE  CrawlOK(e)
<1>1. /\ c \in Crawls /\ Bounded(c) /\ Waits(c) /\ OnHost(c) /\ ByLevel(c) /\ AtLevel(c, d)
      /\ FollowsButLast(c) /\ Len(c.pages) \in DOMAIN c.pages
      /\ c.pages[Len(c.pages)].url = v /\ c.pages[Len(c.pages)].depth = d
  BY DEF JustRead
<1>2. PICK links : links = Research!Selected(Research!PageLinks(v), c.root.host)
  OBVIOUS
<1>3. links \in Seq(Urls) /\ Distinct(links) /\ \A i \in DOMAIN links : links[i].host = c.root.host
  <2>1. PICK s \in Seq(Urls) : s = Research!PageLinks(v) /\ Distinct(s)
    BY PageLinksAre
  <2>2. links = Research!Selected(s, c.root.host)
    BY <1>2, <2>1
  <2> QED  BY <2>1, <2>2, SelectedAre
<1>4. PICK j : j = Research!Joining(c, links)
  OBVIOUS
<1>5. /\ j \in Seq(Urls) /\ Distinct(j)
      /\ \A i \in DOMAIN j : j[i] \notin c.attempted \cup c.queued /\ \E m \in DOMAIN links : j[i] = links[m]
      /\ ~(Len(j) < Len(Research!New(c, links))) =>
            \A m \in DOMAIN links : \/ links[m] \in c.attempted \cup c.queued
                                    \/ \E i \in DOMAIN j : j[i] = links[m]
  BY <1>1, <1>3, <1>4, JoiningAre
<1>0. PICK n \in Nat : n = d + 1
  OBVIOUS
<1>6. PICK a : a = [i \in DOMAIN j |-> [url |-> j[i], depth |-> n]]
  OBVIOUS
<1>7. /\ e \in Crawls /\ e.root = c.root /\ e.attempted = c.attempted
      /\ e.pages = c.pages /\ e.bytes = c.bytes
      /\ e.queued = c.queued \cup Research!ToSet(j)
      /\ e.queue = c.queue \o a
      /\ e.pageLimit = (c.pageLimit \/ Len(j) < Len(Research!New(c, links)))
  <2>1. e = Research!Enqueue(c, links, n)
    BY <1>0, <1>2
  <2>2. c \in Crawls
    BY <1>1
  <2>3. j \in Seq(Urls)
    BY <1>5
  <2>4. Queues(c, links, j, a, e)
    BY <1>4, <1>6, <2>1, <2>2, <2>3, EnqueueFields
  <2> QED  BY <2>4 DEF Queues
<1>8. PICK q \in Seq(Visits) : q = c.queue
  BY <1>1, CrawlTypes
<1>9. /\ a \in Seq(Visits) /\ DOMAIN a = DOMAIN j
      /\ \A i \in DOMAIN a : a[i].url = j[i] /\ a[i].depth = d + 1
  <2>1. Len(j) \in Nat /\ DOMAIN j = 1..Len(j) /\ \A i \in DOMAIN j : j[i] \in Urls
    BY <1>5
  <2>2. \A i \in DOMAIN j : [url |-> j[i], depth |-> n] \in Visits
    BY <2>1 DEF Visits
  <2>3. a \in [1..Len(j) -> Visits]
    BY <1>6, <2>1, <2>2
  <2>4. a \in Seq(Visits)
    BY <2>1, <2>3
  <2> QED  BY <1>0, <1>6, <2>4
<1>10. PICK s \in Seq(Visits) : s = q \o a
  BY <1>8, <1>9, ConcatIs
<1>11. /\ Len(q) \in Nat
       /\ \A i \in DOMAIN q : i \in DOMAIN s /\ s[i] = q[i] /\ i <= Len(q)
       /\ \A i \in DOMAIN a : Len(q) + i \in DOMAIN s /\ s[Len(q) + i] = a[i]
       /\ \A i \in DOMAIN s :
             i \in DOMAIN q \/ (i > Len(q) /\ i - Len(q) \in DOMAIN a /\ s[i] = a[i - Len(q)])
  BY <1>8, <1>9, <1>10, ConcatIs
<1>12. e.queue = s
  BY <1>7, <1>8, <1>10
<1>13. \A i \in DOMAIN s : i \in Nat
  OBVIOUS
<1>14. \A i, k \in DOMAIN s : i < k =>
          \/ i \in DOMAIN q /\ k \in DOMAIN q
          \/ i \in DOMAIN q /\ k - Len(q) \in DOMAIN a
          \/ i - Len(q) \in DOMAIN a /\ k - Len(q) \in DOMAIN a /\ i - Len(q) < k - Len(q)
  BY <1>11, <1>13
<1>15. Bounded(e) /\ OnHost(e)
  <2>1. \A i \in DOMAIN s : s[i].url.host = c.root.host
    <3> SUFFICES ASSUME NEW i \in DOMAIN s
                 PROVE  s[i].url.host = c.root.host
      OBVIOUS
    <3>1. CASE i \in DOMAIN q
      BY <1>1, <1>8, <1>11, <3>1 DEF OnHost
    <3>2. CASE i - Len(q) \in DOMAIN a /\ s[i] = a[i - Len(q)]
      <4>1. PICK k \in DOMAIN j : s[i].url = j[k]
        BY <1>9, <3>2
      <4> QED  BY <1>3, <1>5, <4>1
    <3> QED  BY <1>11, <3>1, <3>2
  <2> QED  BY <1>1, <1>7, <1>12, <2>1 DEF Bounded, OnHost
<1>16. Waits(e)
  <2>1. \A i \in DOMAIN s : s[i].url \in (c.queued \cup Research!ToSet(j)) \ c.attempted
    <3> SUFFICES ASSUME NEW i \in DOMAIN s
                 PROVE  s[i].url \in (c.queued \cup Research!ToSet(j)) \ c.attempted
      OBVIOUS
    <3>1. CASE i \in DOMAIN q
      BY <1>1, <1>8, <1>11, <3>1 DEF Waits
    <3>2. CASE i - Len(q) \in DOMAIN a /\ s[i] = a[i - Len(q)]
      <4>1. PICK k \in DOMAIN j : s[i].url = j[k]
        BY <1>9, <3>2
      <4> QED  BY <1>5, <4>1 DEF Research!ToSet
    <3> QED  BY <1>11, <3>1, <3>2
  <2>2. \A i, k \in DOMAIN s : i < k => s[i].url # s[k].url
    <3> SUFFICES ASSUME NEW i \in DOMAIN s, NEW k \in DOMAIN s, i < k
                 PROVE  s[i].url # s[k].url
      OBVIOUS
    <3>1. CASE i \in DOMAIN q /\ k \in DOMAIN q
      BY <1>1, <1>8, <1>11, <3>1 DEF Waits
    <3>2. CASE i \in DOMAIN q /\ k - Len(q) \in DOMAIN a
      <4>1. s[i].url \in c.queued
        BY <1>1, <1>8, <1>11, <3>2 DEF Waits
      <4>2. Len(q) + (k - Len(q)) = k
        BY <1>11, <1>13
      <4>3. s[k].url = j[k - Len(q)] /\ k - Len(q) \in DOMAIN j
        BY <1>9, <1>11, <3>2, <4>2
      <4> QED  BY <1>5, <4>1, <4>3
    <3>3. CASE i - Len(q) \in DOMAIN a /\ k - Len(q) \in DOMAIN a /\ i - Len(q) < k - Len(q)
      <4>1. Len(q) + (k - Len(q)) = k /\ Len(q) + (i - Len(q)) = i
        BY <1>11, <1>13
      <4>2. /\ s[k].url = j[k - Len(q)] /\ k - Len(q) \in DOMAIN j
            /\ s[i].url = j[i - Len(q)] /\ i - Len(q) \in DOMAIN j
        BY <1>9, <1>11, <3>3, <4>1
      <4> QED  BY <1>5, <3>3, <4>2 DEF Distinct
    <3> QED  BY <1>14, <3>1, <3>2, <3>3
  <2>3. c.queued \cup Research!ToSet(j) \subseteq c.attempted \cup {s[i].url : i \in DOMAIN s}
    <3> SUFFICES ASSUME NEW u \in c.queued \cup Research!ToSet(j), u \notin c.attempted
                 PROVE  \E i \in DOMAIN s : u = s[i].url
      OBVIOUS
    <3>1. CASE u \in c.queued
      <4>1. PICK i \in DOMAIN q : u = q[i].url
        BY <1>1, <1>8, <3>1 DEF Waits
      <4> QED  BY <1>11, <4>1
    <3>2. CASE u \in Research!ToSet(j)
      <4>1. PICK i \in DOMAIN j : u = j[i]
        BY <3>2 DEF Research!ToSet
      <4> QED  BY <1>9, <1>11, <4>1
    <3> QED  BY <3>1, <3>2
  <2> QED  BY <1>7, <1>12, <2>1, <2>2, <2>3 DEF Waits
<1>17. ByLevel(e)
  <2>1. \A i \in DOMAIN s : d <= s[i].depth /\ s[i].depth <= d + 1 /\ s[i].depth \in Nat
    <3> SUFFICES ASSUME NEW i \in DOMAIN s
                 PROVE  d <= s[i].depth /\ s[i].depth <= d + 1 /\ s[i].depth \in Nat
      OBVIOUS
    <3>1. s[i].depth \in Nat
      <4>1. s[i] \in Visits
        OBVIOUS
      <4> QED  BY <4>1 DEF Visits
    <3>2. CASE i \in DOMAIN q
      BY <1>1, <1>8, <1>11, <3>1, <3>2 DEF AtLevel
    <3>3. CASE i - Len(q) \in DOMAIN a /\ s[i] = a[i - Len(q)]
      BY <1>9, <3>1, <3>3
    <3> QED  BY <1>11, <3>2, <3>3
  <2>2. \A i \in DOMAIN c.pages, k \in DOMAIN s : c.pages[i].depth <= s[k].depth
    <3> SUFFICES ASSUME NEW i \in DOMAIN c.pages, NEW k \in DOMAIN s
                 PROVE  c.pages[i].depth <= s[k].depth
      OBVIOUS
    <3>1. c.pages[i].depth \in Nat /\ c.pages[i].depth <= d
      BY <1>1, CrawlTypes DEF AtLevel
    <3> QED  BY <2>1, <3>1
  <2>3. \A i, k \in DOMAIN s : i < k => s[i].depth <= s[k].depth /\ s[k].depth <= s[i].depth + 1
    <3> SUFFICES ASSUME NEW i \in DOMAIN s, NEW k \in DOMAIN s, i < k
                 PROVE  s[i].depth <= s[k].depth
      BY <2>1
    <3>1. CASE i \in DOMAIN q /\ k \in DOMAIN q
      BY <1>1, <1>8, <1>11, <3>1 DEF ByLevel
    <3>2. CASE k - Len(q) \in DOMAIN a
      <4>1. Len(q) + (k - Len(q)) = k
        BY <1>11, <1>13
      <4>2. s[k].depth = d + 1
        BY <1>9, <1>11, <3>2, <4>1
      <4> QED  BY <2>1, <4>2
    <3> QED  BY <1>14, <3>1, <3>2
  <2> QED  BY <1>1, <1>7, <1>12, <2>2, <2>3 DEF ByLevel
<1>18. FollowsAll(e)
  <2> SUFFICES ASSUME ~e.pageLimit, NEW i \in DOMAIN e.pages, e.pages[i].depth < CrawlPolicy.depth
               PROVE  Follows(e.pages[i].url, e) \subseteq e.attempted \cup e.queued
    BY DEF FollowsAll
  <2>1. ~c.pageLimit /\ ~(Len(j) < Len(Research!New(c, links)))
    BY <1>7
  <2>2. \A u : Follows(u, e) = Follows(u, c)
    BY <1>7 DEF Follows
  <2>3. CASE i # Len(c.pages)
    <3>1. i \in DOMAIN c.pages /\ e.pages[i] = c.pages[i] /\ c.pages[i].depth < CrawlPolicy.depth
      BY <1>7
    <3>2. Follows(c.pages[i].url, c) \subseteq c.attempted \cup c.queued
      BY <1>1, <2>1, <2>3, <3>1 DEF FollowsButLast
    <3> QED  BY <1>7, <2>2, <3>1, <3>2
  <2>4. CASE i = Len(c.pages)
    <3>1. Follows(v, c) = {links[m] : m \in DOMAIN links}
      BY <1>2 DEF Follows, Research!ToSet
    <3>2. \A m \in DOMAIN links : links[m] \in c.attempted \cup c.queued \cup Research!ToSet(j)
      BY <1>5, <2>1 DEF Research!ToSet
    <3> QED  BY <1>1, <1>7, <2>2, <2>4, <3>1, <3>2
  <2> QED  BY <2>3, <2>4
<1> QED  BY <1>7, <1>15, <1>16, <1>17, <1>18 DEF CrawlOK

---------------------------------------------------------------------------
(* A visit.                                                                *)

(* A crawl with one field changed.                                         *)
LEMMA CrawlQueue ==
    ASSUME NEW c \in Crawls, NEW y \in Seq(Visits), NEW z, z = [c EXCEPT !.queue = y]
    PROVE  /\ z \in Crawls /\ z.queue = y /\ z.root = c.root /\ z.queued = c.queued
           /\ z.attempted = c.attempted /\ z.pages = c.pages /\ z.bytes = c.bytes /\ z.pageLimit = c.pageLimit
BY DEF Crawls

(* The same for the pages.                                                 *)
LEMMA CrawlPages ==
    ASSUME NEW c \in Crawls, NEW y \in Seq(Visits), NEW z, z = [c EXCEPT !.pages = y]
    PROVE  /\ z \in Crawls /\ z.pages = y /\ z.root = c.root /\ z.queued = c.queued
           /\ z.queue = c.queue /\ z.attempted = c.attempted /\ z.bytes = c.bytes /\ z.pageLimit = c.pageLimit
BY DEF Crawls

(* The same for the bytes.                                                 *)
LEMMA CrawlBytes ==
    ASSUME NEW c \in Crawls, NEW y \in Nat, NEW z, z = [c EXCEPT !.bytes = y]
    PROVE  /\ z \in Crawls /\ z.bytes = y /\ z.root = c.root /\ z.queued = c.queued
           /\ z.queue = c.queue /\ z.attempted = c.attempted /\ z.pages = c.pages /\ z.pageLimit = c.pageLimit
BY DEF Crawls

(* A visit of t read the page v of the level d, of b bytes, and left z.     *)
PageRead(t, z, d, v, r, b) ==
    /\ v \in DOMAIN Site /\ b \in Nat /\ v.host = t.root.host /\ t.bytes + b <= CrawlPolicy.total
    /\ Reads(t, r, v, d, b)
    /\ z = IF d >= CrawlPolicy.depth THEN r
           ELSE Research!Enqueue(r, Research!Selected(Research!PageLinks(v), r.root.host), d + 1)

(* A visit takes the head of the queue, and reads a page or nothing.       *)
LEMMA VisitOutcome ==
    ASSUME CrawlOK(research_crawl), NEW fails \in BOOLEAN, Research!Visit(fails)
    PROVE  /\ Research!More(research_crawl)
           /\ \E t : /\ Tries(research_crawl, t)
                    /\ \/ research_crawl' = t
                       \/ \E v, r, b : PageRead(t, research_crawl', Head(research_crawl.queue).depth, v, r, b)
<1>1. PICK c : c = research_crawl
  OBVIOUS
<1>2. c \in Crawls /\ Bounded(c) /\ Waits(c) /\ OnHost(c)
  BY <1>1 DEF CrawlOK
<1>3. Research!More(c) /\ c.queue # <<>> /\ c.queue \in Seq(Visits)
  BY <1>1, <1>2, CrawlTypes DEF Research!Visit, Research!More
<1>4. PICK h \in Visits : h = Head(c.queue) /\ h.url.host = c.root.host /\ h.url \in Urls /\ h.depth \in Nat
  <2>1. Head(c.queue) = c.queue[1] /\ 1 \in DOMAIN c.queue
    BY <1>3, TailIs
  <2>2. c.queue[1] \in Visits /\ c.queue[1].url.host = c.root.host
    BY <1>2, <2>1, CrawlTypes DEF OnHost
  <2> QED  BY <2>1, <2>2 DEF Visits
<1>5. PICK q \in Seq(Visits) : q = Tail(c.queue)
  BY <1>3, TailIs
<1>6. PICK a \in SUBSET Urls : a = c.attempted \cup {h.url}
  BY <1>2, <1>4, CrawlTypes
<1>7. PICK x : /\ x = [c EXCEPT !.queue = q] /\ x \in Crawls /\ x.queue = q
               /\ x.attempted = c.attempted /\ x.root = c.root
               /\ x.queued = c.queued /\ x.pages = c.pages /\ x.bytes = c.bytes
               /\ x.pageLimit = c.pageLimit
  <2>1. PICK z : z = [c EXCEPT !.queue = q]
    OBVIOUS
  <2>2. /\ z = [c EXCEPT !.queue = q] /\ z \in Crawls /\ z.queue = q
        /\ z.attempted = c.attempted /\ z.root = c.root
        /\ z.queued = c.queued /\ z.pages = c.pages /\ z.bytes = c.bytes
        /\ z.pageLimit = c.pageLimit
    BY <1>2, <2>1, CrawlQueue
  <2> QED  BY <2>2, Zenon
<1>8. PICK t : /\ t = [x EXCEPT !.attempted = a] /\ t \in Crawls /\ t.queue = q
               /\ t.attempted = a /\ t.root = c.root /\ t.queued = c.queued
               /\ t.pages = c.pages /\ t.bytes = c.bytes
               /\ t.pageLimit = c.pageLimit
  <2>1. PICK z : z = [x EXCEPT !.attempted = a]
    OBVIOUS
  <2>2. x \in Crawls /\ a \in SUBSET Urls
    BY <1>7
  <2>3. /\ z \in Crawls /\ z.queue = x.queue /\ z.root = x.root /\ z.queued = x.queued
        /\ z.attempted = a /\ z.pages = x.pages /\ z.bytes = x.bytes /\ z.pageLimit = x.pageLimit
    BY ONLY <2>1, <2>2 DEF Crawls
  <2>4. /\ z = [x EXCEPT !.attempted = a] /\ z \in Crawls /\ z.queue = q
        /\ z.attempted = a /\ z.root = c.root /\ z.queued = c.queued
        /\ z.pages = c.pages /\ z.bytes = c.bytes
        /\ z.pageLimit = c.pageLimit
    BY <1>7, <2>1, <2>3, Zenon
  <2> QED  BY <2>4, Zenon
<1>9. Tries(c, t)
  BY <1>4, <1>5, <1>6, <1>8 DEF Tries
<1>10. t = [[c EXCEPT !.queue = Tail(c.queue)] EXCEPT !.attempted = c.attempted \cup {h.url}]
  BY <1>5, <1>6, <1>7, <1>8, Zenon
<1>11. PICK room : room = Research!Min({CrawlPolicy.page, CrawlPolicy.total - c.bytes})
  OBVIOUS
<1>12. PICK page : page = IF fails THEN Research!NoPage ELSE Research!Fetched(h.url, c.root.host, room)
  OBVIOUS
<1> DEFINE read == [t EXCEPT !.pages = Append(t.pages, [url |-> page.url, depth |-> h.depth]),
                             !.bytes = t.bytes + page.bytes]
<1>13. research_crawl' =
         IF page = Research!NoPage THEN [t EXCEPT !.failed = t.failed \cup {h.url}]
         ELSE IF h.depth >= CrawlPolicy.depth THEN read
         ELSE Research!Enqueue(read, Research!Selected(page.links, c.root.host), h.depth + 1)
  BY <1>1, <1>4, <1>10, <1>11, <1>12 DEF Research!Visit
<1>14. CASE page = Research!NoPage
  <2>1. PICK f \in SUBSET Urls : f = t.failed \cup {h.url}
    BY <1>4, <1>8, CrawlTypes
  <2>2. PICK z : /\ z = [t EXCEPT !.failed = f] /\ z \in Crawls /\ z.queue = q
                 /\ z.attempted = a /\ z.root = c.root /\ z.queued = c.queued
                 /\ z.pages = c.pages /\ z.bytes = c.bytes
                 /\ z.pageLimit = c.pageLimit
    <3>1. PICK z : z = [t EXCEPT !.failed = f]
      OBVIOUS
    <3>2. t \in Crawls /\ f \in SUBSET Urls
      BY <1>8
    <3>3. /\ z \in Crawls /\ z.queue = t.queue /\ z.root = t.root /\ z.queued = t.queued
          /\ z.attempted = t.attempted /\ z.pages = t.pages /\ z.bytes = t.bytes /\ z.pageLimit = t.pageLimit
      BY ONLY <3>1, <3>2 DEF Crawls
    <3>4. /\ z = [t EXCEPT !.failed = f] /\ z \in Crawls /\ z.queue = q
          /\ z.attempted = a /\ z.root = c.root /\ z.queued = c.queued
          /\ z.pages = c.pages /\ z.bytes = c.bytes
          /\ z.pageLimit = c.pageLimit
      BY <1>8, <3>1, <3>3, Zenon
    <3> QED  BY <3>4, Zenon
  <2>3. Tries(c, z)
    BY <1>4, <1>5, <1>6, <2>2 DEF Tries
  <2>4. research_crawl' = z
    BY <1>13, <1>14, <2>1, <2>2
  <2> QED  BY <1>1, <1>3, <2>3, <2>4
<1>15. CASE page # Research!NoPage
  <2>1. page = Research!Fetched(h.url, c.root.host, room)
    BY <1>12, <1>15
  <2>2. PICK v \in DOMAIN Site :
          /\ v.host = c.root.host /\ Site[v].bytes \in Nat /\ ~(Site[v].bytes > room)
          /\ page = [url |-> v, bytes |-> Site[v].bytes, links |-> Research!PageLinks(v)]
    <3>1. \E v : PageOf(page, v, c.root.host, room)
      BY <1>4, <1>15, <2>1, FetchedIs
    <3> QED  BY <3>1 DEF PageOf
  <2>3. PICK b \in Nat : b = Site[v].bytes
    BY <2>2
  <2>4. page.url = v /\ page.bytes = b /\ page.links = Research!PageLinks(v)
    BY <2>2, <2>3
  <2>5. t.bytes + b <= CrawlPolicy.total
    <3>1. PICK m \in Int, n \in Int : m = CrawlPolicy.page /\ n = CrawlPolicy.total - c.bytes
      BY <1>2, CrawlTypes, ResearchAssumption
    <3>2. Research!Min({m, n}) \in {m, n} /\ Research!Min({m, n}) <= n
      BY LeastOfTwo
    <3>3. room \in Int /\ room <= n
      BY <1>11, <3>1, <3>2
    <3>4. c.bytes \in Nat /\ CrawlPolicy.total \in Int
      BY <1>2, CrawlTypes, ResearchAssumption
    <3> QED  BY <1>8, <2>2, <2>3, <3>1, <3>3, <3>4
  <2>6. PICK p \in Seq(Visits) : p = Append(t.pages, [url |-> v, depth |-> h.depth])
    <3>1. [url |-> v, depth |-> h.depth] \in Visits
      BY <1>4 DEF Visits, Urls
    <3>2. t.pages \in Seq(Visits)
      BY <1>8, CrawlTypes
    <3>3. PICK e \in Visits : e = [url |-> v, depth |-> h.depth]
      BY <3>1
    <3>4. Append(t.pages, e) \in Seq(Visits)
      BY <3>2, AppendIs
    <3> QED  BY <3>3, <3>4
  <2>7. PICK y : /\ y = [t EXCEPT !.pages = p] /\ y \in Crawls /\ y.pages = p
                 /\ y.bytes = t.bytes /\ y.root = t.root /\ y.queue = t.queue
                 /\ y.queued = t.queued /\ y.attempted = t.attempted
                 /\ y.pageLimit = t.pageLimit
    <3>1. PICK z : z = [t EXCEPT !.pages = p]
      OBVIOUS
    <3>2. t \in Crawls /\ p \in Seq(Visits)
      BY <1>8
    <3>3. /\ z \in Crawls /\ z.queue = t.queue /\ z.root = t.root /\ z.queued = t.queued
          /\ z.attempted = t.attempted /\ z.pages = p /\ z.bytes = t.bytes /\ z.pageLimit = t.pageLimit
      BY ONLY <3>1, <3>2, CrawlPages
    <3>4. /\ z = [t EXCEPT !.pages = p] /\ z \in Crawls /\ z.pages = p
          /\ z.bytes = t.bytes /\ z.root = t.root /\ z.queue = t.queue
          /\ z.queued = t.queued /\ z.attempted = t.attempted
          /\ z.pageLimit = t.pageLimit
      BY <1>8, <3>1, <3>3, Zenon
    <3> QED  BY <3>4, Zenon
  <2>8. PICK n \in Nat : n = t.bytes + b
    <3>1. t.bytes \in Nat
      BY <1>8, CrawlTypes
    <3> QED  BY <3>1
  <2>9. PICK r : /\ r = [y EXCEPT !.bytes = n] /\ r \in Crawls /\ r.pages = p
                 /\ r.bytes = n /\ r.root = t.root /\ r.queue = t.queue
                 /\ r.queued = t.queued /\ r.attempted = t.attempted
                 /\ r.pageLimit = t.pageLimit
    <3>1. PICK z : z = [y EXCEPT !.bytes = n]
      OBVIOUS
    <3>2. y \in Crawls /\ n \in Nat
      BY <2>7
    <3>3. /\ z \in Crawls /\ z.queue = y.queue /\ z.root = y.root /\ z.queued = y.queued
          /\ z.attempted = y.attempted /\ z.pages = y.pages /\ z.bytes = n /\ z.pageLimit = y.pageLimit
      BY ONLY <3>1, <3>2, CrawlBytes
    <3>4. /\ z = [y EXCEPT !.bytes = n] /\ z \in Crawls /\ z.pages = p
          /\ z.bytes = n /\ z.root = t.root /\ z.queue = t.queue
          /\ z.queued = t.queued /\ z.attempted = t.attempted
          /\ z.pageLimit = t.pageLimit
      BY <2>7, <3>1, <3>3, Zenon
    <3> QED  BY <3>4, Zenon
  <2>10. Reads(t, r, v, h.depth, b)
    BY <2>6, <2>8, <2>9 DEF Reads
  <2>11. read = r
    <3>1. read = [[t EXCEPT !.pages = p] EXCEPT !.bytes = n]
      BY <2>4, <2>6, <2>8, <2>7
    <3> QED  BY <2>7, <2>9, <3>1, Zenon
  <2> HIDE DEF read
  <2>12. research_crawl' = IF h.depth >= CrawlPolicy.depth THEN r
                          ELSE Research!Enqueue(r, Research!Selected(Research!PageLinks(v), r.root.host), h.depth + 1)
    BY <1>8, <1>13, <1>15, <2>4, <2>9, <2>11, Zenon
  <2>13. v.host = t.root.host
    BY <1>8, <2>2
  <2>14. PageRead(t, research_crawl', h.depth, v, r, b)
    BY <2>5, <2>10, <2>12, <2>13 DEF PageRead
  <2> QED  BY <1>1, <1>3, <1>4, <1>9, <2>14
<1> QED  BY <1>14, <1>15

(* A visit leaves the crawl as it must be.                                 *)
LEMMA VisitedOK ==
    ASSUME CrawlOK(research_crawl), NEW fails \in BOOLEAN, Research!Visit(fails)
    PROVE  CrawlOK(research_crawl')
<1>1. PICK c, z : c = research_crawl /\ z = research_crawl'
  OBVIOUS
<1>2. CrawlOK(c)
  BY <1>1
<1>3. /\ Research!More(c)
      /\ \E t : /\ Tries(c, t)
                /\ \/ z = t
                   \/ \E v, r, b : PageRead(t, z, Head(c.queue).depth, v, r, b)
  BY <1>1, VisitOutcome
<1>4. PICK t : /\ Tries(c, t)
               /\ \/ z = t
                  \/ \E v, r, b : PageRead(t, z, Head(c.queue).depth, v, r, b)
  BY <1>3
<1>5. /\ CrawlOK(t) /\ Len(t.pages) < Cardinality(t.attempted)
      /\ Head(c.queue) \in Visits /\ AtLevel(t, Head(c.queue).depth)
  BY <1>2, <1>3, <1>4, Attempted
<1>6. PICK d \in Nat : d = Head(c.queue).depth /\ AtLevel(t, d)
  BY <1>5 DEF Visits
<1>7. CASE z = t
  BY <1>1, <1>5, <1>7
<1>8. CASE \E v, r, b : PageRead(t, z, d, v, r, b)
  <2>1. PICK v, r, b : PageRead(t, z, d, v, r, b)
    BY <1>8
  <2>2. /\ v \in DOMAIN Site /\ b \in Nat /\ v.host = t.root.host /\ t.bytes + b <= CrawlPolicy.total
        /\ Reads(t, r, v, d, b)
        /\ z = IF d >= CrawlPolicy.depth THEN r
               ELSE Research!Enqueue(r, Research!Selected(Research!PageLinks(v), r.root.host), d + 1)
    BY <2>1 DEF PageRead
  <2>3. v \in Urls
    BY <2>2 DEF Urls
  <2>4. JustRead(r, v, d)
    BY <1>5, <1>6, <2>2, <2>3, PageJoins
  <2>5. CASE d >= CrawlPolicy.depth
    <3>1. z = r
      BY <2>2, <2>5
    <3>2. CrawlOK(r)
      BY <2>4, <2>5, LastLevel
    <3> QED  BY <1>1, <3>1, <3>2
  <2>6. CASE ~(d >= CrawlPolicy.depth)
    <3>1. PICK e : e = Research!Enqueue(r, Research!Selected(Research!PageLinks(v), r.root.host), d + 1)
      OBVIOUS
    <3>2. z = e
      BY <2>2, <2>6, <3>1
    <3>3. CrawlOK(e)
      BY <2>2, <2>4, <3>1, LinksQueued
    <3> QED  BY <1>1, <3>2, <3>3
  <2> QED  BY <2>5, <2>6
<1> QED  BY <1>4, <1>6, <1>7, <1>8

(* A crawl begins with its root in the queue.                              *)
LEMMA CrawlStarted ==
    ASSUME Research!ValidPolicy(CrawlPolicy), NEW start \in CrawlStarts, Research!StartCrawl(start)
    PROVE  CrawlOK(research_crawl')
<1>1. PICK root \in Urls : root = Research!CanonicalUrl(start)
  BY DEF Urls
<1>2. PICK head \in Visits : head = [url |-> root, depth |-> 0] /\ head.url = root /\ head.depth = 0
  <2>1. [url |-> root, depth |-> 0] \in Visits
    BY DEF Visits
  <2>2. PICK v : v = [url |-> root, depth |-> 0]
    OBVIOUS
  <2>3. v \in Visits /\ v.url = root /\ v.depth = 0
    BY <2>1, <2>2
  <2> QED  BY <2>2, <2>3, Zenon
<1>3. PICK q \in Seq(Visits) : q = <<head>> /\ q # <<>> /\ Len(q) = 1 /\ DOMAIN q = 1..1 /\ q[1] = head
  <2>1. <<head>> \in Seq(Visits) /\ Len(<<head>>) = 1 /\ DOMAIN <<head>> = 1..1 /\ <<head>>[1] = head
    OBVIOUS
  <2> QED  BY <2>1
<1>4. PICK c : /\ c = [root |-> root, queue |-> q, queued |-> {root}, attempted |-> {},
                       pages |-> <<>>, failed |-> {}, bytes |-> 0, byteLimit |-> FALSE,
                       pageLimit |-> FALSE]
  OBVIOUS
<1>5. research_crawl' = c
  BY <1>1, <1>2, <1>3, <1>4 DEF Research!StartCrawl
<1>6. /\ c.root = root /\ c.queue = q /\ c.queued = {root} /\ c.attempted = {}
      /\ c.pages = <<>> /\ c.bytes = 0 /\ c.pageLimit = FALSE
  BY <1>4
<1>7. c \in Crawls
  <2>1. <<>> \in Seq(Visits) /\ {root} \in SUBSET Urls /\ {} \in SUBSET Urls
    OBVIOUS
  <2> QED  BY <1>4, <2>1 DEF Crawls
<1>8. DOMAIN c.pages = {} /\ Len(c.pages) = 0
  BY <1>6
<1>9. DOMAIN c.queue = {1} /\ c.queue[1] = head
  BY <1>3, <1>6
<1>10. Bounded(c)
  <2>1. CrawlPolicy.pages \in Int /\ CrawlPolicy.total \in Int
    BY ResearchAssumption
  <2>2. CrawlPolicy.pages >= 1 /\ CrawlPolicy.total >= 1
    BY DEF Research!ValidPolicy
  <2>3. Cardinality({}) = 0 /\ IsFiniteSet({})
    BY FS_EmptySet
  <2> QED  BY <1>6, <1>8, <2>1, <2>2, <2>3 DEF Bounded
<1>11. Waits(c)
  BY <1>2, <1>6, <1>9 DEF Waits
<1>12. OnHost(c)
  BY <1>2, <1>6, <1>8, <1>9 DEF OnHost
<1>13. ByLevel(c)
  BY <1>2, <1>8, <1>9 DEF ByLevel
<1>14. FollowsAll(c)
  BY <1>8 DEF FollowsAll
<1> QED  BY <1>5, <1>7, <1>10, <1>11, <1>12, <1>13, <1>14 DEF CrawlOK

---------------------------------------------------------------------------
(* Recording a crawl.                                                      *)

(* A piece of evidence.                                                    *)
Items == [id : Nat, url : Urls]

(* What a function makes of finitely many things is finite.                *)
LEMMA ImageIsFinite ==
    ASSUME NEW S, IsFiniteSet(S), NEW f
    PROVE  IsFiniteSet({f[x] : x \in S})
<1> DEFINE T == {f[x] : x \in S}
           g == [x \in S |-> f[x]]
<1>1. g \in Surjection(S, T)
  BY DEF Surjection
<1> HIDE DEF g
<1> QED  BY <1>1, FS_Surjection, Zenon

(* The store keeps the newest: a limit it does not reach drops nothing.    *)
LEMMA EvictIs ==
    ASSUME NEW T, NEW s \in Seq(T), NEW e, e = Research!Evict(s)
    PROVE  /\ e \in Seq(T)
           /\ Len(e) < MaxItems => e = s
           /\ \E k \in Nat : \A i \in DOMAIN e : i + k \in DOMAIN s /\ e[i] = s[i + k]
<1>1. MaxItems \in Nat /\ Len(s) \in Nat /\ DOMAIN s = 1..Len(s)
  BY ResearchAssumption
<1>2. CASE Len(s) > MaxItems
  <2>1. PICK k \in Nat : k = Len(s) - MaxItems
    <3>1. Len(s) - MaxItems \in Nat
      BY <1>1, <1>2
    <3> QED  BY <3>1
  <2>2. e = SubSeq(s, k + 1, Len(s))
    <3>1. Len(s) + 1 - MaxItems = k + 1
      BY <1>1, <2>1
    <3> QED  BY <1>2, <3>1 DEF Research!Evict
  <2>3. \A i \in 1..MaxItems : i + k \in 1..Len(s)
    BY <1>1, <2>1
  <2>4. e = [i \in 1..MaxItems |-> s[i + k]]
    <3>1. CASE MaxItems = 0
      <4>1. e = <<>>
        BY <1>1, <2>1, <2>2, <3>1
      <4> QED  BY <3>1, <4>1
    <3>2. CASE MaxItems # 0
      <4>1. k + 1 \in 1..Len(s) /\ Len(s) - (k + 1) + 1 = MaxItems
        BY <1>1, <2>1, <3>2
      <4>2. e = [i \in 1..(Len(s) - (k + 1) + 1) |-> s[k + 1 + i - 1]]
        BY <1>1, <2>2, <4>1
      <4>3. \A i \in 1..MaxItems : k + 1 + i - 1 = i + k
        BY <1>1
      <4> QED  BY <4>1, <4>2, <4>3
    <3> QED  BY <3>1, <3>2
  <2>5. \A i \in 1..MaxItems : s[i + k] \in T
    BY <1>1, <2>3
  <2>6. e \in Seq(T) /\ Len(e) = MaxItems /\ DOMAIN e = 1..MaxItems
    BY <1>1, <2>4, <2>5
  <2> QED  BY <1>1, <2>3, <2>4, <2>6
<1>3. CASE ~(Len(s) > MaxItems)
  <2>1. e = SubSeq(s, 1, Len(s))
    BY <1>3 DEF Research!Evict
  <2>2. e = s
    BY <1>1, <2>1
  <2>3. \A i \in DOMAIN s : i + 0 = i
    BY <1>1
  <2> QED  BY <2>2, <2>3
<1> QED  BY <1>2, <1>3

(* The deepest of what was covered and what a crawl read.                  *)
LEMMA DepthIs ==
    ASSUME NEW c, CrawlOK(c), NEW d \in Nat
    PROVE  LET depths == {d} \cup {c.pages[i].depth : i \in DOMAIN c.pages}
           IN  /\ Research!Max(depths) \in Nat /\ Research!Max(depths) >= d
<1> DEFINE depths == {d} \cup {c.pages[i].depth : i \in DOMAIN c.pages}
<1>1. c.pages \in Seq(Visits) /\ \A i \in DOMAIN c.pages : c.pages[i].depth \in Nat
  BY CrawlTypes DEF CrawlOK
<1>2. PICK p \in Seq(Visits) : p = c.pages
  BY <1>1
<1>3. Len(p) \in Nat /\ DOMAIN p = 1..Len(p)
  OBVIOUS
<1>4. depths \subseteq Nat /\ d \in depths
  BY <1>1
<1>5. \E x \in depths : \A y \in depths : x >= y
  <2>1. CASE Len(p) = 0
    <3>1. \A y \in depths : y = d
      BY <1>2, <1>3, <2>1
    <3>2. d >= d
      OBVIOUS
    <3> HIDE DEF depths
    <3> QED  BY <1>4, <3>1, <3>2
  <2>2. CASE Len(p) # 0
    <3>1. PICK n \in Nat : n = p[Len(p)].depth /\ Len(p) \in DOMAIN p
      BY <1>1, <1>2, <1>3, <2>2
    <3>2. \A i \in DOMAIN p : p[i].depth <= n
      <4>1. \A i, j \in DOMAIN p : i < j => p[i].depth <= p[j].depth
        BY <1>2 DEF CrawlOK, ByLevel
      <4>2. \A i \in DOMAIN p : i = Len(p) \/ i < Len(p)
        BY <1>3
      <4> QED  BY <1>1, <1>2, <3>1, <4>1, <4>2
    <3>3. n \in depths
      BY <1>2, <3>1
    <3>4. \A y \in depths : y = d \/ y <= n
      BY <1>2, <3>2
    <3>5. CASE d <= n
      BY <3>3, <3>4, <3>5
    <3>6. CASE ~(d <= n)
      <4> HIDE DEF depths
      <4>1. \A y \in depths : d >= y
        BY <1>4, <3>4, <3>6
      <4> QED  BY <1>4, <4>1
    <3> QED  BY <3>5, <3>6
  <2> QED  BY <2>1, <2>2
<1>6. Research!Max(depths) \in depths /\ \A y \in depths : Research!Max(depths) >= y
  BY <1>5 DEF Research!Max
<1> HIDE DEF depths
<1>7. Research!Max(depths) \in Nat /\ Research!Max(depths) >= d
  BY <1>4, <1>6
<1> QED  BY <1>7 DEF depths

(* What merging a crawl into the coverage does.                            *)
Merged(c, v, w) ==
    /\ w.fetched = v.fetched \cup {c.pages[i].url : i \in DOMAIN c.pages}
    /\ w.failed = (v.failed \cup c.failed) \ w.fetched
    /\ w.depth \in Nat /\ w.depth >= v.depth
    /\ w \in [fetched : SUBSET Urls, failed : SUBSET Urls, depth : Nat]
    /\ IsFiniteSet(w.fetched)

(* Merging does so.                                                        *)
LEMMA MergeIs ==
    ASSUME NEW c, CrawlOK(c),
           NEW v \in [fetched : SUBSET Urls, failed : SUBSET Urls, depth : Nat],
           IsFiniteSet(v.fetched), NEW w, w = Research!Merge(v, c)
    PROVE  Merged(c, v, w)
<1>1. PICK d \in Nat : d = v.depth
  OBVIOUS
<1>2. PICK new : new = {c.pages[i].url : i \in DOMAIN c.pages}
  OBVIOUS
<1>3. PICK m \in Nat : m >= d /\ m = Research!Max({d} \cup {c.pages[i].depth : i \in DOMAIN c.pages})
  BY DepthIs
<1>4. c.pages \in Seq(Visits) /\ c.failed \subseteq Urls
  BY CrawlTypes DEF CrawlOK
<1>5. new \subseteq Urls
  <2>1. \A i \in DOMAIN c.pages : c.pages[i].url \in Urls
    <3>1. \A i \in DOMAIN c.pages : c.pages[i] \in Visits
      BY <1>4
    <3>2. \A x \in Visits : x.url \in Urls
      BY DEF Visits
    <3> QED  BY <3>1, <3>2
  <2> QED  BY <1>2, <2>1
<1>6. IsFiniteSet(new)
  <2> DEFINE f == [i \in DOMAIN c.pages |-> c.pages[i].url]
  <2>1. DOMAIN c.pages = 1..Len(c.pages) /\ Len(c.pages) \in Int
    BY <1>4
  <2>2. IsFiniteSet(DOMAIN c.pages)
    BY <2>1, FS_Interval, 1 \in Int, Zenon
  <2>3. new = {f[i] : i \in DOMAIN c.pages}
    BY <1>2
  <2> HIDE DEF f
  <2> QED  BY <2>2, <2>3, ImageIsFinite
<1>7. IsFiniteSet(v.fetched \cup new)
  BY <1>6, FS_Union
<1>8. w = [fetched |-> v.fetched \cup new, failed |-> (v.failed \cup c.failed) \ (v.fetched \cup new), depth |-> m]
  BY <1>1, <1>2, <1>3 DEF Research!Merge
<1>9. v.fetched \subseteq Urls /\ v.failed \subseteq Urls
  OBVIOUS
<1> QED  BY <1>1, <1>2, <1>3, <1>4, <1>5, <1>7, <1>8, <1>9 DEF Merged

(* The pages of a crawl as they join the evidence, numbered on.            *)
Numbered(new, c, n) ==
    /\ new \in Seq(Items) /\ DOMAIN new = DOMAIN c.pages /\ Len(new) \in Nat
    /\ DOMAIN new = 1..Len(new)
    /\ \A i \in DOMAIN new : new[i].id = n + i /\ new[i].url = c.pages[i].url
    /\ Research!ItemIds(new) = (n + 1)..(n + Len(new))

(* The pages of a crawl join so.                                           *)
LEMMA NewItems ==
    ASSUME NEW c, CrawlOK(c), NEW n \in Nat,
           NEW new, new = [i \in DOMAIN c.pages |-> [id |-> n + i, url |-> c.pages[i].url]]
    PROVE  Numbered(new, c, n)
<1>1. c.pages \in Seq(Visits)
  BY CrawlTypes DEF CrawlOK
<1>2. PICK m \in Nat : m = Len(c.pages) /\ DOMAIN c.pages = 1..m
  BY <1>1
<1>3. \A i \in 1..m : c.pages[i].url \in Urls
  <2>1. \A i \in 1..m : c.pages[i] \in Visits
    BY <1>1, <1>2
  <2>2. \A x \in Visits : x.url \in Urls
    BY DEF Visits
  <2> QED  BY <2>1, <2>2
<1>4. \A i \in 1..m : [id |-> n + i, url |-> c.pages[i].url] \in Items
  BY <1>3 DEF Items
<1>5. new \in [1..m -> Items]
  BY <1>2, <1>4
<1>6. new \in Seq(Items) /\ Len(new) = m /\ DOMAIN new = 1..m
  <2>1. PICK f \in [1..m -> Items] : f = new
    BY <1>5
  <2>2. f \in Seq(Items) /\ Len(f) = m /\ DOMAIN f = 1..m
    OBVIOUS
  <2> QED  BY <2>1, <2>2, Zenon
<1>7. \A i \in 1..m : new[i].id = n + i /\ new[i].url = c.pages[i].url
  BY <1>2
<1>8. Research!ItemIds(new) = (n + 1)..(n + m)
  <2>1. Research!ItemIds(new) = {n + i : i \in 1..m}
    BY <1>6, <1>7 DEF Research!ItemIds
  <2>2. ASSUME NEW k \in (n + 1)..(n + m)
        PROVE  k \in {n + i : i \in 1..m}
    <3>1. k - n \in 1..m /\ k = n + (k - n)
      OBVIOUS
    <3> QED  BY <3>1
  <2>3. ASSUME NEW i \in 1..m
        PROVE  n + i \in (n + 1)..(n + m)
    OBVIOUS
  <2> QED  BY <2>1, <2>2, <2>3
<1> QED  BY <1>2, <1>6, <1>7, <1>8 DEF Numbered

(* The evidence with a crawl's pages added, before the oldest are dropped. *)
Added(c, new, s) ==
    /\ s \in Seq(Items)
    /\ \A i \in DOMAIN s : s[i].id \in 1..(research_counter + Len(new))
    /\ \A i, j \in DOMAIN s : i < j => s[i].id < s[j].id
    /\ \A i \in DOMAIN s : s[i].id \notin research_discarded
    /\ Gathered(s, research_attempt \cup Research!ItemIds(new)) =
          Gathered(research_evidence, research_attempt) \cup {c.pages[i].url : i \in DOMAIN c.pages}
    /\ Len(s) \in Nat /\ Len(research_evidence) \in Nat /\ Len(research_evidence) <= Len(s)

(* Numbers still grow, and this attempt gathered the new pages too.        *)
LEMMA ItemsAdded ==
    ASSUME EvidenceOK, NEW c, NEW new, Numbered(new, c, research_counter),
           NEW s, s = research_evidence \o new
    PROVE  Added(c, new, s)
<1>1. PICK q \in Seq(Items) : q = research_evidence
  BY DEF EvidenceOK, EvidenceTypes, Items
<1>2. PICK n \in Nat : n = research_counter
  BY DEF EvidenceOK, EvidenceTypes
<1>3. PICK m \in Nat : m = Len(new)
  BY DEF Numbered
<1>4. /\ new \in Seq(Items) /\ DOMAIN new = 1..m /\ DOMAIN new = DOMAIN c.pages
      /\ \A i \in DOMAIN new : new[i].id = n + i /\ new[i].url = c.pages[i].url
      /\ Research!ItemIds(new) = (n + 1)..(n + m)
  BY <1>2, <1>3 DEF Numbered
<1>5. /\ \A i \in DOMAIN q : q[i].id \in 1..n /\ q[i].id \notin research_discarded
      /\ \A i, j \in DOMAIN q : i < j => q[i].id < q[j].id
      /\ research_attempt \subseteq 1..n /\ research_discarded \subseteq 1..n
  BY <1>1, <1>2 DEF EvidenceOK, EvidenceTypes
<1>6. PICK k \in Nat : k = Len(q)
  OBVIOUS
<1>7. /\ s \in Seq(Items) /\ Len(s) = k + m
      /\ \A i \in DOMAIN q : i \in DOMAIN s /\ s[i] = q[i]
      /\ \A i \in DOMAIN new : k + i \in DOMAIN s /\ s[k + i] = new[i]
      /\ \A i \in DOMAIN s :
            i \in DOMAIN q \/ (i > k /\ i - k \in DOMAIN new /\ s[i] = new[i - k])
  BY <1>1, <1>3, <1>4, <1>6, ConcatIs
<1>8. \A i \in DOMAIN s : \/ i \in DOMAIN q /\ s[i] = q[i] /\ s[i].id \in 1..n
                          \/ i > k /\ i - k \in 1..m /\ s[i].id = n + (i - k)
  BY <1>4, <1>5, <1>7
<1>9. DOMAIN q = 1..k /\ DOMAIN s = 1..(k + m)
  BY <1>6, <1>7
<1>10. \A i \in DOMAIN s : s[i].id \in 1..(n + m)
  BY <1>8, <1>9
<1>11. ASSUME NEW i \in DOMAIN s, NEW j \in DOMAIN s, i < j
       PROVE  s[i].id < s[j].id
  <2>1. CASE j \in DOMAIN q
    <3>1. i \in DOMAIN q
      BY <1>9, <1>11, <2>1
    <3> QED  BY <1>5, <1>7, <1>11, <2>1, <3>1
  <2>2. CASE j \notin DOMAIN q
    <3>1. j - k \in 1..m /\ s[j].id = n + (j - k)
      BY <1>8, <2>2
    <3>2. CASE i \in DOMAIN q
      <4>1. s[i].id \in 1..n
        BY <1>5, <1>7, <3>2
      <4> QED  BY <3>1, <4>1
    <3>3. CASE i \notin DOMAIN q
      <4>1. i - k \in 1..m /\ s[i].id = n + (i - k)
        BY <1>8, <3>3
      <4> QED  BY <1>9, <1>11, <3>1, <4>1
    <3> QED  BY <3>2, <3>3
  <2> QED  BY <2>1, <2>2
<1>12. ASSUME NEW i \in DOMAIN s
       PROVE  s[i].id \notin research_discarded
  <2>1. CASE i \in DOMAIN q
    BY <1>5, <1>7, <2>1
  <2>2. CASE i \notin DOMAIN q
    <3>1. i - k \in 1..m /\ s[i].id = n + (i - k)
      BY <1>8, <2>2
    <3>2. s[i].id \notin 1..n
      BY <3>1
    <3> QED  BY <1>5, <3>2
  <2> QED  BY <2>1, <2>2
<1>13. PICK a : a = research_attempt
  OBVIOUS
<1>14. \A i \in DOMAIN q : q[i].id \in a \cup ((n + 1)..(n + m)) <=> q[i].id \in a
  BY <1>5
<1>15. Gathered(s, a \cup ((n + 1)..(n + m))) = Gathered(q, a) \cup {c.pages[i].url : i \in DOMAIN c.pages}
  <2>1. ASSUME NEW i \in DOMAIN s, s[i].id \in a \cup ((n + 1)..(n + m))
        PROVE  s[i].url \in Gathered(q, a) \cup {c.pages[j].url : j \in DOMAIN c.pages}
    <3>1. CASE i \in DOMAIN q
      BY <1>7, <1>14, <2>1, <3>1 DEF Gathered
    <3>2. CASE i \notin DOMAIN q
      <4>1. i - k \in DOMAIN new /\ s[i] = new[i - k]
        BY <1>7, <3>2
      <4> QED  BY <1>4, <4>1
    <3> QED  BY <3>1, <3>2
  <2>2. ASSUME NEW i \in DOMAIN q, q[i].id \in a
        PROVE  q[i].url \in Gathered(s, a \cup ((n + 1)..(n + m)))
    BY <1>7, <2>2 DEF Gathered
  <2>3. ASSUME NEW i \in DOMAIN c.pages
        PROVE  c.pages[i].url \in Gathered(s, a \cup ((n + 1)..(n + m)))
    <3>1. i \in 1..m /\ k + i \in DOMAIN s /\ s[k + i].id = n + i /\ s[k + i].url = c.pages[i].url
      <4>1. i \in DOMAIN new
        BY <1>4, Zenon
      <4>2. new[i].id = n + i /\ new[i].url = c.pages[i].url /\ i \in 1..m
        BY <1>4, <4>1
      <4>3. k + i \in DOMAIN s /\ s[k + i] = new[i]
        BY <1>7, <4>1
      <4> QED  BY <4>2, <4>3
    <3>2. n + i \in (n + 1)..(n + m)
      BY <3>1
    <3> QED  BY <3>1, <3>2 DEF Gathered
  <2>4. Gathered(s, a \cup ((n + 1)..(n + m))) \subseteq Gathered(q, a) \cup {c.pages[i].url : i \in DOMAIN c.pages}
    BY <2>1 DEF Gathered
  <2>5. Gathered(q, a) \subseteq Gathered(s, a \cup ((n + 1)..(n + m)))
    BY <2>2 DEF Gathered
  <2>6. {c.pages[i].url : i \in DOMAIN c.pages} \subseteq Gathered(s, a \cup ((n + 1)..(n + m)))
    BY <2>3
  <2> QED  BY <2>4, <2>5, <2>6
<1>16. s \in Seq(Items) /\ Len(s) \in Nat /\ k <= Len(s)
  BY <1>7
<1>17. \A i \in DOMAIN s : s[i].id \in 1..(research_counter + Len(new))
  BY <1>2, <1>3, <1>10
<1>18. Gathered(s, research_attempt \cup Research!ItemIds(new)) =
          Gathered(research_evidence, research_attempt) \cup {c.pages[i].url : i \in DOMAIN c.pages}
  BY <1>1, <1>4, <1>13, <1>15, Zenon
<1>19. Len(research_evidence) = k
  BY <1>1, <1>6
<1>20. \A i, j \in DOMAIN s : i < j => s[i].id < s[j].id
  BY <1>11
<1>21. \A i \in DOMAIN s : s[i].id \notin research_discarded
  BY <1>12
<1>22. Len(research_evidence) \in Nat /\ Len(research_evidence) <= Len(s)
  BY <1>16, <1>19
<1> QED  BY <1>16, <1>17, <1>18, <1>20, <1>21, <1>22, Zenon DEF Added

(* More of the same coverage satisfies a contract no less.                 *)
LEMMA StaysSatisfied ==
    ASSUME NEW k, NEW c, NEW v, NEW w, Merged(c, v, w), v.depth \in Nat,
           Research!ValidContract(k), k.pages \in Int, k.depth \in Int, Research!Satisfied(k, v)
    PROVE  Research!Satisfied(k, w)
<1>1. /\ Cardinality(v.fetched) >= k.pages /\ v.depth >= k.depth /\ k.roots \subseteq v.fetched
  BY ResearchCounts DEF Research!Satisfied
<1>2. IsFiniteSet(w.fetched) /\ v.fetched \in SUBSET w.fetched /\ w.depth \in Nat /\ w.depth >= v.depth
  BY DEF Merged
<1>3. /\ Cardinality(v.fetched) <= Cardinality(w.fetched)
      /\ Cardinality(v.fetched) \in Nat /\ Cardinality(w.fetched) \in Nat
  BY <1>2, FS_Subset, FS_CardinalityType
<1>4. Cardinality(w.fetched) >= k.pages
  BY <1>1, <1>3
<1>5. w.depth >= k.depth
  BY <1>1, <1>2
<1> QED  BY <1>1, <1>2, <1>4, <1>5, ResearchCounts DEF Research!Satisfied

(* What Record does, in the terms of the lemmas.                           *)
Recorded(c, new, s, e, w) ==
    /\ CrawlOK(c) /\ Numbered(new, c, research_counter)
    /\ s = research_evidence \o new /\ e = Research!Evict(s)
    /\ w = Research!Merge(research_coverage, c)
    /\ research_evidence' = e /\ research_counter' = research_counter + Len(new)
    /\ research_attempt' = research_attempt \cup Research!ItemIds(new)
    /\ research_coverage' = w
    /\ research_done' = (research_done \/ (/\ research_contract # Research!NoContract
                                           /\ Research!Satisfied(research_contract, w)))
    /\ research_contract' = research_contract /\ research_baseline' = research_baseline
    /\ research_discarded' = research_discarded

(* A finished crawl is recorded so.                                        *)
LEMMA RecordIs ==
    ASSUME EvidenceOK, CrawlOK(research_crawl), Research!Record
    PROVE  \E c, new, s, e, w : Recorded(c, new, s, e, w)
<1>1. PICK c : c = research_crawl
  OBVIOUS
<1>2. PICK n \in Nat : n = research_counter
  BY DEF EvidenceOK, EvidenceTypes
<1>3. PICK new : new = [i \in DOMAIN c.pages |-> [id |-> n + i, url |-> c.pages[i].url]]
  OBVIOUS
<1>4. Numbered(new, c, n)
  BY <1>1, <1>3, NewItems
<1>5. PICK s : s = research_evidence \o new
  OBVIOUS
<1>6. PICK e : e = Research!Evict(s)
  OBVIOUS
<1>7. PICK w : w = Research!Merge(research_coverage, c)
  OBVIOUS
<1>8. /\ research_evidence' = e /\ research_counter' = n + Len(new)
      /\ research_attempt' = research_attempt \cup Research!ItemIds(new)
      /\ research_coverage' = w
      /\ research_done' = (research_done \/ (/\ research_contract # Research!NoContract
                                             /\ Research!Satisfied(research_contract, w)))
      /\ research_contract' = research_contract /\ research_baseline' = research_baseline
      /\ research_discarded' = research_discarded
  <2>1. new = [i \in DOMAIN research_crawl.pages |->
                  [id |-> research_counter + i, url |-> research_crawl.pages[i].url]]
    BY <1>1, <1>2, <1>3
  <2>2. /\ research_evidence' = Research!Evict(research_evidence \o new)
        /\ research_counter' = research_counter + Len(new)
        /\ research_attempt' = research_attempt \cup Research!ItemIds(new)
    BY <2>1, Zenon DEF Research!Record
  <2>3. research_coverage' = Research!Merge(research_coverage, research_crawl)
    BY DEF Research!Record
  <2>4. /\ research_done' = (research_done \/ (/\ research_contract # Research!NoContract
                                               /\ Research!Satisfied(research_contract, research_coverage')))
        /\ research_contract' = research_contract /\ research_baseline' = research_baseline
        /\ research_discarded' = research_discarded
    BY DEF Research!Record
  <2> QED  BY <1>1, <1>2, <1>5, <1>6, <1>7, <2>2, <2>3, <2>4, Zenon
<1>9. Recorded(c, new, s, e, w)
  BY <1>1, <1>2, <1>4, <1>5, <1>6, <1>7, <1>8, Zenon DEF Recorded
<1> QED  BY <1>9

(* Recording keeps the evidence as it must be.                             *)
LEMMA RecordedOK ==
    ASSUME EvidenceOK, NEW c, NEW new, NEW s, NEW e, NEW w, Recorded(c, new, s, e, w)
    PROVE  EvidenceOK'
<1>1. Added(c, new, s)
  BY ItemsAdded DEF Recorded
<1>2. /\ s \in Seq(Items) /\ Len(s) \in Nat
      /\ \A i \in DOMAIN s : s[i].id \in 1..(research_counter + Len(new))
      /\ \A i, j \in DOMAIN s : i < j => s[i].id < s[j].id
      /\ \A i \in DOMAIN s : s[i].id \notin research_discarded
  BY <1>1 DEF Added
<1>3. /\ e \in Seq(Items)
      /\ Len(e) < MaxItems => e = s
      /\ \E k \in Nat : \A i \in DOMAIN e : i + k \in DOMAIN s /\ e[i] = s[i + k]
  <2>1. e = Research!Evict(s)
    BY DEF Recorded
  <2> QED  BY <1>2, <2>1, EvictIs
<1>4. PICK k \in Nat : \A i \in DOMAIN e : i + k \in DOMAIN s /\ e[i] = s[i + k]
  BY <1>3
<1>5. PICK n \in Nat, m \in Nat : n = research_counter /\ m = Len(new)
  BY DEF EvidenceOK, EvidenceTypes, Recorded, Numbered
<1>6. /\ Research!ItemIds(new) = (n + 1)..(n + m) /\ research_counter' = n + m
      /\ research_attempt' = research_attempt \cup ((n + 1)..(n + m))
  BY <1>5 DEF Recorded, Numbered
<1>7. /\ research_attempt \subseteq 1..n /\ research_discarded \subseteq 1..n
      /\ research_baseline \subseteq 0..n
  BY <1>5 DEF EvidenceOK, EvidenceTypes
<1>8. Merged(c, research_coverage, w)
  BY MergeIs DEF Recorded, EvidenceOK, EvidenceTypes
<1>9. /\ research_evidence' = e /\ research_coverage' = w /\ research_contract' = research_contract
      /\ research_baseline' = research_baseline /\ research_discarded' = research_discarded
      /\ research_done' = (research_done \/ (/\ research_contract # Research!NoContract
                                             /\ Research!Satisfied(research_contract, w)))
  BY DEF Recorded
<1>10. EvidenceTypes'
  <2>1. e \in Seq([id : Nat, url : Urls])
    BY <1>3 DEF Items
  <2>2. w \in [fetched : SUBSET Urls, failed : SUBSET Urls, depth : Nat] /\ IsFiniteSet(w.fetched)
    BY <1>8 DEF Merged
  <2>3. research_attempt' \subseteq 1..(n + m)
    BY <1>6, <1>7
  <2>4. research_discarded' \subseteq 1..(n + m)
    BY <1>7, <1>9
  <2>5. research_baseline' \subseteq 0..(n + m)
    BY <1>7, <1>9
  <2>6. \A i \in DOMAIN e : e[i].id \in 1..(n + m)
    BY <1>2, <1>4, <1>5
  <2>7. research_counter' \in Nat
    BY <1>6
  <2> QED  BY <1>6, <1>9, <2>1, <2>2, <2>3, <2>4, <2>5, <2>6, <2>7 DEF EvidenceTypes
<1>11. ASSUME NEW i \in DOMAIN e, NEW j \in DOMAIN e, i < j
       PROVE  e[i].id < e[j].id
  <2>1. i + k \in DOMAIN s /\ j + k \in DOMAIN s /\ e[i] = s[i + k] /\ e[j] = s[j + k]
    BY <1>4
  <2>2. i + k < j + k
    BY <1>3, <1>11
  <2> QED  BY <1>2, <2>1, <2>2
<1>12. research_baseline \cap (research_attempt \cup ((n + 1)..(n + m))) = {}
  <2>1. research_baseline \cap research_attempt = {}
    BY DEF EvidenceOK
  <2>2. \A x \in research_baseline : x \notin (n + 1)..(n + m)
    BY <1>7
  <2> QED  BY <2>1, <2>2
<1>13. \A i \in DOMAIN e : e[i].id \notin research_discarded
  BY <1>2, <1>4
<1>14. ASSUME Len(e) < MaxItems
       PROVE  w.fetched = Gathered(e, research_attempt')
  <2>1. e = s /\ Len(research_evidence) < MaxItems
    <3>1. Len(research_evidence) \in Nat /\ Len(research_evidence) <= Len(s)
      BY <1>1 DEF Added
    <3> QED  BY <1>2, <1>3, <1>14, <3>1, ResearchAssumption
  <2>2. research_coverage.fetched = Gathered(research_evidence, research_attempt)
    BY <2>1 DEF EvidenceOK
  <2>3. Gathered(s, research_attempt \cup Research!ItemIds(new)) =
           Gathered(research_evidence, research_attempt) \cup {c.pages[i].url : i \in DOMAIN c.pages}
    BY <1>1 DEF Added
  <2>4. w.fetched = research_coverage.fetched \cup {c.pages[i].url : i \in DOMAIN c.pages}
    BY <1>8 DEF Merged
  <2>5. research_attempt' = research_attempt \cup Research!ItemIds(new)
    BY DEF Recorded
  <2> QED  BY <2>1, <2>2, <2>3, <2>4, <2>5, Zenon
<1>15. w.fetched \cap w.failed = {}
  BY <1>8 DEF Merged
<1>16. research_done' => /\ research_contract # Research!NoContract
                         /\ Research!Satisfied(research_contract, w)
  <2>1. CASE research_done
    <3>1. research_contract # Research!NoContract /\ Research!Satisfied(research_contract, research_coverage)
      BY <2>1 DEF EvidenceOK
    <3>2. /\ Research!ValidContract(research_contract)
          /\ research_contract.pages \in Int /\ research_contract.depth \in Int
      BY <3>1 DEF EvidenceOK, ContractOK
    <3>3. research_coverage.depth \in Nat
      BY DEF EvidenceOK, EvidenceTypes
    <3>4. Research!Satisfied(research_contract, w)
      BY <1>8, <3>1, <3>2, <3>3, StaysSatisfied
    <3> QED  BY <3>1, <3>4
  <2>2. CASE ~research_done
    BY <1>9, <2>2
  <2> QED  BY <2>1, <2>2
<1>17. ContractOK(research_contract)
  BY DEF EvidenceOK
<1>18. \A i, j \in DOMAIN e : i < j => e[i].id < e[j].id
  BY <1>11
<1>19. research_attempt' = research_attempt \cup ((n + 1)..(n + m))
  BY <1>6
<1> QED  BY <1>9, <1>10, <1>12, <1>13, <1>14, <1>15, <1>16, <1>17, <1>18, <1>19 DEF EvidenceOK

---------------------------------------------------------------------------
(* Runs, regenerated attempts and restarts.                                *)

(* No run changes what is kept but a new attempt: its coverage is empty,   *)
(* and what it sets out from is what it finds.                             *)
LEMMA StoreIs ==
    ASSUME EvidenceTypes
    PROVE  /\ Research!ItemIds(research_evidence) \subseteq 0..research_counter
           /\ \A s : Gathered(s, {}) = {}
           /\ Research!NoCoverage \in [fetched : SUBSET Urls, failed : SUBSET Urls, depth : Nat]
           /\ IsFiniteSet(Research!NoCoverage.fetched)
           /\ Research!NoCoverage.fetched = {} /\ Research!NoCoverage.failed = {}
<1>1. PICK n \in Nat : n = research_counter
  BY DEF EvidenceTypes
<1>2. \A i \in DOMAIN research_evidence : research_evidence[i].id \in 0..n
  BY <1>1 DEF EvidenceTypes
<1>3. Research!ItemIds(research_evidence) \subseteq 0..n
  BY <1>2 DEF Research!ItemIds
<1>4. IsFiniteSet({})
  BY FS_EmptySet
<1> QED  BY <1>1, <1>3, <1>4 DEF Gathered, Research!NoCoverage

(* A prompt makes a contract that can be kept, or none.                    *)
LEMMA ContractIs ==
    ASSUME NEW prompt \in Prompts
    PROVE  ContractOK(Research!ExtractResearch(prompt))
<1>1. /\ IsFiniteSet(prompt.urls) /\ prompt.pages \in Int /\ prompt.depth \in Nat \cup {Research!Unsaid}
  BY ResearchAssumption
<1>2. PICK roots : roots = Research!ExtractUrls(prompt) /\ Research!NoUrl \notin roots
  <2>1. Research!NoUrl \notin Research!ExtractUrls(prompt)
    BY DEF Research!ExtractUrls
  <2> QED  BY <2>1
<1>3. PICK k \in Nat : k = Cardinality(roots)
  <2> DEFINE f == [u \in prompt.urls |-> Research!CanonicalUrl(u)]
             all == {f[u] : u \in prompt.urls}
  <2>1. roots \in SUBSET all
    BY <1>2 DEF Research!ExtractUrls
  <2> HIDE DEF f
  <2>2. IsFiniteSet(all)
    BY <1>1, ImageIsFinite
  <2> HIDE DEF all
  <2>3. IsFiniteSet(roots)
    BY <2>1, <2>2, FS_Subset
  <2> QED  BY <2>3, FS_CardinalityType
<1>4. PICK asked \in Int : /\ asked >= 1
                           /\ asked = IF prompt.pages # Research!Unsaid THEN Research!Max({1, prompt.pages})
                                      ELSE IF prompt.deep THEN 5 ELSE 1
  <2>1. PICK one \in Int : one = 1
    OBVIOUS
  <2>2. Research!Max({one, prompt.pages}) \in {one, prompt.pages} /\ Research!Max({one, prompt.pages}) >= one
    BY <1>1, GreatestOfTwo
  <2>3. Research!Max({1, prompt.pages}) \in Int /\ Research!Max({1, prompt.pages}) >= 1
    BY <1>1, <2>1, <2>2
  <2>4. PICK asked : asked = IF prompt.pages # Research!Unsaid THEN Research!Max({1, prompt.pages})
                             ELSE IF prompt.deep THEN 5 ELSE 1
    OBVIOUS
  <2>5. asked \in Int /\ asked >= 1
    BY <2>3, <2>4
  <2> QED  BY <2>4, <2>5
<1>5. Research!MinPages(prompt) \in Int /\ Research!MinPages(prompt) >= 1
  <2>1. Research!Max({asked, k}) \in {asked, k} /\ Research!Max({asked, k}) >= asked
    BY GreatestOfTwo
  <2>2. Research!MinPages(prompt) = Research!Max({asked, k})
    BY <1>2, <1>3, <1>4, ResearchCounts DEF Research!MinPages
  <2>3. PICK p : p = Research!Max({asked, k})
    OBVIOUS
  <2>4. p \in Int /\ p >= 1
    BY <1>4, <2>1, <2>3
  <2> QED  BY <2>2, <2>3, <2>4
<1>6. Research!MinDepth(prompt) \in Int /\ Research!MinDepth(prompt) >= 0
  BY <1>1 DEF Research!MinDepth
<1>7. CASE roots = {}
  BY <1>2, <1>7 DEF Research!ExtractResearch, ContractOK
<1>8. CASE roots # {}
  <2>1. PICK p \in Int, d \in Int : p = Research!MinPages(prompt) /\ p >= 1 /\ d = Research!MinDepth(prompt) /\ d >= 0
    BY <1>5, <1>6
  <2>2. PICK c : c = [roots |-> roots, pages |-> p, depth |-> d]
    OBVIOUS
  <2>3. Research!ExtractResearch(prompt) = c
    BY <1>2, <1>8, <2>1, <2>2 DEF Research!ExtractResearch
  <2>4. c.roots = roots /\ c.pages = p /\ c.depth = d
    BY <2>2
  <2>5. ContractOK(c)
    BY <1>2, <1>8, <2>1, <2>4 DEF ContractOK, Research!ValidContract
  <2> QED  BY <2>3, <2>5
<1> QED  BY <1>7, <1>8

(* A new attempt: a run, a regenerated one or the first after a restart.   *)
Anew ==
    /\ research_coverage' = Research!NoCoverage /\ research_done' = FALSE
    /\ research_attempt' = {} /\ research_counter' = research_counter

(* A new attempt may keep any part of the evidence that is in order.       *)
LEMMA AnewOK ==
    ASSUME EvidenceOK, Anew, ContractOK(research_contract'),
           research_baseline' \subseteq 0..research_counter,
           research_discarded' \subseteq 1..research_counter,
           research_evidence' \in Seq([id : Nat, url : Urls]),
           \A i \in DOMAIN research_evidence' :
              /\ research_evidence'[i].id \in 1..research_counter
              /\ research_evidence'[i].id \notin research_discarded',
           \A i, j \in DOMAIN research_evidence' :
              i < j => research_evidence'[i].id < research_evidence'[j].id
    PROVE  EvidenceOK'
<1>1. EvidenceTypes /\ research_counter \in Nat
  BY DEF EvidenceOK, EvidenceTypes
<1>2. EvidenceTypes'
  <2>1. {} \subseteq 1..research_counter
    OBVIOUS
  <2> QED  BY <1>1, <2>1, StoreIs DEF EvidenceTypes, Anew
<1>3. Research!NoCoverage.fetched = {} /\ Research!NoCoverage.failed = {}
  BY <1>1, StoreIs
<1>4. research_coverage'.fetched = Gathered(research_evidence', research_attempt')
  BY <1>1, <1>3, StoreIs DEF Anew
<1>5. research_coverage'.fetched \cap research_coverage'.failed = {}
  BY <1>3 DEF Anew
<1>6. research_baseline' \cap research_attempt' = {} /\ ~research_done'
  BY DEF Anew
<1> QED  BY <1>2, <1>4, <1>5, <1>6 DEF EvidenceOK

(* A run keeps all of it.                                                  *)
LEMMA NewRunOK ==
    ASSUME EvidenceOK, NEW prompt \in Prompts, Research!NewRun(prompt)
    PROVE  EvidenceOK' /\ research_crawl' = Research!Nothing
<1>1. /\ research_crawl' = Research!Nothing /\ Anew
      /\ research_contract' = Research!ExtractResearch(prompt)
      /\ research_baseline' = Research!ItemIds(research_evidence)
      /\ research_evidence' = research_evidence /\ research_discarded' = research_discarded
  BY DEF Research!NewRun, Research!Afresh, Anew
<1>2. EvidenceTypes
  BY DEF EvidenceOK
<1>3. ContractOK(research_contract')
  BY <1>1, ContractIs
<1>4. research_baseline' \subseteq 0..research_counter
  BY <1>1, <1>2, StoreIs
<1>5. research_discarded' \subseteq 1..research_counter
  BY <1>1, <1>2 DEF EvidenceTypes
<1>6. /\ research_evidence' \in Seq([id : Nat, url : Urls])
      /\ \A i \in DOMAIN research_evidence' : research_evidence'[i].id \in 1..research_counter
  BY <1>1, <1>2 DEF EvidenceTypes
<1>7. /\ \A i \in DOMAIN research_evidence' : research_evidence'[i].id \notin research_discarded'
      /\ \A i, j \in DOMAIN research_evidence' : i < j => research_evidence'[i].id < research_evidence'[j].id
  BY <1>1 DEF EvidenceOK
<1> QED  BY <1>1, <1>3, <1>4, <1>5, <1>6, <1>7, AnewOK

(* So does a restart.                                                      *)
LEMMA RestartOK ==
    ASSUME EvidenceOK, Research!Restart
    PROVE  EvidenceOK' /\ research_crawl' = Research!Nothing
<1>1. /\ research_crawl' = Research!Nothing /\ Anew
      /\ research_contract' = Research!NoContract
      /\ research_baseline' = {0}
      /\ research_evidence' = research_evidence /\ research_discarded' = research_discarded
  BY DEF Research!Restart, Research!Afresh, Research!Unknown, Anew
<1>2. EvidenceTypes /\ research_counter \in Nat
  BY DEF EvidenceOK, EvidenceTypes
<1>3. ContractOK(research_contract')
  BY <1>1 DEF ContractOK
<1>4. research_baseline' \subseteq 0..research_counter
  BY <1>1, <1>2
<1>5. research_discarded' \subseteq 1..research_counter
  BY <1>1, <1>2 DEF EvidenceTypes
<1>6. /\ research_evidence' \in Seq([id : Nat, url : Urls])
      /\ \A i \in DOMAIN research_evidence' : research_evidence'[i].id \in 1..research_counter
  BY <1>1, <1>2 DEF EvidenceTypes
<1>7. /\ \A i \in DOMAIN research_evidence' : research_evidence'[i].id \notin research_discarded'
      /\ \A i, j \in DOMAIN research_evidence' : i < j => research_evidence'[i].id < research_evidence'[j].id
  BY <1>1 DEF EvidenceOK
<1> QED  BY <1>1, <1>3, <1>4, <1>5, <1>6, <1>7, AnewOK

(* What is kept of the evidence when an attempt is discarded.              *)
Kept(s) ==
    /\ s \in Seq([id : Nat, url : Urls])
    /\ \A i \in DOMAIN s : /\ s[i].id \in 1..research_counter
                           /\ s[i].id \notin research_discarded \cup research_attempt
    /\ \A i, j \in DOMAIN s : i < j => s[i].id < s[j].id

(* What was there when the attempt began is of neither kind.               *)
LEMMA KeptIs ==
    ASSUME EvidenceOK, NEW s,
           s = Research!Pick(research_evidence,
                   {i \in DOMAIN research_evidence : research_evidence[i].id \in research_baseline})
    PROVE  Kept(s)
<1>1. PICK q \in Seq(Items) : q = research_evidence
  BY DEF EvidenceOK, EvidenceTypes, Items
<1>2. PICK keep \in SUBSET DOMAIN q : keep = {i \in DOMAIN q : q[i].id \in research_baseline}
  OBVIOUS
<1>3. s = Research!Pick(q, keep)
  BY <1>1, <1>2
<1>4. /\ s \in Seq(Items)
      /\ \A i \in DOMAIN s : \E n \in keep : s[i] = q[n]
      /\ \A i, j \in DOMAIN s : i < j => \E m, n \in keep : m < n /\ s[i] = q[m] /\ s[j] = q[n]
  <2>2. /\ Research!Pick(q, keep) \in Seq(Items)
        /\ \A i \in DOMAIN Research!Pick(q, keep) : \E n \in keep : Research!Pick(q, keep)[i] = q[n]
        /\ \A i, j \in DOMAIN Research!Pick(q, keep) : i < j =>
              \E m, n \in keep : /\ m < n /\ Research!Pick(q, keep)[i] = q[m]
                                 /\ Research!Pick(q, keep)[j] = q[n]
    BY ONLY PickFrom, q \in Seq(Items), keep \in SUBSET DOMAIN q, Zenon
  <2>3. s \in Seq(Items)
    BY ONLY <1>3, <2>2, Zenon
  <2>4. \A i \in DOMAIN s : \E n \in keep : s[i] = q[n]
    BY ONLY <1>3, <2>2, Zenon
  <2>5. ASSUME NEW i \in DOMAIN s, NEW j \in DOMAIN s, i < j
        PROVE  \E m, n \in keep : m < n /\ s[i] = q[m] /\ s[j] = q[n]
    <3>1. i \in DOMAIN Research!Pick(q, keep) /\ j \in DOMAIN Research!Pick(q, keep)
      BY ONLY <1>3, i \in DOMAIN s, j \in DOMAIN s, Zenon
    <3>2. PICK m \in keep, n \in keep : /\ m < n /\ Research!Pick(q, keep)[i] = q[m]
                                        /\ Research!Pick(q, keep)[j] = q[n]
      BY ONLY <2>2, <2>5, <3>1, Zenon
    <3>3. s[i] = q[m] /\ s[j] = q[n]
      BY ONLY <1>3, <3>2, Zenon
    <3> QED  BY <3>2, <3>3
  <2> QED  BY <2>3, <2>4, <2>5
<1>5. /\ \A n \in keep : n \in DOMAIN q /\ q[n].id \in research_baseline
      /\ research_baseline \cap research_attempt = {}
      /\ \A i \in DOMAIN q : q[i].id \in 1..research_counter /\ q[i].id \notin research_discarded
      /\ \A i, j \in DOMAIN q : i < j => q[i].id < q[j].id
  BY <1>1, <1>2 DEF EvidenceOK, EvidenceTypes
<1>6. \A i \in DOMAIN s : /\ s[i].id \in 1..research_counter
                          /\ s[i].id \notin research_discarded \cup research_attempt
  BY <1>4, <1>5
<1>7. \A i, j \in DOMAIN s : i < j => s[i].id < s[j].id
  BY <1>4, <1>5
<1> QED  BY <1>4, <1>6, <1>7 DEF Kept, Items

(* A regenerated attempt discards what the last one gathered.              *)
LEMMA RegenerateOK ==
    ASSUME EvidenceOK, Research!Regenerate
    PROVE  EvidenceOK' /\ research_crawl' = Research!Nothing
<1>1. EvidenceTypes /\ research_counter \in Nat /\ ContractOK(research_contract)
  BY DEF EvidenceOK, EvidenceTypes
<1>2. /\ research_crawl' = Research!Nothing /\ Anew /\ ContractOK(research_contract')
      /\ research_baseline' = Research!ItemIds(research_evidence')
  BY <1>1 DEF Research!Regenerate, Research!Afresh, Anew
<1>3. /\ research_evidence' \in Seq([id : Nat, url : Urls])
      /\ \A i \in DOMAIN research_evidence' : research_evidence'[i].id \in 1..research_counter
      /\ \A i \in DOMAIN research_evidence' : research_evidence'[i].id \notin research_discarded'
      /\ \A i, j \in DOMAIN research_evidence' : i < j => research_evidence'[i].id < research_evidence'[j].id
      /\ research_discarded' \subseteq 1..research_counter
  <2>1. CASE research_baseline = Research!Unknown
    <3>1. research_evidence' = research_evidence /\ research_discarded' = research_discarded
      BY <2>1 DEF Research!Regenerate
    <3> QED  BY <3>1 DEF EvidenceOK, EvidenceTypes
  <2>2. CASE research_baseline # Research!Unknown
    <3>1. PICK s : s = Research!Pick(research_evidence,
                       {i \in DOMAIN research_evidence : research_evidence[i].id \in research_baseline})
      OBVIOUS
    <3>2. research_evidence' = s /\ research_discarded' = research_discarded \cup research_attempt
      BY <2>2, <3>1 DEF Research!Regenerate
    <3>3. Kept(s)
      BY <3>1, KeptIs
    <3>4. research_discarded \cup research_attempt \subseteq 1..research_counter
      BY <1>1 DEF EvidenceTypes
    <3> QED  BY <3>2, <3>3, <3>4 DEF Kept
  <2> QED  BY <2>1, <2>2
<1>4. research_baseline' \subseteq 0..research_counter
  <2>1. \A i \in DOMAIN research_evidence' : research_evidence'[i].id \in 0..research_counter
    BY <1>1, <1>3
  <2> QED  BY <1>2, <2>1 DEF Research!ItemIds
<1> QED  BY <1>2, <1>3, <1>4, AnewOK

(* A crawl that starts, reads or is lost leaves the evidence alone.        *)
LEMMA EvidenceStays ==
    ASSUME EvidenceOK,
           UNCHANGED <<research_contract, research_coverage, research_done, research_evidence,
                       research_counter, research_baseline, research_attempt, research_discarded>>
    PROVE  EvidenceOK'
BY DEF EvidenceOK, EvidenceTypes

---------------------------------------------------------------------------
(* The component.                                                          *)

(* Every step keeps the invariant.                                         *)
LEMMA ResearchStep ==
    ASSUME ResearchInv, [Research!Next]_(Research!researchVars)
    PROVE  ResearchInv'
<1>1. Research!ValidPolicy(CrawlPolicy) /\ EvidenceOK
  BY DEF ResearchInv
<1>2. Research!ValidPolicy(CrawlPolicy)'
  BY <1>1 DEF Research!ValidPolicy
<1>3. ASSUME NEW start \in CrawlStarts, Research!StartCrawl(start)
      PROVE  CrawlOK(research_crawl') /\ EvidenceOK'
  <2>1. CrawlOK(research_crawl')
    BY <1>1, <1>3, CrawlStarted
  <2>2. EvidenceOK'
    BY <1>1, <1>3, EvidenceStays DEF Research!StartCrawl, Research!taskVars, Research!storeVars
  <2> QED  BY <2>1, <2>2
<1>4. ASSUME NEW fails \in BOOLEAN, Research!Visit(fails)
      PROVE  CrawlOK(research_crawl') /\ EvidenceOK'
  <2>1. CrawlOK(research_crawl)
    BY <1>4 DEF ResearchInv, Research!Visit
  <2>2. CrawlOK(research_crawl')
    BY <1>4, <2>1, VisitedOK
  <2>3. EvidenceOK'
    BY <1>1, <1>4, EvidenceStays DEF Research!Visit, Research!taskVars, Research!storeVars
  <2> QED  BY <2>2, <2>3
<1>5. ASSUME NEW prompt \in Prompts, Research!NewRun(prompt)
      PROVE  research_crawl' = Research!Nothing /\ EvidenceOK'
  BY <1>1, <1>5, NewRunOK
<1>6. ASSUME Research!Record
      PROVE  research_crawl' = Research!Nothing /\ EvidenceOK'
  <2>1. research_crawl' = Research!Nothing /\ CrawlOK(research_crawl)
    BY <1>6 DEF ResearchInv, Research!Record
  <2>2. PICK c, new, s, e, w : Recorded(c, new, s, e, w)
    BY <1>1, <1>6, <2>1, RecordIs
  <2>3. EvidenceOK'
    BY <1>1, <2>2, RecordedOK
  <2> QED  BY <2>1, <2>3
<1>7. ASSUME Research!Lost
      PROVE  research_crawl' = Research!Nothing /\ EvidenceOK'
  BY <1>1, <1>7, EvidenceStays DEF Research!Lost, Research!taskVars, Research!storeVars
<1>8. ASSUME Research!Regenerate
      PROVE  research_crawl' = Research!Nothing /\ EvidenceOK'
  BY <1>1, <1>8, RegenerateOK
<1>9. ASSUME Research!Restart
      PROVE  research_crawl' = Research!Nothing /\ EvidenceOK'
  BY <1>1, <1>9, RestartOK
<1>10. CASE UNCHANGED Research!researchVars
  <2>1. EvidenceOK'
    BY <1>1, <1>10, EvidenceStays DEF Research!researchVars, Research!taskVars, Research!storeVars
  <2>2. research_crawl' = research_crawl
    BY <1>10 DEF Research!researchVars
  <2> QED  BY <1>2, <2>1, <2>2 DEF ResearchInv
<1>11. ASSUME CrawlOK(research_crawl'), EvidenceOK'
       PROVE  ResearchInv'
  <2>1. CrawlOK(research_crawl)'
    BY <1>11 DEF CrawlOK, Bounded, Waits, OnHost, ByLevel, FollowsAll, Crawls
  <2> QED  BY <1>2, <1>11, <2>1 DEF ResearchInv
<1>12. ASSUME research_crawl' = Research!Nothing, EvidenceOK'
       PROVE  ResearchInv'
  BY <1>2, <1>12 DEF ResearchInv
<1> QED  BY <1>3, <1>4, <1>5, <1>6, <1>7, <1>8, <1>9, <1>10, <1>11, <1>12 DEF Research!Next

(* It holds when nothing was asked for yet.                                *)
LEMMA ResearchBegins == Research!Init => ResearchInv
<1> SUFFICES ASSUME Research!Init
             PROVE  ResearchInv
  OBVIOUS
<1>1. /\ Research!ValidPolicy(CrawlPolicy) /\ research_crawl = Research!Nothing
      /\ research_contract = Research!NoContract /\ research_coverage = Research!NoCoverage
      /\ ~research_done /\ research_evidence = <<>> /\ research_counter = 0
      /\ research_baseline = {} /\ research_attempt = {} /\ research_discarded = {}
  BY DEF Research!Init
<1>2. EvidenceTypes
  <2>1. IsFiniteSet({})
    BY FS_EmptySet
  <2>2. DOMAIN research_evidence = {} /\ research_evidence \in Seq([id : Nat, url : Urls])
    BY <1>1
  <2>3. /\ research_coverage \in [fetched : SUBSET Urls, failed : SUBSET Urls, depth : Nat]
        /\ research_coverage.fetched = {}
    BY <1>1 DEF Research!NoCoverage
  <2> QED  BY <1>1, <2>1, <2>2, <2>3 DEF EvidenceTypes
<1>3. DOMAIN research_evidence = {} /\ research_coverage.fetched = {}
  BY <1>1 DEF Research!NoCoverage
<1>4. Gathered(research_evidence, research_attempt) = {}
  BY <1>3 DEF Gathered
<1>5. EvidenceOK
  BY <1>1, <1>2, <1>3, <1>4 DEF EvidenceOK, ContractOK
<1> QED  BY <1>1, <1>5 DEF ResearchInv

(* When a crawl is over and says nothing, nothing is left to attempt.      *)
LEMMA CrawlHonest == ResearchInv => Research!CrawlIsHonest
<1> SUFFICES ASSUME ResearchInv, research_crawl # Research!Nothing
             PROVE  Research!CrawlIsHonest
  BY DEF Research!CrawlIsHonest
<1>1. PICK c : c = research_crawl /\ CrawlOK(c)
  BY DEF ResearchInv
<1>2. c \in Crawls /\ Bounded(c) /\ Waits(c) /\ OnHost(c) /\ ByLevel(c) /\ FollowsAll(c)
  BY <1>1 DEF CrawlOK
<1>3. PICK f : f = Research!Finished(c)
  OBVIOUS
<1>4. /\ f.pages = c.pages /\ f.bytes = c.bytes /\ f.root = c.root /\ f.attempted = c.attempted
      /\ f.pageLimit = (c.pageLimit \/ (c.queue # <<>> /\ Cardinality(c.attempted) >= CrawlPolicy.pages))
      /\ f.byteLimit = (c.byteLimit \/ (c.queue # <<>> /\ c.bytes >= CrawlPolicy.total))
  BY <1>2, <1>3, ResearchCounts DEF Research!Finished, Crawls
<1>5. Len(f.pages) <= CrawlPolicy.pages /\ f.bytes <= CrawlPolicy.total
  <2>1. Len(c.pages) \in Nat
    BY <1>2, CrawlTypes
  <2>2. /\ IsFiniteSet(c.attempted) /\ Len(c.pages) <= Cardinality(c.attempted)
        /\ Cardinality(c.attempted) <= CrawlPolicy.pages /\ c.bytes <= CrawlPolicy.total
    BY <1>2 DEF Bounded
  <2>3. Cardinality(c.attempted) \in Nat /\ CrawlPolicy.pages \in Int
    BY <2>2, FS_CardinalityType, ResearchAssumption
  <2> QED  BY <1>4, <2>1, <2>2, <2>3
<1>6. \A i \in DOMAIN f.pages : f.pages[i].url.host = f.root.host
  BY <1>2, <1>4 DEF OnHost
<1>7. \A i, j \in DOMAIN f.pages : i < j => f.pages[i].depth <= f.pages[j].depth
  BY <1>2, <1>4 DEF ByLevel
<1>8. ASSUME ~Research!More(c), ~f.pageLimit, ~f.byteLimit,
             NEW i \in DOMAIN f.pages, f.pages[i].depth < CrawlPolicy.depth
      PROVE  Follows(f.pages[i].url, f) \subseteq f.attempted
  <2>1. /\ Cardinality(c.attempted) \in Nat /\ CrawlPolicy.pages \in Int
        /\ c.bytes \in Nat /\ CrawlPolicy.total \in Int
    BY <1>2, CrawlTypes, FS_CardinalityType, ResearchAssumption DEF Bounded
  <2>2. c.queue = <<>>
    <3>1. \/ c.queue = <<>>
          \/ ~(Cardinality(c.attempted) < CrawlPolicy.pages)
          \/ ~(c.bytes < CrawlPolicy.total)
      BY <1>8, ResearchCounts DEF Research!More
    <3>2. /\ ~(c.queue # <<>> /\ Cardinality(c.attempted) >= CrawlPolicy.pages)
          /\ ~(c.queue # <<>> /\ c.bytes >= CrawlPolicy.total)
      BY <1>4, <1>8, Zenon
    <3> QED  BY <2>1, <3>1, <3>2
  <2>3. c.queued \subseteq c.attempted
    <3>1. {c.queue[k].url : k \in DOMAIN c.queue} = {}
      BY <2>2
    <3>2. c.queued \subseteq c.attempted \cup {c.queue[k].url : k \in DOMAIN c.queue}
      BY <1>2 DEF Waits
    <3> QED  BY <3>1, <3>2
  <2>4. ~c.pageLimit
    BY <1>4, <1>8
  <2>5. Follows(c.pages[i].url, c) \subseteq c.attempted \cup c.queued
    BY <1>2, <1>4, <1>8, <2>4 DEF FollowsAll
  <2>6. Follows(f.pages[i].url, f) = Follows(c.pages[i].url, c)
    BY <1>4 DEF Follows
  <2> QED  BY <1>4, <2>3, <2>5, <2>6
<1>9. ~Research!More(c) /\ ~f.pageLimit /\ ~f.byteLimit =>
         \A i \in DOMAIN f.pages : f.pages[i].depth < CrawlPolicy.depth =>
             \A l \in Research!ToSet(Research!Selected(Research!PageLinks(f.pages[i].url), f.root.host)) :
                l \in f.attempted
  BY <1>8 DEF Follows
<1>10. f = Research!Finished(research_crawl) /\ Research!More(research_crawl) = Research!More(c)
  BY <1>1, <1>3, Zenon
<1> QED  BY <1>1, <1>5, <1>6, <1>7, <1>9, <1>10, Zenon DEF Research!CrawlIsHonest

(* What the gate relies on, from the invariant.                            *)
LEMMA EvidenceHonest == ResearchInv => Research!EvidenceIsOfThisTask
<1> SUFFICES ASSUME ResearchInv
             PROVE  Research!EvidenceIsOfThisTask
  OBVIOUS
<1>1. EvidenceOK
  BY DEF ResearchInv
<1>2. \A i, j \in DOMAIN research_evidence : i < j => research_evidence[i].id < research_evidence[j].id
  BY <1>1 DEF EvidenceOK
<1>3. Len(research_evidence) < MaxItems =>
         research_coverage.fetched =
            {research_evidence[i].url : i \in {k \in DOMAIN research_evidence : research_evidence[k].id \in research_attempt}}
  BY <1>1 DEF EvidenceOK, Gathered
<1>4. research_done => Research!ValidContract(research_contract) /\ Research!Satisfied(research_contract, research_coverage)
  BY <1>1 DEF EvidenceOK, ContractOK
<1>5. research_coverage.fetched \cap research_coverage.failed = {}
  BY <1>1 DEF EvidenceOK
<1>6. Research!ItemIds(research_evidence) \cap research_discarded = {}
  BY <1>1 DEF EvidenceOK, Research!ItemIds
<1> QED  BY <1>2, <1>3, <1>4, <1>5, <1>6, Zenon DEF Research!EvidenceIsOfThisTask

(* The inductive invariant of the crawl and its evidence holds throughout. *)
THEOREM ResearchInvariant == ServicesSpec => []ResearchInv
<1>1. ServicesInit => ResearchInv
  BY ResearchBegins DEF ServicesInit
<1>2. ResearchInv /\ [ServicesNext]_servicesVars => ResearchInv'
  BY ResearchStep, ResearchSteps
<1> QED  BY <1>1, <1>2, PTL DEF ServicesSpec

(* A crawl that says nothing of a limit attempted every link it selected,  *)
(* within its bounds and on its host, and what the completion gate counts  *)
(* was fetched by this attempt and is kept, whatever links, redirects,     *)
(* failures, runs, regenerations and restarts come between (WebCrawler,    *)
(* store_research_evidence, the task's research contract).                 *)
THEOREM ResearchStaysHonest == ServicesSpec => []ResearchIsHonest
<1>1. ResearchInv => ResearchIsHonest
  BY CrawlHonest, EvidenceHonest DEF ResearchIsHonest, Research!ResearchIsHonest
<1> QED  BY <1>1, ResearchInvariant, PTL
===========================================================================
