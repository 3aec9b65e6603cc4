------------------------------- MODULE Skills -------------------------------
(***************************************************************************)
(* SkillManager of one session over the skills directory every session     *)
(* shares: the library (SkillsService) edits the files, the manager scans  *)
(* them once, the reader pins skills, the agent loads others, and pins are *)
(* kept on disk for the next start.  No event callback is installed, so an *)
(* operation runs without a suspension.                                    *)
(***************************************************************************)
EXTENDS FiniteSets

CONSTANTS Names,      \* skills
          FromPlugin  \* those an initialised plugin registered before the first scan

VARIABLES files,    \* the skills directory: none, good or bad (unreadable) per skill
          catalog,  \* SkillRegistry
          scanned,  \* the directory is marked as scanned
          loaded, active, pinned,   \* _loaded_skills, _active_skills, _preloaded_skills
          applied,  \* AgentSession.preloaded_skill_names
          stored,   \* the pins in the state store
          byAgent,  \* history: what the agent loaded itself
          partial   \* history: a restored pin list stopped half-way

skillVars == <<files, catalog, scanned, loaded, active, pinned, applied, stored, byAgent, partial>>

Good == {n \in Names : files[n] = "good"}

Begin == /\ catalog' = FromPlugin /\ scanned' = FALSE
         /\ loaded' = {} /\ active' = {} /\ pinned' = {} /\ applied' = {}

Init == /\ files = [n \in Names |-> "none"]
        /\ catalog = FromPlugin /\ scanned = FALSE
        /\ loaded = {} /\ active = {} /\ pinned = {} /\ applied = {}
        /\ stored = {} /\ byAgent = {} /\ partial = FALSE

\* SkillsService: create and update write the file atomically, delete removes it;
\* a hand edit may leave anything.
Edit(n) == /\ files' \in {[files EXCEPT ![n] = f] : f \in {"none", "good", "bad"}}
           /\ UNCHANGED <<catalog, scanned, loaded, active, pinned, applied, stored, byAgent, partial>>

\* discover: files are registered one by one; an unreadable one, or one whose
\* name is taken, stops the scan, which is then not marked as done.
Discovers(ok) ==
    \/ ok /\ scanned /\ UNCHANGED <<catalog, scanned>>
    \/ /\ ok /\ ~scanned /\ \A n \in Names : files[n] # "bad" /\ (files[n] = "good" => n \notin catalog)
       /\ catalog' = catalog \cup Good /\ scanned' = TRUE
    \/ /\ ~ok /\ ~scanned /\ \E n \in Names : files[n] = "bad" \/ (files[n] = "good" /\ n \in catalog)
       /\ \E some \in SUBSET (Good \ catalog) : catalog' = catalog \cup some
       /\ UNCHANGED scanned

\* list_available_metadata, for the catalogue in the prompt and the skills page.
List == \E ok \in BOOLEAN :
            /\ Discovers(ok)
            /\ UNCHANGED <<files, loaded, active, pinned, applied, stored, byAgent, partial>>

\* activate = load, which scans for a name it does not know.
Known(n) == n \in loaded \cup catalog

\* The skills.load tool.
LoadSkill(n) ==
    /\ \/ Known(n) /\ UNCHANGED <<catalog, scanned>>
       \/ ~Known(n) /\ \E ok \in BOOLEAN : Discovers(ok)
    /\ IF n \in catalog' /\ (Known(n) \/ scanned')
       THEN loaded' = loaded \cup {n} /\ active' = active \cup {n} /\ byAgent' = byAgent \cup {n}
       ELSE UNCHANGED <<loaded, active, byAgent>>
    /\ UNCHANGED <<files, pinned, applied, stored, partial>>

\* MutantPreload: what is no longer wanted stays in the prompt.
MutantPreload(wanted, done) ==
    /\ pinned' = (pinned \cap wanted) \cup done
    /\ active' = active \cup done
    /\ loaded' = loaded \cup done

\* preload: the pins no longer wanted go, with their activation (nothing ever
\* marks a skill as used); the wanted ones are activated, then pinned.
Preload(wanted, done) ==
    /\ pinned' = (pinned \cap wanted) \cup done
    /\ active' = (active \ (pinned \ wanted)) \cup done
    /\ loaded' = loaded \cup done

\* POST preload: unknown names are refused before anything changes; what was
\* applied is then written to the state store.
Pin(wanted) ==
    /\ \E ok \in BOOLEAN :
          /\ Discovers(ok)
          /\ IF ok /\ wanted \subseteq catalog'
             THEN Preload(wanted, wanted) /\ applied' = pinned' /\ stored' = applied'
             ELSE UNCHANGED <<loaded, active, pinned, applied, stored>>
    /\ UNCHANGED <<files, byAgent, partial>>

\* Any turn writes the working state, the pins among it.
Flush == /\ stored # applied /\ stored' = applied
         /\ UNCHANGED <<files, catalog, scanned, loaded, active, pinned, applied, byAgent, partial>>

\* A new process: apply_preloaded_skills re-pins what is stored, one by one.
Restart ==
    /\ scanned' \in BOOLEAN
    /\ LET clean == \A n \in Names : files[n] # "bad" /\ (files[n] = "good" => n \notin FromPlugin)
           reach == FromPlugin \cup Good IN
       /\ scanned' <=> clean /\ ~(stored \subseteq FromPlugin)
       /\ \/ /\ stored \subseteq FromPlugin \/ (clean /\ stored \subseteq reach)
             /\ catalog' = IF scanned' THEN reach ELSE FromPlugin
             /\ loaded' = stored /\ active' = stored /\ pinned' = stored
             /\ applied' = stored /\ UNCHANGED partial
          \/ /\ ~(stored \subseteq FromPlugin) /\ ~(clean /\ stored \subseteq reach)
             /\ \E some \in SUBSET (Good \ FromPlugin) :
                    catalog' = IF clean THEN reach ELSE FromPlugin \cup some
             /\ \E done \in SUBSET (stored \cap catalog') :
                    /\ clean \/ done \subseteq FromPlugin
                    /\ loaded' = done /\ active' = done /\ pinned' = done
             /\ applied' = {} /\ partial' = TRUE
    /\ byAgent' = {}
    /\ UNCHANGED <<files, stored>>

Next == \/ \E n \in Names : Edit(n) \/ LoadSkill(n)
        \/ \E wanted \in SUBSET Names : Pin(wanted)
        \/ List \/ Flush \/ Restart

Spec == Init /\ [][Next]_skillVars

-----------------------------------------------------------------------------
\* Over edits of the library, failed scans and restarts: what is active is
\* registered (rendering the prompt looks it up and would raise on every turn)
\* and pinned or loaded by the agent; every pin is active, and the disk holds
\* the pins the reader chose, unless a restored list stopped half-way (preload,
\* persist_preloaded_skills).
SkillsAreReachable ==
    /\ pinned \subseteq active /\ active \subseteq loaded /\ loaded \subseteq catalog
    /\ active \subseteq pinned \cup byAgent
    /\ partial \/ (applied = pinned /\ stored = pinned)
=============================================================================
