------------------------------ MODULE Plugins ------------------------------
(***************************************************************************)
(* PluginManager, its loader and the tools plugins put into the shared     *)
(* ToolRegistry.  No event callback is installed (create_runtime), so an   *)
(* operation runs without a suspension.  setup() is the plugin's own code: *)
(* it may raise after registering some of its tools.                       *)
(***************************************************************************)
EXTENDS FiniteSets

CONSTANTS Names,     \* plugins with an entry point
          ToolNames, \* tools plugins may bring
          Brings,    \* [Names -> SUBSET ToolNames]: what setup() registers
          Disabled   \* names disabled by configuration

VARIABLES state,    \* PluginRegistry: the state of each plugin, "absent" when not registered
          owner,    \* whose object each tool name is in the ToolRegistry, "none" for free
          tracked   \* PluginContext.registered_tools per plugin; NoContext without a context

pluginVars == <<state, owner, tracked>>

NoContext == {"no context"}
Free == {t \in ToolNames : owner[t] = "none"}
Goes(p, s) == state' = [state EXCEPT ![p] = s]

Init == /\ state = [p \in Names |-> "absent"]
        /\ owner = [t \in ToolNames |-> "none"]
        /\ tracked = [p \in Names |-> NoContext]

\* Entry points whose import fails are skipped; the first name that is already
\* registered stops the loop.
Discover ==
    \E found \in SUBSET (Names \ Disabled) :
        /\ \/ \A p \in found : state[p] = "absent"
           \/ \E p \in Names \ Disabled : state[p] # "absent"
        /\ state' = [p \in Names |-> IF p \in found /\ state[p] = "absent" THEN "discovered" ELSE state[p]]
        /\ UNCHANGED <<owner, tracked>>

\* PluginLoader.load keeps a plugin that got this far, and resets any other.
LoadAll ==
    \E found \in SUBSET (Names \ Disabled) :
        /\ state' = [p \in Names |-> IF p \in found /\ state[p] \notin {"initialized", "active"}
                                     THEN "loaded" ELSE state[p]]
        /\ UNCHANGED <<owner, tracked>>

\* The manager's own load makes the context, and an active plugin "loaded" again.
WithContext(p) == IF tracked[p] = NoContext THEN {} ELSE tracked[p]
Load(p) ==
    /\ p \notin Disabled
    /\ Goes(p, "loaded") /\ tracked' = [tracked EXCEPT ![p] = WithContext(p)]
    /\ UNCHANGED owner

\* MutantSetup: the tools of a set-up that succeeds are not tracked.
MutantSetup(p, done) ==
    /\ owner' = [t \in ToolNames |-> IF t \in done THEN p ELSE owner[t]]
    /\ tracked' = [tracked EXCEPT ![p] = WithContext(p)]

\* PluginToolRegistry.register: into the registry, then into the context.
Setup(p, done) ==
    /\ owner' = [t \in ToolNames |-> IF t \in done THEN p ELSE owner[t]]
    /\ tracked' = [tracked EXCEPT ![p] = WithContext(p) \cup done]

\* initialize: a set-up that raises, over a taken name or for a reason of its
\* own, leaves what it had registered, and a failed plugin.
Initialize(p, then) ==
    /\ state[p] # "absent" \/ p \notin Disabled
    /\ \/ /\ Brings[p] \subseteq Free
          /\ Setup(p, Brings[p]) /\ Goes(p, then)
       \/ \E done \in SUBSET (Brings[p] \cap Free) : Setup(p, done) /\ Goes(p, "failed")

InitializeOne(p) == state[p] \notin {"failed", "initialized"} /\ Initialize(p, "initialized")

\* activate initializes whatever is not exactly initialized, an active one too.
Activate(p) ==
    \/ state[p] = "initialized" /\ Goes(p, "active") /\ UNCHANGED <<owner, tracked>>
    \/ state[p] \notin {"initialized", "failed"} /\ Initialize(p, "active")

\* MutantWithdraw: the plugin's tools stay behind.
MutantWithdraw(p) == owner' = owner

\* deactivate removes by name what the context tracked.
Withdraw(p) == owner' = [t \in ToolNames |-> IF t \in tracked[p] THEN "none" ELSE owner[t]]

Deactivate(p) == /\ state[p] = "active"
                 /\ Goes(p, "deactivated") /\ Withdraw(p) /\ UNCHANGED tracked

\* unload deactivates, which does nothing for a plugin that is not active.
Unload(p) ==
    /\ state[p] # "absent"
    /\ Goes(p, "absent")
    /\ IF state[p] = "active" THEN Withdraw(p) ELSE UNCHANGED owner
    /\ tracked' = [tracked EXCEPT ![p] = NoContext]

Next == Discover \/ LoadAll
        \/ \E p \in Names : \/ Load(p) \/ InitializeOne(p) \/ Activate(p) \/ Deactivate(p) \/ Unload(p)

Spec == Init /\ [][Next]_pluginVars

-----------------------------------------------------------------------------
\* Across failed set-ups, reloads and repeated activations: an active plugin
\* owns every tool it brings and tracks it, so that deactivating it removes
\* exactly those; a deactivated one owns none (initialize, deactivate).
PluginOwnsItsTools ==
    \A p \in Names :
        /\ state[p] = "active" =>
              \A t \in ToolNames : owner[t] = p <=> t \in Brings[p] /\ t \in tracked[p]
        /\ state[p] = "deactivated" => \A t \in ToolNames : owner[t] # p
=============================================================================
