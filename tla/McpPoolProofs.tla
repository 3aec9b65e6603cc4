--------------------------- MODULE McpPoolProofs ---------------------------
(***************************************************************************)
(* PoolIsExact for every set of sessions and every number of processes.    *)
(* It is not inductive: that a running process is wanted needs to know     *)
(* that somebody is about to take it or has taken it, and that the holders *)
(* are those who hold; that a waiter has an owner, that an entry is        *)
(* starting exactly while one session connects it.                         *)
(***************************************************************************)
EXTENDS McpPool, TLAPS

Entries == [client : {"none", "starting", "running", "closed"}, ready : BOOLEAN,
            failed : BOOLEAN, holders : SUBSET Sessions]
Places == {"idle", "waiting", "connecting", "taking", "held"}
Claims == [at : Places, of : Nat]

Typed == /\ entry \in Nat
         /\ shared \in [Numbers -> Entries]
         /\ claims \in [Sessions -> Claims]
         /\ gone \subseteq Sessions /\ escaped \subseteq Sessions

\* Whoever acquires or holds refers to an entry that was made.
ClaimsAreMade ==
    \A s \in Sessions : claims[s].at # "idle" =>
        claims[s].of \in Numbers /\ shared[claims[s].of].client # "none"

\* The pool's entry is being connected or runs, and only that one is.
EntryIsAlive ==
    /\ entry # 0 => entry \in Numbers /\ shared[entry].client \in {"starting", "running"}
    /\ \A e \in Numbers : shared[e].client \in {"starting", "running"} => entry = e

\* What a number says of itself: not made, not ready, or ready for good; and
\* who is about to take an entry saw that it was ready.
Stages ==
    /\ \A e \in Numbers :
          /\ shared[e].client = "none" => shared[e] = Unused
          /\ shared[e].client \in {"running", "closed"} <=> shared[e].ready
    /\ \A s \in Sessions : claims[s].at = "taking" => shared[claims[s].of].ready

\* One session connects what is starting, and nobody holds it.
OneOwner ==
    /\ \A e \in Numbers : shared[e].client = "starting" =>
          \E s \in Sessions : claims[s] = [at |-> "connecting", of |-> e]
    /\ \A s \in Sessions : claims[s].at = "connecting" => shared[claims[s].of].client = "starting"
    /\ \A s, t \in Sessions : claims[s].at = "connecting" /\ claims[t].at = "connecting" => s = t

\* The holders are those who hold, of the process that runs.
HoldersHold ==
    /\ \A s \in Sessions : claims[s].at = "held" =>
          shared[claims[s].of].client = "running" /\ s \in shared[claims[s].of].holders
    /\ \A e \in Numbers : \A s \in shared[e].holders : claims[s] = [at |-> "held", of |-> e]

\* A running process has a session that took it or will.
Wanted ==
    \A e \in Numbers : shared[e].client = "running" =>
        \E s \in Sessions : claims[s].at \in {"taking", "held"} /\ claims[s].of = e

\* A closed session whose acquire goes on was closed in the middle of it.
GoneIsIdle == \A s \in gone : claims[s].at # "idle" => s \in escaped

IInv == /\ Typed /\ ClaimsAreMade /\ EntryIsAlive /\ Stages
        /\ OneOwner /\ HoldersHold /\ Wanted /\ GoneIsIdle

-----------------------------------------------------------------------------
(* Entries have numbers of their own; 0 is none of them.                   *)
LEMMA NumbersArePositive == \A e \in Numbers : e \in Nat /\ e # 0
BY DEF Numbers

(* A claim that is set is set for its session alone.                       *)
LEMMA ClaimIsSet ==
    ASSUME Typed, NEW s \in Sessions, NEW at \in Places, NEW e \in Nat, SetClaim(s, at, e)
    PROVE  /\ claims' \in [Sessions -> Claims]
           /\ claims'[s] = [at |-> at, of |-> e]
           /\ \A t \in Sessions \ {s} : claims'[t] = claims[t]
BY DEF Typed, Claims, Places, SetClaim

(* A holder of an entry is a session that holds it.                        *)
LEMMA HolderHolds ==
    ASSUME IInv, NEW n \in Numbers, NEW t \in shared[n].holders
    PROVE  /\ t \in Sessions /\ claims[t].at = "held" /\ claims[t].of = n
           /\ shared[n].client = "running"
<1>1. t \in Sessions
  BY DEF IInv, Typed, Entries
<1>2. claims[t] = [at |-> "held", of |-> n]
  BY DEF IInv, HoldersHold
<1>3. claims[t].at = "held" /\ claims[t].of = n
  BY <1>2
<1> QED  BY <1>1, <1>3 DEF IInv, HoldersHold

(* Init establishes the invariant.                                         *)
LEMMA InitIsSound == Init => IInv
BY NumbersArePositive DEF Init, IInv, Typed, Entries, Claims, Places, NoClaim, Unused,
   ClaimsAreMade, EntryIsAlive, Stages, OneOwner, HoldersHold, Wanted, GoneIsIdle
(* LookUp finds an entry: the session waits for it.                        *)
LEMMA JoinKeeps ==
    ASSUME IInv, NEW s \in Sessions,
           entry # 0, SetClaim(s, "waiting", entry),
           claims[s].at \in {"idle", "taking"}, claims[s].at = "taking" => entry # claims[s].of,
           s \in gone => s \in escaped, UNCHANGED <<entry, shared, gone, escaped>>
    PROVE  IInv'
<1>1. entry \in Numbers /\ entry \in Nat /\ shared[entry].client # "none"
  BY NumbersArePositive DEF IInv, EntryIsAlive
<1>2. /\ claims' \in [Sessions -> Claims]
      /\ claims'[s] = [at |-> "waiting", of |-> entry]
      /\ \A t \in Sessions \ {s} : claims'[t] = claims[t]
  BY <1>1, ClaimIsSet DEF IInv, Places
<1>3. claims'[s].at = "waiting" /\ claims'[s].of = entry
  BY <1>2
<1>4. claims \in [Sessions -> Claims]
  BY DEF IInv, Typed
<1>11. Typed'
  BY <1>2 DEF IInv, Typed
<1>12. ClaimsAreMade'
  BY <1>1, <1>2, <1>3 DEF IInv, ClaimsAreMade
<1>13. EntryIsAlive'
  BY DEF IInv, EntryIsAlive, Numbers
<1>14. Stages'
  BY <1>2, <1>3 DEF IInv, Stages, Unused, Numbers
<1>15. OneOwner'
  <2>1. \A t \in Sessions : claims'[t].at = "connecting" <=> t # s /\ claims[t].at = "connecting"
    BY <1>2, <1>3
  <2>2. \A t \in Sessions : claims[t].at = "connecting" => claims'[t] = claims[t]
    BY <1>2
  <2> QED  BY <2>1, <2>2, <1>2 DEF IInv, OneOwner, Numbers
<1>16. HoldersHold'
  <2>1. \A t \in Sessions : claims'[t].at = "held" => t # s /\ claims'[t] = claims[t]
    BY <1>2, <1>3
  <2>2. \A t \in Sessions : claims[t].at = "held" => claims'[t] = claims[t]
    BY <1>2
  <2>3. \A e \in Numbers : shared[e].holders \subseteq Sessions
    BY DEF IInv, Typed, Entries
  <2> QED  BY <2>1, <2>2, <2>3 DEF IInv, HoldersHold, Numbers
<1>17. Wanted'
  <2> SUFFICES ASSUME NEW e \in Numbers, shared[e].client = "running"
               PROVE  \E t \in Sessions : claims'[t].at \in {"taking", "held"} /\ claims'[t].of = e
    BY DEF Wanted, Numbers
  <2>1. PICK t \in Sessions : claims[t].at \in {"taking", "held"} /\ claims[t].of = e
    BY DEF IInv, Wanted
  <2>2. entry = e
    BY DEF IInv, EntryIsAlive
  <2>3. t # s
    BY <2>1, <2>2
  <2> QED  BY <1>2, <2>1, <2>3
<1>18. GoneIsIdle'
  BY <1>2, <1>3, <1>4 DEF IInv, GoneIsIdle, Typed
<1> QED  BY <1>11, <1>12, <1>13, <1>14, <1>15, <1>16, <1>17, <1>18 DEF IInv

(* LookUp finds none: the session makes the entry and owns it.             *)
LEMMA MakeKeeps ==
    ASSUME IInv, NEW s \in Sessions, NEW e \in Numbers,
           entry = 0, \A n \in Numbers : n >= e <=> shared[n] = Unused,
           entry' = e, shared' = [shared EXCEPT ![e].client = "starting"],
           SetClaim(s, "connecting", e),
           s \in gone => s \in escaped, UNCHANGED <<gone, escaped>>
    PROVE  IInv'
<1>1. e \in Nat /\ e # 0 /\ shared[e] = Unused
  BY NumbersArePositive DEF Numbers
<1>2. /\ claims' \in [Sessions -> Claims]
      /\ claims'[s] = [at |-> "connecting", of |-> e]
      /\ \A t \in Sessions \ {s} : claims'[t] = claims[t]
  BY <1>1, ClaimIsSet DEF IInv, Places
<1>3. claims'[s].at = "connecting" /\ claims'[s].of = e
  BY <1>2
<1>4. /\ shared' \in [Numbers -> Entries]
      /\ shared'[e] = [client |-> "starting", ready |-> FALSE, failed |-> FALSE, holders |-> {}]
      /\ \A n \in Numbers \ {e} : shared'[n] = shared[n]
  <2>1. shared'[e] = [Unused EXCEPT !.client = "starting"]
    BY <1>1 DEF IInv, Typed
  <2>2. shared'[e] = [client |-> "starting", ready |-> FALSE, failed |-> FALSE, holders |-> {}]
    BY <2>1 DEF Unused
  <2>3. [client |-> "starting", ready |-> FALSE, failed |-> FALSE, holders |-> {}] \in Entries
    BY DEF Entries
  <2> QED  BY <2>2, <2>3 DEF IInv, Typed
<1>5. \A n \in Numbers : shared[n].client \notin {"starting", "running"}
  BY NumbersArePositive DEF IInv, EntryIsAlive
<1>6. \A t \in Sessions : /\ claims[t].at \notin {"connecting", "held"}
                          /\ \A n \in Numbers : t \notin shared[n].holders
  BY <1>5, HolderHolds DEF IInv, ClaimsAreMade, OneOwner, HoldersHold
<1>11. Typed'
  BY <1>1, <1>2, <1>4 DEF IInv, Typed, Numbers
<1>12. ClaimsAreMade'
  <2>1. \A n \in Numbers : shared[n].client # "none" => shared'[n].client # "none"
    BY <1>4
  <2> QED  BY <1>2, <1>3, <1>4, <2>1 DEF IInv, ClaimsAreMade, Numbers
<1>13. EntryIsAlive'
  BY <1>4, <1>5 DEF EntryIsAlive, Numbers
<1>14. Stages'
  <2>1. \A t \in Sessions : claims'[t].at = "taking" =>
           /\ claims'[t] = claims[t] /\ claims[t].of \in Numbers \ {e}
           /\ shared[claims[t].of].ready
    BY <1>1, <1>2, <1>3 DEF IInv, ClaimsAreMade, Stages, Unused
  <2>2. \A n \in Numbers :
          /\ shared'[n].client = "none" => shared'[n] = Unused
          /\ shared'[n].client \in {"running", "closed"} <=> shared'[n].ready
    BY <1>4 DEF IInv, Stages
  <2> QED  BY <1>4, <2>1, <2>2 DEF Stages, Numbers, Unused
<1>15. OneOwner'
  <2>1. \A t \in Sessions : claims'[t].at = "connecting" => t = s
    BY <1>2, <1>6
  <2>2. \A n \in Numbers : shared'[n].client = "starting" => n = e
    BY <1>4, <1>5
  <2> QED  BY <1>2, <1>3, <1>4, <2>1, <2>2 DEF OneOwner, Numbers
<1>16. HoldersHold'
  <2>1. \A t \in Sessions : claims'[t].at # "held"
    BY <1>2, <1>3, <1>6
  <2>2. \A n \in Numbers : shared'[n].holders = {}
    BY <1>4, <1>6 DEF IInv, Typed, Entries
  <2> QED  BY <2>1, <2>2 DEF HoldersHold, Numbers
<1>17. Wanted'
  BY <1>4, <1>5 DEF Wanted, Numbers
<1>18. GoneIsIdle'
  BY <1>2, <1>3 DEF IInv, GoneIsIdle, Typed
<1> QED  BY <1>11, <1>12, <1>13, <1>14, <1>15, <1>16, <1>17, <1>18 DEF IInv

(* The owner's handshake succeeds: the entry runs, the owner will take it. *)
LEMMA ConnectedKeeps ==
    ASSUME IInv, NEW s \in Sessions, Connected(s)
    PROVE  IInv'
<1> DEFINE e == claims[s].of
<1>1. /\ e \in Numbers /\ e \in Nat /\ e # 0 /\ entry = e /\ claims[s].at = "connecting"
      /\ shared[e].client = "starting"
  BY NumbersArePositive DEF IInv, ClaimsAreMade, OneOwner, EntryIsAlive, Connected
<1>2. /\ claims' \in [Sessions -> Claims]
      /\ claims'[s] = [at |-> "taking", of |-> e]
      /\ \A t \in Sessions \ {s} : claims'[t] = claims[t]
  BY <1>1, ClaimIsSet DEF IInv, Places, Connected
<1>3. claims'[s].at = "taking" /\ claims'[s].of = e
  BY <1>2
<1>4. /\ shared' \in [Numbers -> Entries]
      /\ shared'[e].client = "running" /\ shared'[e].ready
      /\ shared'[e].holders = shared[e].holders
      /\ \A n \in Numbers \ {e} : shared'[n] = shared[n]
  BY <1>1 DEF IInv, Typed, Entries, Connected
<1>5. entry' = entry /\ gone' = gone /\ escaped' = escaped
  BY DEF Connected
<1> HIDE DEF e
<1>6. \A n \in Numbers \ {e} : shared[n].client \notin {"starting", "running"}
  BY <1>1 DEF IInv, EntryIsAlive
<1>7. \A t \in Sessions : claims[t].at = "connecting" => t = s
  BY <1>1 DEF IInv, OneOwner
<1>8. \A t \in Sessions : claims[t].at # "held"
  BY <1>1, <1>6 DEF IInv, ClaimsAreMade, HoldersHold
<1>9. \A n \in Numbers : shared'[n].holders = {}
  <2>1. \A n \in Numbers : shared[n].holders = {}
    BY <1>8, HolderHolds DEF IInv, Typed, Entries
  <2> QED  BY <1>1, <1>4, <2>1
<1>11. Typed'
  BY <1>2, <1>4, <1>5 DEF IInv, Typed, Numbers
<1>12. ClaimsAreMade'
  <2>1. \A n \in Numbers : shared[n].client # "none" => shared'[n].client # "none"
    BY <1>4
  <2> QED  BY <1>1, <1>2, <1>3, <1>4, <2>1 DEF IInv, ClaimsAreMade, Numbers
<1>13. EntryIsAlive'
  BY <1>1, <1>4, <1>5, <1>6 DEF EntryIsAlive, Numbers
<1>14. Stages'
  <2>1. \A n \in Numbers : shared[n].ready => shared'[n].ready
    BY <1>4
  <2>2. \A t \in Sessions : claims'[t].at = "taking" => shared'[claims'[t].of].ready
    BY <1>2, <1>3, <1>4, <2>1 DEF IInv, ClaimsAreMade, Stages
  <2>3. \A n \in Numbers :
          /\ shared'[n].client = "none" => shared'[n] = Unused
          /\ shared'[n].client \in {"running", "closed"} <=> shared'[n].ready
    BY <1>4 DEF IInv, Stages
  <2> QED  BY <2>2, <2>3 DEF Stages, Numbers, Unused
<1>15. OneOwner'
  <2>1. \A t \in Sessions : claims'[t].at # "connecting"
    BY <1>2, <1>3, <1>7
  <2>2. \A n \in Numbers : shared'[n].client # "starting"
    BY <1>4, <1>6
  <2> QED  BY <2>1, <2>2 DEF OneOwner, Numbers
<1>16. HoldersHold'
  <2>1. \A t \in Sessions : claims'[t].at # "held"
    BY <1>2, <1>3, <1>8
  <2> QED  BY <2>1, <1>9 DEF HoldersHold, Numbers
<1>17. Wanted'
  BY <1>3, <1>4, <1>6 DEF Wanted, Numbers
<1>18. GoneIsIdle'
  BY <1>1, <1>2, <1>5 DEF IInv, GoneIsIdle, Typed
<1> QED  BY <1>11, <1>12, <1>13, <1>14, <1>15, <1>16, <1>17, <1>18 DEF IInv

(* The owner's handshake fails: the entry goes, its waiters are told.      *)
LEMMA ConnectFailsKeeps ==
    ASSUME IInv, NEW s \in Sessions, ConnectFails(s)
    PROVE  IInv'
<1> DEFINE e == claims[s].of
<1>1. /\ e \in Numbers /\ e \in Nat /\ e # 0 /\ entry = e /\ claims[s].at = "connecting"
      /\ shared[e].client = "starting"
  BY NumbersArePositive DEF IInv, ClaimsAreMade, OneOwner, EntryIsAlive, ConnectFails
<1>2. /\ claims' \in [Sessions -> Claims]
      /\ claims'[s] = [at |-> "idle", of |-> 0]
      /\ \A t \in Sessions \ {s} : claims'[t] = claims[t]
  BY <1>1, ClaimIsSet DEF IInv, Places, ConnectFails
<1>3. claims'[s].at = "idle"
  BY <1>2
<1>4. /\ shared' \in [Numbers -> Entries]
      /\ shared'[e].client = "closed" /\ shared'[e].ready
      /\ shared'[e].holders = shared[e].holders
      /\ \A n \in Numbers \ {e} : shared'[n] = shared[n]
  BY <1>1 DEF IInv, Typed, Entries, ConnectFails
<1>5. entry' = 0 /\ gone' = gone /\ escaped' = escaped
  BY <1>1 DEF ConnectFails
<1> HIDE DEF e
<1>6. \A n \in Numbers \ {e} : shared[n].client \notin {"starting", "running"}
  BY <1>1 DEF IInv, EntryIsAlive
<1>7. \A t \in Sessions : claims[t].at = "connecting" => t = s
  BY <1>1 DEF IInv, OneOwner
<1>8. \A t \in Sessions : claims[t].at # "held"
  BY <1>1, <1>6 DEF IInv, ClaimsAreMade, HoldersHold
<1>9. \A n \in Numbers : shared'[n].holders = {}
  <2>1. \A n \in Numbers : shared[n].holders = {}
    BY <1>8, HolderHolds DEF IInv, Typed, Entries
  <2> QED  BY <1>1, <1>4, <2>1
<1>11. Typed'
  BY <1>2, <1>4, <1>5 DEF IInv, Typed, Numbers
<1>12. ClaimsAreMade'
  <2>1. \A n \in Numbers : shared[n].client # "none" => shared'[n].client # "none"
    BY <1>4
  <2> QED  BY <1>2, <1>3, <2>1 DEF IInv, ClaimsAreMade, Numbers
<1>13. EntryIsAlive'
  BY <1>4, <1>5, <1>6 DEF EntryIsAlive, Numbers
<1>14. Stages'
  <2>1. \A n \in Numbers : shared[n].ready => shared'[n].ready
    BY <1>4
  <2>2. \A t \in Sessions : claims'[t].at = "taking" => shared'[claims'[t].of].ready
    BY <1>2, <1>3, <2>1 DEF IInv, ClaimsAreMade, Stages
  <2>3. \A n \in Numbers :
          /\ shared'[n].client = "none" => shared'[n] = Unused
          /\ shared'[n].client \in {"running", "closed"} <=> shared'[n].ready
    BY <1>4 DEF IInv, Stages
  <2> QED  BY <2>2, <2>3 DEF Stages, Numbers, Unused
<1>15. OneOwner'
  <2>1. \A t \in Sessions : claims'[t].at # "connecting"
    BY <1>2, <1>3, <1>7
  <2>2. \A n \in Numbers : shared'[n].client # "starting"
    BY <1>4, <1>6
  <2> QED  BY <2>1, <2>2 DEF OneOwner, Numbers
<1>16. HoldersHold'
  <2>1. \A t \in Sessions : claims'[t].at # "held"
    BY <1>2, <1>3, <1>8
  <2> QED  BY <2>1, <1>9 DEF HoldersHold, Numbers
<1>17. Wanted'
  BY <1>4, <1>6 DEF Wanted, Numbers
<1>18. GoneIsIdle'
  BY <1>2, <1>3, <1>5 DEF IInv, GoneIsIdle, Typed
<1> QED  BY <1>11, <1>12, <1>13, <1>14, <1>15, <1>16, <1>17, <1>18 DEF IInv

(* A waiter wakes: it gives up with its owner, or goes on to take.         *)
LEMMA WakeKeeps ==
    ASSUME IInv, NEW s \in Sessions, Wake(s)
    PROVE  IInv'
<1> DEFINE e == claims[s].of
<1>1. e \in Numbers /\ e \in Nat /\ claims[s].at = "waiting" /\ shared[e].ready
  BY NumbersArePositive DEF IInv, ClaimsAreMade, Wake
<1>2. /\ claims' \in [Sessions -> Claims]
      /\ claims'[s] = [at |-> "idle", of |-> 0] \/ claims'[s] = [at |-> "taking", of |-> e]
      /\ \A t \in Sessions \ {s} : claims'[t] = claims[t]
  BY <1>1, ClaimIsSet DEF IInv, Places, Wake
<1>3. /\ claims'[s].at \in {"idle", "taking"}
      /\ claims'[s].at = "taking" => claims'[s].of = e
  BY <1>2
<1>4. UNCHANGED <<entry, shared, gone, escaped>>
  BY DEF Wake
<1>5. \A t \in Sessions : claims[t].at \in {"connecting", "taking", "held"} => claims'[t] = claims[t]
  BY <1>1, <1>2
<1> HIDE DEF e
<1>11. Typed'
  BY <1>2, <1>4 DEF IInv, Typed, Numbers
<1>12. ClaimsAreMade'
  BY <1>1, <1>2, <1>3, <1>4 DEF IInv, ClaimsAreMade, Stages, Unused, Numbers
<1>13. EntryIsAlive'
  BY <1>4 DEF IInv, EntryIsAlive, Numbers
<1>14. Stages'
  BY <1>1, <1>2, <1>3, <1>4 DEF IInv, Stages, Unused, Numbers
<1>15. OneOwner'
  <2>1. \A t \in Sessions : claims'[t].at = "connecting" => claims'[t] = claims[t]
    BY <1>2, <1>3
  <2>2. \A t \in Sessions : claims[t].at = "connecting" => claims'[t] = claims[t]
    BY <1>5
  <2> QED  BY <1>4, <2>1, <2>2 DEF IInv, OneOwner, Numbers
<1>16. HoldersHold'
  <2>1. \A t \in Sessions : claims'[t].at = "held" => claims'[t] = claims[t]
    BY <1>2, <1>3
  <2>2. \A n \in Numbers : \A t \in shared[n].holders : claims'[t] = claims[t]
    BY <1>5, HolderHolds
  <2> QED  BY <1>4, <2>1, <2>2 DEF IInv, HoldersHold, Numbers
<1>17. Wanted'
  BY <1>4, <1>5 DEF IInv, Wanted, Numbers
<1>18. GoneIsIdle'
  BY <1>1, <1>2, <1>3, <1>4 DEF IInv, GoneIsIdle, Typed
<1> QED  BY <1>11, <1>12, <1>13, <1>14, <1>15, <1>16, <1>17, <1>18 DEF IInv

(* The entry is still the pool's: the session is handed the process.       *)
LEMMA HandOutKeeps ==
    ASSUME IInv, NEW s \in Sessions, NEW e \in Numbers, claims[s] = [at |-> "taking", of |-> e],
           entry = e, shared' = [shared EXCEPT ![e].holders = @ \cup {s}],
           SetClaim(s, "held", e), UNCHANGED <<entry, gone, escaped>>
    PROVE  IInv'
<1>1. claims[s].at = "taking" /\ claims[s].of = e /\ e \in Nat
  BY NumbersArePositive
<1>2. /\ claims' \in [Sessions -> Claims]
      /\ claims'[s] = [at |-> "held", of |-> e]
      /\ \A t \in Sessions \ {s} : claims'[t] = claims[t]
  BY <1>1, ClaimIsSet DEF IInv, Places
<1>3. claims'[s].at = "held" /\ claims'[s].of = e
  BY <1>2
<1>4. /\ shared' \in [Numbers -> Entries]
      /\ shared'[e].client = shared[e].client /\ shared'[e].ready = shared[e].ready
      /\ shared'[e].holders = shared[e].holders \cup {s}
      /\ \A n \in Numbers \ {e} : shared'[n] = shared[n]
  BY DEF IInv, Typed, Entries
<1>5. shared[e].client = "running"
  <2>1. shared[e].ready
    BY <1>1 DEF IInv, Stages
  <2>2. shared[e].client \in {"running", "closed"}
    BY <2>1 DEF IInv, Stages
  <2>3. entry # 0
    BY NumbersArePositive
  <2> QED  BY <2>2, <2>3 DEF IInv, EntryIsAlive
<1>6. \A n \in Numbers : /\ shared'[n].client = shared[n].client
                         /\ shared'[n].ready = shared[n].ready
  BY <1>4
<1>11. Typed'
  BY <1>2, <1>4 DEF IInv, Typed, Numbers
<1>12. ClaimsAreMade'
  BY <1>2, <1>3, <1>5, <1>6 DEF IInv, ClaimsAreMade, Numbers
<1>13. EntryIsAlive'
  BY <1>6 DEF IInv, EntryIsAlive, Numbers
<1>14. Stages'
  <2>1. \A t \in Sessions : claims'[t].at = "taking" =>
           claims'[t] = claims[t] /\ claims[t].of \in Numbers
    BY <1>2, <1>3 DEF IInv, ClaimsAreMade
  <2>2. \A t \in Sessions : claims'[t].at = "taking" => shared'[claims'[t].of].ready
    BY <1>6, <2>1 DEF IInv, Stages
  <2>3. \A n \in Numbers :
          /\ shared'[n].client = "none" => shared'[n] = Unused
          /\ shared'[n].client \in {"running", "closed"} <=> shared'[n].ready
    BY <1>4, <1>5 DEF IInv, Stages
  <2> QED  BY <2>2, <2>3 DEF Stages, Numbers, Unused
<1>15. OneOwner'
  <2>1. \A n \in Numbers : shared'[n].client # "starting"
    BY <1>5, <1>6 DEF IInv, EntryIsAlive
  <2>2. \A t \in Sessions : claims[t].at # "connecting"
    BY <1>6, <2>1 DEF IInv, ClaimsAreMade, OneOwner
  <2>3. \A t \in Sessions : claims'[t].at # "connecting"
    BY <1>2, <1>3, <2>2
  <2> QED  BY <2>1, <2>3 DEF OneOwner, Numbers
<1>16. HoldersHold'
  <2>1. \A t \in Sessions \ {s} : claims'[t].at = "held" =>
           claims[t].of \in Numbers /\ shared[claims[t].of].client = "running"
                                    /\ t \in shared[claims[t].of].holders
    BY <1>2 DEF IInv, ClaimsAreMade, HoldersHold
  <2>2. \A t \in Sessions : claims'[t].at = "held" =>
           shared'[claims'[t].of].client = "running" /\ t \in shared'[claims'[t].of].holders
    BY <1>2, <1>3, <1>4, <1>5, <2>1
  <2>3. \A n \in Numbers : \A t \in shared'[n].holders : claims'[t] = [at |-> "held", of |-> n]
    <3> SUFFICES ASSUME NEW n \in Numbers, NEW t \in shared'[n].holders
                 PROVE  claims'[t] = [at |-> "held", of |-> n]
      OBVIOUS
    <3>1. CASE t \in shared[n].holders
      BY <1>1, <1>2, <3>1, HolderHolds DEF IInv, HoldersHold
    <3>2. CASE t \notin shared[n].holders
      BY <1>2, <1>4, <3>2
    <3> QED  BY <3>1, <3>2
  <2> QED  BY <2>2, <2>3 DEF HoldersHold, Numbers
<1>17. Wanted'
  <2> SUFFICES ASSUME NEW n \in Numbers, shared[n].client = "running"
               PROVE  \E t \in Sessions : claims'[t].at \in {"taking", "held"} /\ claims'[t].of = n
    BY <1>6 DEF Wanted, Numbers
  <2>1. n = e
    BY DEF IInv, EntryIsAlive
  <2> QED  BY <1>3, <2>1
<1>18. GoneIsIdle'
  BY <1>1, <1>2 DEF IInv, GoneIsIdle, Typed
<1> QED  BY <1>11, <1>12, <1>13, <1>14, <1>15, <1>16, <1>17, <1>18 DEF IInv

(* A holder gives back; the last one closes the process.                   *)
LEMMA GiveKeeps ==
    ASSUME IInv, NEW s \in Sessions, claims[s].at = "held", Give(s),
           gone' = gone \/ gone' = gone \cup {s}, UNCHANGED escaped
    PROVE  IInv'
<1> DEFINE e == claims[s].of
           left == shared[e].holders \ {s}
<1>1. /\ e \in Numbers /\ e \in Nat /\ e # 0 /\ entry = e
      /\ shared[e].client = "running" /\ shared[e].ready
  BY NumbersArePositive DEF IInv, ClaimsAreMade, HoldersHold, EntryIsAlive, Stages
<1>2. /\ claims' \in [Sessions -> Claims]
      /\ claims'[s] = [at |-> "idle", of |-> 0]
      /\ \A t \in Sessions \ {s} : claims'[t] = claims[t]
  BY <1>1, ClaimIsSet DEF IInv, Places, Give
<1>3. claims'[s].at = "idle"
  BY <1>2
<1>4. /\ shared' \in [Numbers -> Entries]
      /\ shared'[e].client = (IF left = {} THEN "closed" ELSE "running")
      /\ shared'[e].ready /\ shared'[e].holders = left
      /\ \A n \in Numbers \ {e} : shared'[n] = shared[n]
  <2> DEFINE client == IF left = {} THEN "closed" ELSE shared[e].client
  <2>1. shared' = [shared EXCEPT ![e].holders = left, ![e].client = client]
    BY DEF Give
  <2>2. shared[e] \in Entries /\ left \subseteq Sessions
    BY <1>1 DEF IInv, Typed, Entries
  <2>3. client \in {"closed", "running"} /\ client = (IF left = {} THEN "closed" ELSE "running")
    BY <1>1
  <2>4. shared \in [Numbers -> Entries]
    BY DEF IInv, Typed
  <2> HIDE DEF client, left, e
  <2>5. shared' = [shared EXCEPT ![e] = [shared[e] EXCEPT !.holders = left, !.client = client]]
    BY <1>1, <2>1, <2>4
  <2>6. [shared[e] EXCEPT !.holders = left, !.client = client] \in Entries
    BY <2>2, <2>3 DEF Entries
  <2>7. shared'[e] = [shared[e] EXCEPT !.holders = left, !.client = client]
    BY <1>1, <2>4, <2>5
  <2>8. /\ shared'[e].client = client /\ shared'[e].holders = left
        /\ shared'[e].ready = shared[e].ready
    BY <2>2, <2>7 DEF Entries
  <2> QED  BY <1>1, <2>3, <2>4, <2>5, <2>6, <2>8
<1>5. entry' = IF left = {} THEN 0 ELSE e
  BY <1>1 DEF Give
<1>6. left = shared[e].holders \ {s}
  OBVIOUS
<1> HIDE DEF e, left
<1>7. \A n \in Numbers \ {e} : shared[n].client \notin {"starting", "running"}
  BY <1>1 DEF IInv, EntryIsAlive
<1>8. \A t \in Sessions : claims[t].at # "connecting"
  BY <1>1, <1>7 DEF IInv, ClaimsAreMade, OneOwner
<1>11. Typed'
  BY <1>1, <1>2, <1>4, <1>5 DEF IInv, Typed, Numbers
<1>12. ClaimsAreMade'
  <2>1. \A n \in Numbers : shared[n].client # "none" => shared'[n].client # "none"
    BY <1>4
  <2> QED  BY <1>2, <1>3, <2>1 DEF IInv, ClaimsAreMade, Numbers
<1>13. EntryIsAlive'
  BY <1>1, <1>4, <1>5, <1>7 DEF EntryIsAlive, Numbers
<1>14. Stages'
  <2>1. \A n \in Numbers : shared[n].ready => shared'[n].ready
    BY <1>4
  <2>2. \A t \in Sessions : claims'[t].at = "taking" => shared'[claims'[t].of].ready
    BY <1>2, <1>3, <2>1 DEF IInv, ClaimsAreMade, Stages
  <2>3. \A n \in Numbers :
          /\ shared'[n].client = "none" => shared'[n] = Unused
          /\ shared'[n].client \in {"running", "closed"} <=> shared'[n].ready
    BY <1>4 DEF IInv, Stages
  <2> QED  BY <2>2, <2>3 DEF Stages, Numbers, Unused
<1>15. OneOwner'
  <2>1. \A t \in Sessions : claims'[t].at # "connecting"
    BY <1>2, <1>3, <1>8
  <2>2. \A n \in Numbers : shared'[n].client # "starting"
    BY <1>4, <1>7
  <2> QED  BY <2>1, <2>2 DEF OneOwner, Numbers
<1>16. HoldersHold'
  <2>1. \A t \in Sessions : claims'[t].at = "held" => t # s /\ claims'[t] = claims[t]
    BY <1>2, <1>3
  <2>2. \A t \in Sessions : claims[t].at = "held" =>
           claims[t].of = e /\ t \in shared[e].holders
    BY <1>7 DEF IInv, ClaimsAreMade, HoldersHold
  <2>3. \A t \in Sessions : claims'[t].at = "held" =>
           shared'[claims'[t].of].client = "running" /\ t \in shared'[claims'[t].of].holders
    BY <1>4, <1>6, <2>1, <2>2
  <2>4. \A n \in Numbers : \A t \in shared'[n].holders : t \in shared[n].holders /\ t # s
    BY <1>4, <1>6, <1>7, <1>1, HolderHolds
  <2>5. \A n \in Numbers : \A t \in shared'[n].holders : claims'[t] = [at |-> "held", of |-> n]
    <3> SUFFICES ASSUME NEW n \in Numbers, NEW t \in shared'[n].holders
                 PROVE  claims'[t] = [at |-> "held", of |-> n]
      OBVIOUS
    <3>1. t \in shared[n].holders /\ t # s
      BY <2>4
    <3>2. t \in Sessions /\ claims[t] = [at |-> "held", of |-> n]
      BY <3>1, HolderHolds DEF IInv, HoldersHold
    <3> QED  BY <1>2, <3>1, <3>2
  <2> QED  BY <2>3, <2>5 DEF HoldersHold, Numbers
<1>17. Wanted'
  <2> SUFFICES ASSUME NEW n \in Numbers, shared'[n].client = "running"
               PROVE  \E t \in Sessions : claims'[t].at \in {"taking", "held"} /\ claims'[t].of = n
    BY DEF Wanted, Numbers
  <2>1. n = e
    BY <1>4, <1>7
  <2>2. left # {}
    BY <1>4, <2>1
  <2>3. PICK t \in left : TRUE
    BY <2>2
  <2>4. t \in Sessions /\ t # s /\ claims[t].at = "held" /\ claims[t].of = e
    BY <1>1, <1>6, <2>3, HolderHolds
  <2> QED  BY <1>2, <2>1, <2>4
<1>18. GoneIsIdle'
  BY <1>2, <1>3 DEF IInv, GoneIsIdle, Typed
<1> QED  BY <1>11, <1>12, <1>13, <1>14, <1>15, <1>16, <1>17, <1>18 DEF IInv

(* A session is closed while it has nothing the pool could be handed.      *)
LEMMA CloseKeeps ==
    ASSUME IInv, NEW s \in Sessions, gone' = gone \cup {s}, UNCHANGED <<entry, shared, claims>>,
           \/ claims[s].at = "idle" /\ escaped' = escaped
           \/ escaped' = escaped \cup {s}
    PROVE  IInv'
<1>1. Typed'
  BY DEF IInv, Typed, Numbers
<1>2. ClaimsAreMade' /\ EntryIsAlive' /\ Stages'
  BY DEF IInv, ClaimsAreMade, EntryIsAlive, Stages, Unused, Numbers
<1>3. OneOwner'
  BY DEF IInv, OneOwner, Numbers
<1>4. HoldersHold'
  BY DEF IInv, HoldersHold, Numbers
<1>5. Wanted'
  BY DEF IInv, Wanted, Numbers
<1>6. GoneIsIdle'
  BY DEF IInv, GoneIsIdle
<1> QED  BY <1>1, <1>2, <1>3, <1>4, <1>5, <1>6 DEF IInv

(* LookUp, from an idle session or from one whose entry was replaced.      *)
LEMMA LookUpKeeps ==
    ASSUME IInv, NEW s \in Sessions, LookUp(s), UNCHANGED <<gone, escaped>>,
           claims[s].at \in {"idle", "taking"}, claims[s].at = "taking" => entry # claims[s].of,
           s \in gone => s \in escaped
    PROVE  IInv'
<1>1. CASE entry # 0 /\ SetClaim(s, "waiting", entry) /\ UNCHANGED <<entry, shared>>
  BY <1>1, JoinKeeps
<1>2. CASE entry = 0
  <2>1. PICK e \in Numbers : /\ \A n \in Numbers : n >= e <=> shared[n] = Unused
                             /\ entry' = e
                             /\ shared' = [shared EXCEPT ![e].client = "starting"]
                             /\ SetClaim(s, "connecting", e)
    BY <1>2 DEF LookUp
  <2> QED  BY <1>2, <2>1, MakeKeeps
<1> QED  BY <1>1, <1>2 DEF LookUp

(* Every step keeps the invariant.                                         *)
LEMMA StepKeeps == IInv /\ [Next]_poolVars => IInv'
<1> SUFFICES ASSUME IInv, [Next]_poolVars
             PROVE  IInv'
  OBVIOUS
<1>1. CASE UNCHANGED poolVars
  <2>1. UNCHANGED <<entry, shared, claims, gone, escaped>>
    BY <1>1 DEF poolVars
  <2> QED  BY <2>1 DEF IInv, Typed, ClaimsAreMade, EntryIsAlive, Stages, Unused, OneOwner,
                       HoldersHold, Wanted, GoneIsIdle, Numbers
<1>2. ASSUME NEW s \in Sessions, Acquire(s)
      PROVE  IInv'
  BY <1>2, LookUpKeeps DEF Acquire
<1>3. ASSUME NEW s \in Sessions, Connected(s)
      PROVE  IInv'
  BY <1>3, ConnectedKeeps
<1>4. ASSUME NEW s \in Sessions, ConnectFails(s)
      PROVE  IInv'
  BY <1>4, ConnectFailsKeeps
<1>5. ASSUME NEW s \in Sessions, Wake(s)
      PROVE  IInv'
  BY <1>5, WakeKeeps
<1>6. ASSUME NEW s \in Sessions, Take(s)
      PROVE  IInv'
  <2>1. claims[s].at = "taking" /\ claims[s] \in Claims
    BY <1>6 DEF Take, IInv, Typed
  <2>2. claims[s] = [at |-> "taking", of |-> claims[s].of] /\ claims[s].of \in Numbers
    BY <2>1 DEF Claims, IInv, ClaimsAreMade
  <2>3. s \in gone => s \in escaped
    BY <2>1 DEF IInv, GoneIsIdle
  <2>4. CASE entry # claims[s].of
    BY <1>6, <2>1, <2>3, <2>4, LookUpKeeps DEF Take
  <2>5. CASE entry = claims[s].of
    BY <1>6, <2>2, <2>5, HandOutKeeps DEF Take
  <2> QED  BY <2>4, <2>5
<1>7. ASSUME NEW s \in Sessions, Release(s)
      PROVE  IInv'
  BY <1>7, GiveKeeps DEF Release
<1>8. ASSUME NEW s \in Sessions, Leave(s)
      PROVE  IInv'
  BY <1>8, GiveKeeps, CloseKeeps DEF Leave
<1> QED  BY <1>1, <1>2, <1>3, <1>4, <1>5, <1>6, <1>7, <1>8 DEF Next

(* The invariant says that the pool is exact.                              *)
LEMMA SoundIsExact == IInv => PoolIsExact
<1> SUFFICES ASSUME IInv PROVE PoolIsExact
  OBVIOUS
<1>1. HeldIsRunning
  BY DEF IInv, HoldersHold, HeldIsRunning
<1>2. RunningIsWanted
  BY DEF IInv, EntryIsAlive, Wanted, GoneIsIdle, RunningIsWanted
<1>3. WaiterHasOwner
  <2> SUFFICES ASSUME NEW s \in Sessions, claims[s].at = "waiting", ~ shared[claims[s].of].ready
               PROVE  Owner(claims[s].of) # {}
    BY DEF WaiterHasOwner
  <2> DEFINE e == claims[s].of
  <2>1. e \in Numbers /\ shared[e].client # "none"
    BY DEF IInv, ClaimsAreMade
  <2>2. shared[e].client \in {"none", "starting", "running", "closed"}
    BY <2>1 DEF IInv, Typed, Entries
  <2>3. shared[e].client = "starting"
    BY <2>1, <2>2 DEF IInv, Stages
  <2> QED  BY <2>1, <2>3 DEF IInv, OneOwner, Owner
<1> QED  BY <1>1, <1>2, <1>3 DEF PoolIsExact

-----------------------------------------------------------------------------
(* The pool keeps one process, for exactly as long as a session uses it or *)
(* is about to, and leaves no session waiting, however many sessions       *)
(* acquire, release and are closed, in any order (MCPProcessPool.acquire   *)
(* and release).                                                           *)
THEOREM PoolStaysExact == Spec => []PoolIsExact
<1>1. Init => IInv
  BY InitIsSound
<1>2. IInv /\ [Next]_poolVars => IInv'
  BY StepKeeps
<1>3. IInv => PoolIsExact
  BY SoundIsExact
<1> QED  BY <1>1, <1>2, <1>3, PTL DEF Spec
=============================================================================
