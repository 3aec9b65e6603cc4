---------------------------- MODULE EventStream ----------------------------
(***************************************************************************)
(* The event stream of one session from the bus to the browser: EventLog,  *)
(* the WebSocket handler agent_socket (web/websocket/agent.py) of each     *)
(* connected page and the reconnecting SessionSocket in it                 *)
(* (frontend/src/websocket/SessionSocket.ts, App.tsx).                     *)
(***************************************************************************)
EXTENDS EventLog, SequencesExt

CONSTANTS
    Pages,      \* browser pages showing the session
    MaxDrops    \* bound: lost connections and reloads, over all pages

ASSUME StreamAssumption == MaxDrops \in Nat

(* A frame on the wire: event n under sequence number s; n = 0 stands for  *)
(* the session.snapshot that closes a replay.                              *)
Snapshot(s) == [n |-> 0, s |-> s]
Frame(n)    == [n |-> n, s |-> seqOf[n]]

VARIABLES
    link,       \* off; replaying: the backlog is being sent; live
    backlog,    \* what replay_since returned and is still to be sent
    queue,      \* the asyncio.Queue pending of the connection
    wire,       \* sent, not yet handled by the page
    cursor,     \* SessionSocket.cursor; 0 stands for its initial -1 too
    seen,       \* events handed to onEvent since the page was loaded
    drops,      \* connections lost and pages reloaded so far
    raced,      \* history: events published while the page was replaying
    partial     \* history: the store could not be read for a replay

streamVars == <<link, backlog, queue, wire, cursor, seen, drops, raced, partial>>
vars == <<logVars, streamVars>>

StreamTypeOK ==
    /\ LogTypeOK
    /\ link \in [Pages -> {"off", "replaying", "live"}]
    /\ backlog \in [Pages -> Seq(Events)]
    /\ queue \in [Pages -> Seq(Events)]
    /\ wire \in [Pages -> Seq([n : Events \cup {0}, s : Nat])]
    /\ cursor \in [Pages -> Nat]
    /\ seen \in [Pages -> Seq(Events)]
    /\ drops \in 0..MaxDrops
    /\ raced \in [Pages -> SUBSET Events]
    /\ partial \in [Pages -> BOOLEAN]
    /\ \A p \in Pages :
          /\ link[p] # "replaying" => backlog[p] = << >>
          /\ link[p] = "off" => queue[p] = << >> /\ wire[p] = << >>

Init ==
    /\ LogInit
    /\ link = [p \in Pages |-> "off"]
    /\ backlog = [p \in Pages |-> << >>]
    /\ queue = [p \in Pages |-> << >>]
    /\ wire = [p \in Pages |-> << >>]
    /\ cursor = [p \in Pages |-> 0]
    /\ seen = [p \in Pages |-> << >>]
    /\ drops = 0
    /\ raced = [p \in Pages |-> {}]
    /\ partial = [p \in Pages |-> FALSE]

Attached(p) == link[p] # "off"

---------------------------------------------------------------------------
(* The server                                                              *)

(* EventBus.publish calls the subscriber of every connection in turn; each *)
(* puts the event into its own queue.                                      *)
PublishToAll(ok) ==
    /\ Publish(ok)
    /\ queue' = [p \in Pages |->
                    IF Attached(p) THEN Append(queue[p], published') ELSE queue[p]]
    /\ raced' = [p \in Pages |->
                    IF link[p] = "replaying" THEN raced[p] \cup {published'}
                                             ELSE raced[p]]
    /\ UNCHANGED <<link, backlog, wire, cursor, seen, drops, partial>>

(* The events of S, oldest first.                                          *)
InOrder(S) ==
    CHOOSE s \in [1..Cardinality(S) -> S] :
        \A i, j \in DOMAIN s : i < j => s[i] < s[j]

(* The greeting carries bus.seq as it is now, behind what is on the wire.  *)
Greets(p) ==
    /\ wire' = [wire EXCEPT ![p] = Append(@, Snapshot(seq))]
    /\ link' = [link EXCEPT ![p] = "live"]

Missed(p) == {n \in history : seqOf[n] > cursor[p]}

(* Mutant of Backlog: a connection replays what the buffer holds, only.    *)
MutantBacklog(p, readable) == InOrder(Missed(p))

(* replay_since(cursor).  A store that cannot be read is logged, and the   *)
(* evicted prefix is left out.                                             *)
Backlog(p, readable) ==
    InOrder(IF readable THEN Replay(cursor[p]) ELSE Missed(p))

(* Mutant of Attach: a page connects when it is loaded and never again.    *)
MutantAttach(p, readable) ==
    /\ up
    /\ link[p] = "off"
    /\ seen[p] = << >>
    /\ backlog' = [backlog EXCEPT ![p] = Backlog(p, readable)]
    /\ link' = [link EXCEPT ![p] = "replaying"]
    /\ UNCHANGED <<logVars, queue, wire, cursor, seen, drops, raced, partial>>

(* A page connects with since = its cursor: replay_since and subscribe,    *)
(* with no await between them, nor before the greeting if there is nothing *)
(* to replay.                                                              *)
Attach(p, readable) ==
    /\ up
    /\ link[p] = "off"
    /\ backlog' = [backlog EXCEPT ![p] = Backlog(p, readable)]
    /\ partial' = [partial EXCEPT ![p] = @ \/ ~readable]
    /\ IF Backlog(p, readable) = << >>
       THEN Greets(p)
       ELSE link' = [link EXCEPT ![p] = "replaying"] /\ UNCHANGED wire
    /\ UNCHANGED <<logVars, queue, cursor, seen, drops, raced>>

(* One frame of the backlog is sent; the await lets events be published.   *)
SendBacklog(p) ==
    /\ link[p] = "replaying"
    /\ backlog[p] # << >>
    /\ wire' = [wire EXCEPT ![p] = Append(@, Frame(Head(backlog[p])))]
    /\ backlog' = [backlog EXCEPT ![p] = Tail(@)]
    /\ UNCHANGED <<logVars, link, queue, cursor, seen, drops, raced, partial>>

(* The backlog is sent.                                                    *)
SendHello(p) ==
    /\ link[p] = "replaying"
    /\ backlog[p] = << >>
    /\ Greets(p)
    /\ UNCHANGED <<logVars, backlog, queue, cursor, seen, drops, raced, partial>>

(* Mutant of Forward: only the newest of the queued events is sent.        *)
MutantForward(p) ==
    /\ link[p] = "live"
    /\ queue[p] # << >>
    /\ wire' = [wire EXCEPT ![p] = Append(@, Frame(Last(queue[p])))]
    /\ queue' = [queue EXCEPT ![p] = << >>]
    /\ UNCHANGED <<logVars, link, backlog, cursor, seen, drops, raced, partial>>

(* The loop of agent_socket takes the next event off the queue.            *)
Forward(p) ==
    /\ link[p] = "live"
    /\ queue[p] # << >>
    /\ wire' = [wire EXCEPT ![p] = Append(@, Frame(Head(queue[p])))]
    /\ queue' = [queue EXCEPT ![p] = Tail(@)]
    /\ UNCHANGED <<logVars, link, backlog, cursor, seen, drops, raced, partial>>

---------------------------------------------------------------------------
(* The page                                                                *)

Highest(a, b) == IF a > b THEN a ELSE b

(* Mutant of Processed: the greeting does not move the cursor.             *)
MutantProcessed(c, f) == c

(* The cursor after a frame was handed on.                                 *)
Processed(c, f) == Highest(c, f.s)

(* socket.onmessage: an event at or below the cursor is a duplicate; the   *)
(* greeting never is.                                                      *)
Deliver(p) ==
    /\ wire[p] # << >>
    /\ LET f == Head(wire[p]) IN
          IF f.n # 0 /\ f.s <= cursor[p]
          THEN UNCHANGED <<cursor, seen>>
          ELSE /\ cursor' = [cursor EXCEPT ![p] = Processed(@, f)]
               /\ seen' = [seen EXCEPT ![p] = IF f.n = 0 THEN @ ELSE Append(@, f.n)]
    /\ wire' = [wire EXCEPT ![p] = Tail(@)]
    /\ UNCHANGED <<logVars, link, backlog, queue, drops, raced, partial>>

(* What a connection leaves behind when it ends at either side: frames in  *)
(* flight are lost, and the handler's finally unsubscribes.                *)
Ended(p) ==
    /\ link' = [link EXCEPT ![p] = "off"]
    /\ backlog' = [backlog EXCEPT ![p] = << >>]
    /\ queue' = [queue EXCEPT ![p] = << >>]
    /\ wire' = [wire EXCEPT ![p] = << >>]

(* The connection is lost, or a send times out (_send_raw).                *)
Disconnect(p) ==
    /\ Attached(p)
    /\ drops < MaxDrops
    /\ drops' = drops + 1
    /\ Ended(p)
    /\ UNCHANGED <<logVars, cursor, seen, raced, partial>>

(* The page is reloaded, or the user leaves the session and comes back:    *)
(* attachSession starts from an empty transcript and cursor -1.            *)
Reload(p) ==
    /\ drops < MaxDrops
    /\ drops' = drops + 1
    /\ Ended(p)
    /\ cursor' = [cursor EXCEPT ![p] = 0]
    /\ seen' = [seen EXCEPT ![p] = << >>]
    /\ raced' = [raced EXCEPT ![p] = {}]
    /\ partial' = [partial EXCEPT ![p] = FALSE]
    /\ UNCHANGED logVars

(* A killed process takes every connection with it.                        *)
KillAll ==
    /\ Kill
    /\ link' = [p \in Pages |-> "off"]
    /\ backlog' = [p \in Pages |-> << >>]
    /\ queue' = [p \in Pages |-> << >>]
    /\ wire' = [p \in Pages |-> << >>]
    /\ UNCHANGED <<cursor, seen, drops, raced, partial>>

---------------------------------------------------------------------------

PageStep(p) ==
    \/ \E readable \in BOOLEAN : Attach(p, readable)
    \/ SendBacklog(p) \/ SendHello(p) \/ Forward(p) \/ Deliver(p)

Next ==
    \/ \E ok \in BOOLEAN : PublishToAll(ok)
    \/ \E ok \in BOOLEAN : Flush(ok) /\ UNCHANGED streamVars
    \/ Reopen /\ UNCHANGED streamVars
    \/ KillAll
    \/ \E p \in Pages : PageStep(p) \/ Disconnect(p) \/ Reload(p)

Spec == Init /\ [][Next]_vars

(* The server answers a request of a page that reconnects (which rebuilds  *)
(* the session after a restart), each connection's handler keeps running,  *)
(* and the page keeps reading and reconnecting (scheduleReconnect has no   *)
(* last attempt).  Connections may be lost, but not for ever: MaxDrops.    *)
FairSpec ==
    /\ Spec
    /\ WF_vars(Reopen /\ UNCHANGED streamVars)
    /\ \A p \in Pages : WF_vars(PageStep(p))

---------------------------------------------------------------------------
(* Safety                                                                  *)

(* While a page is connected, every event newer than its cursor that the   *)
(* session still has is on its way to it: in the backlog, in the queue or  *)
(* on the wire.  Nothing falls between replay_since and subscribe, and     *)
(* nothing between the buffer and the store.                               *)
OnItsWay ==
    \A p \in Pages : Attached(p) =>
        \A n \in history \cup (IF partial[p] THEN {} ELSE durable) :
            seqOf[n] > cursor[p] =>
                \/ Contains(backlog[p], n)
                \/ Contains(queue[p], n)
                \/ Contains(wire[p], Frame(n))

(* A page shows events in the order they were published, and none twice,   *)
(* through reconnects, reloads and restarts of the server.                 *)
InOrderOnce ==
    \A p \in Pages : \A i, j \in 1..Len(seen[p]) :
        i < j => seen[p][i] < seen[p][j]

(* The only events a page passes over without showing them, as long as the *)
(* server is not killed, are those published while a backlog was being     *)
(* sent to it, or left out of a replay because the store failed.           *)
MissesOnlyRaced ==
    kills = 0 => \A p \in Pages : \A n \in 1..published :
        seqOf[n] <= cursor[p] =>
            \/ Contains(seen[p], n)
            \/ n \in raced[p]
            \/ partial[p]
            \/ n \in lost

(* What a page shows is the history of the session: in order, each event   *)
(* once, and none passed over but in the race of the greeting.             *)
PagesAreFaithful == InOrderOnce /\ MissesOnlyRaced

(* A page whose connection settles catches up: whatever number the session *)
(* has reached, the page's cursor reaches it, unless a kill winds it back. *)
CatchesUp ==
    \A p \in Pages : \A s \in Events :
        seq = s ~> cursor[p] >= s \/ seq < s

---------------------------------------------------------------------------
(* What the code says of itself, and its interleavings break               *)

(* "The cursor is the highest sequence number the client has processed":   *)
(* every event at or below it that could be sent was handed to the page.   *)
CursorIsProcessed ==
    \A p \in Pages : \A n \in history \cup durable :
        seqOf[n] <= cursor[p] => Contains(seen[p], n)
=============================================================================
