------------------------------ MODULE AdminFeed ------------------------------
(***************************************************************************)
(* How one administrator's change reaches the dashboards of the others.    *)
(* The change commits; the audit event is inserted; the hub broadcasts it  *)
(* to every connected client's buffer, or drops it when the buffer is full; *)
(* a stream handler writes it out; the dashboard, some time after the last *)
(* event, loads everything anew.  The event itself is only a reason to.    *)
(***************************************************************************)
EXTENDS Naturals

CONSTANTS
    Dashboard,      \* browser tabs with the dashboard
    Action,         \* changes made by administrators, logins among them
    ClientBuffer    \* clientBuffer: events a client's channel holds

ASSUME FeedAssumption == ClientBuffer \in Nat \ {0}

VARIABLES
    act,        \* how far each change has got
    left,       \* clients a broadcast in progress has still to send to
    clients,    \* the hub's map: the dashboards whose channel is subscribed
    channel,    \* how many events each channel holds
    stream,     \* the stream request of each dashboard
    timer,      \* dashboards whose debounce timer runs
    loading,    \* dashboards with a load whose answer is not computed yet
    seen,       \* changes its loads have read, since one failed
    failed      \* dashboards that tell their user to refresh

vars == <<act, left, clients, channel, stream, timer, loading, seen, failed>>
hubVars  == <<left, clients, channel>>
viewVars == <<timer, loading, seen, failed>>

TypeOK ==
    /\ act \in [Action -> {"new", "committed", "recorded", "broadcast", "unrecorded"}]
    /\ left \in [Action -> SUBSET Dashboard]
    /\ clients \subseteq Dashboard
    /\ channel \in [Dashboard -> 0..ClientBuffer]
    /\ stream \in [Dashboard -> {"closed", "silent", "open", "broken"}]
    /\ timer \subseteq Dashboard /\ loading \subseteq Dashboard /\ failed \subseteq Dashboard
    /\ seen \in [Dashboard -> SUBSET Action]

Init ==
    /\ act = [a \in Action |-> "new"]
    /\ left = [a \in Action |-> {}]
    /\ clients = {}
    /\ channel = [d \in Dashboard |-> 0]
    /\ stream = [d \in Dashboard |-> "closed"]
    /\ timer = {} /\ loading = {} /\ failed = {}
    /\ seen = [d \in Dashboard |-> {}]

Made == {a \in Action : act[a] # "new"}

----------------------------------------------------------------------------
(* A change, and its event.                                                *)

\* Any action of a dashboard, up to the commit of the service it calls, or a
\* login, up to the session.
Change(a) ==
    /\ act[a] = "new"
    /\ act' = [act EXCEPT ![a] = "committed"]
    /\ UNCHANGED <<hubVars, stream, viewVars>>

\* A failed insert is logged, and nobody is told.
Insert(a) ==
    /\ act[a] = "committed"
    /\ \E st \in {"recorded", "unrecorded"} : act' = [act EXCEPT ![a] = st]
    /\ UNCHANGED <<hubVars, stream, viewVars>>

\* The hub's lock is held for reading while a broadcast has clients left.
NoBroadcast == \A a \in Action : left[a] = {}

Broadcast(a) ==
    /\ act[a] = "recorded"
    /\ act' = [act EXCEPT ![a] = "broadcast"]
    /\ left' = [left EXCEPT ![a] = clients]
    /\ UNCHANGED <<clients, channel, stream, viewVars>>

\* Faulty: a full client ends the broadcast for everybody.
SendOrStop(a, d) ==
    /\ d \in left[a]
    /\ IF channel[d] < ClientBuffer
       THEN /\ channel' = [channel EXCEPT ![d] = @ + 1]
            /\ left' = [left EXCEPT ![a] = @ \ {d}]
       ELSE UNCHANGED channel /\ left' = [left EXCEPT ![a] = {}]
    /\ UNCHANGED <<act, clients, stream, viewVars>>

\* Faulty: the buffer has no limit.
SendUnbounded(a, d) ==
    /\ d \in left[a]
    /\ channel' = [channel EXCEPT ![d] = @ + 1]
    /\ left' = [left EXCEPT ![a] = @ \ {d}]
    /\ UNCHANGED <<act, clients, stream, viewVars>>

Send(a, d) ==
    /\ d \in left[a]
    /\ channel' = IF channel[d] < ClientBuffer
                  THEN [channel EXCEPT ![d] = @ + 1] ELSE channel
    /\ left' = [left EXCEPT ![a] = @ \ {d}]
    /\ UNCHANGED <<act, clients, stream, viewVars>>

----------------------------------------------------------------------------
(* The stream.  The token is verified once, when the stream is requested.  *)

\* Nothing is flushed yet, so the browser does not know it is connected.
HandleStream(d) ==
    /\ stream[d] = "closed"
    /\ NoBroadcast
    /\ clients' = clients \cup {d}
    /\ channel' = [channel EXCEPT ![d] = 0]
    /\ stream' = [stream EXCEPT ![d] = "silent"]
    /\ UNCHANGED <<act, left, viewVars>>

\* Faulty: what was missed while disconnected is not loaded.
FlushOnly(d) ==
    /\ stream' = [stream EXCEPT ![d] = "open"]
    /\ UNCHANGED <<loading, failed>>

\* The first bytes to arrive make the browser call onOpen, which loads.  The
\* error message is cleared when a load begins.
Flush(d) ==
    /\ stream' = [stream EXCEPT ![d] = "open"]
    /\ loading' = IF stream[d] = "silent" THEN loading \cup {d} ELSE loading
    /\ failed' = IF stream[d] = "silent" THEN failed \ {d} ELSE failed

Ping(d) ==
    /\ stream[d] = "silent"
    /\ Flush(d)
    /\ UNCHANGED <<act, hubVars, timer, seen>>

Deliver(d) ==
    /\ stream[d] \in {"silent", "open"} /\ channel[d] > 0
    /\ channel' = [channel EXCEPT ![d] = @ - 1]
    /\ Flush(d)
    /\ timer' = timer \cup {d}
    /\ UNCHANGED <<act, left, clients, seen>>

\* The connection is lost; the browser will ask for the stream again.
Disconnect(d) ==
    /\ stream[d] \in {"silent", "open"}
    /\ stream' = [stream EXCEPT ![d] = "broken"]
    /\ UNCHANGED <<act, hubVars, viewVars>>

\* The tab is closed: its timer is cleared, and nobody waits for the load.
CloseTab(d) ==
    /\ stream' = [stream EXCEPT ![d] = IF @ = "closed" THEN @ ELSE "broken"]
    /\ timer' = timer \ {d} /\ loading' = loading \ {d} /\ failed' = failed \ {d}
    /\ seen' = [seen EXCEPT ![d] = {}]
    /\ UNCHANGED <<act, hubVars>>

\* Faulty: the hub's lock is not taken.
UnsubscribeUnlocked(d) ==
    /\ stream[d] = "broken"
    /\ clients' = clients \ {d}
    /\ stream' = [stream EXCEPT ![d] = "closed"]
    /\ channel' = [channel EXCEPT ![d] = 0]
    /\ UNCHANGED <<act, left, viewVars>>

\* The handler notices, and its deferred unsub deletes and closes the channel.
Unsubscribe(d) ==
    /\ stream[d] = "broken"
    /\ NoBroadcast
    /\ clients' = clients \ {d}
    /\ stream' = [stream EXCEPT ![d] = "closed"]
    /\ channel' = [channel EXCEPT ![d] = 0]
    /\ UNCHANGED <<act, left, viewVars>>

----------------------------------------------------------------------------
(* The dashboard.                                                          *)

\* No event for 400 ms.
TimerFires(d) ==
    /\ d \in timer
    /\ timer' = timer \ {d}
    /\ loading' = loading \cup {d} /\ failed' = failed \ {d}
    /\ UNCHANGED <<act, hubVars, stream, seen>>

\* The server reads, and the dashboard shows what it read.  Loads carry no order:
\* an older answer may still arrive after this one and take its place.
Load(d) ==
    /\ d \in loading
    /\ loading' = loading \ {d}
    /\ seen' = [seen EXCEPT ![d] = Made]
    /\ UNCHANGED <<act, hubVars, stream, timer, failed>>

\* The message asks the user to refresh, or the login page replaces it all.
LoadFails(d) ==
    /\ d \in loading
    /\ loading' = loading \ {d}
    /\ failed' = failed \cup {d}
    /\ seen' = [seen EXCEPT ![d] = {}]
    /\ UNCHANGED <<act, hubVars, stream, timer>>

\* The process stops: connections and the hub go, tokens stay valid.
ServerStops ==
    /\ act' = [a \in Action |-> IF act[a] \in {"committed", "recorded"} THEN "unrecorded"
                                ELSE act[a]]
    /\ left' = [a \in Action |-> {}]
    /\ clients' = {}
    /\ channel' = [d \in Dashboard |-> 0]
    /\ stream' = [d \in Dashboard |-> "closed"]
    /\ failed' = failed \cup loading
    /\ seen' = [d \in Dashboard |-> IF d \in loading THEN {} ELSE seen[d]]
    /\ loading' = {}
    /\ UNCHANGED timer

Tell(a) == Broadcast(a) \/ \E d \in Dashboard : Send(a, d)
Follow(d) == Ping(d) \/ Deliver(d)
Reload(d) == Load(d) \/ LoadFails(d)

Next ==
    \/ \E a \in Action : Change(a) \/ Insert(a) \/ Tell(a)
    \/ \E d \in Dashboard :
         \/ HandleStream(d) \/ Follow(d) \/ Disconnect(d) \/ CloseTab(d) \/ Unsubscribe(d)
         \/ TimerFires(d) \/ Reload(d)
    \/ ServerStops

Spec == Init /\ [][Next]_vars

(* Handlers, timers and requests make progress; nothing is assumed of      *)
(* administrators, connections or the process.                             *)
Fairness ==
    /\ \A a \in Action : WF_vars(Tell(a))
    /\ \A d \in Dashboard :
         WF_vars(Follow(d)) /\ WF_vars(TimerFires(d)) /\ WF_vars(Reload(d))

FairSpec == Spec /\ Fairness

----------------------------------------------------------------------------
(* A broadcast in progress has only open channels before it: a send on a   *)
(* channel closed by its handler's unsub would panic and end the process   *)
(* (Hub.Broadcast, Subscribe's unsub, HandleStream's deferred call of it). *)
NoSendOnClosedChannel ==
    \A a \in Action : \A d \in left[a] : stream[d] # "closed"

Settled(a, d) == a \in seen[d] \/ stream[d] \notin {"silent", "open"} \/ d \in failed

(* A recorded change reaches every dashboard that stays connected, also    *)
(* one whose buffer was full: it loads after the change was made, or says  *)
(* that it could not (Hub.Broadcast, the dashboard's onEvent).             *)
ChangeReachesDashboards ==
    \A a \in Action, d \in Dashboard :
        (act[a] = "recorded" /\ stream[d] = "open") ~> Settled(a, d)

(* A dashboard that connects, for the first time or again, loads what was  *)
(* changed before, also when its event was lost or never recorded          *)
(* (HandleStream, the dashboard's onOpen).                                 *)
ConnectingCatchesUp ==
    \A a \in Action, d \in Dashboard :
        (a \in Made /\ stream[d] = "silent") ~> Settled(a, d)
=============================================================================
