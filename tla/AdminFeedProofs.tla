-------------------------- MODULE AdminFeedProofs --------------------------
(***************************************************************************)
(* For any number of dashboards and changes and any buffer: the types, and *)
(* no broadcast ever sends on a channel that its handler has closed.       *)
(***************************************************************************)
EXTENDS AdminFeed, TLAPS

(* The hub's map holds served channels only, and because a broadcast keeps *)
(* the lock the map does not lose what the broadcast has left.             *)
IInv ==
    /\ TypeOK
    /\ \A d \in clients : stream[d] # "closed"
    /\ \A a \in Action : left[a] \subseteq clients

LEMMA InitIInv == Init => IInv
BY FeedAssumption DEF Init, IInv, TypeOK

LEMMA ChangeIInv == ASSUME IInv, NEW a \in Action, Change(a) \/ Insert(a) PROVE IInv'
BY DEF IInv, TypeOK, Change, Insert, hubVars, viewVars

LEMMA TellIInv == ASSUME IInv, NEW a \in Action, Tell(a) PROVE IInv'
<1>1. CASE Broadcast(a)
  BY <1>1 DEF IInv, TypeOK, Broadcast, viewVars
<1>2. ASSUME NEW d \in Dashboard, Send(a, d) PROVE IInv'
  <2>1. TypeOK'
    BY <1>2, FeedAssumption DEF IInv, TypeOK, Send, viewVars
  <2> QED
    BY <1>2, <2>1 DEF IInv, TypeOK, Send, viewVars
<1> QED
  BY <1>1, <1>2 DEF Tell

LEMMA HandleStreamIInv == ASSUME IInv, NEW d \in Dashboard, HandleStream(d) PROVE IInv'
BY FeedAssumption DEF IInv, TypeOK, HandleStream, viewVars

LEMMA FollowIInv == ASSUME IInv, NEW d \in Dashboard, Follow(d) PROVE IInv'
<1>1. CASE Ping(d)
  BY <1>1 DEF IInv, TypeOK, Ping, Flush, hubVars
<1>2. CASE Deliver(d)
  <2>1. TypeOK'
    BY <1>2, FeedAssumption DEF IInv, TypeOK, Deliver, Flush
  <2> QED
    BY <1>2, <2>1 DEF IInv, TypeOK, Deliver, Flush
<1> QED
  BY <1>1, <1>2 DEF Follow

LEMMA LeaveIInv ==
    ASSUME IInv, NEW d \in Dashboard, Disconnect(d) \/ CloseTab(d) PROVE IInv'
BY DEF IInv, TypeOK, Disconnect, CloseTab, hubVars, viewVars

(* A handler can close its channel only when nothing is left to send.      *)
LEMMA UnsubscribeIInv == ASSUME IInv, NEW d \in Dashboard, Unsubscribe(d) PROVE IInv'
BY FeedAssumption DEF IInv, TypeOK, Unsubscribe, NoBroadcast, viewVars

LEMMA ViewIInv ==
    ASSUME IInv, NEW d \in Dashboard, TimerFires(d) \/ Reload(d) PROVE IInv'
BY DEF IInv, TypeOK, TimerFires, Reload, Load, LoadFails, Made, hubVars

LEMMA ServerStopsIInv == ASSUME IInv, ServerStops PROVE IInv'
BY FeedAssumption DEF IInv, TypeOK, ServerStops

LEMMA NextIInv == IInv /\ [Next]_vars => IInv'
<1> SUFFICES ASSUME IInv, [Next]_vars PROVE IInv'
    OBVIOUS
<1>1. CASE UNCHANGED vars
  BY <1>1 DEF IInv, TypeOK, vars
<1>2. CASE ServerStops
  BY <1>2, ServerStopsIInv
<1>3. ASSUME NEW a \in Action, Change(a) \/ Insert(a) \/ Tell(a) PROVE IInv'
  BY <1>3, ChangeIInv, TellIInv
<1>4. ASSUME NEW d \in Dashboard,
             \/ HandleStream(d) \/ Follow(d) \/ Disconnect(d) \/ CloseTab(d)
             \/ Unsubscribe(d) \/ TimerFires(d) \/ Reload(d)
      PROVE  IInv'
  BY <1>4, HandleStreamIInv, FollowIInv, LeaveIInv, UnsubscribeIInv, ViewIInv
<1> QED
  BY <1>1, <1>2, <1>3, <1>4 DEF Next

LEMMA Inductive == Spec => []IInv
<1> QED
  BY InitIInv, NextIInv, PTL DEF Spec

(* Every variable keeps its type; a client's channel never holds more than *)
(* its buffer (Hub, HandleStream, CampAdminDashboard).                     *)
THEOREM TypeCorrect == Spec => []TypeOK
<1>1. IInv => TypeOK
  BY DEF IInv
<1> QED
  BY <1>1, Inductive, PTL

(* However streams come and go while changes are told, no send meets a     *)
(* channel its handler has closed (Hub.Broadcast, Subscribe's unsub).      *)
THEOREM SendsOnOpenChannels == Spec => []NoSendOnClosedChannel
<1>1. IInv => NoSendOnClosedChannel
  BY DEF IInv, NoSendOnClosedChannel
<1> QED
  BY <1>1, Inductive, PTL
=============================================================================
