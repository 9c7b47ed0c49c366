------------------------------ MODULE SheetSync ------------------------------
(***************************************************************************)
(* The Google Sheet the camp leaders read: one row per camper, in a Pending *)
(* or a Paid tab.  Rows are not addressed by name.  A removal or a contact  *)
(* change reads column A, notes the numbers of the group's rows, and writes *)
(* by number in a second request; every caller does this after its own      *)
(* transaction, with no lock, and each request to Google may fail.          *)
(***************************************************************************)
EXTENDS Integers, SequencesExt

CONSTANTS
    Group,      \* registration groups
    Camper,     \* numbers: the campers a group may have, in the order of its rows
    Contact,    \* what the contact columns of a group may say
    Call,       \* calls in flight at the same time
    MaxCommits, \* bound: commits to the database, and resyncs
    MaxFaults,  \* bound: failed requests and restarts
    Header,     \* column A of the header row
    NoGroup     \* column A of a row that names no group

ASSUME SheetAssumption ==
    /\ Camper \subseteq Nat /\ IsFiniteSet(Camper) /\ Contact # {} /\ Group # {}
    /\ MaxCommits \in Nat /\ MaxFaults \in Nat
    /\ Header # NoGroup /\ {Header, NoGroup} \cap Group = {}

VARIABLES
    db,         \* the rows of registration_groups and registrations
    tabs,       \* the two tabs, top row first
    once,       \* headerOnce: per tab, whether ensureHeaders has run in this process
    calls,      \* the calls in flight
    commits,    \* how many there were
    faults,     \* how many there were
    listed,     \* history: groups that were appended and whose rows must be there
    headless    \* history: tabs whose header once could not be written

vars == <<db, tabs, once, calls, commits, faults, listed, headless>>

Tab == {"paid", "pending"}
AnyContact == CHOOSE c \in Contact : TRUE
Row == [g : Group \cup {Header, NoGroup}, camper : Camper \cup {0}, contact : Contact]
Blank == [g |-> NoGroup, camper |-> 0, contact |-> AnyContact]
HeaderRow == [Blank EXCEPT !.g = Header]

Registered == [st : {"none", "pending", "paid", "cancelled", "deleted"},
               roster : SUBSET Camper, contact : Contact]
Step == [do : {"append", "delete", "contact"}, tab : Tab]
CallRow == [pc : {"idle", "load", "next", "header", "write", "stamp"},
            op : {"append", "move", "edit", "resync", "remove", "contact"},
            g : Group, todo : Seq(Step), rows : Seq(Row), contact : Contact,
            hits : SUBSET Nat,
            stale : BOOLEAN,    \* history: rows were deleted since this call read them
            alone : BOOLEAN]    \* history: see the callers

Idle == [pc |-> "idle", op |-> "append", g |-> CHOOSE g \in Group : TRUE, todo |-> <<>>,
         rows |-> <<>>, contact |-> AnyContact, hits |-> {}, stale |-> FALSE,
         alone |-> TRUE]

TypeOK ==
    /\ db \in [Group -> Registered]
    /\ tabs \in [Tab -> Seq(Row)]
    /\ once \in [Tab -> {"new", "running", "done"}]
    /\ calls \in [Call -> CallRow]
    /\ commits \in 0..MaxCommits /\ faults \in 0..MaxFaults
    /\ listed \subseteq Group /\ headless \subseteq Tab

\* Both tabs have been created by hand, and are empty.
Init ==
    /\ db = [g \in Group |-> [st |-> "none", roster |-> {}, contact |-> AnyContact]]
    /\ tabs = [t \in Tab |-> <<>>]
    /\ once = [t \in Tab |-> "new"]
    /\ calls = [p \in Call |-> Idle]
    /\ commits = 0 /\ faults = 0 /\ listed = {} /\ headless = {}

\* The smallest number first.
InOrder(numbers) ==
    MapThenFoldSet(LAMBDA n, rest : <<n>> \o rest, <<>>, LAMBDA n : n, Min, numbers)

RowsForGroup(g, roster, contact) ==
    LET order == InOrder(roster)
    IN [i \in DOMAIN order |-> [g |-> g, camper |-> order[i], contact |-> contact]]

\* The numbers of a group's rows, and the rows, from the top.
RowNumbers(g, rows) == {i \in DOMAIN rows : rows[i].g = g}
Picked(rows, numbers) ==
    LET order == InOrder(numbers) IN [k \in DOMAIN order |-> rows[order[k]]]
RowsOf(g, t) == Picked(tabs[t], RowNumbers(g, tabs[t]))

----------------------------------------------------------------------------
(* The requests each method of GoogleSync makes, in order.                 *)

AppendTo(t) == [do |-> "append", tab |-> t]
DeleteIn(t) == [do |-> "delete", tab |-> t]

AppendPending == <<AppendTo("pending")>>

\* Faulty: the pending row goes first.
RemovePendingAndAppendPaid == <<DeleteIn("pending"), AppendTo("paid")>>
AppendPaidAndRemovePending == <<AppendTo("paid"), DeleteIn("pending")>>

\* Faulty: only the tab the group should be in is cleared.
RemoveFromPaid == <<DeleteIn("paid")>>
RemoveByGroupID == <<DeleteIn("paid"), DeleteIn("pending")>>

UpdateContactByGroupID ==
    <<[do |-> "contact", tab |-> "paid"], [do |-> "contact", tab |-> "pending"]>>

(* What is still done after a request failed.  RemoveByGroupID gives up at *)
(* its first error; an edit logs that and appends all the same; every other *)
(* error ends the call.  A resync whose last delete fails counts as done.  *)
AfterError(call) ==
    IF call.op = "edit" /\ Len(call.todo) > Len(AppendPaidAndRemovePending)
    THEN AppendPaidAndRemovePending ELSE <<>>

Ended(call, ok) == IF call.op = "resync" /\ ok
    THEN [call EXCEPT !.pc = "stamp", !.todo = <<>>, !.hits = {}, !.stale = FALSE] ELSE Idle
GoOn(call, todo, ok) ==
    IF todo = <<>> THEN Ended(call, ok)
    ELSE [call EXCEPT !.pc = "next", !.todo = todo, !.hits = {}, !.stale = FALSE]
Done(call) == GoOn(call, Tail(call.todo), TRUE)
Failed(call) ==
    GoOn(call, AfterError(call),
         call.op = "resync" /\ Len(call.todo) = 1 /\ Head(call.todo).do = "delete")

----------------------------------------------------------------------------
(* The callers.  Each commits to the database first.  A call is alone when *)
(* no other call of its group is in flight while it runs and no write lands *)
(* by row numbers that a deletion has outdated.                            *)

Sharing(p, g) == {q \in Call \ {p} : calls[q].pc # "idle" /\ calls[q].g = g}

Commits == commits < MaxCommits /\ commits' = commits + 1

Begin(p, call) ==
    /\ calls[p].pc = "idle" /\ Commits
    /\ LET rivals == Sharing(p, call.g) IN
       /\ calls' = [q \in Call |->
            IF q = p THEN [call EXCEPT !.alone = (rivals = {})]
            ELSE IF q \in rivals THEN [calls[q] EXCEPT !.alone = FALSE] ELSE calls[q]]
       /\ listed' = IF rivals = {} /\ call.op \in {"append", "move", "contact"} THEN listed
                    ELSE listed \ {call.g}
    /\ UNCHANGED <<tabs, once, faults, headless>>

Synced(g, op, pc, todo) == [Idle EXCEPT !.pc = pc, !.op = op, !.g = g, !.todo = todo]

(* A submission that needs no payment is stored paid.                      *)
Submit(p, g) ==
    /\ db[g].st = "none"
    /\ \E roster \in (SUBSET Camper) \ {{}}, settled \in BOOLEAN :
         LET rows == RowsForGroup(g, roster, db[g].contact) IN
         /\ db' = [db EXCEPT ![g].st = IF settled THEN "paid" ELSE "pending",
                             ![g].roster = roster]
         /\ Begin(p, [(IF settled THEN Synced(g, "move", "next", AppendPaidAndRemovePending)
                                  ELSE Synced(g, "append", "next", AppendPending))
                      EXCEPT !.rows = rows])

(* Only the event that settles the group syncs; a redelivery does not.     *)
HandleCheckoutCompleted(p, g) ==
    /\ db[g].st = "pending"
    /\ db' = [db EXCEPT ![g].st = "paid"]
    /\ Begin(p, [Synced(g, "move", "load", AppendPaidAndRemovePending)
                 EXCEPT !.contact = db[g].contact])

\* Faulty: the status is stored as it was typed.
SetPaymentStatusUnparsed(g, st) ==
    /\ db[g].st \in {"pending", "paid", "cancelled"} \ {st}
    /\ db' = [db EXCEPT ![g].st = IF st = "paid" THEN "Paid" ELSE st]
    /\ Commits
    /\ UNCHANGED <<tabs, once, calls, faults, listed, headless>>

(* Expiry and the override by hand leave the sheet as it is.               *)
SetPaymentStatus(g, st) ==
    /\ db[g].st \in {"pending", "paid", "cancelled"} \ {st}
    /\ db' = [db EXCEPT ![g].st = st]
    /\ Commits
    /\ UNCHANGED <<tabs, once, calls, faults, listed, headless>>

(* A camper leaves, changes or (once the group has paid) joins; the rows   *)
(* of a group that has not paid are left alone.                            *)
EditCampers(p, g) ==
    /\ db[g].st \notin {"none", "deleted"}
    /\ \E c \in Camper, roster \in (SUBSET Camper) \ {{}} :
         /\ \/ roster \in {db[g].roster, db[g].roster \ {c}}
            \/ db[g].st = "paid" /\ roster = db[g].roster \cup {c}
         /\ db' = [db EXCEPT ![g].roster = roster]
    /\ \/ /\ db[g].st = "paid"
          /\ Begin(p, Synced(g, "edit", "load", RemoveByGroupID \o AppendPaidAndRemovePending))
       \/ /\ db[g].st # "paid"
          /\ Commits
          /\ UNCHANGED <<tabs, once, calls, faults, listed, headless>>

UpdateGroupContact(p, g) ==
    /\ db[g].st \notin {"none", "deleted"}
    /\ \E c \in Contact :
         /\ db' = [db EXCEPT ![g].contact = c]
         /\ Begin(p, [Synced(g, "contact", "next", UpdateContactByGroupID)
                      EXCEPT !.contact = c])

DeleteRegistration(p, g) ==
    /\ db[g].st \notin {"none", "deleted"}
    /\ db' = [db EXCEPT ![g].st = "deleted", ![g].roster = {}]
    /\ Begin(p, Synced(g, "remove", "next", RemoveByGroupID))

(* ResyncAllSheets is one such call after the other.                       *)
ResyncSheet(p, g) ==
    /\ db[g].st \in {"pending", "paid"}
    /\ Begin(p, [Synced(g, "resync", "next",
                        RemoveByGroupID \o (IF db[g].st = "paid" THEN AppendPaidAndRemovePending
                                            ELSE AppendPending))
                 EXCEPT !.rows = RowsForGroup(g, db[g].roster, db[g].contact)])
    /\ UNCHANGED db

StampOnly(p) ==
    /\ calls[p].pc = "stamp"
    /\ calls' = [calls EXCEPT ![p] = Idle]
    /\ UNCHANGED <<db, tabs, once, commits, faults, listed, headless>>

(* The campers are read after the commit.  An edit reads the group again   *)
(* and stops when it is gone; a checkout keeps the one it settled.         *)
LoadRows(p) ==
    LET call == calls[p]
        g    == call.g
    IN /\ call.pc = "load"
       /\ calls' = [calls EXCEPT ![p] =
             IF call.op = "edit" /\ db[g].st = "deleted" THEN Idle
             ELSE [call EXCEPT !.pc = "next",
                     !.rows = RowsForGroup(g, db[g].roster,
                                 IF call.op = "edit" THEN db[g].contact ELSE call.contact)]]
       /\ UNCHANGED <<db, tabs, once, commits, faults, listed, headless>>

----------------------------------------------------------------------------
(* One request to Google.                                                  *)

Doing(p, pc, do, t) ==
    /\ calls[p].pc = pc
    /\ Head(calls[p].todo) = [do |-> do, tab |-> t]

Fault == faults < MaxFaults /\ faults' = faults + 1
Fails(p) == calls' = [calls EXCEPT ![p] = Failed(calls[p])] /\ Fault

\* Faulty: a flag is set before A1 is read, and nobody waits for the header.
OnceFlag(t) == once[t] # "new"
OnceDone(t) == once[t] = "done"

(* ensureHeaders, the first call for the tab in this process: others wait  *)
(* until it is done.  An error is not retried before the next restart.     *)
ReadA1(p, t) ==
    LET filled == tabs[t] # <<>> /\ tabs[t][1].g # NoGroup IN
    /\ Doing(p, "next", "append", t) /\ once[t] = "new"
    /\ \/ /\ Fails(p)
          /\ once' = [once EXCEPT ![t] = "done"]
          /\ headless' = IF filled THEN headless ELSE headless \cup {t}
       \/ /\ once' = [once EXCEPT ![t] = IF filled THEN "done" ELSE "running"]
          /\ calls' = [calls EXCEPT ![p].pc = IF filled THEN "next" ELSE "header"]
          /\ UNCHANGED <<faults, headless>>
    /\ UNCHANGED <<db, tabs, commits, listed>>

\* The header goes to A1, whatever is there by now.
WriteHeader(p, t) ==
    /\ Doing(p, "header", "append", t)
    /\ once' = [once EXCEPT ![t] = "done"]
    /\ \/ /\ tabs' = [tabs EXCEPT ![t] = <<HeaderRow>> \o (IF @ = <<>> THEN @ ELSE Tail(@))]
          /\ \/ calls' = [calls EXCEPT ![p].pc = "next"] /\ UNCHANGED faults
             \/ Fails(p)
          /\ UNCHANGED headless
       \/ /\ Fails(p)
          /\ headless' = headless \cup {t}
          /\ UNCHANGED tabs
    /\ UNCHANGED <<db, commits, listed>>

(* The history: whoever counted rows of this tab before a deletion counts  *)
(* wrong, and a write by a wrong count disturbs every call in flight.      *)
Counting(q, t) == calls[q].pc = "write" /\ Head(calls[q].todo).tab = t
Wrote(p, t, deletes, call) ==
    [q \in Call |->
        LET now == IF q = p THEN call ELSE calls[q]
        IN IF now = Idle THEN now
           ELSE [now EXCEPT !.stale = @ \/ (q # p /\ deletes /\ Counting(q, t)),
                            !.alone = @ /\ ~calls[p].stale]]

\* A write took effect.  Its answer may still be lost, or late.
Lands(p, t, deletes) ==
    \/ calls' = Wrote(p, t, deletes, Done(calls[p])) /\ UNCHANGED faults
    \/ calls' = Wrote(p, t, deletes, Failed(calls[p])) /\ Fault

\* Rows that arrive while the group has no other call in flight are listed.
AppendRows(p, t) ==
    LET call == calls[p] IN
    /\ Doing(p, "next", "append", t) /\ OnceDone(t)
    /\ \/ /\ tabs' = [tabs EXCEPT ![t] = @ \o call.rows]
          /\ listed' = IF call.alone /\ call.rows # <<>> THEN listed \cup {call.g} ELSE listed
          /\ Lands(p, t, FALSE)
       \/ Fails(p) /\ UNCHANGED <<tabs, listed>>
    /\ UNCHANGED <<db, once, commits, headless>>

(* The first of two requests: column A is read.  No row, nothing to write. *)
ReadColumnA(p, t) ==
    LET call == calls[p]
        hits == RowNumbers(call.g, tabs[t])
    IN /\ Doing(p, "next", "delete", t) \/ Doing(p, "next", "contact", t)
       /\ \/ /\ calls' = [calls EXCEPT ![p] =
                   IF hits = {} THEN Done(call)
                   ELSE [call EXCEPT !.pc = "write", !.hits = hits]]
             /\ UNCHANGED faults
          \/ Fails(p)
       /\ UNCHANGED <<db, tabs, once, commits, listed, headless>>

RemoveRow(rows, i) == IF i \in DOMAIN rows THEN RemoveAt(rows, i) ELSE rows

\* Faulty: top-down, so that every deletion moves the rows still to go.
DeleteTopDown(rows, hits) ==
    MapThenFoldSet(LAMBDA i, rest : RemoveRow(rest, i), rows, LAMBDA i : i, Max, hits)

\* One batch of requests, bottom-up: the smallest row number is the last to go.
DeleteRows(rows, hits) ==
    MapThenFoldSet(LAMBDA i, rest : RemoveRow(rest, i), rows, LAMBDA i : i, Min, hits)

\* A row number past the end starts a row that names no group.
SetContactOfRows(rows, hits, c) ==
    LET padded == rows \o [i \in 1..(Max(hits \cup {Len(rows)}) - Len(rows)) |-> Blank]
    IN [i \in DOMAIN padded |->
          IF i \in hits THEN [padded[i] EXCEPT !.contact = c] ELSE padded[i]]

DeleteByGroupID(p, t) ==
    /\ Doing(p, "write", "delete", t)
    /\ \/ /\ tabs' = [tabs EXCEPT ![t] = DeleteRows(@, calls[p].hits)]
          /\ listed' = IF calls[p].stale THEN {} ELSE listed
          /\ Lands(p, t, TRUE)
       \/ Fails(p) /\ UNCHANGED <<tabs, listed>>
    /\ UNCHANGED <<db, once, commits, headless>>

UpdateContactInTab(p, t) ==
    /\ Doing(p, "write", "contact", t)
    /\ \/ /\ tabs' = [tabs EXCEPT ![t] =
                        SetContactOfRows(@, calls[p].hits, calls[p].contact)]
          /\ Lands(p, t, FALSE)
       \/ Fails(p) /\ UNCHANGED tabs
    /\ UNCHANGED <<db, once, commits, listed, headless>>

(* The process stops; its calls end where they are.                        *)
Restart ==
    /\ once' = [t \in Tab |-> "new"]
    /\ calls' = [p \in Call |-> Idle]
    /\ Fault
    /\ UNCHANGED <<db, tabs, commits, listed, headless>>

Caller(p, g) ==
    \/ Submit(p, g)             \/ HandleCheckoutCompleted(p, g)
    \/ EditCampers(p, g)        \/ UpdateGroupContact(p, g)
    \/ DeleteRegistration(p, g) \/ ResyncSheet(p, g)

Request(p, t) ==
    \/ ReadA1(p, t)      \/ WriteHeader(p, t)     \/ AppendRows(p, t)
    \/ ReadColumnA(p, t) \/ DeleteByGroupID(p, t) \/ UpdateContactInTab(p, t)

Next ==
    \/ \E p \in Call, g \in Group : Caller(p, g)
    \/ \E p \in Call : LoadRows(p) \/ StampOnly(p)
    \/ \E p \in Call, t \in Tab : Request(p, t)
    \/ \E g \in Group, st \in {"pending", "paid", "cancelled"} : SetPaymentStatus(g, st)
    \/ Restart

Spec == Init /\ [][Next]_vars

----------------------------------------------------------------------------
(* A write by row numbers that were still right touches the rows of its    *)
(* own group and no others, whatever else is in flight (deleteByGroupID,   *)
(* updateContactInTab).                                                    *)
OwnRowsOnly ==
    [][\A p \in Call, t \in Tab :
        (/\ calls[p].pc = "write" /\ ~calls[p].stale
         /\ calls'[p].pc # "write" /\ tabs'[t] # tabs[t])
          => \A g \in Group \ {calls[p].g} : RowsOf(g, t)' = RowsOf(g, t)]_vars

(* Whatever went wrong before, a resync that runs through by itself leaves *)
(* the group's rows as the database had them, once, in the tab of its      *)
(* payment status, and none in the other (ResyncSheet).                    *)
ResyncExact ==
    \A p \in Call : calls[p].pc = "stamp" /\ calls[p].alone =>
        \E t \in Tab :
            /\ RowsOf(calls[p].g, t) = calls[p].rows
            /\ \A u \in Tab \ {t} : RowsOf(calls[p].g, u) = <<>>

(* A group that was appended is in the sheet until a call removes it: no   *)
(* failed or half-done call loses it, only two calls of the group at once  *)
(* or a write by outdated row numbers (AppendPaidAndRemovePending).        *)
LostOnlyByOverlap ==
    \A g \in listed : \E t \in Tab : RowsOf(g, t) # <<>>

(* A tab with rows has its header on top, and only there, also under       *)
(* overlapping first appends, deletions by outdated row numbers, and       *)
(* restarts, unless Google once failed when the header was due             *)
(* (ensureHeaders).                                                        *)
HeaderOnTop ==
    \A t \in Tab :
        /\ tabs[t] # <<>> /\ t \notin headless => tabs[t][1] = HeaderRow
        /\ \A i \in DOMAIN tabs[t] : i > 1 => tabs[t][i].g # Header
=============================================================================
