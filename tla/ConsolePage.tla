----------------------------- MODULE ConsolePage -----------------------------
(***************************************************************************)
(* One page of the web console in the browser of one administrator: the    *)
(* list it loads with useQuery, the form and the delete dialog over it,    *)
(* the writes it sends, and the rows on the server, which other            *)
(* administrators change too.                                              *)
(*                                                                         *)
(* Requests settle in any order.  useQuery starts a request per reload or  *)
(* filter change and ignores the answers of all but the last one.  Forms   *)
(* and dialogs can be closed while their write is in flight (Escape, the   *)
(* backdrop and the X do not look at `busy`), and the answer then meets    *)
(* whatever form is open by that time.                                     *)
(*                                                                         *)
(* A page treats every column on its own, so the rows carry the value of   *)
(* one column, an arbitrary one of the page chosen in Init.                *)
(***************************************************************************)
EXTENDS ConsolePages, Integers, FiniteSets

CONSTANTS
    Looked,      \* the pages and columns to look at, pairs
    Rows,        \* the rows that can exist, 1 is that of a page about one row
    MaxWrites,   \* bound: writes of this page and changes of its filter together
    MaxTheirs,   \* bound: changes by other administrators
    MaxFaults    \* bound: requests that fail

ASSUME LookedAssumption ==
    \A l \in Looked : /\ l \in (DOMAIN PageOf) \X STRING
                      /\ l[2] \in PageOf[l[1]].row
ASSUME RowsAssumption == Rows \subseteq Nat \ {0} /\ 1 \in Rows
ASSUME BoundsAssumption == MaxWrites \in Nat /\ MaxTheirs \in Nat /\ MaxFaults \in Nat

VARIABLES
    page,      \* the page that is open
    column,    \* the column the rows carry
    rows,      \* the rows on the server and their value
    changed,   \* per row, the version at which its value last changed
    version,   \* how many changes the server has made
    filter,    \* the filter of the list
    restart,   \* the query has to start again: its nonce or a dependency changed
    query,     \* useQuery: run (its effects so far), loading, failed
    data,      \* the list useQuery holds, None before the first one
    fetches,   \* list requests in flight
    form,      \* the form that is open, None without one
    deleting,  \* the row in the delete dialog, 0 without one
    busy,      \* the buttons of forms and dialogs are disabled
    writes,    \* writes in flight
    acked,     \* the version of the last own write that was answered with success
    made,      \* own writes so far
    theirs,    \* changes by others so far
    faults     \* failures so far

vars == <<page, column, rows, changed, version, filter, restart, query, data, fetches,
          form, deleting, busy, writes, acked, made, theirs, faults>>
server == <<rows, changed, version>>
listVars == <<restart, query, data, fetches>>
fixedVars == <<page, column>>

None == [none |-> TRUE]
New == 0
Values == {"stored", "default", "typed", "switched", "theirs"}
P == PageOf[page]

Listing == [rows : UNION {[S -> Values] : S \in SUBSET Rows}, at : Nat, filter : Nat]
Answers == {"none", "failed"}
FetchType == [run : Nat, filter : Nat, answer : Answers \cup {"ok"}, list : Listing \cup {None}]
FormType == [id : Rows \cup {New}, value : Values, typed : BOOLEAN, base : Int]
WriteType == [n : Nat, kind : {"save", "remove", "switch"}, id : Rows \cup {New}, carries : BOOLEAN,
              value : Values, typed : BOOLEAN, base : Int,
              answer : Answers \cup {"ok"}, at : Nat]

-----------------------------------------------------------------------------
Init ==
    /\ \E l \in Looked : page = l[1] /\ column = l[2]
    /\ \E S \in SUBSET Rows : /\ P.single => S = {1}
                            /\ rows = [r \in S |-> "stored"]
    /\ changed = [r \in Rows |-> 0]
    /\ version = 0 /\ filter = 0
    /\ restart = TRUE
    /\ query = [run |-> 0, loading |-> TRUE, failed |-> FALSE]
    /\ data = None /\ fetches = {}
    /\ form = None /\ deleting = 0 /\ busy = FALSE
    /\ writes = {} /\ acked = 0 /\ made = 0 /\ theirs = 0 /\ faults = 0

(***************************************************************************)
(* useQuery.  The effect runs after the render in which the nonce or a     *)
(* dependency changed; it deactivates the request before it and starts one.*)
(***************************************************************************)
StartQuery ==
    /\ restart
    /\ restart' = FALSE
    /\ query' = [run |-> query.run + 1, loading |-> TRUE, failed |-> FALSE]
    /\ fetches' = fetches \cup {[run |-> query.run + 1, filter |-> filter,
                                 answer |-> "none", list |-> None]}
    /\ UNCHANGED <<fixedVars, server, filter, data, form, deleting, busy, writes,
                   acked, made, theirs, faults>>

(* The server answers with the rows of that moment, or the request fails. *)
Listed(f) == [f EXCEPT !.answer = "ok",
                       !.list = [rows |-> rows, at |-> version, filter |-> f.filter]]
ServeList(f) ==
    /\ f.answer = "none"
    /\ fetches' = (fetches \ {f}) \cup {Listed(f)}
    /\ UNCHANGED <<fixedVars, server, filter, restart, query, data, form, deleting, busy,
                   writes, acked, made, theirs, faults>>

FailList(f) ==
    /\ f.answer = "none" /\ faults < MaxFaults
    /\ fetches' = (fetches \ {f}) \cup {[f EXCEPT !.answer = "failed"]}
    /\ faults' = faults + 1
    /\ UNCHANGED <<fixedVars, server, filter, restart, query, data, form, deleting, busy,
                   writes, acked, made, theirs>>

(* `active` is true in the closure of the last effect only. *)
ActiveAlways(f) == TRUE
Active(f) == f.run = query.run

SettleList(f) ==
    /\ f.answer # "none"
    /\ fetches' = fetches \ {f}
    /\ IF Active(f)
         THEN /\ query' = [query EXCEPT !.loading = FALSE, !.failed = (f.answer = "failed")]
              /\ data' = IF f.answer = "ok" THEN f.list ELSE data
         ELSE UNCHANGED <<query, data>>
    /\ UNCHANGED <<fixedVars, server, filter, restart, form, deleting, busy, writes,
                   acked, made, theirs, faults>>

(* onRetry of a list that could not be loaded. *)
Retry ==
    /\ query.failed /\ ~query.loading /\ ~restart
    /\ restart' = TRUE
    /\ UNCHANGED <<fixedVars, server, filter, query, data, fetches, form, deleting, busy,
                   writes, acked, made, theirs, faults>>

(* A filter is a dependency of the query.  A modal form covers the filters. *)
ChangeFilter ==
    /\ P.filtered /\ made + filter < MaxWrites
    /\ form = None /\ deleting = 0
    /\ filter' = filter + 1
    /\ restart' = TRUE
    /\ UNCHANGED <<fixedVars, server, query, data, fetches, form, deleting, busy, writes,
                   acked, made, theirs, faults>>

-----------------------------------------------------------------------------
(***************************************************************************)
(* The form.                                                               *)
(***************************************************************************)
(* The version of the list behind what is on the screen. *)
NoList == -1
Base == IF data = None THEN NoList ELSE data.at

(* Rows and their buttons are on the screen. *)
Shown ==
    /\ P.gated => ~query.loading /\ ~query.failed
    /\ P.gated => data # None

Uncovered == form = None /\ deleting = 0

(* The value the field of the column starts with. *)
Opened(r) == IF column \in P.opens /\ data # None THEN data.rows[r] ELSE "default"

OpenEdit(r) ==
    /\ P.edits /\ Shown /\ Uncovered
    /\ data # None => r \in DOMAIN data.rows
    /\ form' = [id |-> r, value |-> Opened(r), typed |-> FALSE, base |-> Base]
    /\ UNCHANGED <<fixedVars, server, filter, listVars, deleting, busy, writes,
                   acked, made, theirs, faults>>

OpenCreate ==
    /\ ~P.single /\ Uncovered
    /\ form' = [id |-> New, value |-> "default", typed |-> FALSE, base |-> Base]
    /\ UNCHANGED <<fixedVars, server, filter, listVars, deleting, busy, writes,
                   acked, made, theirs, faults>>

(* Fields stay editable while a save is in flight. *)
Type ==
    /\ form # None /\ column \in P.offers
    /\ form' = [form EXCEPT !.value = "typed", !.typed = TRUE]
    /\ UNCHANGED <<fixedVars, server, filter, listVars, deleting, busy, writes,
                   acked, made, theirs, faults>>

CloseForm ==
    /\ form # None /\ P.discards
    /\ form' = None
    /\ UNCHANGED <<fixedVars, server, filter, listVars, deleting, busy, writes,
                   acked, made, theirs, faults>>

Send(w) ==
    /\ made + filter < MaxWrites
    /\ made' = made + 1
    /\ writes' = writes \cup {w}

(* The fields of the form, but on a live page untouched ones come from the list. *)
Edited ==
    IF P.live /\ ~form.typed /\ data # None /\ form.id \in DOMAIN data.rows
      THEN [form EXCEPT !.value = data.rows[form.id], !.base = data.at]
      ELSE form

CarriedAlways == column \in P.sends \cup P.secrets
Carried == column \in P.sends \/ (column \in P.secrets /\ form.typed)

Save ==
    /\ form # None /\ ~busy
    /\ busy' = TRUE
    /\ Send([n |-> made, kind |-> "save", id |-> form.id, carries |-> Carried,
             value |-> Edited.value, typed |-> Edited.typed, base |-> Edited.base,
             answer |-> "none", at |-> 0])
    /\ UNCHANGED <<fixedVars, server, filter, listVars, form, deleting, acked, theirs, faults>>

(* A switch in a listed row writes that column at once, and knows no `busy`. *)
FlippedOff(v) == "off"
Flipped(v) == IF v = "switched" THEN "stored" ELSE "switched"

Switch(r) ==
    /\ column \in P.switches /\ Shown /\ Uncovered
    /\ data # None /\ r \in DOMAIN data.rows
    /\ Send([n |-> made, kind |-> "switch", id |-> r, carries |-> TRUE,
             value |-> Flipped(data.rows[r]), typed |-> TRUE, base |-> Base,
             answer |-> "none", at |-> 0])
    /\ UNCHANGED <<fixedVars, server, filter, listVars, form, deleting, busy, acked, theirs, faults>>

-----------------------------------------------------------------------------
(***************************************************************************)
(* The delete dialog.                                                      *)
(***************************************************************************)
AskRemove(r) ==
    /\ ~P.single /\ Shown /\ Uncovered
    /\ r \in DOMAIN data.rows
    /\ deleting' = r
    /\ UNCHANGED <<fixedVars, server, filter, listVars, form, busy, writes,
                   acked, made, theirs, faults>>

CloseDialog ==
    /\ deleting # 0
    /\ deleting' = 0
    /\ UNCHANGED <<fixedVars, server, filter, listVars, form, busy, writes,
                   acked, made, theirs, faults>>

Remove ==
    /\ deleting # 0 /\ ~busy
    /\ busy' = TRUE
    /\ Send([n |-> made, kind |-> "remove", id |-> deleting, carries |-> FALSE,
             value |-> "default", typed |-> FALSE, base |-> Base,
             answer |-> "none", at |-> 0])
    /\ UNCHANGED <<fixedVars, server, filter, listVars, form, deleting, acked, theirs, faults>>

-----------------------------------------------------------------------------
(***************************************************************************)
(* The server carries out a write, or refuses it (always when the row is   *)
(* gone), and an answer can be lost after the write was carried out.       *)
(***************************************************************************)
Restamped(r) == [changed EXCEPT ![r] = version + 1]

CarryOut(w) ==
    /\ w.answer = "none"
    /\ version' = version + 1
    /\ writes' = (writes \ {w}) \cup {[w EXCEPT !.answer = "ok", !.at = version + 1]}
    /\ \/ /\ w.kind = "save" /\ w.id = New
          /\ \E r \in Rows \ DOMAIN rows :
                /\ rows' = [x \in DOMAIN rows \cup {r} |->
                                IF x = r THEN (IF w.carries THEN w.value ELSE "default") ELSE rows[x]]
                /\ changed' = Restamped(r)
       \/ /\ w.kind \in {"save", "switch"} /\ w.id \in DOMAIN rows
          /\ IF w.carries
               THEN rows' = [rows EXCEPT ![w.id] = w.value] /\ changed' = Restamped(w.id)
               ELSE UNCHANGED <<rows, changed>>
       \/ /\ w.kind = "remove" /\ w.id \in DOMAIN rows
          /\ rows' = [x \in DOMAIN rows \ {w.id} |-> rows[x]]
          /\ changed' = Restamped(w.id)
    /\ UNCHANGED <<fixedVars, filter, listVars, form, deleting, busy, acked, made, theirs, faults>>

Gone(w) == w.id # New /\ w.id \notin DOMAIN rows
NoRoom(w) == w.id = New /\ Rows = DOMAIN rows

Refuse(w) ==
    /\ w.answer = "none"
    /\ IF Gone(w) \/ NoRoom(w)
         THEN UNCHANGED faults
         ELSE faults < MaxFaults /\ faults' = faults + 1
    /\ writes' = (writes \ {w}) \cup {[w EXCEPT !.answer = "failed"]}
    /\ UNCHANGED <<fixedVars, server, filter, listVars, form, deleting, busy, acked, made, theirs>>

LoseAnswer(w) ==
    /\ w.answer = "ok" /\ faults < MaxFaults
    /\ faults' = faults + 1
    /\ writes' = (writes \ {w}) \cup {[w EXCEPT !.answer = "failed"]}
    /\ UNCHANGED <<fixedVars, server, filter, listVars, form, deleting, busy, acked, made, theirs>>

(***************************************************************************)
(* The page goes on after a write was answered: on success it closes the   *)
(* form or dialog that is open now and reloads; a failed save keeps its    *)
(* form, with the error in it.                                             *)
(***************************************************************************)
ReleasedByAny(w) == FALSE
Released(w) == IF w.kind = "switch" THEN busy ELSE FALSE

Succeeded(w) ==
    /\ w.answer = "ok"
    /\ writes' = writes \ {w}
    /\ acked' = IF w.at > acked THEN w.at ELSE acked
    /\ restart' = TRUE
    /\ form' = IF w.kind = "save" THEN None ELSE form
    /\ deleting' = IF w.kind = "remove" THEN 0 ELSE deleting
    /\ busy' = Released(w)
    /\ UNCHANGED <<fixedVars, server, filter, query, data, fetches, made, theirs, faults>>

Failed(w) ==
    /\ w.answer = "failed"
    /\ writes' = writes \ {w}
    /\ deleting' = IF w.kind = "remove" /\ P.givesUp THEN 0 ELSE deleting
    /\ busy' = Released(w)
    /\ UNCHANGED <<fixedVars, server, filter, listVars, form, acked, made, theirs, faults>>

(* Another administrator, or the same one in another tab. *)
TheyChange(r) ==
    /\ theirs < MaxTheirs /\ r \in DOMAIN rows
    /\ theirs' = theirs + 1
    /\ version' = version + 1
    /\ changed' = Restamped(r)
    /\ \/ rows' = [rows EXCEPT ![r] = "theirs"]
       \/ ~P.single /\ rows' = [x \in DOMAIN rows \ {r} |-> rows[x]]
    /\ UNCHANGED <<fixedVars, filter, listVars, form, deleting, busy, writes, acked, made, faults>>

-----------------------------------------------------------------------------
Next ==
    \/ StartQuery
    \/ \E f \in fetches : ServeList(f) \/ FailList(f) \/ SettleList(f)
    \/ Retry \/ ChangeFilter
    \/ \E r \in Rows : OpenEdit(r) \/ Switch(r) \/ AskRemove(r) \/ TheyChange(r)
    \/ OpenCreate \/ Type \/ CloseForm \/ Save
    \/ CloseDialog \/ Remove
    \/ \E w \in writes : CarryOut(w) \/ Refuse(w) \/ LoseAnswer(w) \/ Succeeded(w) \/ Failed(w)

Spec == Init /\ [][Next]_vars

-----------------------------------------------------------------------------
TypeOK ==
    /\ <<page, column>> \in Looked
    /\ rows \in UNION {[S -> Values] : S \in SUBSET Rows}
    /\ changed \in [Rows -> Nat] /\ version \in Nat /\ acked \in 0 .. version
    /\ filter \in 0 .. MaxWrites
    /\ restart \in BOOLEAN /\ busy \in BOOLEAN
    /\ query \in [run : Nat, loading : BOOLEAN, failed : BOOLEAN]
    /\ data \in Listing \cup {None}
    /\ fetches \subseteq FetchType
    /\ form \in FormType \cup {None} /\ deleting \in Rows \cup {0}
    /\ writes \subseteq WriteType
    /\ made \in 0 .. MaxWrites /\ theirs \in 0 .. MaxTheirs /\ faults \in 0 .. MaxFaults

(***************************************************************************)
(* A list on the screen is that of the filter on the screen and shows      *)
(* every write of this page that was answered with success, whatever the   *)
(* order in which the requests for it came back.                           *)
(***************************************************************************)
ShownIsCurrent ==
    ~restart /\ ~query.loading /\ ~query.failed =>
        /\ data # None
        /\ data.filter = filter
        /\ data.at >= acked

(***************************************************************************)
(* The columns of which the code does lose what is stored when an edit is  *)
(* saved (nobody touched them), or what was typed (it is not sent).        *)
(***************************************************************************)
KnownResets == {<<"rules", c>> : c \in {"schedule", "cidrs"}} \cup
               {<<"providers", c>> : c \in DirectorySettings}
KnownDrops == {<<"groups", "providerKey">>}

(***************************************************************************)
(* The columns a form has even when it opens before the list is there, or  *)
(* when it could not be loaded.  The field that is not touched then holds  *)
(* a constant of the page, and the save writes it over what is stored.     *)
(***************************************************************************)
BlindResets == {<<"settings", c>> : c \in LeaseForm}

(***************************************************************************)
(* A save that is about to reach a row writes what was typed, and leaves   *)
(* what was not typed as it is stored, but for the columns above and for   *)
(* changes made after the list was read in which the form was opened.  A   *)
(* form that was opened without a list is excused for no change, and only  *)
(* on the two columns that are known to be reset then.                     *)
(***************************************************************************)
Excused(id, base) ==
    IF base = NoList THEN <<page, column>> \in BlindResets ELSE changed[id] > base

SaveKeepsTheRest ==
    \A w \in writes :
        w.kind = "save" /\ w.answer = "none" /\ w.id \in DOMAIN rows =>
            IF w.typed
              THEN <<page, column>> \in KnownDrops \/ (w.carries /\ w.value = "typed")
              ELSE \/ ~w.carries \/ w.value = rows[w.id]
                   \/ <<page, column>> \in KnownResets
                   \/ Excused(w.id, w.base)

(***************************************************************************)
(* At most one save or deletion of a page is in flight, also when its form *)
(* or dialog was closed and another one opened, and the buttons are        *)
(* released exactly when none is.                                          *)
(***************************************************************************)
Guarded == {w \in writes : w.kind # "switch"}
OneAtATime ==
    /\ \A v, w \in Guarded : v = w
    /\ busy = (Guarded # {})

=============================================================================
