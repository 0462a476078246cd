------------------------- MODULE AdministrationProofs --------------------------
(***************************************************************************)
(* What an administrator can rely on, for any number of rows, users,       *)
(* groups, requests and edits: the page shows what is stored and saves     *)
(* what was typed (ConsolePage); of two requests that set the members of a *)
(* user or group at once, one wins as a whole, and a rule that names       *)
(* groups is about the users linked to them (ProxyDirectory).              *)
(*                                                                         *)
(* A page first.  Every list it holds is stamped with the version it was   *)
(* read at, and every row with the version of its last change.  The        *)
(* invariant says what follows for whatever is on its way: a list tells of *)
(* every row what it is, unless the row has changed since (Tells); a value *)
(* that nobody typed is what the row holds, unless it has changed since    *)
(* (Honest), from the moment a form opens until its save is carried out.   *)
(*                                                                         *)
(* Then the directory.  Members are spoken of link by link; a request that *)
(* has its owner's lock is alone with it and has deleted, when it inserts, *)
(* every link the owner has (Locked).  Last, what a rule that names groups *)
(* comes to: the recursion over logical groups is unfolded from its far    *)
(* end, with an induction over sets of numbers (EveryNumber, Iteration).   *)
(***************************************************************************)
EXTENDS ConsolePage, ProxyDirectory, FiniteSetTheorems, TLAPS

-----------------------------------------------------------------------------
(* A console page.                                                         *)

\* A list tells of every row what it is, unless the row has changed since.
Tells(list) ==
  /\ list.at <= version
  /\ \A r \in DOMAIN list.rows \cap DOMAIN rows :
       list.rows[r] = rows[r] \/ changed[r] > list.at

\* Requests for the list: the last one asks for what the screen is about, and
\* once it is answered it shows what was acknowledged before.
FetchInv ==
  \A f \in fetches :
    /\ f.run <= query.run
    /\ f.answer = "ok" => f.list \in Listing /\ f.list.filter = f.filter /\ Tells(f.list)
    /\ ~restart /\ f.run = query.run =>
         f.filter = filter /\ (f.answer = "ok" => f.list.at >= acked)

\* A value nobody typed is what the row holds, as far as the page could know.
Honest(id, value, base) ==
  \/ <<page, column>> \in KnownResets
  \/ base = NoList /\ (id = New \/ <<page, column>> \in BlindResets)
  \/ base # NoList /\ (id \in DOMAIN rows => value = rows[id] \/ changed[id] > base)

\* An open form, and the saves that are on their way.
FormInv ==
  form # None =>
    /\ form.base <= version
    /\ form.id \in Rows => P.edits
    /\ IF form.typed THEN form.value = "typed" /\ column \in P.offers
                     ELSE column \in P.sends => Honest(form.id, form.value, form.base)

SaveInv ==
  \A w \in writes :
    /\ w.answer = "ok" => w.at <= version
    /\ w.kind = "save" /\ w.answer = "none" =>
         /\ w.base <= version
         /\ IF w.typed
              THEN w.value = "typed" /\ (w.carries \/ <<page, column>> \in KnownDrops)
              ELSE w.carries => Honest(w.id, w.value, w.base)

PageInv ==
  /\ TypeOK /\ OneAtATime /\ ShownIsCurrent
  /\ FetchInv /\ (data # None => Tells(data)) /\ FormInv /\ SaveInv

-----------------------------------------------------------------------------
(* The pages.                                                              *)

\* A page sends what it offers and, when it edits rows, has read what it sends,
\* but for the columns named; a form that opens without a list is named whole.
LEMMA PagesAreComplete ==
  ASSUME NEW p \in DOMAIN PageOf, NEW c
  PROVE  /\ c \in PageOf[p].offers =>
              c \in PageOf[p].sends \cup PageOf[p].secrets \/ <<p, c>> \in KnownDrops
         /\ PageOf[p].edits /\ c \in PageOf[p].sends =>
              c \in PageOf[p].opens \/ <<p, c>> \in KnownResets
         /\ ~PageOf[p].gated /\ c \in PageOf[p].sends => <<p, c>> \in BlindResets
<1>1. CASE p = "rules"
  <2>1. PageOf[p] = AccessRulesPage
    BY <1>1 DEF PageOf
  <2>2. /\ AccessRulesPage.offers = RuleOffers /\ AccessRulesPage.sends = RuleSends
        /\ AccessRulesPage.opens = RuleOpens /\ AccessRulesPage.gated
    BY DEF AccessRulesPage, PlainPage
  <2>3. c \in {"cidrs", "schedule"} => <<p, c>> \in KnownResets
    BY <1>1 DEF KnownResets
  <2>4. QED
    BY <2>1, <2>2, <2>3 DEF RuleOffers, RuleSends, RuleOpens
<1>2. CASE p = "providers"
  <2>1. PageOf[p] = ProvidersPage
    BY <1>2 DEF PageOf
  <2>2. /\ ProvidersPage.offers = ProviderOffers /\ ProvidersPage.sends = ProviderSends
        /\ ProvidersPage.opens = ProviderOpens /\ ProvidersPage.secrets = ProviderSecrets
        /\ ProvidersPage.gated
    BY DEF ProvidersPage, PlainPage
  <2>3. c \in DirectorySettings => <<p, c>> \in KnownResets
    BY <1>2 DEF KnownResets
  <2>4. ProviderOffers \subseteq ProviderSends \cup ProviderSecrets
    BY DEF ProviderOffers, ProviderSends, ProviderSecrets
  <2>5. ProviderSends \subseteq ProviderOpens \cup DirectorySettings
    BY DEF ProviderSends, ProviderOpens, ProviderRow
  <2>6. QED
    BY <2>1, <2>2, <2>3, <2>4, <2>5
<1>3. CASE p = "identity"
  <2>1. PageOf[p] = IdentityProvidersPage
    BY <1>3 DEF PageOf
  <2>2. QED
    BY <2>1 DEF IdentityProvidersPage, PlainPage, IdentityOffers, IdentitySends,
                IdentityOpens, IdentitySecrets
<1>4. CASE p = "users"
  <2>1. PageOf[p] = LocalUsersPage
    BY <1>4 DEF PageOf
  <2>2. QED
    BY <2>1 DEF LocalUsersPage, PlainPage, UserOffers, UserSends, UserOpens
<1>5. CASE p = "groups"
  <2>1. PageOf[p] = GroupsPage
    BY <1>5 DEF PageOf
  <2>2. c = "providerKey" => <<p, c>> \in KnownDrops
    BY <1>5 DEF KnownDrops
  <2>3. QED
    BY <2>1, <2>2 DEF GroupsPage, PlainPage, GroupOffers, GroupSends, GroupOpens
<1>6. CASE p = "listeners"
  <2>1. PageOf[p] = ListenersPage
    BY <1>6 DEF PageOf
  <2>2. QED
    BY <2>1 DEF ListenersPage, PlainPage, ListenerOffers, ListenerSends
<1>7. CASE p = "nodeGroups"
  <2>1. PageOf[p] = NodeGroupsPage
    BY <1>7 DEF PageOf
  <2>2. QED
    BY <2>1 DEF NodeGroupsPage, PlainPage, NodeGroupOffers, NodeGroupSends
<1>8. CASE p = "networks"
  <2>1. PageOf[p] = NetworksPage
    BY <1>8 DEF PageOf
  <2>2. QED
    BY <2>1 DEF NetworksPage, PlainPage, NetworkOffers, NetworkSends, NetworkOpens
<1>9. CASE p = "nodes"
  <2>1. PageOf[p] = NodesPage
    BY <1>9 DEF PageOf
  <2>2. QED
    BY <2>1 DEF NodesPage, PlainPage, NodeOffers, NodeSends
<1>10. CASE p = "settings"
  <2>1. PageOf[p] = SettingsPage
    BY <1>10 DEF PageOf
  <2>2. SettingsPage.offers = LeaseForm /\ SettingsPage.sends = LeaseForm /\ SettingsPage.opens = LeaseForm
    BY DEF SettingsPage, PlainPage
  <2>3. c \in LeaseForm => <<p, c>> \in BlindResets
    BY <1>10 DEF BlindResets
  <2>4. QED
    BY <2>1, <2>2, <2>3
<1>11. CASE p = "overview"
  <2>1. PageOf[p] = OverviewPage
    BY <1>11 DEF PageOf
  <2>2. QED
    BY <2>1 DEF OverviewPage, PlainPage
<1>12. CASE p = "logs"
  <2>1. PageOf[p] = LogsPage
    BY <1>12 DEF PageOf
  <2>2. QED
    BY <2>1 DEF LogsPage, PlainPage
<1>13. CASE p = "audit"
  <2>1. PageOf[p] = AuditPage
    BY <1>13 DEF PageOf
  <2>2. QED
    BY <2>1 DEF AuditPage, PlainPage
<1>14. QED
  BY <1>1, <1>2, <1>3, <1>4, <1>5, <1>6, <1>7, <1>8, <1>9, <1>10, <1>11, <1>12, <1>13
  DEF PageOf

-----------------------------------------------------------------------------
(* Types.                                                                  *)

Table == UNION {[S -> Values] : S \in SUBSET Rows}

\* A table of rows, taken apart and put together.
LEMMA TableRows ==
  ASSUME NEW t \in Table
  PROVE  DOMAIN t \subseteq Rows /\ t \in [DOMAIN t -> Values]
BY DEF Table

LEMMA RowsTable ==
  ASSUME NEW S \in SUBSET Rows, NEW t \in [S -> Values]
  PROVE  t \in Table
BY DEF Table

\* The types hold at the start,
LEMMA PageTypeInit == Init => TypeOK
<1> SUFFICES ASSUME Init PROVE TypeOK
  OBVIOUS
<1>1. <<page, column>> \in Looked
  <2>1. PICK l \in Looked : page = l[1] /\ column = l[2]
    BY DEF Init
  <2>2. l = <<l[1], l[2]>>
    BY LookedAssumption
  <2>3. QED
    BY <2>1, <2>2
<1>2. rows \in Table
  <2>1. PICK S \in SUBSET Rows : rows = [r \in S |-> "stored"]
    BY DEF Init
  <2>2. rows \in [S -> Values]
    BY <2>1 DEF Values
  <2>3. QED
    BY <2>2, RowsTable
<1>3. changed \in [Rows -> Nat] /\ query \in [run : Nat, loading : BOOLEAN, failed : BOOLEAN]
  BY DEF Init
<1>4. /\ version = 0 /\ acked = 0 /\ filter = 0 /\ made = 0 /\ theirs = 0 /\ faults = 0
      /\ restart = TRUE /\ busy = FALSE /\ data = None /\ fetches = {} /\ form = None
      /\ deleting = 0 /\ writes = {}
  BY DEF Init
<1>5. rows \in UNION {[S -> Values] : S \in SUBSET Rows}
  BY <1>2 DEF Table
<1>6. /\ version \in Nat /\ acked \in 0 .. version /\ filter \in 0 .. MaxWrites
      /\ made \in 0 .. MaxWrites /\ theirs \in 0 .. MaxTheirs /\ faults \in 0 .. MaxFaults
  BY <1>4, BoundsAssumption
<1>7. /\ restart \in BOOLEAN /\ busy \in BOOLEAN
      /\ data \in Listing \cup {None} /\ fetches \subseteq FetchType
      /\ form \in FormType \cup {None} /\ deleting \in Rows \cup {0} /\ writes \subseteq WriteType
  BY <1>4
<1>8. QED
  BY <1>1, <1>3, <1>5, <1>6, <1>7 DEF TypeOK

\* The list that is sent, and the forms and writes the page makes.
LEMMA ListedType ==
  ASSUME TypeOK, NEW f \in fetches
  PROVE  /\ Listed(f) \in FetchType
         /\ Listed(f).list \in Listing
         /\ Listed(f).run = f.run /\ Listed(f).filter = f.filter /\ Listed(f).answer = "ok"
         /\ Listed(f).list.rows = rows /\ Listed(f).list.at = version
         /\ Listed(f).list.filter = f.filter
<1> DEFINE list == [rows |-> rows, at |-> version, filter |-> f.filter]
<1>1. f \in FetchType /\ version \in Nat /\ rows \in Table
  BY DEF TypeOK, Table
<1>2. list \in Listing
  BY <1>1 DEF Listing, Table, FetchType
<1>3. list.rows = rows /\ list.at = version /\ list.filter = f.filter
  OBVIOUS
<1>4. Listed(f) = [f EXCEPT !.answer = "ok", !.list = list]
  BY DEF Listed
<1> HIDE DEF list
<1>5. QED
  BY <1>1, <1>2, <1>3, <1>4 DEF FetchType

\* A form that is opened,
LEMMA OpenedType ==
  ASSUME TypeOK, NEW r \in Rows, data # None => r \in DOMAIN data.rows
  PROVE  Opened(r) \in Values /\ Base \in Int
<1>1. CASE data = None
  BY <1>1 DEF Opened, Base, NoList, Values
<1>2. CASE data # None
  <2>1. data.rows \in Table /\ data.at \in Nat
    BY <1>2 DEF TypeOK, Listing, Table
  <2>2. QED
    BY <1>2, <2>1, TableRows DEF Opened, Base, NoList, Values
<1>3. QED
  BY <1>1, <1>2

\* the age of what the screen shows,
LEMMA BaseType == TypeOK => Base \in Int
<1> SUFFICES ASSUME TypeOK PROVE Base \in Int
  OBVIOUS
<1>1. data # None => data.at \in Nat
  BY DEF TypeOK, Listing
<1>2. QED
  BY <1>1 DEF Base, NoList

\* and a form that is saved, are well-formed.
LEMMA EditedType ==
  ASSUME TypeOK, form # None
  PROVE  /\ Edited \in FormType
         /\ Edited.id = form.id /\ Edited.typed = form.typed
         /\ \/ Edited = form
            \/ /\ ~form.typed /\ data # None /\ form.id \in DOMAIN data.rows
               /\ Edited.value = data.rows[form.id] /\ Edited.base = data.at
<1>1. form \in FormType
  BY DEF TypeOK
<1>2. CASE P.live /\ ~form.typed /\ data # None /\ form.id \in DOMAIN data.rows
  <2> DEFINE v == data.rows[form.id]
             b == data.at
  <2>1. data.rows \in Table /\ b \in Nat
    BY <1>2 DEF TypeOK, Listing, Table
  <2>2. v \in Values
    BY <1>2, <2>1, TableRows
  <2>3. Edited = [form EXCEPT !.value = v, !.base = b]
    BY <1>2 DEF Edited
  <2> HIDE DEF v, b
  <2> DEFINE e == [form EXCEPT !.value = v, !.base = b]
  <2>4. e \in FormType /\ e.id = form.id /\ e.typed = form.typed /\ e.value = v /\ e.base = b
    <3>1. form \in [id : Rows \cup {New}, value : Values, typed : BOOLEAN, base : Int]
      BY <1>1, <1>2 DEF FormType
    <3>2. b \in Int
      BY <2>1
    <3>3. QED
      BY <3>1, <3>2, <2>2 DEF FormType
  <2> HIDE DEF e
  <2>5. Edited = e
    BY <2>3 DEF e
  <2>6. QED
    BY <1>2, <2>4, <2>5 DEF v, b
<1>3. CASE ~(P.live /\ ~form.typed /\ data # None /\ form.id \in DOMAIN data.rows)
  BY <1>1, <1>3 DEF Edited
<1>4. QED
  BY <1>2, <1>3

\* and every step of the page, the server and the others keeps them.
LEMMA PageTypeNext == TypeOK /\ SaveInv /\ [Next]_vars => TypeOK'
<1> SUFFICES ASSUME TypeOK, SaveInv, [Next]_vars PROVE TypeOK'
  OBVIOUS
<1> USE DEF Table
<1>0. /\ \A t \in Table : DOMAIN t \subseteq Rows /\ t \in [DOMAIN t -> Values]
      /\ \A S \in SUBSET Rows : [S -> Values] \subseteq Table
      /\ rows \in Table
  BY TableRows, RowsTable DEF TypeOK
<1> HIDE DEF Table
<1>1. CASE UNCHANGED vars
  BY <1>1 DEF TypeOK, vars, fixedVars, server, listVars
<1>2. CASE StartQuery
  <2> DEFINE q == [run |-> query.run + 1, loading |-> TRUE, failed |-> FALSE]
             f == [run |-> query.run + 1, filter |-> filter, answer |-> "none", list |-> None]
  <2>1. q \in [run : Nat, loading : BOOLEAN, failed : BOOLEAN] /\ f \in FetchType
    BY BoundsAssumption DEF TypeOK, FetchType, Answers
  <2>2. query' = q /\ fetches' = fetches \cup {f}
    BY <1>2 DEF StartQuery
  <2> HIDE DEF q, f
  <2>3. QED
    BY <1>2, <2>1, <2>2 DEF StartQuery, TypeOK, fixedVars, server
<1>3. ASSUME NEW f \in fetches, ServeList(f) PROVE TypeOK'
  <2>1. Listed(f) \in FetchType
    BY ListedType
  <2>2. QED
    BY <1>3, <2>1 DEF ServeList, TypeOK, fixedVars, server
<1>4. ASSUME NEW f \in fetches, FailList(f) PROVE TypeOK'
  <2>1. [f EXCEPT !.answer = "failed"] \in FetchType
    BY DEF TypeOK, FetchType, Answers
  <2>2. QED
    BY <1>4, <2>1, BoundsAssumption DEF FailList, TypeOK, fixedVars, server
<1>5. ASSUME NEW f \in fetches, SettleList(f) PROVE TypeOK'
  <2>1. f \in FetchType
    BY DEF TypeOK
  <2>2. query' \in [run : Nat, loading : BOOLEAN, failed : BOOLEAN]
    BY <1>5 DEF SettleList, TypeOK
  <2>3. data' \in Listing \cup {None}
    BY <1>5, <2>1 DEF SettleList, TypeOK, FetchType
  <2>4. QED
    BY <1>5, <2>2, <2>3 DEF SettleList, TypeOK, fixedVars, server
<1>6. CASE Retry
  BY <1>6 DEF Retry, TypeOK, fixedVars, server
<1>7. CASE ChangeFilter
  BY <1>7, BoundsAssumption DEF ChangeFilter, TypeOK, fixedVars, server
<1>8. ASSUME NEW r \in Rows, OpenEdit(r) PROVE TypeOK'
  <2>1. Opened(r) \in Values /\ Base \in Int
    BY <1>8, OpenedType DEF OpenEdit
  <2>2. form' \in FormType
    BY <1>8, <2>1 DEF OpenEdit, FormType
  <2>3. QED
    BY <1>8, <2>2 DEF OpenEdit, TypeOK, fixedVars, server, listVars
<1>9. ASSUME NEW r \in Rows, Switch(r) PROVE TypeOK'
  <2> DEFINE v == Flipped(data.rows[r])
             w == [n |-> made, kind |-> "switch", id |-> r, carries |-> TRUE,
                   value |-> v, typed |-> TRUE, base |-> Base, answer |-> "none", at |-> 0]
  <2>1. v \in Values /\ Base \in Int
    BY BaseType DEF Flipped, Values
  <2>2. writes' = writes \cup {w} /\ made + filter < MaxWrites /\ made' = made + 1
    BY <1>9 DEF Switch, Send
  <2> HIDE DEF v
  <2>3. w \in WriteType
    BY <2>1, BoundsAssumption DEF WriteType, Answers, TypeOK
  <2> HIDE DEF w
  <2>4. QED
    BY <1>9, <2>2, <2>3, BoundsAssumption DEF Switch, TypeOK, fixedVars, server, listVars
<1>10. ASSUME NEW r \in Rows, AskRemove(r) PROVE TypeOK'
  BY <1>10 DEF AskRemove, TypeOK, fixedVars, server, listVars
<1>11. ASSUME NEW r \in Rows, TheyChange(r) PROVE TypeOK'
  <2>1. changed' \in [Rows -> Nat] /\ version' \in Nat /\ version' = version + 1
    BY <1>11 DEF TheyChange, Restamped, TypeOK
  <2>2. rows' \in Table
    <3>1. CASE rows' = [rows EXCEPT ![r] = "theirs"]
      <4>1. rows' \in [DOMAIN rows -> Values]
        BY <1>0, <3>1 DEF Values
      <4>2. QED
        BY <4>1, <1>0
    <3>2. CASE rows' = [x \in DOMAIN rows \ {r} |-> rows[x]]
      <4>1. rows' \in [DOMAIN rows \ {r} -> Values]
        BY <1>0, <3>2
      <4>2. QED
        BY <4>1, <1>0
    <3>3. QED
      BY <1>11, <3>1, <3>2 DEF TheyChange
  <2>3. acked' \in 0 .. version'
    BY <1>11, <2>1 DEF TheyChange, TypeOK
  <2>4. QED
    BY <1>11, <2>1, <2>2, <2>3, BoundsAssumption DEF TheyChange, TypeOK, fixedVars, listVars, Table
<1>12. CASE OpenCreate
  <2>1. form' \in FormType
    BY <1>12, BaseType DEF OpenCreate, FormType, New, Values
  <2>2. QED
    BY <1>12, <2>1 DEF OpenCreate, TypeOK, fixedVars, server, listVars
<1>13. CASE Type
  <2>1. form' \in FormType
    BY <1>13 DEF Type, TypeOK, FormType, Values
  <2>2. QED
    BY <1>13, <2>1 DEF Type, TypeOK, fixedVars, server, listVars
<1>14. CASE CloseForm
  BY <1>14 DEF CloseForm, TypeOK, fixedVars, server, listVars
<1>15. CASE Save
  <2> DEFINE e == Edited
             w == [n |-> made, kind |-> "save", id |-> form.id, carries |-> Carried,
                   value |-> e.value, typed |-> e.typed, base |-> e.base,
                   answer |-> "none", at |-> 0]
  <2>1. e \in FormType /\ e.id = form.id
    BY <1>15, EditedType DEF Save
  <2>2. Carried \in BOOLEAN
    BY DEF Carried
  <2>3. writes' = writes \cup {w} /\ made + filter < MaxWrites /\ made' = made + 1
    BY <1>15 DEF Save, Send
  <2> HIDE DEF e
  <2>4. w \in WriteType
    BY <2>1, <2>2, BoundsAssumption DEF WriteType, FormType, Answers, TypeOK
  <2> HIDE DEF w
  <2>5. QED
    BY <1>15, <2>3, <2>4, BoundsAssumption DEF Save, TypeOK, fixedVars, server, listVars
<1>16. CASE CloseDialog
  BY <1>16 DEF CloseDialog, TypeOK, fixedVars, server, listVars
<1>17. CASE Remove
  <2> DEFINE w == [n |-> made, kind |-> "remove", id |-> deleting, carries |-> FALSE,
                   value |-> "default", typed |-> FALSE, base |-> Base,
                   answer |-> "none", at |-> 0]
  <2>1. w \in WriteType
    BY BaseType, BoundsAssumption DEF WriteType, Answers, TypeOK, Values, New
  <2>2. writes' = writes \cup {w} /\ made + filter < MaxWrites /\ made' = made + 1
    BY <1>17 DEF Remove, Send
  <2> HIDE DEF w
  <2>3. QED
    BY <1>17, <2>1, <2>2, BoundsAssumption DEF Remove, TypeOK, fixedVars, server, listVars
<1>18. ASSUME NEW w \in writes, CarryOut(w) PROVE TypeOK'
  <2>0. w \in WriteType /\ version \in Nat
    BY DEF TypeOK
  <2>a. version + 1 \in Nat
    BY <2>0
  <2>1. [w EXCEPT !.answer = "ok", !.at = version + 1] \in WriteType
    <3> DEFINE v == version + 1
    <3> HIDE DEF v
    <3>1. v \in Nat
      BY <2>a DEF v
    <3>2. [w EXCEPT !.answer = "ok", !.at = v] \in WriteType
      BY <2>0, <3>1 DEF WriteType
    <3>3. QED
      BY <3>2 DEF v
  <2>2. version' = version + 1 /\ acked' \in 0 .. version'
    BY <1>18 DEF CarryOut, TypeOK
  <2>3. rows' \in Table /\ changed' \in [Rows -> Nat]
    <3>1. ASSUME NEW r \in Rows, changed' = Restamped(r)
          PROVE  changed' \in [Rows -> Nat]
      BY <3>1 DEF Restamped, TypeOK
    <3>2. ASSUME NEW r \in Rows \ DOMAIN rows, changed' = Restamped(r),
                 rows' = [x \in DOMAIN rows \cup {r} |->
                            IF x = r THEN (IF w.carries THEN w.value ELSE "default") ELSE rows[x]]
          PROVE  rows' \in Table /\ changed' \in [Rows -> Nat]
      <4>1. rows' \in [DOMAIN rows \cup {r} -> Values]
        BY <2>0, <3>2, <1>0 DEF Values, WriteType
      <4>2. QED
        BY <4>1, <3>1, <3>2, <1>0
    <3>3. ASSUME w.id \in DOMAIN rows, changed' = Restamped(w.id),
                 rows' = [rows EXCEPT ![w.id] = w.value]
          PROVE  rows' \in Table /\ changed' \in [Rows -> Nat]
      <4>1. rows' \in [DOMAIN rows -> Values]
        BY <2>0, <3>3, <1>0 DEF WriteType
      <4>2. QED
        BY <4>1, <3>1, <3>3, <1>0
    <3>4. ASSUME w.id \in DOMAIN rows, changed' = Restamped(w.id),
                 rows' = [x \in DOMAIN rows \ {w.id} |-> rows[x]]
          PROVE  rows' \in Table /\ changed' \in [Rows -> Nat]
      <4>1. rows' \in [DOMAIN rows \ {w.id} -> Values]
        BY <3>4, <1>0
      <4>2. QED
        BY <4>1, <3>1, <3>4, <1>0
    <3>5. CASE UNCHANGED <<rows, changed>>
      BY <3>5, <1>0 DEF TypeOK
    <3>6. QED
      BY <1>18, <3>2, <3>3, <3>4, <3>5 DEF CarryOut
  <2>4. QED
    BY <1>18, <2>1, <2>2, <2>3 DEF CarryOut, TypeOK, fixedVars, listVars, Table
<1>19. ASSUME NEW w \in writes, Refuse(w) \/ LoseAnswer(w) PROVE TypeOK'
  <2>1. [w EXCEPT !.answer = "failed"] \in WriteType
    BY DEF TypeOK, WriteType, Answers
  <2>2. writes' = (writes \ {w}) \cup {[w EXCEPT !.answer = "failed"]}
    BY <1>19 DEF Refuse, LoseAnswer
  <2>3. faults' \in 0 .. MaxFaults
    BY <1>19, BoundsAssumption DEF Refuse, LoseAnswer, TypeOK
  <2>4. QED
    BY <1>19, <2>1, <2>2, <2>3 DEF Refuse, LoseAnswer, TypeOK, fixedVars, server, listVars
<1>20. CASE \E f \in fetches : ServeList(f) \/ FailList(f) \/ SettleList(f)
  BY <1>3, <1>4, <1>5, <1>20
<1>21. CASE \E r \in Rows : OpenEdit(r) \/ Switch(r) \/ AskRemove(r) \/ TheyChange(r)
  BY <1>8, <1>9, <1>10, <1>11, <1>21
<1>22. CASE \E w \in writes : CarryOut(w) \/ Refuse(w) \/ LoseAnswer(w)
  BY <1>18, <1>19, <1>22
<1>23. CASE \E w \in writes : Succeeded(w) \/ Failed(w)
  <2>1. PICK w \in writes : Succeeded(w) \/ Failed(w)
    BY <1>23
  <2>2. w \in WriteType /\ (w.kind = "save" \/ w.kind = "remove" \/ w.kind = "switch")
    BY DEF TypeOK, WriteType
  <2>3. CASE Succeeded(w)
    <3>1. acked' \in 0 .. version
      BY <2>2, <2>3 DEF Succeeded, SaveInv, TypeOK, WriteType
    <3>2. QED
      BY <2>3, <3>1 DEF Succeeded, Released, TypeOK, fixedVars, server
  <2>4. CASE Failed(w)
    BY <2>4 DEF Failed, Released, TypeOK, fixedVars, server, listVars
  <2>5. QED
    BY <2>1, <2>3, <2>4
<1>24. QED
  BY <1>1, <1>2, <1>6, <1>7, <1>12, <1>13, <1>14, <1>15, <1>16, <1>17, <1>20, <1>21,
     <1>22, <1>23 DEF Next

-----------------------------------------------------------------------------
(* One save or deletion at a time.                                         *)

\* A save or a deletion begins when none is under way.
LEMMA OneAtATimeNext == TypeOK /\ OneAtATime /\ [Next]_vars => OneAtATime'
<1> SUFFICES ASSUME TypeOK, OneAtATime, [Next]_vars PROVE OneAtATime'
  OBVIOUS
<1>0. /\ \A w \in writes : w.kind \in {"save", "remove", "switch"} /\ w \in WriteType
      /\ busy \in BOOLEAN
  BY DEF TypeOK, WriteType
<1>1. CASE writes' = writes /\ busy' = busy
  BY <1>1 DEF OneAtATime, Guarded
<1>2. ASSUME NEW w \in writes, NEW x, x.kind = w.kind, busy' = busy,
             writes' = (writes \ {w}) \cup {x}
      PROVE  OneAtATime'
  BY <1>2 DEF OneAtATime, Guarded
<1>3. CASE Save \/ Remove
  <2>1. ~busy /\ busy' /\ \E x : x.kind # "switch" /\ writes' = writes \cup {x}
    BY <1>3 DEF Save, Remove, Send
  <2>2. Guarded = {}
    BY <2>1 DEF OneAtATime
  <2>3. QED
    BY <2>1, <2>2 DEF OneAtATime, Guarded
<1>4. ASSUME NEW r \in Rows, Switch(r) PROVE OneAtATime'
  <2>1. busy' = busy /\ \E x : x.kind = "switch" /\ writes' = writes \cup {x}
    BY <1>4 DEF Switch, Send
  <2>2. Guarded' = Guarded
    BY <2>1 DEF Guarded
  <2>3. QED
    BY <2>1, <2>2 DEF OneAtATime
<1>5. ASSUME NEW w \in writes, Succeeded(w) \/ Failed(w) PROVE OneAtATime'
  <2>1. writes' = writes \ {w} /\ busy' = IF w.kind = "switch" THEN busy ELSE FALSE
    BY <1>5 DEF Succeeded, Failed, Released
  <2>2. Guarded' = IF w.kind = "switch" THEN Guarded ELSE {}
    BY <2>1 DEF Guarded, OneAtATime
  <2>3. QED
    BY <2>1, <2>2 DEF OneAtATime
<1>6. ASSUME NEW w \in writes, CarryOut(w) PROVE OneAtATime'
  <2> DEFINE x == [w EXCEPT !.answer = "ok", !.at = version + 1]
  <2>1. x.kind = w.kind /\ busy' = busy /\ writes' = (writes \ {w}) \cup {x}
    BY <1>0, <1>6 DEF CarryOut, WriteType
  <2>2. QED
    BY <2>1, <1>2
<1>7. ASSUME NEW w \in writes, Refuse(w) \/ LoseAnswer(w) PROVE OneAtATime'
  <2> DEFINE x == [w EXCEPT !.answer = "failed"]
  <2>1. x.kind = w.kind /\ busy' = busy /\ writes' = (writes \ {w}) \cup {x}
    BY <1>0, <1>7 DEF Refuse, LoseAnswer, WriteType
  <2>2. QED
    BY <2>1, <1>2
<1>8. CASE UNCHANGED vars
  BY <1>1, <1>8 DEF vars
<1>9. CASE StartQuery \/ Retry \/ ChangeFilter
  BY <1>1, <1>9 DEF StartQuery, Retry, ChangeFilter
<1>10. CASE OpenCreate \/ Type \/ CloseForm \/ CloseDialog
  BY <1>1, <1>10 DEF OpenCreate, Type, CloseForm, CloseDialog
<1>11. CASE \E f \in fetches : ServeList(f) \/ FailList(f) \/ SettleList(f)
  BY <1>1, <1>11 DEF ServeList, FailList, SettleList
<1>12. CASE \E r \in Rows : OpenEdit(r) \/ AskRemove(r) \/ TheyChange(r)
  BY <1>1, <1>12 DEF OpenEdit, AskRemove, TheyChange
<1>13. QED
  BY <1>3, <1>4, <1>5, <1>6, <1>7, <1>8, <1>9, <1>10, <1>11, <1>12 DEF Next

-----------------------------------------------------------------------------
(* What the page knows of the rows.                                        *)

\* A row that changes is stamped with a version nobody has seen.
LEMMA ServerMoves ==
  ASSUME TypeOK, [Next]_vars
  PROVE  /\ version \in Nat /\ version' \in Nat /\ version <= version'
         /\ \A r \in DOMAIN rows' :
              \/ r \in DOMAIN rows /\ rows'[r] = rows[r] /\ changed'[r] = changed[r]
              \/ changed'[r] = version' /\ version < version'
<1>0. /\ version \in Nat /\ changed \in [Rows -> Nat] /\ DOMAIN rows \subseteq Rows
      /\ rows = [r \in DOMAIN rows |-> rows[r]]
  <2>1. rows \in Table
    BY DEF TypeOK, Table
  <2>2. QED
    BY <2>1, TableRows DEF TypeOK
<1>1. CASE UNCHANGED server
  BY <1>0, <1>1 DEF server
<1>2. ASSUME NEW r \in Rows, changed' = Restamped(r), version' = version + 1,
             \A x \in DOMAIN rows' \ {r} : x \in DOMAIN rows /\ rows'[x] = rows[x]
      PROVE  /\ version \in Nat /\ version' \in Nat /\ version <= version'
             /\ \A x \in DOMAIN rows' :
                  \/ x \in DOMAIN rows /\ rows'[x] = rows[x] /\ changed'[x] = changed[x]
                  \/ changed'[x] = version' /\ version < version'
  <2>1. /\ changed'[r] = version + 1
        /\ \A x \in Rows \ {r} : changed'[x] = changed[x]
    BY <1>0, <1>2 DEF Restamped
  <2>2. QED
    BY <1>0, <1>2, <2>1
<1>3. ASSUME NEW r \in Rows, TheyChange(r)
      PROVE  \A x \in DOMAIN rows' \ {r} : x \in DOMAIN rows /\ rows'[x] = rows[x]
  BY <1>0, <1>3 DEF TheyChange
<1>4. ASSUME NEW r \in Rows, TheyChange(r)
      PROVE  changed' = Restamped(r) /\ version' = version + 1
  BY <1>4 DEF TheyChange
<1>5. ASSUME NEW w \in writes, CarryOut(w)
      PROVE  /\ version \in Nat /\ version' \in Nat /\ version <= version'
             /\ \A x \in DOMAIN rows' :
                  \/ x \in DOMAIN rows /\ rows'[x] = rows[x] /\ changed'[x] = changed[x]
                  \/ changed'[x] = version' /\ version < version'
  <2>1. version' = version + 1
    BY <1>5 DEF CarryOut
  <2>2. CASE UNCHANGED <<rows, changed>>
    BY <1>0, <2>1, <2>2
  <2>3. ASSUME NEW r \in Rows \ DOMAIN rows, changed' = Restamped(r),
               rows' = [x \in DOMAIN rows \cup {r} |->
                          IF x = r THEN (IF w.carries THEN w.value ELSE "default") ELSE rows[x]]
        PROVE  \A x \in DOMAIN rows' \ {r} : x \in DOMAIN rows /\ rows'[x] = rows[x]
    BY <2>3
  <2>4. CASE w.id \in DOMAIN rows /\ rows' = [rows EXCEPT ![w.id] = w.value]
    <3>1. \A x \in DOMAIN rows' \ {w.id} : x \in DOMAIN rows /\ rows'[x] = rows[x]
      BY <1>0, <2>4
    <3>2. QED
      BY <1>0, <1>2, <1>5, <2>1, <2>2, <2>4, <3>1 DEF CarryOut
  <2>5. CASE w.id \in DOMAIN rows /\ rows' = [x \in DOMAIN rows \ {w.id} |-> rows[x]]
    <3>1. \A x \in DOMAIN rows' \ {w.id} : x \in DOMAIN rows /\ rows'[x] = rows[x]
      BY <1>0, <2>5
    <3>2. QED
      BY <1>0, <1>2, <1>5, <2>1, <2>2, <2>5, <3>1 DEF CarryOut
  <2>6. CASE \E r \in Rows \ DOMAIN rows :
               /\ changed' = Restamped(r)
               /\ rows' = [x \in DOMAIN rows \cup {r} |->
                             IF x = r THEN (IF w.carries THEN w.value ELSE "default") ELSE rows[x]]
    BY <1>2, <2>1, <2>3, <2>6
  <2>7. QED
    BY <1>5, <2>2, <2>4, <2>5, <2>6 DEF CarryOut
<1>6. CASE \E r \in Rows : TheyChange(r)
  BY <1>2, <1>3, <1>4, <1>6
<1>7. CASE \E w \in writes : CarryOut(w)
  BY <1>5, <1>7
<1>8. ~(\E r \in Rows : TheyChange(r)) /\ ~(\E w \in writes : CarryOut(w)) => UNCHANGED server
  BY DEF Next, vars, server, StartQuery, ServeList, FailList, SettleList, Retry, ChangeFilter,
         OpenEdit, Switch, AskRemove, OpenCreate, Type, CloseForm, Save, CloseDialog, Remove,
         Refuse, LoseAnswer, Succeeded, Failed
<1>9. QED
  BY <1>1, <1>6, <1>7, <1>8

\* So what a list tells, and what a form or write may leave in a row, stays so.
LEMMA StaysTold ==
  ASSUME TypeOK, [Next]_vars, NEW list \in Listing, Tells(list)
  PROVE  Tells(list)'
<1>1. list.at \in Nat
  BY DEF Listing
<1>2. QED
  BY <1>1, ServerMoves DEF Tells

-----------------------------------------------------------------------------
(* The list.                                                               *)

\* The steps that leave the list, its requests and the screen alone.
Elsewhere ==
  UNCHANGED <<restart, query, data, fetches, filter, acked>>

\* A step that leaves the list and its requests alone may still change rows.
LEMMA FetchQuiet ==
  ASSUME PageInv, [Next]_vars, Elsewhere
  PROVE  FetchInv' /\ ShownIsCurrent' /\ (data # None => Tells(data))'
<1>1. ShownIsCurrent'
  BY DEF PageInv, ShownIsCurrent, Elsewhere
<1>2. TypeOK
  BY DEF PageInv
<1>3. data' # None => Tells(data)'
  <2>1. data # None => data \in Listing
    BY <1>2 DEF TypeOK
  <2>2. ASSUME data # None PROVE Tells(data)'
    <3> DEFINE list == data
    <3>1. Tells(list)
      BY <2>2 DEF PageInv
    <3>2. /\ version <= version' /\ version \in Nat /\ version' \in Nat /\ data.at \in Nat
          /\ \A r \in DOMAIN rows' :
              \/ r \in DOMAIN rows /\ rows'[r] = rows[r] /\ changed'[r] = changed[r]
              \/ changed'[r] = version' /\ version < version'
      BY <1>2, <2>1, <2>2, ServerMoves DEF Listing
    <3>3. data' = data
      BY DEF Elsewhere
    <3>4. QED
      BY <3>1, <3>2, <3>3 DEF Tells
  <2>3. QED
    BY <2>2 DEF Elsewhere
<1>4. FetchInv'
  <2> SUFFICES ASSUME NEW f \in fetches
               PROVE  /\ f.run <= query.run
                      /\ f.answer = "ok" =>
                           f.list \in Listing /\ f.list.filter = f.filter /\ Tells(f.list)'
                      /\ ~restart /\ f.run = query.run =>
                           f.filter = filter /\ (f.answer = "ok" => f.list.at >= acked)
    BY DEF FetchInv, Elsewhere
  <2>1. f.answer = "ok" => Tells(f.list)'
    BY <1>2, StaysTold DEF PageInv, FetchInv
  <2>2. QED
    BY <2>1 DEF PageInv, FetchInv
<1>5. QED
  BY <1>1, <1>3, <1>4

\* The steps of useQuery, and what makes it start again.
LEMMA ListKeeps ==
  ASSUME PageInv, [Next]_vars, ~Elsewhere
  PROVE  FetchInv' /\ ShownIsCurrent' /\ (data # None => Tells(data))'
<1>1. /\ TypeOK /\ FetchInv /\ ShownIsCurrent /\ (data # None => Tells(data)) /\ SaveInv
  BY DEF PageInv
<1>a. /\ query.run \in Nat /\ acked \in Nat /\ version \in Nat /\ acked <= version
      /\ query \in [run : Nat, loading : BOOLEAN, failed : BOOLEAN]
      /\ fetches \subseteq FetchType
  BY <1>1 DEF TypeOK
<1>2. CASE StartQuery
  <2> DEFINE q == [run |-> query.run + 1, loading |-> TRUE, failed |-> FALSE]
             n == [run |-> query.run + 1, filter |-> filter, answer |-> "none", list |-> None]
  <2>1. /\ query' = q /\ fetches' = fetches \cup {n} /\ restart' = FALSE
        /\ UNCHANGED <<server, filter, data, acked>>
    BY <1>2 DEF StartQuery
  <2>2. /\ q.run = query.run + 1 /\ q.loading = TRUE
        /\ n.run = q.run /\ n.filter = filter /\ n.answer = "none"
    OBVIOUS
  <2> HIDE DEF q, n
  <2>3. FetchInv'
    <3> SUFFICES ASSUME NEW f \in fetches'
                 PROVE  /\ f.run <= query'.run
                        /\ f.answer = "ok" =>
                             f.list \in Listing /\ f.list.filter = f.filter /\ Tells(f.list)'
                        /\ f.run = query'.run =>
                             f.filter = filter' /\ (f.answer = "ok" => f.list.at >= acked')
      BY DEF FetchInv
    <3>1. CASE f \in fetches
      <4>1. f.run <= query.run /\ f.run \in Nat
        BY <1>1, <1>a, <3>1 DEF FetchInv, FetchType
      <4>2. query'.run = query.run + 1 /\ f.run # query'.run /\ f.run <= query'.run
        BY <1>a, <2>1, <2>2, <4>1
      <4>3. Tells(f.list)' = Tells(f.list)
        BY <2>1 DEF Tells, server
      <4>4. QED
        BY <1>1, <3>1, <4>2, <4>3 DEF FetchInv
    <3>2. CASE f = n
      BY <1>a, <2>1, <2>2, <3>2
    <3>3. QED
      BY <2>1, <3>1, <3>2
  <2>4. ShownIsCurrent'
    BY <2>1, <2>2 DEF ShownIsCurrent
  <2>5. QED
    BY <1>1, <2>1, <2>3, <2>4 DEF Tells, server
<1>3. ASSUME NEW f \in fetches, ServeList(f)
      PROVE  FetchInv' /\ ShownIsCurrent' /\ (data # None => Tells(data))'
  <2>1. /\ fetches' = (fetches \ {f}) \cup {Listed(f)}
        /\ UNCHANGED <<server, restart, query, data, filter, acked>>
    BY <1>3 DEF ServeList
  <2>2. /\ Listed(f).list \in Listing /\ Listed(f).run = f.run
        /\ Listed(f).filter = f.filter /\ Listed(f).answer = "ok"
        /\ Listed(f).list.rows = rows /\ Listed(f).list.at = version
        /\ Listed(f).list.filter = f.filter
    BY <1>1, ListedType
  <2>3. Tells(Listed(f).list)
    BY <1>a, <2>2 DEF Tells
  <2>4. \A list : Tells(list)' = Tells(list)
    BY <2>1 DEF Tells, server
  <2>5. FetchInv'
    <3> SUFFICES ASSUME NEW g \in fetches'
                 PROVE  /\ g.run <= query.run
                        /\ g.answer = "ok" =>
                             g.list \in Listing /\ g.list.filter = g.filter /\ Tells(g.list)
                        /\ ~restart /\ g.run = query.run =>
                             g.filter = filter /\ (g.answer = "ok" => g.list.at >= acked)
      BY <2>1, <2>4 DEF FetchInv
    <3>1. CASE g \in fetches
      BY <1>1, <3>1 DEF FetchInv
    <3>2. CASE g = Listed(f)
      BY <1>1, <1>a, <2>2, <2>3, <3>2 DEF FetchInv
    <3>3. QED
      BY <2>1, <3>1, <3>2
  <2>6. QED
    BY <1>1, <2>1, <2>4, <2>5 DEF ShownIsCurrent
<1>4. ASSUME NEW f \in fetches, FailList(f)
      PROVE  FetchInv' /\ ShownIsCurrent' /\ (data # None => Tells(data))'
  <2> DEFINE n == [f EXCEPT !.answer = "failed"]
  <2>1. /\ fetches' = (fetches \ {f}) \cup {n}
        /\ UNCHANGED <<server, restart, query, data, filter, acked>>
    BY <1>4 DEF FailList
  <2>2. n.run = f.run /\ n.filter = f.filter /\ n.answer = "failed"
    BY <1>a DEF FetchType
  <2> HIDE DEF n
  <2>3. \A list : Tells(list)' = Tells(list)
    BY <2>1 DEF Tells, server
  <2>4. FetchInv'
    <3> SUFFICES ASSUME NEW g \in fetches'
                 PROVE  /\ g.run <= query.run
                        /\ g.answer = "ok" =>
                             g.list \in Listing /\ g.list.filter = g.filter /\ Tells(g.list)
                        /\ ~restart /\ g.run = query.run =>
                             g.filter = filter /\ (g.answer = "ok" => g.list.at >= acked)
      BY <2>1, <2>3 DEF FetchInv
    <3>1. CASE g \in fetches
      BY <1>1, <3>1 DEF FetchInv
    <3>2. CASE g = n
      BY <1>1, <2>2, <3>2 DEF FetchInv
    <3>3. QED
      BY <2>1, <3>1, <3>2
  <2>5. QED
    BY <1>1, <2>1, <2>3, <2>4 DEF ShownIsCurrent
<1>5. ASSUME NEW f \in fetches, SettleList(f)
      PROVE  FetchInv' /\ ShownIsCurrent' /\ (data # None => Tells(data))'
  <2>1. /\ fetches' = fetches \ {f} /\ UNCHANGED <<server, restart, filter, acked>>
        /\ f.answer # "none" /\ f \in FetchType
    BY <1>5, <1>a DEF SettleList
  <2>2. \A list : Tells(list)' = Tells(list)
    BY <2>1 DEF Tells, server
  <2>3. query'.run = query.run
    BY <1>5, <1>a DEF SettleList
  <2>4. FetchInv'
    <3> SUFFICES ASSUME NEW g \in fetches
                 PROVE  /\ g.run <= query.run
                        /\ g.answer = "ok" =>
                             g.list \in Listing /\ g.list.filter = g.filter /\ Tells(g.list)
                        /\ ~restart /\ g.run = query.run =>
                             g.filter = filter /\ (g.answer = "ok" => g.list.at >= acked)
      BY <2>1, <2>2, <2>3 DEF FetchInv
    <3>1. QED
      BY <1>1 DEF FetchInv
  <2>5. CASE f.run = query.run /\ f.answer = "ok"
    <3>1. data' = f.list /\ f.list \in Listing /\ f.list.filter = f.filter /\ Tells(f.list)
      BY <1>1, <1>5, <2>5 DEF SettleList, Active, FetchInv
    <3>2. ~restart => f.filter = filter /\ f.list.at >= acked
      BY <1>1, <2>5 DEF FetchInv
    <3>3. data' # None
      BY <3>1 DEF Listing, None
    <3>4. ShownIsCurrent'
      BY <2>1, <3>1, <3>2, <3>3 DEF ShownIsCurrent
    <3>5. QED
      BY <2>2, <2>4, <3>1, <3>4
  <2>6. CASE f.run = query.run /\ f.answer # "ok"
    <3>1. data' = data /\ f.answer = "failed" /\ query'.failed
      BY <1>5, <1>a, <2>1, <2>6 DEF SettleList, Active, FetchType, Answers
    <3>2. QED
      BY <1>1, <2>2, <2>4, <3>1 DEF ShownIsCurrent
  <2>7. CASE f.run # query.run
    <3>1. data' = data /\ query' = query
      BY <1>5, <2>7 DEF SettleList, Active
    <3>2. QED
      BY <1>1, <2>1, <2>2, <2>4, <3>1 DEF ShownIsCurrent
  <2>8. QED
    BY <2>5, <2>6, <2>7
<1>6. CASE restart' /\ UNCHANGED <<server, query, data, fetches>>
  <2>1. \A list : Tells(list)' = Tells(list)
    BY <1>6 DEF Tells, server
  <2>2. QED
    BY <1>1, <1>6, <2>1 DEF FetchInv, ShownIsCurrent
<1>7. CASE Retry \/ ChangeFilter \/ \E w \in writes : Succeeded(w)
  BY <1>6, <1>7 DEF Retry, ChangeFilter, Succeeded
<1>8. CASE \E f \in fetches : ServeList(f) \/ FailList(f) \/ SettleList(f)
  BY <1>3, <1>4, <1>5, <1>8
<1>9. QED
  BY <1>2, <1>7, <1>8 DEF Next, vars, Elsewhere, listVars, OpenEdit, Switch, AskRemove, TheyChange,
       OpenCreate, Type, CloseForm, Save, CloseDialog, Remove, CarryOut, Refuse, LoseAnswer, Failed

-----------------------------------------------------------------------------
(* Forms and writes.                                                       *)

\* What a page has on its screen is a list or nothing.
LEMMA BaseTells ==
  ASSUME PageInv
  PROVE  Base \in Int /\ Base <= version
<1>1. version \in Nat /\ (data # None => data.at \in Nat /\ data.at <= version)
  BY DEF PageInv, TypeOK, Listing, Tells
<1>2. QED
  BY <1>1 DEF Base, NoList

\* The page is one of the table, and no row has the id of a new one.
LEMMA PageColumn ==
  ASSUME TypeOK
  PROVE  page \in DOMAIN PageOf /\ DOMAIN rows \subseteq Rows /\ 0 \notin Rows
<1>1. rows \in Table
  BY DEF TypeOK, Table
<1>2. QED
  BY <1>1, TableRows, LookedAssumption, RowsAssumption DEF TypeOK

\* A value stays as true to its row as it was.
LEMMA HonestStays ==
  ASSUME PageInv, [Next]_vars, UNCHANGED <<page, column>>, NEW id, NEW v, NEW b \in Int,
         b <= version, Honest(id, v, b)
  PROVE  Honest(id, v, b)'
<1>1. CASE b = NoList \/ <<page, column>> \in KnownResets
  BY <1>1 DEF Honest
<1>2. CASE b # NoList /\ <<page, column>> \notin KnownResets
  <2>1. id \in DOMAIN rows => v = rows[id] \/ changed[id] > b
    BY <1>2 DEF Honest
  <2>2. id \in DOMAIN rows' => v = rows'[id] \/ changed'[id] > b
    BY <2>1, ServerMoves DEF PageInv
  <2>3. QED
    BY <1>2, <2>2 DEF Honest
<1>3. QED
  BY <1>1, <1>2

\* An open form that stays as it is,
LEMMA FormStays ==
  ASSUME PageInv, [Next]_vars, form' = form
  PROVE  FormInv'
<1>1. page' = page /\ column' = column
  BY DEF Next, vars, fixedVars, StartQuery, ServeList, FailList, SettleList, Retry, ChangeFilter,
         OpenEdit, Switch, AskRemove, OpenCreate, Type, CloseForm, Save, CloseDialog, Remove,
         CarryOut, TheyChange, Refuse, LoseAnswer, Succeeded, Failed
<1>2. CASE form # None
  <2>1. form \in FormType /\ form.base \in Int /\ TypeOK /\ FormInv
    BY <1>2 DEF PageInv, TypeOK, FormType
  <2>2. version <= version' /\ version \in Nat /\ version' \in Nat
    BY <2>1, ServerMoves
  <2>3. Honest(form.id, form.value, form.base) => Honest(form.id, form.value, form.base)'
    BY <1>1, <1>2, <2>1, HonestStays DEF FormInv
  <2>4. QED
    BY <1>1, <1>2, <2>1, <2>2, <2>3 DEF FormInv, P
<1>3. QED
  BY <1>2 DEF FormInv

\* and one that is opened, typed in or closed.
LEMMA FormKeeps == PageInv /\ [Next]_vars => FormInv'
<1> SUFFICES ASSUME PageInv, [Next]_vars PROVE FormInv'
  OBVIOUS
<1>1. TypeOK /\ FormInv /\ Base \in Int /\ Base <= version /\ (data # None => Tells(data))
  BY BaseTells DEF PageInv
<1>2. ASSUME NEW r \in Rows, OpenEdit(r) PROVE FormInv'
  <2> DEFINE n == [id |-> r, value |-> Opened(r), typed |-> FALSE, base |-> Base]
  <2>1. form' = n /\ UNCHANGED <<page, column, rows, changed, version>> /\ P.edits
        /\ (data # None => r \in DOMAIN data.rows) /\ (P.gated => data # None)
    BY <1>2 DEF OpenEdit, Shown, fixedVars, server
  <2>2. n.id = r /\ n.value = Opened(r) /\ n.typed = FALSE /\ n.base = Base
    OBVIOUS
  <2> HIDE DEF n
  <2>3. ASSUME column \in P.sends PROVE Honest(r, Opened(r), Base)
    <3>1. column \in P.opens \/ <<page, column>> \in KnownResets
      BY <1>1, <2>1, <2>3, PageColumn, PagesAreComplete DEF P
    <3>2. CASE data = None
      <4>1. Base = NoList
        BY <3>2 DEF Base
      <4>2. <<page, column>> \in BlindResets
        BY <1>1, <2>1, <2>3, <3>2, PageColumn, PagesAreComplete DEF P
      <4>3. QED
        BY <4>1, <4>2 DEF Honest
    <3>3. CASE data # None /\ column \in P.opens
      <4>1. Opened(r) = data.rows[r] /\ Base = data.at
        BY <3>3 DEF Opened, Base
      <4>2. Base # NoList
        BY <1>1, <3>3, <4>1 DEF NoList, TypeOK, Listing
      <4>3. QED
        BY <1>1, <2>1, <2>3, <3>3, <4>1, <4>2 DEF Honest, Tells
    <3>4. QED
      BY <3>1, <3>2, <3>3 DEF Honest
  <2>4. column \in P.sends => Honest(r, Opened(r), Base)
    BY <2>3 DEF Honest
  <2>5. QED
    BY <1>1, <2>1, <2>2, <2>4 DEF FormInv, Honest, P
<1>3. CASE OpenCreate
  <2> DEFINE n == [id |-> New, value |-> "default", typed |-> FALSE, base |-> Base]
  <2>1. form' = n /\ UNCHANGED <<page, column, rows, changed, version>>
    BY <1>3 DEF OpenCreate, fixedVars, server
  <2>2. n.id = 0 /\ n.typed = FALSE /\ n.base = Base
    BY DEF New
  <2> HIDE DEF n
  <2>3. 0 \notin Rows /\ 0 \notin DOMAIN rows
    BY <1>1, PageColumn
  <2>4. QED
    BY <1>1, <2>1, <2>2, <2>3 DEF FormInv, Honest, New
<1>4. CASE Type
  <2> DEFINE n == [form EXCEPT !.value = "typed", !.typed = TRUE]
  <2>1. /\ form' = n /\ UNCHANGED <<page, column, rows, changed, version>>
        /\ column \in P.offers /\ form # None
    BY <1>4 DEF Type, fixedVars, server
  <2>2. n.value = "typed" /\ n.typed = TRUE /\ n.base = form.base /\ n.id = form.id
    BY <1>1, <2>1 DEF TypeOK, FormType
  <2> HIDE DEF n
  <2>3. QED
    BY <1>1, <2>1, <2>2 DEF FormInv, P
<1>5. CASE form' = None
  BY <1>5 DEF FormInv
<1>6. CASE form' = form
  BY <1>6, FormStays
<1>7. form' = form \/ form' = None \/ OpenCreate \/ Type \/ \E r \in Rows : OpenEdit(r)
  BY DEF Next, vars, StartQuery, ServeList, FailList, SettleList, Retry, ChangeFilter,
         Switch, AskRemove, CloseForm, Save, CloseDialog, Remove,
         CarryOut, TheyChange, Refuse, LoseAnswer, Succeeded, Failed
<1>8. QED
  BY <1>2, <1>3, <1>4, <1>5, <1>6, <1>7

\* A write on its way, which nobody answers in this step.
LEMMA SaveStays ==
  ASSUME PageInv, [Next]_vars, NEW w \in writes
  PROVE  /\ w.answer = "ok" => w.at <= version'
         /\ w.kind = "save" /\ w.answer = "none" =>
              /\ w.base <= version'
              /\ IF w.typed
                   THEN w.value = "typed" /\ (w.carries \/ <<page, column>>' \in KnownDrops)
                   ELSE w.carries => Honest(w.id, w.value, w.base)'
<1>1. page' = page /\ column' = column
  BY DEF Next, vars, fixedVars, StartQuery, ServeList, FailList, SettleList, Retry, ChangeFilter,
         OpenEdit, Switch, AskRemove, OpenCreate, Type, CloseForm, Save, CloseDialog, Remove,
         CarryOut, TheyChange, Refuse, LoseAnswer, Succeeded, Failed
<1>2. TypeOK /\ SaveInv /\ w.base \in Int /\ w.at \in Nat
  BY DEF PageInv, TypeOK, WriteType
<1>3. version <= version' /\ version \in Nat /\ version' \in Nat
  BY <1>2, ServerMoves
<1>4. w.base <= version /\ Honest(w.id, w.value, w.base) => Honest(w.id, w.value, w.base)'
  BY <1>1, <1>2, HonestStays
<1>5. QED
  BY <1>1, <1>2, <1>3, <1>4 DEF SaveInv

\* A save that is sent takes what the form holds; the others stay or are answered.
LEMMA SaveKeeps == PageInv /\ [Next]_vars => SaveInv'
<1> SUFFICES ASSUME PageInv, [Next]_vars PROVE SaveInv'
  OBVIOUS
<1>1. TypeOK /\ FormInv /\ version \in Nat /\ (data # None => Tells(data))
  BY DEF PageInv, TypeOK
<1>2. CASE writes' \subseteq writes
  BY <1>2, SaveStays DEF SaveInv
<1>3. ASSUME NEW x, writes' \subseteq writes \cup {x}, x.answer = "ok" => x.at <= version',
             x.answer = "none" => x.kind # "save"
      PROVE  SaveInv'
  BY <1>3, SaveStays DEF SaveInv
<1>4. CASE Save
  <2> DEFINE e == Edited
             x == [n |-> made, kind |-> "save", id |-> form.id, carries |-> Carried,
                   value |-> e.value, typed |-> e.typed, base |-> e.base,
                   answer |-> "none", at |-> 0]
  <2>1. /\ writes' = writes \cup {x} /\ form # None
        /\ UNCHANGED <<page, column, rows, changed, version>>
    BY <1>4 DEF Save, Send, fixedVars, server
  <2>2. /\ form \in FormType /\ e.typed = form.typed
        /\ \/ e.value = form.value /\ e.base = form.base
           \/ /\ ~form.typed /\ data # None /\ form.id \in DOMAIN data.rows
              /\ e.value = data.rows[form.id] /\ e.base = data.at
    BY <1>1, <2>1, EditedType DEF TypeOK
  <2> HIDE DEF e
  <2>3. /\ x.answer = "none" /\ x.id = form.id /\ x.carries = Carried /\ x.value = e.value
        /\ x.typed = e.typed /\ x.base = e.base
    OBVIOUS
  <2> HIDE DEF x
  <2>4. e.base <= version
    BY <1>1, <2>1, <2>2 DEF FormInv, Tells
  <2>5. CASE form.typed
    <3>1. e.value = "typed" /\ column \in P.offers
      BY <1>1, <2>1, <2>2, <2>5 DEF FormInv
    <3>2. Carried \/ <<page, column>> \in KnownDrops
      BY <1>1, <2>5, <3>1, PageColumn, PagesAreComplete DEF P, Carried
    <3>3. QED
      BY <2>1, <2>2, <2>3, <2>4, <2>5, <3>1, <3>2, SaveStays DEF SaveInv
  <2>6. CASE ~form.typed
    <3>1. Carried => column \in P.sends
      BY <2>6 DEF Carried
    <3>2. Carried => Honest(form.id, e.value, e.base)
      <4>1. CASE e.value = form.value /\ e.base = form.base
        BY <1>1, <2>1, <2>6, <3>1, <4>1 DEF FormInv
      <4>2. CASE /\ data # None /\ form.id \in DOMAIN data.rows
                 /\ e.value = data.rows[form.id] /\ e.base = data.at
        <5>1. e.base # NoList
          BY <1>1, <4>2 DEF NoList, TypeOK, Listing
        <5>2. QED
          BY <1>1, <4>2, <5>1 DEF Tells, Honest
      <4>3. QED
        BY <2>2, <4>1, <4>2
    <3>3. Carried =>
            \/ <<page, column>> \in KnownResets
            \/ e.base = NoList /\ (form.id = New \/ <<page, column>> \in BlindResets)
            \/ /\ e.base # NoList
               /\ form.id \in DOMAIN rows => e.value = rows[form.id] \/ changed[form.id] > e.base
      BY <3>2 DEF Honest
    <3>4. QED
      BY <2>1, <2>2, <2>3, <2>4, <2>6, <3>3, SaveStays DEF SaveInv, Honest
  <2>7. QED
    BY <2>5, <2>6, <2>2 DEF FormType
<1>5. CASE Remove
  BY <1>3, <1>5 DEF Remove, Send
<1>6. ASSUME NEW r \in Rows, Switch(r) PROVE SaveInv'
  BY <1>3, <1>6 DEF Switch, Send
<1>7. ASSUME NEW w \in writes, CarryOut(w) PROVE SaveInv'
  <2> DEFINE x == [w EXCEPT !.answer = "ok", !.at = version + 1]
  <2>1. x.answer = "ok" /\ x.at = version + 1
    BY <1>1 DEF TypeOK, WriteType
  <2>2. writes' \subseteq writes \cup {x} /\ version' = version + 1
    BY <1>7 DEF CarryOut
  <2> HIDE DEF x
  <2>3. QED
    BY <1>1, <1>3, <2>1, <2>2
<1>8. ASSUME NEW w \in writes, Refuse(w) \/ LoseAnswer(w) PROVE SaveInv'
  <2> DEFINE x == [w EXCEPT !.answer = "failed"]
  <2>1. x.answer = "failed"
    BY <1>1 DEF TypeOK, WriteType
  <2>2. writes' \subseteq writes \cup {x}
    BY <1>8 DEF Refuse, LoseAnswer
  <2> HIDE DEF x
  <2>3. QED
    BY <1>3, <2>1, <2>2
<1>9. \/ writes' \subseteq writes \/ Save \/ Remove \/ \E r \in Rows : Switch(r)
      \/ \E w \in writes : CarryOut(w) \/ Refuse(w) \/ LoseAnswer(w)
  BY DEF Next, vars, StartQuery, ServeList, FailList, SettleList, Retry, ChangeFilter, OpenEdit,
         AskRemove, OpenCreate, Type, CloseForm, CloseDialog, TheyChange, Succeeded, Failed
<1>10. QED
  BY <1>2, <1>4, <1>5, <1>6, <1>7, <1>8, <1>9

-----------------------------------------------------------------------------
(* Theorems.                                                               *)

\* The invariant at the start,
LEMMA PageInit == Init => PageInv
<1> SUFFICES ASSUME Init PROVE PageInv
  OBVIOUS
<1>1. TypeOK
  BY PageTypeInit
<1>2. restart = TRUE /\ fetches = {} /\ data = None /\ form = None /\ writes = {} /\ busy = FALSE
  BY DEF Init
<1>3. QED
  BY <1>1, <1>2 DEF PageInv, OneAtATime, Guarded, ShownIsCurrent, FetchInv, FormInv, SaveInv

\* and in every step.
LEMMA PageNext == PageInv /\ [Next]_vars => PageInv'
<1> SUFFICES ASSUME PageInv, [Next]_vars PROVE PageInv'
  OBVIOUS
<1>1. TypeOK' /\ OneAtATime'
  BY PageTypeNext, OneAtATimeNext DEF PageInv
<1>2. FetchInv' /\ ShownIsCurrent' /\ (data # None => Tells(data))'
  BY FetchQuiet, ListKeeps
<1>3. FormInv' /\ SaveInv'
  BY FormKeeps, SaveKeeps
<1>4. QED
  BY <1>1, <1>2, <1>3 DEF PageInv

\* A page stays well-formed, its requests and writes say what they said when they
\* were sent, and its form knows how old its values are.
THEOREM PageInvariant == Spec => []PageInv
<1>1. QED
  BY PageInit, PageNext, PTL DEF Spec

\* The buttons of a page let one save or deletion through at a time, however
\* forms and dialogs are closed and opened while it is in flight.
THEOREM OneWriteAtATime == Spec => []OneAtATime
<1>1. PageInv => OneAtATime
  BY DEF PageInv
<1>2. QED
  BY <1>1, PageInvariant, PTL

\* A loaded list on the screen is the one for its filter and shows every
\* acknowledged write, in whatever order the requests for it are answered.
THEOREM ListIsCurrent == Spec => []ShownIsCurrent
<1>1. PageInv => ShownIsCurrent
  BY DEF PageInv
<1>2. QED
  BY <1>1, PageInvariant, PTL

\* A save writes what was typed and leaves the rest, on every page and column
\* but those that KnownResets and KnownDrops name, and on those of BlindResets
\* unless its form was opened without a list.
THEOREM SavesKeepTheRest == Spec => []SaveKeepsTheRest
<1>1. PageInv => SaveKeepsTheRest
  BY PageColumn DEF PageInv, SaveInv, SaveKeepsTheRest, Honest, Excused, New
<1>2. QED
  BY <1>1, PageInvariant, PTL

-----------------------------------------------------------------------------
(* The members of users and groups.                                        *)

\* Types, as far as the members need them.
Known == [at : {"READ", "LOCKED", "CLEARED", "ADDED", "CHECKED"}, owner : Entries,
          want : SUBSET Groups, gone : SUBSET (Owners \X Groups), added : SUBSET (Owners \X Groups)]
DirectoryType ==
  /\ state \in [Entries -> {"NEW", "THERE", "GONE"}]
  /\ links \subseteq Owners \X Groups
  /\ asked \in [Owners -> SUBSET Groups]
  /\ requests \in [Requests -> Known \cup {Idle}]

\* A request works on a row that was there once, and alone once it has its lock;
\* what it deletes is all there is of its owner, and what it inserts is held.
Locked(r) ==
  /\ requests[r] # Idle => state[requests[r].owner] # "NEW"
  /\ requests[r].at = "READ" => requests[r].owner \in Owners
  /\ r \in Writing =>
       /\ requests[r].owner \in Owners
       /\ \A q \in Writing : requests[q].owner = requests[r].owner => q = r
  /\ requests[r].at \in {"CLEARED", "ADDED"} => requests[r].gone = LinksOf(requests[r].owner)
  /\ requests[r].at = "ADDED" =>
       /\ requests[r].added = Links(requests[r].owner, requests[r].want)
       /\ \/ requests[r].added = {}
          \/ requests[r].want \cup {requests[r].owner} \subseteq There
LockInv == \A r \in Requests : Locked(r)

\* Nobody was given a member that has yet to come.
AskedInv == \A o \in Owners : \A g \in asked[o] \ {o} : state[g] # "NEW"

DirectoryInv == DirectoryType /\ LockInv /\ AskedInv /\ MembersAreOneRequests

-----------------------------------------------------------------------------
(* Links one by one.                                                       *)

Linked ==
  \A o \in Owners, g \in Groups :
    <<o, g>> \in links <=>
      state[o] = "THERE" /\ g \in asked[o] /\ g # o /\ state[g] = "THERE"

\* Members are the other ends of links,
LEMMA MembersOfLinks ==
  ASSUME NEW L \in SUBSET (Owners \X Groups), NEW o
  PROVE  {l[2] : l \in {k \in L : k[1] = o}} = {g \in Groups : <<o, g>> \in L}
OBVIOUS

\* so what is said of members can be said link by link,
LEMMA LinkedMembers == DirectoryType => (Linked <=> MembersAreOneRequests)
<1> SUFFICES ASSUME DirectoryType PROVE Linked <=> MembersAreOneRequests
  OBVIOUS
<1>1. \A o : MembersOf(o) = {g \in Groups : <<o, g>> \in links}
  BY MembersOfLinks DEF DirectoryType, MembersOf, LinksOf
<1>2. \A o \in Owners : /\ o \in Entries /\ asked[o] \subseteq Groups
                        /\ o \in There <=> state[o] = "THERE"
  BY DEF DirectoryType, There, Owners, Entries, Groups
<1>3. \A g \in Groups : g \in Entries /\ (g \in There <=> state[g] = "THERE")
  BY DEF There, Entries
<1>4. \A o \in Owners :
        MembersOf(o) = (IF o \in There THEN (asked[o] \ {o}) \cap There ELSE {})
          <=> \A g \in Groups : <<o, g>> \in links <=>
                state[o] = "THERE" /\ g \in asked[o] /\ g # o /\ state[g] = "THERE"
  <2> SUFFICES ASSUME NEW o \in Owners
               PROVE  MembersOf(o) = (IF o \in There THEN (asked[o] \ {o}) \cap There ELSE {})
                        <=> \A g \in Groups : <<o, g>> \in links <=>
                              state[o] = "THERE" /\ g \in asked[o] /\ g # o /\ state[g] = "THERE"
    OBVIOUS
  <2>1. CASE o \in There
    BY <1>1, <1>2, <1>3, <2>1
  <2>2. CASE o \notin There
    BY <1>1, <1>2, <1>3, <2>2
  <2>3. QED
    BY <2>1, <2>2
<1>5. QED
  BY <1>4 DEF Linked, MembersAreOneRequests

\* and after a step as well as before it.
LEMMA LinkedMembersNext == (DirectoryType => (Linked <=> MembersAreOneRequests))'
BY LinkedMembers, PTL

\* The links a request inserts,
LEMMA LinksAre ==
  ASSUME NEW o \in Owners, NEW want \in SUBSET Groups
  PROVE  /\ Links(o, want) \subseteq Owners \X Groups
         /\ \A p, g : <<p, g>> \in Links(o, want) <=> p = o /\ g \in want /\ g # o
         /\ Links(o, want) = {} <=> want \subseteq {o}
<1>1. Links(o, want) \subseteq Owners \X Groups
  BY DEF Links
<1>2. \A p, g : <<p, g>> \in Links(o, want) <=> p = o /\ g \in want /\ g # o
  BY DEF Links
<1>3. Links(o, want) = {} <=> want \subseteq {o}
  BY DEF Links
<1>4. QED
  BY <1>1, <1>2, <1>3

\* and those of an owner.
LEMMA LinksOfAre ==
  \A o, l : l \in LinksOf(o) <=> l \in links /\ l[1] = o
BY DEF LinksOf

\* Users, local groups and logical groups are apart.
LEMMA Kinds ==
  /\ Owners \subseteq Entries /\ Groups \subseteq Entries /\ Users \subseteq Owners
  /\ Logicals \subseteq Owners /\ Locals \subseteq Groups /\ Locals \cap Owners = {}
  /\ Users \cap Groups = {}
BY DirectoryAssumption DEF Owners, Groups, Entries

-----------------------------------------------------------------------------
(* Types.                                                                  *)

\* The types, in every step.
LEMMA DirectoryTypeNext ==
  DirectoryType /\ LockInv /\ [DirectoryNext]_directoryVars => DirectoryType'
<1> SUFFICES ASSUME DirectoryType, LockInv, [DirectoryNext]_directoryVars PROVE DirectoryType'
  OBVIOUS
<1>a. \A r \in Requests : requests[r] \in Known \cup {Idle}
  BY DEF DirectoryType
<1>b. \A r \in Requests : requests[r].at # "IDLE" => requests[r] \in Known
  BY <1>a DEF Idle
<1>1. CASE UNCHANGED directoryVars
  BY <1>1 DEF DirectoryType, directoryVars
<1>2. ASSUME NEW o \in Owners, NEW want \in SUBSET Groups, Create(o, want) PROVE DirectoryType'
  <2>1. Links(o, want) \subseteq Owners \X Groups
    BY LinksAre
  <2>2. QED
    BY <1>2, <2>1 DEF Create, DirectoryType
<1>3. ASSUME NEW o \in Owners, NEW want \in SUBSET Groups, NEW r \in Requests, Patch(r, o, want)
      PROVE  DirectoryType'
  <2> DEFINE n == [at |-> "READ", owner |-> o, want |-> want, gone |-> {}, added |-> {}]
  <2>1. n \in Known
    BY Kinds DEF Known
  <2>2. requests' = [requests EXCEPT ![r] = n] /\ UNCHANGED <<state, links, asked>>
    BY <1>3 DEF Patch
  <2> HIDE DEF n
  <2>3. QED
    BY <2>1, <2>2 DEF DirectoryType
<1>4. ASSUME NEW g \in Locals, CreateLocal(g) PROVE DirectoryType'
  BY <1>4 DEF CreateLocal, DirectoryType
<1>5. ASSUME NEW r \in Requests, Lock(r) PROVE DirectoryType'
  <2>1. [requests[r] EXCEPT !.at = "LOCKED"] \in Known
    BY <1>5, <1>b DEF Lock, Known
  <2>2. QED
    BY <1>5, <2>1 DEF Lock, DirectoryType
<1>6. ASSUME NEW r \in Requests, Clear(r) PROVE DirectoryType'
  <2> DEFINE gone == LinksOf(requests[r].owner)
             n == [requests[r] EXCEPT !.at = "CLEARED", !.gone = gone]
  <2>1. gone \subseteq Owners \X Groups
    BY LinksOfAre DEF DirectoryType
  <2>2. requests' = [requests EXCEPT ![r] = n]
    BY <1>6 DEF Clear, DirectoryType
  <2> HIDE DEF gone
  <2>3. n \in Known
    BY <1>6, <1>b, <2>1 DEF Clear, Known
  <2> HIDE DEF n
  <2>4. QED
    BY <1>6, <2>2, <2>3 DEF Clear, DirectoryType
<1>7. ASSUME NEW r \in Requests, Add(r) PROVE DirectoryType'
  <2> DEFINE new == Links(requests[r].owner, requests[r].want)
             n == [requests[r] EXCEPT !.at = "ADDED", !.added = new]
  <2>1. requests[r] \in Known /\ requests[r].owner \in Owners
    BY <1>7, <1>b DEF Add, LockInv, Locked, Writing
  <2>2. new \subseteq Owners \X Groups
    BY <2>1, LinksAre DEF Known
  <2>3. requests' = [requests EXCEPT ![r] = n] \/ requests' = [requests EXCEPT ![r] = Idle]
    BY <1>7 DEF Add, DirectoryType
  <2> HIDE DEF new
  <2>4. n \in Known
    BY <2>1, <2>2 DEF Known
  <2> HIDE DEF n
  <2>5. QED
    BY <1>7, <2>3, <2>4 DEF Add, DirectoryType
<1>8. ASSUME NEW r \in Requests, Commit(r) PROVE DirectoryType'
  <2>1. requests[r] \in Known
    BY <1>8, <1>b DEF Commit
  <2>2. requests[r].added \subseteq Owners \X Groups /\ requests[r].want \in SUBSET Groups
    BY <2>1 DEF Known
  <2>3. QED
    BY <1>8, <2>2 DEF Commit, DirectoryType
<1>9. ASSUME NEW r \in Requests, DeleteGroup(r) PROVE DirectoryType'
  BY <1>9 DEF DeleteGroup, Vanish, DirectoryType
<1>10. ASSUME NEW r \in Requests, NEW g \in Groups, CheckGroup(r, g) PROVE DirectoryType'
  <2> DEFINE n == [at |-> "CHECKED", owner |-> g, want |-> {}, gone |-> {}, added |-> {}]
  <2>1. n \in Known
    BY Kinds DEF Known
  <2>2. requests' = [requests EXCEPT ![r] = n] /\ UNCHANGED <<state, links, asked>>
    BY <1>10 DEF CheckGroup
  <2> HIDE DEF n
  <2>3. QED
    BY <2>1, <2>2 DEF DirectoryType
<1>11. ASSUME NEW u \in Users, SetStatus(u) \/ DeleteUser(u) PROVE DirectoryType'
  BY <1>11 DEF SetStatus, DeleteUser, Vanish, DirectoryType
<1>12. ASSUME NEW groups, SetRule(groups) PROVE DirectoryType'
  BY <1>12 DEF SetRule, DirectoryType
<1>13. QED
  BY <1>1, <1>2, <1>3, <1>4, <1>5, <1>6, <1>7, <1>8, <1>9, <1>10, <1>11, <1>12 DEF DirectoryNext

-----------------------------------------------------------------------------
(* Locks.                                                                  *)

\* A request keeps its lock, and what it knows stays true, while others go on.
LEMMA LockStays ==
  ASSUME DirectoryType, DirectoryType', NEW r \in Requests, Locked(r), requests'[r] = requests[r],
         \A x \in Entries : state[x] # "NEW" => state'[x] # "NEW",
         r \in Writing => \A q \in Writing' : requests'[q].owner = requests[r].owner => q = r,
         requests[r].at \in {"CLEARED", "ADDED"} =>
           LinksOf(requests[r].owner)' = LinksOf(requests[r].owner),
         requests[r].at = "ADDED" /\ requests[r].added # {} =>
           requests[r].want \cup {requests[r].owner} \subseteq There'
  PROVE  Locked(r)'
<1>1. requests[r] # Idle => requests[r].owner \in Entries
  BY DEF DirectoryType, Known
<1>2. r \in Writing' <=> r \in Writing
  BY DEF Writing
<1>3. QED
  BY <1>1, <1>2 DEF Locked, Links

\* So a step that is no request's own leaves all locks, if it changes no links of
\* an owner that is held, and no row.
LEMMA LocksStay ==
  ASSUME DirectoryType, DirectoryType', LockInv, requests' = requests,
         \A x \in Entries : state[x] # "NEW" => state'[x] # "NEW",
         There \subseteq There',
         \A r \in Writing : \A l : l[1] = requests[r].owner => (l \in links' <=> l \in links)
  PROVE  LockInv'
<1> SUFFICES ASSUME NEW r \in Requests PROVE Locked(r)'
  BY DEF LockInv
<1>1. Writing' = Writing
  BY DEF Writing
<1>2. requests[r].at \in {"CLEARED", "ADDED"} => r \in Writing
  BY DEF Writing
<1>3. requests[r].at \in {"CLEARED", "ADDED"} =>
        {l \in links' : l[1] = requests[r].owner} = {l \in links : l[1] = requests[r].owner}
  BY <1>2
<1>4. requests[r].at \in {"CLEARED", "ADDED"} =>
        LinksOf(requests[r].owner)' = LinksOf(requests[r].owner)
  BY <1>3 DEF LinksOf
<1>5. Locked(r)
  BY DEF LockInv
<1>6. QED
  BY <1>1, <1>4, <1>5, LockStays DEF Locked

\* A row that vanishes is not held: the links of the owners that are stay.
LEMMA VanishKeeps ==
  ASSUME DirectoryType, DirectoryType', LockInv, NEW x \in Entries, ~Held(x),
         state[x] # "NEW", Vanish(x), NEW r \in Requests, requests'[r] = requests[r],
         Writing' \subseteq Writing, \A q \in Writing' : requests'[q] = requests[q]
  PROVE  Locked(r)'
<1>1. Locked(r)
  BY DEF LockInv
<1>2. \A y \in Entries : state[y] # "NEW" => state'[y] # "NEW"
  BY DEF Vanish, DirectoryType
<1>3. There' = There \ {x}
  BY DEF Vanish, There, DirectoryType
<1>4. r \in Writing => \A q \in Writing' : requests'[q].owner = requests[r].owner => q = r
  BY <1>1 DEF Locked
<1>5. ASSUME requests[r].at \in {"CLEARED", "ADDED"}
      PROVE  LinksOf(requests[r].owner)' = LinksOf(requests[r].owner)
  <2>1. r \in Writing /\ requests[r].gone = LinksOf(requests[r].owner)
    BY <1>1, <1>5 DEF Writing, Locked
  <2>2. requests[r].owner # x /\ \A l \in LinksOf(requests[r].owner) : l[2] # x
    BY <2>1 DEF Held
  <2>3. {l \in links' : l[1] = requests[r].owner} = {l \in links : l[1] = requests[r].owner}
    BY <2>2 DEF Vanish, LinksOf
  <2>4. QED
    BY <2>3 DEF LinksOf
<1>6. ASSUME requests[r].at = "ADDED", requests[r].added # {}
      PROVE  requests[r].want \cup {requests[r].owner} \subseteq There'
  <2>1. /\ r \in Writing /\ requests[r].owner \in Owners /\ requests[r].want \in SUBSET Groups
        /\ requests[r].added = Links(requests[r].owner, requests[r].want)
        /\ requests[r].want \cup {requests[r].owner} \subseteq There
    BY <1>1, <1>6 DEF Writing, Locked, DirectoryType, Known, Idle
  <2>2. requests[r].owner # x /\ \A l \in requests[r].added : l[2] # x
    BY <2>1 DEF Held
  <2>3. \A g \in requests[r].want :
          g # requests[r].owner => <<requests[r].owner, g>> \in requests[r].added
    BY <2>1, LinksAre
  <2>4. x \notin requests[r].want
    BY <2>2, <2>3
  <2>5. QED
    BY <1>3, <2>1, <2>2, <2>4
<1>7. QED
  BY <1>1, <1>2, <1>4, <1>5, <1>6, LockStays

\* A request takes a step of its own, and the others keep what they have.
LEMMA OthersKeep ==
  ASSUME DirectoryType, DirectoryType', LockInv, NEW r \in Requests, NEW q \in Requests \ {r},
         requests'[q] = requests[q], state' = state,
         \A p \in Writing' \ {r} : p \in Writing /\ requests'[p] = requests[p],
         r \in Writing' /\ q \in Writing => requests'[r].owner # requests[q].owner,
         q \in Writing => \A l : l[1] = requests[q].owner => (l \in links' <=> l \in links)
  PROVE  Locked(q)'
<1>1. Locked(q)
  BY DEF LockInv
<1>2. q \in Writing => \A p \in Writing' : requests'[p].owner = requests[q].owner => p = q
  BY <1>1 DEF Locked
<1>3. requests[q].at \in {"CLEARED", "ADDED"} => q \in Writing
  BY DEF Writing
<1>4. requests[q].at \in {"CLEARED", "ADDED"} =>
        {l \in links' : l[1] = requests[q].owner} = {l \in links : l[1] = requests[q].owner}
  BY <1>3
<1>5. requests[q].at \in {"CLEARED", "ADDED"} =>
        LinksOf(requests[q].owner)' = LinksOf(requests[q].owner)
  BY <1>4 DEF LinksOf
<1>6. There' = There
  BY DEF There
<1>7. QED
  BY <1>1, <1>2, <1>5, <1>6, LockStays DEF Locked

\* The locks, in every step.
LEMMA LockNext == DirectoryType /\ LockInv /\ [DirectoryNext]_directoryVars => LockInv'
<1> SUFFICES ASSUME DirectoryType, LockInv, [DirectoryNext]_directoryVars PROVE LockInv'
  OBVIOUS
<1>a. DirectoryType'
  BY DirectoryTypeNext
<1>b. /\ \A r \in Requests : requests[r] \in Known \cup {Idle}
      /\ \A r \in Requests : requests[r].at # "IDLE" => requests[r] \in Known
  BY DEF DirectoryType, Idle
<1>c. \A r \in Writing : r \in Requests /\ requests[r] \in Known /\ requests[r].owner \in Owners
                         /\ state[requests[r].owner] # "NEW"
  BY <1>b DEF LockInv, Locked, Writing, Known, Idle
<1>1. CASE UNCHANGED <<state, links, requests>>
  BY <1>1, <1>a, LocksStay DEF There
<1>2. ASSUME NEW o \in Owners, NEW want \in SUBSET Groups, Create(o, want) PROVE LockInv'
  <2>1. /\ o \in Entries /\ state[o] = "NEW" /\ state' = [state EXCEPT ![o] = "THERE"]
        /\ links' = links \cup Links(o, want) /\ requests' = requests
    BY <1>2, Kinds DEF Create
  <2>2. \A x \in Entries : state[x] # "NEW" => state'[x] # "NEW"
    BY <2>1 DEF DirectoryType
  <2>3. There \subseteq There'
    BY <2>1 DEF There, DirectoryType
  <2>4. \A l \in Links(o, want) : l[1] = o
    BY DEF Links
  <2>5. \A r \in Writing : \A l : l[1] = requests[r].owner => (l \in links' <=> l \in links)
    BY <1>c, <2>1, <2>4
  <2>6. QED
    BY <1>a, <2>1, <2>2, <2>3, <2>5, LocksStay
<1>3. ASSUME NEW g \in Locals, CreateLocal(g) PROVE LockInv'
  <2>1. /\ g \in Entries /\ state' = [state EXCEPT ![g] = "THERE"]
        /\ links' = links /\ requests' = requests
    BY <1>3, Kinds DEF CreateLocal
  <2>2. \A x \in Entries : state[x] # "NEW" => state'[x] # "NEW"
    BY <2>1 DEF DirectoryType
  <2>3. There \subseteq There'
    BY <2>1 DEF There, DirectoryType
  <2>4. QED
    BY <1>a, <2>1, <2>2, <2>3, LocksStay
<1>4. ASSUME NEW o \in Owners, NEW want \in SUBSET Groups, NEW r \in Requests, Patch(r, o, want)
      PROVE  LockInv'
  <2> DEFINE n == [at |-> "READ", owner |-> o, want |-> want, gone |-> {}, added |-> {}]
  <2>1. /\ requests' = [requests EXCEPT ![r] = n]
        /\ UNCHANGED <<state, links>> /\ state[o] = "THERE"
    BY <1>4 DEF Patch
  <2>2. n.at = "READ" /\ n.owner = o
    OBVIOUS
  <2> HIDE DEF n
  <2>3. /\ Writing' \subseteq Requests \ {r}
        /\ \A q \in Writing' : q \in Writing /\ requests'[q] = requests[q]
    BY <2>1, <2>2 DEF Writing, DirectoryType
  <2>4. ASSUME NEW q \in Requests \ {r} PROVE Locked(q)'
    BY <1>a, <2>1, <2>3, OthersKeep DEF DirectoryType
  <2>5. Locked(r)'
    BY <2>1, <2>2, <2>3 DEF Locked, DirectoryType
  <2>6. QED
    BY <2>4, <2>5 DEF LockInv
<1>5. ASSUME NEW r \in Requests, Lock(r) PROVE LockInv'
  <2> DEFINE n == [requests[r] EXCEPT !.at = "LOCKED"]
  <2>1. /\ requests' = [requests EXCEPT ![r] = n] /\ UNCHANGED <<state, links>>
        /\ requests[r].at = "READ" /\ LockFree(requests[r].owner) /\ requests[r] \in Known
    BY <1>5, <1>b DEF Lock, DirectoryType
  <2>2. n.at = "LOCKED" /\ n.owner = requests[r].owner /\ requests[r].owner \in Owners
        /\ state[requests[r].owner] # "NEW"
    BY <2>1 DEF Known, LockInv, Locked, Idle
  <2> HIDE DEF n
  <2>3. \A q \in Writing' \ {r} : q \in Writing /\ requests'[q] = requests[q]
    BY <2>1, <2>2 DEF Writing, DirectoryType
  <2>4. ASSUME NEW q \in Requests \ {r} PROVE Locked(q)'
    BY <1>a, <2>1, <2>2, <2>3, OthersKeep DEF DirectoryType, LockFree
  <2>5. requests'[r] = n
    BY <2>1 DEF DirectoryType
  <2>6. Locked(r)'
    BY <2>1, <2>2, <2>3, <2>5 DEF Locked, LockFree
  <2>7. QED
    BY <2>4, <2>6 DEF LockInv
<1>6. ASSUME NEW r \in Requests, Clear(r) PROVE LockInv'
  <2> DEFINE gone == LinksOf(requests[r].owner)
             n == [requests[r] EXCEPT !.at = "CLEARED", !.gone = gone]
  <2>1. /\ requests' = [requests EXCEPT ![r] = n] /\ UNCHANGED <<state, links>>
        /\ requests[r].at = "LOCKED" /\ requests[r] \in Known /\ r \in Writing
    BY <1>6, <1>b DEF Clear, DirectoryType, Writing
  <2>3. /\ n.at = "CLEARED" /\ n.owner = requests[r].owner /\ n.gone = LinksOf(requests[r].owner)
        /\ Locked(r)
    BY <2>1 DEF Known, LockInv
  <2> HIDE DEF n
  <2>4. requests'[r] = n
    BY <2>1 DEF DirectoryType
  <2>5. Writing' = Writing /\ \A q \in Writing' \ {r} : q \in Writing /\ requests'[q] = requests[q]
    BY <2>1, <2>3 DEF Writing, DirectoryType
  <2>6. ASSUME NEW q \in Requests \ {r} PROVE Locked(q)'
    <3>1. q \in Writing => n.owner # requests[q].owner
      BY <2>1, <2>3 DEF Locked
    <3>2. QED
      BY <1>a, <2>1, <2>4, <2>5, <3>1, OthersKeep DEF DirectoryType
  <2>7. LinksOf(requests[r].owner)' = requests'[r].gone
    BY <2>1, <2>3, <2>4 DEF LinksOf
  <2>8. Locked(r)'
    BY <2>1, <2>3, <2>4, <2>5, <2>7 DEF Locked, Idle
  <2>9. QED
    BY <2>6, <2>8 DEF LockInv
<1>7. ASSUME NEW r \in Requests, Add(r) PROVE LockInv'
  <2> DEFINE new == Links(requests[r].owner, requests[r].want)
             n == [requests[r] EXCEPT !.at = "ADDED", !.added = new]
  <2>1. /\ UNCHANGED <<state, links>> /\ requests[r].at = "CLEARED" /\ requests[r] \in Known
        /\ r \in Writing /\ Locked(r)
        /\ \/ /\ requests' = [requests EXCEPT ![r] = n]
              /\ new = {} \/ requests[r].want \cup {requests[r].owner} \subseteq There
           \/ requests' = [requests EXCEPT ![r] = Idle]
    BY <1>7, <1>b DEF Add, DirectoryType, Writing, LockInv
  <2>2. /\ n.at = "ADDED" /\ n.owner = requests[r].owner /\ n.gone = requests[r].gone
        /\ n.want = requests[r].want /\ n.added = new
    BY <2>1 DEF Known
  <2> HIDE DEF n
  <2>3. \A q \in Writing' \ {r} : q \in Writing /\ requests'[q] = requests[q]
    BY <2>1 DEF Writing, DirectoryType
  <2>4. requests'[r] \in {n, Idle}
    BY <2>1 DEF DirectoryType
  <2>5. ASSUME NEW q \in Requests \ {r} PROVE Locked(q)'
    <3>1. q \in Writing => requests[r].owner # requests[q].owner
      BY <2>1 DEF Locked
    <3>2. r \in Writing' => requests'[r].owner = requests[r].owner
      BY <2>2, <2>4 DEF Writing, Idle
    <3>3. requests'[q] = requests[q]
      BY <2>1 DEF DirectoryType
    <3>4. QED
      BY <1>a, <2>1, <2>3, <3>1, <3>2, <3>3, OthersKeep
  <2>6. CASE requests' = [requests EXCEPT ![r] = Idle]
    <3>1. Locked(r)'
      BY <2>6 DEF Locked, DirectoryType, Idle, Writing
    <3>2. QED
      BY <2>5, <3>1 DEF LockInv
  <2>7. CASE /\ requests' = [requests EXCEPT ![r] = n]
             /\ new = {} \/ requests[r].want \cup {requests[r].owner} \subseteq There
    <3>1. requests'[r] = n
      BY <2>7 DEF DirectoryType
    <3>2. There' = There /\ LinksOf(requests[r].owner)' = requests'[r].gone
      BY <2>1, <2>2, <3>1 DEF There, LinksOf, Locked
    <3>a. Links(requests[r].owner, requests[r].want)' = new
      BY <2>2, <3>1 DEF Links
    <3>3. \A q \in Writing' : requests'[q].owner = requests'[r].owner => q = r
      BY <2>1, <2>2, <2>3, <3>1 DEF Locked
    <3>4. Locked(r)'
      BY <2>1, <2>2, <2>7, <3>1, <3>2, <3>3, <3>a DEF Locked, Idle
    <3>5. QED
      BY <2>5, <3>4 DEF LockInv
  <2>8. QED
    BY <2>1, <2>6, <2>7
<1>8. ASSUME NEW r \in Requests, Commit(r) PROVE LockInv'
  <2>1. /\ state' = state /\ requests[r].at = "ADDED" /\ requests[r] \in Known
        /\ r \in Writing /\ Locked(r) /\ requests' = [requests EXCEPT ![r] = Idle]
        /\ links' = (links \ requests[r].gone) \cup requests[r].added
    BY <1>8, <1>b DEF Commit, Writing, LockInv
  <2>2. \A l \in requests[r].gone \cup requests[r].added : l[1] = requests[r].owner
    BY <2>1 DEF Locked, LinksOf, Links
  <2>3. /\ \A q \in Writing' \ {r} : q \in Writing /\ requests'[q] = requests[q]
        /\ r \notin Writing' /\ requests'[r] = Idle
    BY <2>1 DEF Writing, DirectoryType, Idle
  <2>4. ASSUME NEW q \in Requests \ {r} PROVE Locked(q)'
    <3>1. q \in Writing => requests[r].owner # requests[q].owner
      BY <2>1 DEF Locked
    <3>2. q \in Writing => \A l : l[1] = requests[q].owner => (l \in links' <=> l \in links)
      BY <2>1, <2>2, <3>1
    <3>3. requests'[q] = requests[q]
      BY <2>1 DEF DirectoryType
    <3>4. QED
      BY <1>a, <2>1, <2>3, <3>2, <3>3, OthersKeep
  <2>5. Locked(r)'
    BY <2>3 DEF Locked, Idle
  <2>6. QED
    BY <2>4, <2>5 DEF LockInv
<1>9. ASSUME NEW r \in Requests, DeleteGroup(r) PROVE LockInv'
  <2>1. /\ requests[r].at = "CHECKED" /\ requests[r] \in Known /\ ~Held(requests[r].owner)
        /\ requests' = [requests EXCEPT ![r] = Idle] /\ requests[r].owner \in Entries
    BY <1>9, <1>b DEF DeleteGroup, Known
  <2>2. /\ \A q \in Writing' : q \in Writing /\ requests'[q] = requests[q]
        /\ r \notin Writing' /\ requests'[r] = Idle
        /\ \A q \in Requests \ {r} : requests'[q] = requests[q]
    BY <2>1 DEF Writing, DirectoryType, Idle
  <2>3. ASSUME NEW q \in Requests \ {r} PROVE Locked(q)'
    <3>1. CASE state[requests[r].owner] = "THERE"
      <4>1. Vanish(requests[r].owner)
        BY <1>9, <3>1 DEF DeleteGroup
      <4>2. QED
        BY <1>a, <2>1, <2>2, <3>1, <4>1, VanishKeeps
    <3>2. CASE state[requests[r].owner] # "THERE"
      <4>1. UNCHANGED <<state, links>>
        BY <1>9, <3>2 DEF DeleteGroup
      <4>2. QED
        BY <1>a, <2>2, <4>1, OthersKeep
    <3>3. QED
      BY <3>1, <3>2
  <2>4. Locked(r)'
    BY <2>2 DEF Locked, Idle
  <2>5. QED
    BY <2>3, <2>4 DEF LockInv
<1>10. ASSUME NEW r \in Requests, NEW g \in Groups, CheckGroup(r, g) PROVE LockInv'
  <2> DEFINE n == [at |-> "CHECKED", owner |-> g, want |-> {}, gone |-> {}, added |-> {}]
  <2>1. /\ requests' = [requests EXCEPT ![r] = n]
        /\ UNCHANGED <<state, links>> /\ state[g] = "THERE"
    BY <1>10 DEF CheckGroup
  <2>2. n.at = "CHECKED" /\ n.owner = g
    OBVIOUS
  <2> HIDE DEF n
  <2>3. /\ Writing' \subseteq Requests \ {r}
        /\ \A q \in Writing' : q \in Writing /\ requests'[q] = requests[q]
    BY <2>1, <2>2 DEF Writing, DirectoryType
  <2>4. ASSUME NEW q \in Requests \ {r} PROVE Locked(q)'
    BY <1>a, <2>1, <2>3, OthersKeep DEF DirectoryType
  <2>5. Locked(r)'
    BY <2>1, <2>2, <2>3 DEF Locked, DirectoryType
  <2>6. QED
    BY <2>4, <2>5 DEF LockInv
<1>11. ASSUME NEW u \in Users, DeleteUser(u) PROVE LockInv'
  <2>1. u \in Entries /\ ~Held(u) /\ state[u] # "NEW" /\ Vanish(u) /\ requests' = requests
    BY <1>11, Kinds DEF DeleteUser
  <2>2. Writing' = Writing
    BY <2>1 DEF Writing
  <2>3. QED
    BY <1>a, <2>1, <2>2, VanishKeeps DEF LockInv
<1>12. CASE \/ UNCHANGED directoryVars \/ (\E u \in Users : SetStatus(u))
            \/ (\E groups \in SUBSET Groups \ {{}} : SetRule(groups))
  BY <1>1, <1>12 DEF directoryVars, SetStatus, SetRule
<1>13. QED
  BY <1>2, <1>3, <1>4, <1>5, <1>6, <1>7, <1>8, <1>9, <1>10, <1>11, <1>12 DEF DirectoryNext

-----------------------------------------------------------------------------
(* Members.                                                                *)

\* What a row that vanishes leaves behind: neither links nor members.
LEMMA VanishLinked ==
  ASSUME DirectoryType, AskedInv, Linked, NEW x \in Entries, Vanish(x), asked' = asked
  PROVE  AskedInv' /\ Linked'
<1>1. /\ state'[x] = "GONE" /\ \A y \in Entries \ {x} : state'[y] = state[y]
  BY DEF Vanish, DirectoryType
<1>2. \A o, g : <<o, g>> \in links' <=> <<o, g>> \in links /\ o # x /\ g # x
  BY DEF Vanish
<1>3. AskedInv'
  BY <1>1, Kinds DEF AskedInv, DirectoryType
<1>4. Linked'
  BY <1>1, <1>2, Kinds DEF Linked
<1>5. QED
  BY <1>3, <1>4

\* The members, and who was asked for, in every step.
LEMMA MembersNext ==
  DirectoryType /\ LockInv /\ AskedInv /\ Linked /\ [DirectoryNext]_directoryVars =>
    AskedInv' /\ Linked'
<1> SUFFICES ASSUME DirectoryType, LockInv, AskedInv, Linked, [DirectoryNext]_directoryVars
             PROVE  AskedInv' /\ Linked'
  OBVIOUS
<1>1. CASE UNCHANGED <<state, links, asked>>
  BY <1>1 DEF AskedInv, Linked
<1>2. ASSUME NEW o \in Owners, NEW want \in SUBSET Groups, Create(o, want)
      PROVE  AskedInv' /\ Linked'
  <2>1. /\ o \in Entries /\ state[o] = "NEW" /\ want \subseteq There
        /\ links' = links \cup Links(o, want)
        /\ state'[o] = "THERE" /\ \A y \in Entries \ {o} : state'[y] = state[y]
        /\ asked'[o] = want /\ \A p \in Owners \ {o} : asked'[p] = asked[p]
    BY <1>2, Kinds DEF Create, DirectoryType
  <2>2. \A g \in want : state[g] = "THERE" /\ state'[g] = "THERE" /\ g \in Groups
    BY <2>1 DEF There
  <2>3. \A p, g : <<p, g>> \in links' <=> <<p, g>> \in links \/ (p = o /\ g \in want /\ g # o)
    <3>1. \A p, g : <<p, g>> \in Links(o, want) <=> p = o /\ g \in want /\ g # o
      BY LinksAre
    <3>2. QED
      BY <2>1, <3>1
  <2>4. ASSUME NEW p \in Owners \ {o}, NEW g \in asked[p] \ {p} PROVE g # o /\ g \in Entries
    BY <2>1, Kinds DEF AskedInv, DirectoryType
  <2>5. AskedInv'
    BY <2>1, <2>2, <2>4 DEF AskedInv
  <2>6. ASSUME NEW p \in Owners, NEW g \in Groups
        PROVE  <<p, g>> \in links' <=>
                 state'[p] = "THERE" /\ g \in asked'[p] /\ g # p /\ state'[g] = "THERE"
    <3>1. CASE p = o
      <4>1. <<p, g>> \notin links
        BY <2>1, <3>1 DEF Linked
      <4>2. QED
        BY <2>1, <2>2, <2>3, <3>1, <4>1
    <3>2. CASE p # o /\ g = o
      BY <2>1, <2>3, <2>4, <3>2 DEF Linked
    <3>3. CASE p # o /\ g # o
      BY <2>1, <2>3, <3>3, Kinds DEF Linked
    <3>4. QED
      BY <3>1, <3>2, <3>3
  <2>7. QED
    BY <2>5, <2>6 DEF Linked
<1>3. ASSUME NEW h \in Locals, CreateLocal(h) PROVE AskedInv' /\ Linked'
  <2>1. /\ h \in Entries /\ h \notin Owners /\ state[h] = "NEW" /\ links' = links /\ asked' = asked
        /\ state'[h] = "THERE" /\ \A y \in Entries \ {h} : state'[y] = state[y]
    BY <1>3, Kinds DEF CreateLocal, DirectoryType
  <2>2. \A p \in Owners : h \notin asked[p]
    BY <2>1 DEF AskedInv
  <2>3. AskedInv'
    BY <2>1, <2>2, Kinds DEF AskedInv, DirectoryType
  <2>4. ASSUME NEW p \in Owners, NEW g \in Groups
        PROVE  <<p, g>> \in links' <=>
                 state'[p] = "THERE" /\ g \in asked'[p] /\ g # p /\ state'[g] = "THERE"
    <3>1. p # h /\ p \in Entries /\ g \in Entries
      BY <2>1, Kinds
    <3>2. CASE g = h
      BY <2>1, <2>2, <3>2 DEF Linked
    <3>3. CASE g # h
      BY <2>1, <3>1, <3>3 DEF Linked
    <3>4. QED
      BY <3>2, <3>3
  <2>5. QED
    BY <2>3, <2>4 DEF Linked
<1>4. ASSUME NEW r \in Requests, Commit(r) PROVE AskedInv' /\ Linked'
  <2> DEFINE o == requests[r].owner
             want == requests[r].want
  <2>1. /\ o \in Owners /\ want \in SUBSET Groups /\ requests[r].gone = LinksOf(o)
        /\ requests[r].added = Links(o, want)
        /\ Links(o, want) = {} \/ want \cup {o} \subseteq There
    BY <1>4 DEF Commit, LockInv, Locked, Writing, DirectoryType, Known, Idle
  <2>2. /\ state' = state /\ asked' = [asked EXCEPT ![o] = want]
        /\ links' = (links \ LinksOf(o)) \cup Links(o, want)
    BY <1>4, <2>1 DEF Commit
  <2> HIDE DEF o, want
  <2>3. asked'[o] = want /\ \A p \in Owners \ {o} : asked'[p] = asked[p]
    BY <2>1, <2>2 DEF DirectoryType
  <2>4. \A p, g : <<p, g>> \in links' <=>
                    IF p = o THEN g \in want /\ g # o ELSE <<p, g>> \in links
    <3>1. \A p, g : <<p, g>> \in Links(o, want) <=> p = o /\ g \in want /\ g # o
      BY <2>1, LinksAre
    <3>2. \A p, g : <<p, g>> \in LinksOf(o) <=> <<p, g>> \in links /\ p = o
      BY LinksOfAre
    <3>3. QED
      BY <2>2, <3>1, <3>2
  <2>5. want \subseteq {o} \/ want \cup {o} \subseteq There
    BY <2>1, LinksAre
  <2>6. \A g \in want \ {o} : state[g] = "THERE" /\ state[o] = "THERE"
    BY <2>5 DEF There
  <2>7. AskedInv'
    BY <2>2, <2>3, <2>6 DEF AskedInv
  <2>8. Linked'
    BY <2>2, <2>3, <2>4, <2>6 DEF Linked
  <2>9. QED
    BY <2>7, <2>8
<1>5. ASSUME NEW r \in Requests, DeleteGroup(r) PROVE AskedInv' /\ Linked'
  <2>1. asked' = asked /\ requests[r].owner \in Entries
    BY <1>5 DEF DeleteGroup, DirectoryType, Known, Idle
  <2>2. Vanish(requests[r].owner) \/ UNCHANGED <<state, links>>
    BY <1>5 DEF DeleteGroup
  <2>3. QED
    BY <1>1, <2>1, <2>2, VanishLinked
<1>6. ASSUME NEW u \in Users, DeleteUser(u) PROVE AskedInv' /\ Linked'
  BY <1>6, Kinds, VanishLinked DEF DeleteUser
<1>7. \/ UNCHANGED <<state, links, asked>>
      \/ \E o \in Owners, want \in SUBSET Groups : Create(o, want)
      \/ \E h \in Locals : CreateLocal(h)
      \/ \E r \in Requests : Commit(r) \/ DeleteGroup(r)
      \/ \E u \in Users : DeleteUser(u)
  BY DEF DirectoryNext, directoryVars, Patch, Lock, Clear, Add, CheckGroup, SetStatus, SetRule
<1>8. QED
  BY <1>1, <1>2, <1>3, <1>4, <1>5, <1>6, <1>7

\* The invariant at the start,
LEMMA DirectoryInitInv == DirectoryInit => DirectoryInv
<1> SUFFICES ASSUME DirectoryInit PROVE DirectoryInv
  OBVIOUS
<1>1. DirectoryType
  BY DEF DirectoryInit, DirectoryType
<1>2. \A r \in Requests : requests[r] = Idle
  BY DEF DirectoryInit
<1>3. LockInv
  BY <1>2 DEF LockInv, Locked, Writing, Idle
<1>4. AskedInv
  BY DEF DirectoryInit, AskedInv
<1>5. Linked
  BY Kinds DEF DirectoryInit, Linked
<1>6. QED
  BY <1>1, <1>3, <1>4, <1>5, LinkedMembers DEF DirectoryInv

\* and in every step.
LEMMA DirectoryNextInv == DirectoryInv /\ [DirectoryNext]_directoryVars => DirectoryInv'
<1> SUFFICES ASSUME DirectoryInv, [DirectoryNext]_directoryVars PROVE DirectoryInv'
  OBVIOUS
<1>1. DirectoryType /\ LockInv /\ AskedInv /\ Linked
  BY LinkedMembers DEF DirectoryInv
<1>2. DirectoryType' /\ LockInv' /\ AskedInv' /\ Linked'
  BY <1>1, DirectoryTypeNext, LockNext, MembersNext
<1>3. MembersAreOneRequests'
  BY <1>2, LinkedMembersNext
<1>4. QED
  BY <1>2, <1>3 DEF DirectoryInv

\* The members of a user or group are those one request gave it, but for groups
\* that have gone, whatever requests run at once and in whichever order their
\* statements fall.
THEOREM OneRequestWins == DirectorySpec => []MembersAreOneRequests
<1>1. DirectoryInv => MembersAreOneRequests
  BY DEF DirectoryInv
<1>2. QED
  BY <1>1, DirectoryInitInv, DirectoryNextInv, PTL DEF DirectorySpec

-----------------------------------------------------------------------------
(* Numbers and sequences.                                                  *)

\* A set of numbers that has 0 and the successor of each of its members has all
\* of them: induction, for a set.
LEMMA EveryNumber ==
  ASSUME NEW S, 0 \in S, \A n \in Nat : n \in S => n + 1 \in S
  PROVE  \A n \in Nat : n \in S
<1> SUFFICES ASSUME NEW k \in Nat, k \notin S PROVE FALSE
  OBVIOUS
<1> DEFINE Below(n) == (Nat \ S) \cap (0..n)
           T == {Below(n) : n \in Nat \ S}
<1>1. T \subseteq FiniteSubsetsOf(Nat) /\ T # {}
  <2>1. \A n \in Nat : IsFiniteSet(0..n)
    BY FS_Interval
  <2>2. \A n \in Nat : IsFiniteSet(Below(n))
    BY <2>1, FS_Intersection
  <2>3. QED
    BY <2>2 DEF FiniteSubsetsOf
<1>2. PICK X \in T : \A Y \in T : <<Y, X>> \notin StrictSubsetOrdering(Nat)
  BY <1>1, FS_StrictSubsetOrderingWellFounded, WFMin
<1>3. PICK m \in Nat \ S : X = Below(m)
  BY <1>2
<1>4. m # 0 /\ m - 1 \in Nat /\ m - 1 \notin S
  <2>1. m # 0
    OBVIOUS
  <2>2. m - 1 \in Nat /\ (m - 1) + 1 = m
    BY <2>1
  <2>3. QED
    BY <2>1, <2>2
<1>5. <<Below(m - 1), X>> \in StrictSubsetOrdering(Nat)
  <2>1. Below(m - 1) \subseteq X /\ m \in X /\ m \notin Below(m - 1)
    BY <1>3, <1>4
  <2>2. QED
    BY <1>3, <2>1 DEF StrictSubsetOrdering
<1>6. QED
  BY <1>2, <1>4, <1>5

\* A value for 0 and a function from each value to the next make a sequence.
LEMMA Iteration ==
  ASSUME NEW V, NEW a \in V, NEW F \in [V -> V]
  PROVE  \E f \in [Nat -> V] : f[0] = a /\ \A n \in Nat : f[n + 1] = F[f[n]]
<1> DEFINE Part(n) == {h \in [0..n -> V] : h[0] = a /\ \A i \in 0..(n - 1) : h[i + 1] = F[h[i]]}
<1>1. \A n \in Nat : Part(n) # {}
  <2> DEFINE S == {n \in Nat : Part(n) # {}}
  <2>1. 0 \in S
    <3>1. [i \in 0..0 |-> a] \in Part(0)
      OBVIOUS
    <3>2. QED
      BY <3>1
  <2>2. ASSUME NEW n \in Nat, n \in S PROVE n + 1 \in S
    <3>1. PICK h \in Part(n) : TRUE
      BY <2>2
    <3> DEFINE k == [i \in 0..(n + 1) |-> IF i = n + 1 THEN F[h[n]] ELSE h[i]]
    <3>2. h \in [0..n -> V] /\ h[0] = a /\ \A i \in 0..(n - 1) : h[i + 1] = F[h[i]]
      OBVIOUS
    <3>3. k \in [0..(n + 1) -> V]
      BY <3>2
    <3>4. k[0] = a
      BY <3>2
    <3>5. \A i \in 0..((n + 1) - 1) : k[i + 1] = F[k[i]]
      BY <3>2
    <3>6. k \in Part(n + 1) /\ n + 1 \in Nat
      BY <3>3, <3>4, <3>5
    <3> HIDE DEF k, Part
    <3>7. QED
      BY <3>6
  <2> HIDE DEF S
  <2>3. \A n \in Nat : n \in S
    BY <2>1, <2>2, EveryNumber
  <2>4. QED
    BY <2>3 DEF S
<1>2. ASSUME NEW n \in Nat, NEW h \in Part(n + 1) PROVE [i \in 0..n |-> h[i]] \in Part(n)
  OBVIOUS
<1>3. \A n \in Nat : \A h, k \in Part(n) : h[n] = k[n]
  <2> DEFINE S == {n \in Nat : \A h, k \in Part(n) : h[n] = k[n]}
  <2>1. 0 \in S
    OBVIOUS
  <2>2. ASSUME NEW n \in Nat, n \in S PROVE n + 1 \in S
    <3> SUFFICES ASSUME NEW h \in Part(n + 1), NEW k \in Part(n + 1) PROVE h[n + 1] = k[n + 1]
      OBVIOUS
    <3> DEFINE hn == [i \in 0..n |-> h[i]]
               kn == [i \in 0..n |-> k[i]]
    <3>1. hn \in Part(n) /\ kn \in Part(n) /\ hn[n] = h[n] /\ kn[n] = k[n]
      BY <1>2
    <3>2. h[n] = k[n]
      <4> HIDE DEF hn, kn, Part
      <4>1. QED
        BY <2>2, <3>1
    <3>3. h[n + 1] = F[h[n]] /\ k[n + 1] = F[k[n]]
      OBVIOUS
    <3>4. QED
      BY <3>2, <3>3
  <2> HIDE DEF S
  <2>3. \A n \in Nat : n \in S
    BY <2>1, <2>2, EveryNumber
  <2>4. QED
    BY <2>3 DEF S
<1> DEFINE some(n) == CHOOSE h : h \in Part(n)
           f == [n \in Nat |-> some(n)[n]]
<1>4. \A n \in Nat : some(n) \in Part(n)
  BY <1>1
<1> HIDE DEF some
<1>5. f \in [Nat -> V] /\ f[0] = a
  <2>1. \A n \in Nat : some(n)[n] \in V
    BY <1>4
  <2>2. QED
    BY <1>4, <2>1
<1>6. ASSUME NEW n \in Nat PROVE f[n + 1] = F[f[n]]
  <2> DEFINE h == some(n + 1)
  <2>1. h \in Part(n + 1)
    BY <1>4
  <2> HIDE DEF h
  <2>2. h[n + 1] = F[h[n]]
    BY <2>1
  <2>3. h[n] = some(n)[n]
    <3>1. [i \in 0..n |-> h[i]] \in Part(n)
      BY <1>2, <2>1
    <3>2. [i \in 0..n |-> h[i]][n] = some(n)[n]
      BY <1>3, <1>4, <3>1
    <3>3. QED
      BY <3>2
  <2>4. QED
    BY <2>2, <2>3 DEF h
<1>7. QED
  BY <1>5, <1>6

-----------------------------------------------------------------------------
(* Whom a rule is about.                                                   *)

\* The groups met after so many links, and those met at each depth.
Step(reached) == reached \cup UNION {MembersOf(g) : g \in reached \cap Logicals}
After(g) == CHOOSE f : f = [n \in Nat |-> IF n = 0 THEN {g} \cap There ELSE Step(f[n - 1])]
Depths == 0..(DepthLimit + 1)
From ==
  CHOOSE f : f = [depth \in Depths |->
    [g \in Groups |->
       IF g \notin There THEN {}
       ELSE IF g \in Locals THEN {g}
       ELSE IF TooDeep(depth) THEN {}
       ELSE UNION {f[depth + 1][m] : m \in MembersOf(g)}]]

\* The expansion of a group is what is met from it at depth 0.
LEMMA ExpansionIsFrom == Expansion = From[0]
BY Zenon DEF Expansion, From, Depths

\* Members of a logical group are groups that are there.
MembersAreThere == \A g \in Logicals : MembersOf(g) \subseteq Groups \cap There

\* After(g) is what its definition says: a first set, and from each set the next.
LEMMA AfterIs ==
  ASSUME MembersAreThere, NEW g \in Groups
  PROVE  /\ After(g) \in [Nat -> SUBSET Groups]
         /\ After(g)[0] = {g} \cap There
         /\ \A n \in Nat : After(g)[n + 1] = Step(After(g)[n])
<1> DEFINE V == SUBSET Groups
           F == [S \in V |-> Step(S)]
           a == {g} \cap There
           Is(f) == f = [n \in Nat |-> IF n = 0 THEN a ELSE Step(f[n - 1])]
<1>1. F \in [V -> V] /\ a \in V
  BY DEF MembersAreThere, Step
<1>2. PICK h \in [Nat -> V] : h[0] = a /\ \A n \in Nat : h[n + 1] = F[h[n]]
  <2> HIDE DEF V, F, a
  <2>1. QED
    BY <1>1, Iteration
<1>3. Is(h)
  <2>1. h = [n \in Nat |-> h[n]]
    BY <1>2
  <2>2. ASSUME NEW n \in Nat PROVE h[n] = IF n = 0 THEN a ELSE Step(h[n - 1])
    <3>1. CASE n = 0
      BY <1>2, <3>1
    <3>2. CASE n # 0
      <4>1. n - 1 \in Nat /\ (n - 1) + 1 = n
        BY <3>2
      <4>2. h[n - 1] \in V /\ h[n] = F[h[n - 1]]
        BY <1>2, <4>1
      <4>3. QED
        BY <3>2, <4>2
    <3>3. QED
      BY <3>1, <3>2
  <2> HIDE DEF V, F, a
  <2>3. QED
    BY <2>1, <2>2
<1>4. Is(After(g))
  BY <1>3 DEF After
<1> HIDE DEF a
<1>5. After(g)[0] = a /\ \A n \in Nat : After(g)[n + 1] = Step(After(g)[n])
  BY <1>4
<1>6. \A n \in Nat : After(g)[n] \in SUBSET Groups
  <2> DEFINE S == {n \in Nat : After(g)[n] \in SUBSET Groups}
  <2>1. 0 \in S
    BY <1>1, <1>5
  <2>2. ASSUME NEW n \in Nat, n \in S PROVE n + 1 \in S
    BY <1>5, <2>2 DEF Step, MembersAreThere
  <2> HIDE DEF S
  <2>3. \A n \in Nat : n \in S
    BY <2>1, <2>2, EveryNumber
  <2>4. QED
    BY <2>3 DEF S
<1>7. After(g) \in [Nat -> SUBSET Groups]
  BY <1>4, <1>6
<1>8. QED
  BY <1>5, <1>7 DEF a

\* What a group comes to when one more link may be followed.
Layer(e) ==
  [g \in Groups |->
     IF g \notin There THEN {} ELSE IF g \in Locals THEN {g} ELSE UNION {e[m] : m \in MembersOf(g)}]
Deepest ==
  [g \in Groups |-> IF g \notin There THEN {} ELSE IF g \in Locals THEN {g} ELSE {}]

\* From is what its definition says, from the deepest layer upwards.
LEMMA FromIs ==
  ASSUME MembersAreThere
  PROVE  /\ From[DepthLimit + 1] = Deepest
         /\ \A d \in 0..DepthLimit : From[d] = Layer(From[d + 1])
<1> DEFINE V == [Groups -> SUBSET Groups]
           F == [e \in V |-> Layer(e)]
           D == DepthLimit + 1
           Body(f, d) ==
             [g \in Groups |->
                IF g \notin There THEN {}
                ELSE IF g \in Locals THEN {g}
                ELSE IF TooDeep(d) THEN {}
                ELSE UNION {f[d + 1][m] : m \in MembersOf(g)}]
           Is(f) == f = [d \in Depths |-> Body(f, d)]
<1>0. DepthLimit \in Nat /\ Locals \subseteq Groups
  BY DirectoryAssumption DEF Groups
<1>1. \A f : Body(f, D) = Deepest
  BY <1>0 DEF Deepest, TooDeep
<1>2. \A f, d : d \in 0..DepthLimit => Body(f, d) = Layer(f[d + 1])
  <2>1. \A d \in 0..DepthLimit : ~TooDeep(d)
    BY <1>0 DEF TooDeep
  <2>2. QED
    BY <2>1 DEF Layer
<1> HIDE DEF Body
<1>3. Deepest \in V /\ F \in [V -> V]
  <2>1. Deepest \in V
    BY <1>0 DEF Deepest
  <2>2. ASSUME NEW e \in V PROVE Layer(e) \in V
    <3>1. ASSUME NEW g \in Groups, g \notin Locals
          PROVE  UNION {e[m] : m \in MembersOf(g)} \in SUBSET Groups
      BY <2>2, <3>1 DEF MembersAreThere, Groups
    <3>2. QED
      BY <1>0, <3>1 DEF Layer
  <2>3. QED
    BY <2>1, <2>2
<1>4. PICK h \in [Nat -> V] : h[0] = Deepest /\ \A n \in Nat : h[n + 1] = F[h[n]]
  <2> HIDE DEF V, F
  <2>1. QED
    BY <1>3, Iteration
<1>5. \E f : Is(f)
  <2> DEFINE f == [d \in Depths |-> h[D - d]]
  <2>1. ASSUME NEW d \in Depths PROVE f[d] = Body(f, d)
    <3>1. CASE d = D
      BY <1>0, <1>1, <1>4, <3>1 DEF Depths
    <3>2. CASE d # D
      <4>1. /\ d \in 0..DepthLimit /\ d + 1 \in Depths /\ d \in Depths
            /\ D - (d + 1) \in Nat /\ (D - (d + 1)) + 1 = D - d
        BY <1>0, <3>2 DEF Depths
      <4>2. h[D - (d + 1)] \in V /\ h[D - d] = F[h[D - (d + 1)]]
        BY <1>4, <4>1
      <4>3. f[d] = h[D - d] /\ f[d + 1] = h[D - (d + 1)]
        BY <4>1
      <4> HIDE DEF f, V
      <4>4. f[d] = Layer(f[d + 1])
        BY <4>2, <4>3
      <4>5. QED
        BY <1>2, <4>1, <4>4
    <3>3. QED
      BY <3>1, <3>2
  <2>2. f = [d \in Depths |-> f[d]]
    OBVIOUS
  <2> HIDE DEF f
  <2>3. Is(f)
    BY <2>1, <2>2
  <2>4. QED
    BY <2>3
<1>6. Is(From)
  <2>1. From = CHOOSE f : Is(f)
    BY DEF From, Body
  <2> HIDE DEF Is
  <2>2. QED
    BY <1>5, <2>1
<1>7. From[D] = Deepest
  <2>1. D \in Depths
    BY <1>0 DEF Depths
  <2>2. QED
    BY <1>1, <1>6, <2>1
<1>8. ASSUME NEW d \in 0..DepthLimit PROVE From[d] = Layer(From[d + 1])
  <2>1. d \in Depths
    BY <1>0 DEF Depths
  <2>2. From[d] = Body(From, d)
    BY <1>6, <2>1
  <2>3. QED
    BY <1>2, <2>2
<1>9. QED
  BY <1>7, <1>8

\* A group that has gone meets nothing, one of a provider meets itself, and any
\* group that is there is met from the start.
LEMMA AfterKinds ==
  ASSUME MembersAreThere, NEW g \in Groups
  PROVE  \A n \in Nat :
           /\ g \notin There => After(g)[n] = {}
           /\ g \in There => g \in After(g)[n]
           /\ g \in There \cap Locals => After(g)[n] = {g}
<1> DEFINE S == {n \in Nat :
             /\ g \notin There => After(g)[n] = {}
             /\ g \in There => g \in After(g)[n]
             /\ g \in There \cap Locals => After(g)[n] = {g}}
<1>1. 0 \in S
  BY AfterIs
<1>2. ASSUME NEW n \in Nat, n \in S PROVE n + 1 \in S
  <2>1. After(g)[n + 1] = Step(After(g)[n])
    BY AfterIs
  <2>2. Step({}) = {} /\ After(g)[n] \subseteq Step(After(g)[n])
    BY DEF Step
  <2>3. g \in Locals => Step({g}) = {g}
    BY DirectoryAssumption DEF Step
  <2>4. /\ g \notin There => After(g)[n] = {}
        /\ g \in There => g \in After(g)[n]
        /\ g \in There \cap Locals => After(g)[n] = {g}
    BY <1>2
  <2>5. /\ g \notin There => After(g)[n + 1] = {}
        /\ g \in There => g \in After(g)[n + 1]
        /\ g \in There \cap Locals => After(g)[n + 1] = {g}
    BY <2>1, <2>2, <2>3, <2>4
  <2>6. QED
    BY <2>5
<1> HIDE DEF S
<1>3. \A n \in Nat : n \in S
  BY <1>1, <1>2, EveryNumber
<1>4. QED
  BY <1>3 DEF S

\* The first link may be followed before the others or after them.
LEMMA FirstLink ==
  ASSUME MembersAreThere, NEW g \in Logicals, g \in There
  PROVE  \A n \in Nat : After(g)[n + 1] = {g} \cup UNION {After(m)[n] : m \in MembersOf(g)}
<1> DEFINE Met(n) == UNION {After(m)[n] : m \in MembersOf(g)}
           S == {n \in Nat : After(g)[n + 1] = {g} \cup Met(n)}
<1>0. /\ g \in Groups /\ MembersOf(g) \subseteq Groups \cap There
      /\ \A m \in MembersOf(g) : m \in Groups
  BY DEF Groups, MembersAreThere
<1>1. 0 \in S
  <2>1. After(g)[0] = {g} /\ After(g)[0 + 1] = Step(After(g)[0])
    BY <1>0, AfterIs
  <2>2. \A m \in MembersOf(g) : After(m)[0] = {m}
    BY <1>0, AfterIs
  <2>3. Met(0) = MembersOf(g)
    BY <2>2
  <2>4. Step({g}) = {g} \cup MembersOf(g)
    BY DEF Step
  <2>5. QED
    BY <2>1, <2>3, <2>4
<1>2. ASSUME NEW n \in Nat, n \in S PROVE n + 1 \in S
  <2>0. After(g)[n + 1] = {g} \cup Met(n) /\ n + 1 \in Nat
    BY <1>2
  <2>1. After(g)[(n + 1) + 1] = Step({g} \cup Met(n))
    <3> HIDE DEF Met
    <3>1. QED
      BY <1>0, <2>0, AfterIs
  <2>2. \A m \in MembersOf(g) : After(m)[n + 1] = Step(After(m)[n]) /\ m \in After(m)[n]
    BY <1>0, AfterIs, AfterKinds
  <2>3. Met(n + 1) = UNION {Step(After(m)[n]) : m \in MembersOf(g)}
    BY <2>2
  <2>4. Step({g} \cup Met(n)) = {g} \cup MembersOf(g) \cup Step(Met(n))
    BY DEF Step
  <2>5. Step(Met(n)) = UNION {Step(After(m)[n]) : m \in MembersOf(g)}
    BY DEF Step
  <2>6. MembersOf(g) \subseteq Met(n + 1)
    BY <2>2, <2>3 DEF Step
  <2>7. After(g)[(n + 1) + 1] = {g} \cup Met(n + 1)
    <3> HIDE DEF Met
    <3>1. Step(Met(n)) = Met(n + 1)
      BY <2>3, <2>5
    <3>2. QED
      BY <2>1, <2>4, <2>6, <3>1
  <2>8. QED
    BY <2>0, <2>7
<1> HIDE DEF S
<1>3. \A n \in Nat : n \in S
  BY <1>1, <1>2, EveryNumber
<1>4. QED
  BY <1>3 DEF S

\* What the configuration makes of a group is what is met after as many links
\* as it follows.
LEMMA ExpansionReaches ==
  ASSUME MembersAreThere, NEW g \in Groups
  PROVE  Expansion[g] = After(g)[DepthLimit + 1] \cap Locals
<1> DEFINE D == DepthLimit + 1
           S == {n \in Nat : n \in 0..D =>
                   \A x \in Groups : From[D - n][x] = After(x)[n] \cap Locals}
<1>0. /\ DepthLimit \in Nat /\ Locals \subseteq Groups
      /\ \A x \in Groups : x \in Locals \/ x \in Logicals
  BY DirectoryAssumption DEF Groups
<1>1. 0 \in S
  <2> SUFFICES ASSUME NEW x \in Groups PROVE From[D][x] = After(x)[0] \cap Locals
    BY <1>0
  <2>1. After(x)[0] = {x} \cap There /\ From[D] = Deepest
    BY AfterIs, FromIs
  <2>2. QED
    BY <2>1 DEF Deepest
<1>2. ASSUME NEW n \in Nat, n \in S PROVE n + 1 \in S
  <2> SUFFICES ASSUME n + 1 \in 0..D, NEW x \in Groups
               PROVE  From[D - (n + 1)][x] = After(x)[n + 1] \cap Locals
    OBVIOUS
  <2>1. /\ D - (n + 1) \in 0..DepthLimit /\ (D - (n + 1)) + 1 = D - n /\ n \in 0..D
    BY <1>0
  <2>2. From[D - (n + 1)] = Layer(From[D - n])
    BY <2>1, FromIs
  <2>3. \A m \in Groups : From[D - n][m] = After(m)[n] \cap Locals
    BY <1>2, <2>1
  <2>4. CASE x \notin There \/ x \in Locals
    <3>1. From[D - (n + 1)][x] = IF x \notin There THEN {} ELSE {x}
      BY <2>2, <2>4 DEF Layer
    <3>2. n + 1 \in Nat
      OBVIOUS
    <3>3. After(x)[n + 1] = IF x \notin There THEN {} ELSE {x}
      BY <2>4, <3>2, AfterKinds
    <3>4. QED
      BY <2>4, <3>1, <3>3
  <2>5. CASE x \in There /\ x \notin Locals
    <3>1. x \in Logicals /\ MembersOf(x) \subseteq Groups
      BY <1>0, <2>5 DEF MembersAreThere
    <3>2. From[D - (n + 1)][x] = UNION {From[D - n][m] : m \in MembersOf(x)}
      BY <2>2, <2>5 DEF Layer
    <3>3. After(x)[n + 1] = {x} \cup UNION {After(m)[n] : m \in MembersOf(x)}
      BY <2>5, <3>1, FirstLink
    <3>4. UNION {From[D - n][m] : m \in MembersOf(x)}
            = (UNION {After(m)[n] : m \in MembersOf(x)}) \cap Locals
      BY <2>3, <3>1
    <3>5. {x} \cap Locals = {}
      BY <2>5
    <3> DEFINE E == UNION {From[D - n][m] : m \in MembersOf(x)}
               A == UNION {After(m)[n] : m \in MembersOf(x)}
    <3>6. From[D - (n + 1)][x] = E /\ After(x)[n + 1] = {x} \cup A /\ E = A \cap Locals
      BY <3>2, <3>3, <3>4
    <3> HIDE DEF E, A
    <3>7. QED
      BY <3>5, <3>6
  <2>6. QED
    BY <2>4, <2>5
<1> HIDE DEF S
<1>3. D \in S
  BY <1>0, <1>1, <1>2, EveryNumber
<1>4. From[D - D][g] = After(g)[D] \cap Locals
  BY <1>0, <1>3 DEF S
<1>5. QED
  BY <1>0, <1>4, ExpansionIsFrom

\* Whatever is met is behind the group,
LEMMA AfterBehind ==
  ASSUME MembersAreThere, NEW g \in Groups, NEW n \in Nat
  PROVE  After(g)[n] \subseteq Behind(g)
<1> SUFFICES ASSUME NEW T \in SUBSET Groups, g \in T, Closed(T) PROVE After(g)[n] \subseteq T
  <2>1. After(g)[n] \subseteq Groups
    BY AfterIs
  <2>2. QED
    BY <2>1 DEF Behind
<1> DEFINE S == {k \in Nat : After(g)[k] \subseteq T}
<1>1. 0 \in S
  BY AfterIs
<1>2. ASSUME NEW k \in Nat, k \in S PROVE k + 1 \in S
  <2>1. After(g)[k + 1] = Step(After(g)[k]) /\ After(g)[k] \subseteq T
    BY <1>2, AfterIs
  <2>2. QED
    BY <2>1 DEF Step, Closed
<1> HIDE DEF S
<1>3. n \in S
  BY <1>1, <1>2, EveryNumber
<1>4. QED
  BY <1>3 DEF S

\* and nothing else is, once following the links meets nothing new.
LEMMA ClosedBehind ==
  ASSUME MembersAreThere, NEW g \in Groups, g \in There, NEW n \in Nat, Closed(After(g)[n])
  PROVE  Behind(g) \subseteq After(g)[n]
<1>1. After(g)[n] \in SUBSET Groups /\ g \in After(g)[n]
  BY AfterIs, AfterKinds
<1>2. QED
  BY <1>1 DEF Behind

\* Every further link meets one more logical group until that is so.
LEMMA OneMoreEach ==
  ASSUME MembersAreThere, NEW g \in Logicals, g \in There
  PROVE  \A n \in Nat : Closed(After(g)[n]) \/ Cardinality(After(g)[n] \cap Logicals) >= n + 1
<1> DEFINE L(n) == After(g)[n] \cap Logicals
           S == {n \in Nat : Closed(After(g)[n]) \/ Cardinality(L(n)) >= n + 1}
<1>0. g \in Groups /\ IsFiniteSet(Logicals)
  BY DirectoryAssumption DEF Groups
<1>1. \A n \in Nat : IsFiniteSet(L(n)) /\ Cardinality(L(n)) \in Nat
  BY <1>0, FS_Subset, FS_CardinalityType
<1>2. 0 \in S
  <2>1. L(0) = {g}
    BY <1>0, AfterIs
  <2>2. Cardinality(L(0)) = 1
    BY <2>1, FS_Singleton
  <2> HIDE DEF L
  <2>3. QED
    BY <2>2
<1>3. ASSUME NEW n \in Nat, n \in S PROVE n + 1 \in S
  <2>1. n + 1 \in Nat /\ After(g)[n + 1] = Step(After(g)[n])
    BY <1>0, AfterIs
  <2>2. CASE Closed(After(g)[n])
    <3>1. Step(After(g)[n]) = After(g)[n]
      BY <2>2 DEF Step, Closed
    <3>2. QED
      BY <2>1, <2>2, <3>1
  <2>3. CASE L(n + 1) = L(n)
    <3>1. \A h \in L(n + 1) : MembersOf(h) \subseteq After(g)[n + 1]
      BY <2>1, <2>3 DEF Step
    <3>2. Closed(After(g)[n + 1])
      BY <3>1 DEF Closed
    <3>3. QED
      BY <2>1, <3>2
  <2>4. CASE L(n + 1) # L(n) /\ Cardinality(L(n)) >= n + 1
    <3>1. L(n) \subseteq L(n + 1)
      BY <2>1 DEF Step
    <3> HIDE DEF L
    <3>2. Cardinality(L(n)) <= Cardinality(L(n + 1)) /\ Cardinality(L(n)) # Cardinality(L(n + 1))
      BY <1>1, <2>1, <2>4, <3>1, FS_Subset
    <3>3. Cardinality(L(n + 1)) >= (n + 1) + 1
      BY <1>1, <2>1, <2>4, <3>2
    <3>4. QED
      BY <2>1, <3>3
  <2>5. QED
    BY <1>3, <2>2, <2>3, <2>4
<1> HIDE DEF S
<1>4. \A n \in Nat : n \in S
  BY <1>2, <1>3, EveryNumber
<1>5. QED
  BY <1>4 DEF S

\* So the links that are followed meet all that is behind a group with no more
\* logical groups behind it than that.
LEMMA AllBehind ==
  ASSUME MembersAreThere, NEW g \in Groups, g \in There,
         Cardinality(Behind(g) \cap Logicals) <= DepthLimit + 1
  PROVE  Behind(g) \subseteq After(g)[DepthLimit + 1]
<1> DEFINE D == DepthLimit + 1
<1>0. D \in Nat /\ IsFiniteSet(Logicals)
  BY DirectoryAssumption
<1>1. CASE g \in Locals
  <2>1. After(g)[D] = {g}
    BY <1>0, <1>1, AfterKinds
  <2>2. Closed({g})
    BY <1>1, DirectoryAssumption DEF Closed
  <2>3. QED
    BY <1>0, <2>1, <2>2, ClosedBehind
<1>2. CASE g \in Logicals
  <2>1. IsFiniteSet(Behind(g) \cap Logicals) /\ After(g)[D] \cap Logicals \subseteq Behind(g) \cap Logicals
    BY <1>0, FS_Subset, AfterBehind
  <2>2. /\ Cardinality(After(g)[D] \cap Logicals) <= Cardinality(Behind(g) \cap Logicals)
        /\ Cardinality(After(g)[D] \cap Logicals) \in Nat
        /\ Cardinality(Behind(g) \cap Logicals) \in Nat
    BY <2>1, FS_Subset, FS_CardinalityType
  <2>3. ~(Cardinality(After(g)[D] \cap Logicals) >= D + 1)
    BY <1>0, <2>2
  <2>4. Closed(After(g)[D])
    BY <1>0, <1>2, <2>3, OneMoreEach
  <2>5. QED
    BY <1>0, <2>4, ClosedBehind
<1>3. QED
  BY <1>1, <1>2 DEF Groups

\* Behind a group that has gone there is no other.
LEMMA BehindTheGone ==
  ASSUME DirectoryInv, NEW g \in Groups, g \notin There
  PROVE  Behind(g) \subseteq {g}
<1>1. g \in Logicals => MembersOf(g) = {}
  BY DEF DirectoryInv, MembersAreOneRequests, Owners
<1>2. Closed({g})
  BY <1>1 DEF Closed
<1>3. QED
  BY <1>2 DEF Behind

\* Cycles and diamonds of groups, of any size and however they came about, do
\* not lead the expansion astray: a rule is about no user whom the links do not
\* connect to it, and about all they do unless more logical groups are behind
\* one of its groups than are followed.
THEOREM RulesReach == DirectorySpec => []RulesReachTheirMembers
<1> DEFINE RuleType == rule \subseteq Groups
<1>1. DirectoryInv => MembersAreThere
  BY LinkedMembers DEF DirectoryInv, DirectoryType, MembersAreOneRequests, MembersAreThere, Owners
<1>2. DirectoryInv /\ RuleType => RulesReachTheirMembers
  <2> SUFFICES ASSUME DirectoryInv, RuleType PROVE RulesReachTheirMembers
    OBVIOUS
  <2>0. DepthLimit + 1 \in Nat
    BY DirectoryAssumption
  <2>1. \A g \in rule : Expansion[g] \subseteq Behind(g) \cap Locals
    BY <1>1, <2>0, ExpansionReaches, AfterBehind
  <2>2. MatchedUsers(rule) \subseteq Connected(rule)
    BY <2>1 DEF MatchedUsers, Connected
  <2>3. ASSUME \A g \in rule : Cardinality(Behind(g) \cap Logicals) <= DepthLimit + 1
        PROVE  Connected(rule) \subseteq MatchedUsers(rule)
    <3>1. SUFFICES ASSUME NEW u \in active, NEW g \in rule,
                          NEW m \in MembersOf(u) \cap Behind(g) \cap Locals
                   PROVE  m \in Expansion[g]
      BY DEF MatchedUsers, Connected
    <3>2. m \in There
      <4>1. u \in Owners
        BY DEF DirectoryInv, DirectoryType, MembersOf, LinksOf
      <4>2. QED
        BY <4>1 DEF DirectoryInv, MembersAreOneRequests
    <3>3. g \in There
      BY <3>2, BehindTheGone
    <3>4. m \in After(g)[DepthLimit + 1]
      BY <1>1, <2>3, <3>3, AllBehind
    <3>5. QED
      BY <1>1, <3>4, ExpansionReaches
  <2>4. QED
    BY <2>2, <2>3 DEF RulesReachTheirMembers
<1>3. DirectoryInit => RuleType
  BY DEF DirectoryInit
<1>4. RuleType /\ [DirectoryNext]_directoryVars => RuleType'
  BY DEF DirectoryNext, directoryVars, Create, CreateLocal, Patch, Lock, Clear, Add, Commit,
         DeleteGroup, CheckGroup, SetStatus, DeleteUser, SetRule
<1>5. QED
  BY <1>2, <1>3, <1>4, DirectoryInitInv, DirectoryNextInv, PTL DEF DirectorySpec
=============================================================================
