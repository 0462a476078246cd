---------------------------- MODULE ConsolePages ----------------------------
(***************************************************************************)
(* What each administration page of the web console does with a row: the   *)
(* columns a row has, those an edit form takes over from the listed row,   *)
(* those it offers for typing, and those a save sends.  ConsolePage is the *)
(* state machine that all these pages share.                               *)
(*                                                                         *)
(* Columns carry the names of the request bodies; a column that the page   *)
(* shows but never writes (counters, timestamps) is left out.              *)
(***************************************************************************)

(***************************************************************************)
(* Policies, Access rules.  The schedule of a rule and its destination     *)
(* ranges have no field in the editor, and every save writes them.         *)
(***************************************************************************)
RuleRow == {"name", "description", "enabled", "action", "source", "identity",
            "domains", "ports", "cidrs", "schedule", "scope", "scopeGroupIds"}
RuleOpens == RuleRow \ {"cidrs", "schedule"}
RuleOffers == RuleRow \ {"cidrs", "schedule"}
RuleSends == RuleRow
RuleSwitches == {"enabled"}

(***************************************************************************)
(* Authentication, Providers.  The list does not return the directory      *)
(* settings, so an edit form starts with the defaults of a new provider.   *)
(***************************************************************************)
DirectorySettings == {"baseDn", "userFilter", "bindDn", "startTls",
                      "tlsRejectUnauthorized", "groupBaseDn", "groupFilter"}
ProviderRow == DirectorySettings \cup
               {"key", "name", "priority", "enabled", "uri", "bindPassword"}
ProviderOpens == {"key", "name", "priority", "enabled", "uri"}
ProviderOffers == ProviderRow \ {"key"}
ProviderSends == ProviderRow \ {"key", "bindPassword"}
ProviderSecrets == {"bindPassword"}
ProviderSwitches == {"enabled"}

(***************************************************************************)
(* System, Identity providers.                                             *)
(***************************************************************************)
IdentityRow == {"key", "name", "enabled", "issuer", "clientId", "clientSecret",
                "scopes", "allowAdminLogin", "allowPortalLogin", "adminClaim",
                "adminValue", "portalClaim", "portalValue", "usernameClaim"}
IdentityOpens == IdentityRow \ {"clientSecret"}
IdentityOffers == IdentityRow
IdentitySends == IdentityRow \ {"clientSecret"}
IdentitySecrets == {"clientSecret"}

(***************************************************************************)
(* Authentication, Local users.  The form of an existing user does not     *)
(* take a password (there is a drawer for it, which is left out here).     *)
(***************************************************************************)
UserRow == {"username", "displayName", "description", "status", "groupIds", "password"}
UserOpens == UserRow \ {"password"}
UserOffers == UserRow \ {"username", "password"}
UserSends == UserRow \ {"username", "password"}

(***************************************************************************)
(* Authentication, Groups.  The editor of a directory group offers its     *)
(* provider, which an update does not send.                                *)
(***************************************************************************)
GroupRow == {"name", "description", "source", "providerKey", "externalId", "memberGroupIds"}
GroupOpens == GroupRow
GroupOffers == GroupRow \ {"source"}
GroupSends == GroupRow \ {"source", "providerKey"}

(***************************************************************************)
(* Listeners, Node groups, Networks: every column is on the form.          *)
(***************************************************************************)
ListenerRow == {"name", "address", "port", "mode", "enabled", "authenticationMode", "groupId"}
ListenerOffers == ListenerRow
ListenerSends == ListenerRow

NodeGroupRow == {"name", "description"}
NodeGroupOffers == NodeGroupRow
NodeGroupSends == NodeGroupRow

NetworkRow == {"name", "description", "cidrs"}
NetworkOpens == NetworkRow
NetworkOffers == NetworkRow
NetworkSends == NetworkRow

(***************************************************************************)
(* Nodes: a form to add one, no form to edit one (the drawer of one node   *)
(* and its enrolment token are left out: module Enrollment has them).      *)
(***************************************************************************)
NodeRow == {"name", "description", "hostname", "adapterId"}
NodeOffers == NodeRow
NodeSends == NodeRow

(***************************************************************************)
(* Settings, one row: the lease is a form, the recording of full URLs a    *)
(* switch.  Authentication overview, one row: the mode and the default     *)
(* access.                                                                 *)
(***************************************************************************)
SettingsRow == {"leaseDays", "renewalWindowDays", "trafficLogUrls"}
LeaseForm == {"leaseDays", "renewalWindowDays"}
SettingsSwitches == {"trafficLogUrls"}

OverviewRow == {"mode", "defaultAccess"}
OverviewForm == OverviewRow

-----------------------------------------------------------------------------
(***************************************************************************)
(* The pages.  `gated`: rows, and with them their edit and delete buttons, *)
(* are shown only when the list is neither loading nor failed.  `live`: a  *)
(* field that was not touched takes its value from the list at the moment  *)
(* of the save, not at that of opening.  `single`: the page is about one   *)
(* row that nobody adds or deletes.  `discards`: the form can be closed    *)
(* without saving.  `gives up`: a deletion that fails closes its dialog    *)
(* too.  `filtered`: the list is asked for again whenever a filter changes.*)
(***************************************************************************)
PlainPage == [row |-> {}, opens |-> {}, offers |-> {}, sends |-> {}, secrets |-> {},
              switches |-> {}, edits |-> TRUE, single |-> FALSE, gated |-> TRUE,
              live |-> FALSE, discards |-> TRUE, givesUp |-> FALSE, filtered |-> FALSE]

AccessRulesPage == [PlainPage EXCEPT !.row = RuleRow, !.opens = RuleOpens, !.offers = RuleOffers,
                                     !.sends = RuleSends, !.switches = RuleSwitches]
ProvidersPage == [PlainPage EXCEPT !.row = ProviderRow, !.opens = ProviderOpens,
                                   !.offers = ProviderOffers, !.sends = ProviderSends,
                                   !.secrets = ProviderSecrets, !.switches = ProviderSwitches]
IdentityProvidersPage == [PlainPage EXCEPT !.row = IdentityRow, !.opens = IdentityOpens,
                                           !.offers = IdentityOffers, !.sends = IdentitySends,
                                           !.secrets = IdentitySecrets]
LocalUsersPage == [PlainPage EXCEPT !.row = UserRow, !.opens = UserOpens, !.offers = UserOffers,
                                    !.sends = UserSends, !.filtered = TRUE]
GroupsPage == [PlainPage EXCEPT !.row = GroupRow, !.opens = GroupOpens, !.offers = GroupOffers,
                                !.sends = GroupSends, !.givesUp = TRUE]
ListenersPage == [PlainPage EXCEPT !.row = ListenerRow, !.opens = ListenerRow,
                                   !.offers = ListenerOffers, !.sends = ListenerSends]
NodeGroupsPage == [PlainPage EXCEPT !.row = NodeGroupRow, !.opens = NodeGroupRow,
                                    !.offers = NodeGroupOffers, !.sends = NodeGroupSends]
NetworksPage == [PlainPage EXCEPT !.row = NetworkRow, !.opens = NetworkOpens,
                                  !.offers = NetworkOffers, !.sends = NetworkSends, !.givesUp = TRUE]
NodesPage == [PlainPage EXCEPT !.row = NodeRow, !.offers = NodeOffers, !.sends = NodeSends,
                               !.edits = FALSE]
SettingsPage == [PlainPage EXCEPT !.row = SettingsRow, !.opens = LeaseForm, !.offers = LeaseForm,
                                  !.sends = LeaseForm, !.switches = SettingsSwitches,
                                  !.single = TRUE, !.gated = FALSE, !.discards = FALSE]
OverviewPage == [PlainPage EXCEPT !.row = OverviewRow, !.opens = OverviewForm,
                                  !.offers = OverviewForm, !.sends = OverviewForm,
                                  !.single = TRUE, !.live = TRUE]

(* Traffic log and audit log: lists with filters and nothing to edit. *)
LogsPage == [PlainPage EXCEPT !.row = {"events"}, !.single = TRUE, !.edits = FALSE, !.filtered = TRUE]
AuditPage == [PlainPage EXCEPT !.row = {"events"}, !.single = TRUE, !.edits = FALSE, !.filtered = TRUE]

PageOf == [rules |-> AccessRulesPage, providers |-> ProvidersPage,
           identity |-> IdentityProvidersPage, users |-> LocalUsersPage,
           groups |-> GroupsPage, listeners |-> ListenersPage,
           nodeGroups |-> NodeGroupsPage, networks |-> NetworksPage, nodes |-> NodesPage,
           settings |-> SettingsPage, overview |-> OverviewPage,
           logs |-> LogsPage, audit |-> AuditPage]

=============================================================================
