---------------------------- MODULE MCConsolePage ----------------------------
(***************************************************************************)
(* The console pages for TLC: one column for every way in which a page     *)
(* treats one.                                                             *)
(***************************************************************************)
EXTENDS ConsolePage

MCLooked == {<<"rules", "enabled">>,           \* on the form, and a switch
             <<"rules", "schedule">>,          \* written without a field
             <<"providers", "baseDn">>,        \* a field that starts with a default
             <<"providers", "bindPassword">>,  \* sent when typed
             <<"identity", "adminClaim">>,     \* taken over and sent
             <<"users", "status">>,            \* the same, under a filter
             <<"groups", "providerKey">>,      \* offered and not sent
             <<"listeners", "port">>,
             <<"networks", "cidrs">>,          \* a failed deletion closes its dialog
             <<"nodeGroups", "description">>,
             <<"nodes", "adapterId">>,         \* no edit form
             <<"settings", "leaseDays">>,      \* a form that opens on a missing list
             <<"settings", "trafficLogUrls">>,
             <<"overview", "mode">>,           \* completed when saved
             <<"logs", "events">>, <<"audit", "events">>}

=============================================================================
