------------------------------- MODULE MCPolicy -------------------------------
(***************************************************************************)
(* A small policy for TLC: a corporate listener and a guest listener of    *)
(* the node's group, two networks, and rules of every identity kind.       *)
(***************************************************************************)
EXTENDS PolicyStore

MCAddresses == {"office", "lab", "web"}
MCPublic == {"web"}
MCUsers == {"ann", "bob"}
MCHosts == {"site", "ip"}
MCLiterals == {"ip"}
MCPorts == {80, 25}
MCSafePorts == {80}
MCNetIds == {"n1", "n2"}
MCCidrLists == {{"office", "lab"}, {"lab", "web"}}
MCPortName == <<"corp", "guest">>

Anyone == [kind |-> "ANY", lists |-> {}]
Anywhere == [kind |-> "ANY", domains |-> {}, cidrs |-> {}, ports |-> {}]
Row(action, source, identity, destination) ==
  [enabled |-> TRUE, global |-> TRUE, action |-> action, source |-> source,
   identity |-> identity, destination |-> destination]

AllowAll == Row("ALLOW", {}, Anyone, Anywhere)
AllowAllOff == [AllowAll EXCEPT !.enabled = FALSE]
DenyBoth ==
  Row("DENY", {"n1", "n2"}, Anyone, [Anywhere EXCEPT !.kind = "SPECIFIC", !.cidrs = {"ip"}])
AllowGroup == Row("ALLOW", {"n1"}, [kind |-> "GROUP", lists |-> {{}, {"ann"}}], Anywhere)
DenyKnown ==
  Row("DENY", {"n2"}, [kind |-> "AUTHENTICATED", lists |-> {}],
      [Anywhere EXCEPT !.kind = "SPECIFIC", !.domains = {"site"}, !.ports = {80}])
AllowGuests ==
  [Row("ALLOW", {"n2"}, [kind |-> "UNAUTHENTICATED", lists |-> {}], Anywhere)
     EXCEPT !.global = FALSE]

MCRuleRows == {AllowAll, AllowAllOff, DenyBoth, AllowGroup, DenyKnown, AllowGuests}

Inheriting == [enabled |-> TRUE, global |-> TRUE, auth |-> "INHERIT", sources |-> {}]
Corporate == [enabled |-> TRUE, global |-> TRUE, auth |-> "REQUIRED", sources |-> {"n1"}]
Guest == [enabled |-> TRUE, global |-> FALSE, auth |-> "DISABLED", sources |-> {"n2"}]
Off == [enabled |-> FALSE, global |-> TRUE, auth |-> "DISABLED", sources |-> {}]

MCListenerRows == {Inheriting, Corporate, Guest, Off}

Policy(rows, profiles, mode, default) ==
  [nets |-> [n1 |-> {"office", "lab"}, n2 |-> {"lab", "web"}], rules |-> rows,
   listeners |-> profiles, config |-> [mode |-> mode, default |-> default]]

\* For the run about hosts that have a name: a network with a named host in it.
AllowNetwork ==
  Row("ALLOW", {"n1"}, Anyone, [Anywhere EXCEPT !.kind = "SPECIFIC", !.cidrs = MCHosts])
MCNetworkRows == {AllowNetwork}
MCNetworkInitial == {Policy(<<>>, <<Inheriting, Off>>, "DISABLED", "DENY")}

MCInitial ==
  {Policy(<<>>, <<Inheriting, Off>>, "REQUIRED", "ALLOW"),
   Policy(<<AllowGroup>>, <<Corporate, Guest>>, "REQUIRED", "DENY"),
   Policy(<<DenyKnown, AllowGuests>>, <<Inheriting, Off>>, "DISABLED", "DENY"),
   Policy(<<AllowGroup, AllowAllOff>>, <<Inheriting, Off>>, "OPTIONAL", "DENY")}
=============================================================================
