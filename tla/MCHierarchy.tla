---------------------------- MODULE MCHierarchy ----------------------------
(* An edge below a regional instance below a global one, with the prefixes *)
(* of the README; the regional instance has clients of its own.            *)
EXTENDS Hierarchy, TLC

CONSTANTS edge, regional, global

MCNodes == {edge, regional, global}
MCUp == (edge :> regional) @@ (regional :> global) @@ (global :> NONE)
MCPrefix == (edge :> <<"edge01-">>) @@ (regional :> <<"us-">>) @@ (global :> <<>>)

(* The second name of the regional clients leaves no room for a prefix.    *)
MCLocal ==
  (edge :> {<<"logs">>}) @@ (regional :> {<<"logs">>, <<"audit-", "trail-", "logs">>})
MCNamesAt ==
  LET within(names, prefix) == {prefix \o b : b \in names}
      region == MCLocal[regional] \cup within(MCLocal[edge], <<"edge01-">>)
  IN (edge :> MCLocal[edge]) @@ (regional :> region)
       @@ (global :> region \cup within(region, <<"us-">>))

MCRoute == (edge :> <<edge, regional, global>>) @@ (regional :> <<regional, global>>)
MCNameAt ==
  [m \in UNION {{n} \X MCLocal[n] : n \in DOMAIN MCLocal} |->
     LET name[i \in DOMAIN MCRoute[m[1]]] ==
           IF i = 1 THEN m[2] ELSE MCPrefix[MCRoute[m[1]][i - 1]] \o name[i - 1]
     IN name]

(* The third key is pushed as "with%20space", and stored as "with space".  *)
Key(name, level) == [name |-> name, level |-> level]
MCNames == {"plain", "with space", "with%20space?n=1"}
MCQueried == {"with%20space?n=1"}
MCEscaped == {"with space"}
MCReserved == MCEscaped \cup MCQueried
MCBefore == [n \in MCQueried |-> Key("with space", 1)]
MCKeys == {Key(n, 0) : n \in MCNames}

ASSUME NamesApart == Separate
=============================================================================
