----------------------------- MODULE MCInventory -----------------------------
(* A small inventory: one device on a custom platform, one id to insert.   *)
EXTENDS Inventory, TLC

CONSTANTS c1, c2, d1, d2, g1, g2, g3, j1, j2, w1, w2

Symmetry == Permutations(Slots)

Local(password, enable, default) ==
  [provider |-> "local", password |-> password, enable |-> enable, default |-> default]

MCCredForms ==
  {Local("p", None, TRUE), Local(None, None, FALSE),
   [provider |-> "bitwarden", password |-> None, enable |-> None, default |-> FALSE]}

MCCredTable ==
  (c1 :> [provider |-> "local", payload |-> [password |-> "p", enable |-> "e"],
          default |-> TRUE]) @@ (c2 :> Fresh)

Builtin == [kind |-> "builtin", name |-> "ios"]
Custom  == [kind |-> "custom", name |-> "yaml"]

Form(name, platform_, cred_, enabled, groups) ==
  [name |-> name, pool |-> None, platform |-> platform_, cred |-> cred_,
   enabled |-> enabled, groups |-> groups]

MCDeviceForms ==
  {Form("n1", Custom, c1, TRUE, {g1}), Form("n2", Builtin, None, TRUE, {g2}),
   Form("n2", None, c2, FALSE, {})}

MCDeviceTable ==
  (d1 :> [name |-> "n1", pool |-> "pool", builtin |-> None, custom |-> "yaml",
          cred |-> None, enabled |-> TRUE, groups |-> {g1}]) @@ (d2 :> Fresh)

MCGroupTable == (g1 :> [cred |-> c1, pool |-> None]) @@ (g2 :> [cred |-> None, pool |-> "pool"])
                @@ (g3 :> Fresh)
MCGroupForms == {[cred |-> c2, pool |-> None]}

MCJobTable == (j1 :> [groups |-> {g1, g2}, devices |-> {d1}]) @@ (j2 :> Fresh)
MCJobForms == {[groups |-> {g2}, devices |-> {d2}]}

MCPlatformTable == ("yaml" :> "defined") @@ ("yaml2" :> Fresh)

MCBulkForms ==
  {[pool |-> None, cred |-> None, enabled |-> FALSE, group |-> g2, platform |-> Keep],
   [pool |-> Keep, cred |-> Keep, enabled |-> Keep, group |-> None, platform |-> Builtin]}

Line(name, platform_, cred_, enabled, groups) ==
  [name |-> name, pool |-> None, platform |-> platform_, cred |-> cred_,
   enabled |-> enabled, groups |-> groups, parses |-> TRUE]

MCImportFiles ==
  {<<Line("n1", "ios", None, Keep, {g2}), Line("n2", None, c1, FALSE, {g1})>>,
   <<Line("n2", "ios", c2, Keep, {g1, g2}), Line("n1", None, None, Keep, {g1})>>,
   <<Line("n2", None, c1, Keep, {g1}), Line("n2", "ios", None, TRUE, {g2})>>,
   <<Line("n1", None, c1, Keep, {g1}), [Line("n2", None, None, TRUE, {g2}) EXCEPT !.parses = FALSE]>>}
=============================================================================
