---------------------------- MODULE MCCompliance ----------------------------
(* A small instance of Compliance for TLC. *)
EXTENDS Compliance, TLC

CONSTANTS d1, d2, g1, w1, w2

MCMembers == [g \in Groups |-> {d1}]

\* "10" and "10.0" are one number; "1" occurs in both; "(" does not compile.
MCTexts    == {"", "None", "10", "10.0", "("}
MCNumberOf == [t \in {"10", "10.0"} |-> 10]
MCWithin   == {<<"10", "10">>, <<"10", "10.0">>, <<"10.0", "10.0">>}

\* p1 finds two rows in k1 and none in k2; p2 finds one and cannot read k2.
MCParsed == <<"p1", "k1">> :> {[mtu |-> "10.0"], [name |-> "10"]}
            @@ <<"p1", "k2">> :> {}
            @@ <<"p2", "k1">> :> {[mtu |-> "10"]}

Check(op, expected, mode, severity) ==
  [field |-> "mtu", operator |-> op, expected |-> expected, mode |-> mode,
   severity |-> severity]
Same == Check("eq", "10", "any", "major")
Each == Check("exists", "", "all", "critical")
Bad  == Check("regex", "(", "any", "major")
Odd  == Check("ne", "10", "none", "minor")
Note == Check("not_exists", "", "any", "info")
MCDefinitions == {Same, Each, Bad, Odd, Note}
MCEdited == {Each, Bad, Odd}

Draft(on, parser, targets, added) ==
  [on |-> on, parser |-> parser, targets |-> targets, added |-> added]
MCDrafts == {Draft(TRUE, "p1", {g1, d1}, {Same}),
             Draft(FALSE, "p2", {g1, d2}, {}),
             Draft(TRUE, "p1", {d2}, {Note})}

Symmetry == Permutations(WebWorkers)
=============================================================================
