---------------------------- MODULE MCParameters ----------------------------
(* Parameters for TLC: one caller, whose tenant acme keeps a parameter at  *)
(* two levels and two secrets, one of which holds a reference to the other.*)
EXTENDS Parameters

MCHome == [i \in Identities |-> "acme"]
MCNames == <<"base", "extra">>

Everything == [path |-> <<>>, wild |-> TRUE, capabilities |-> Grantable]
NoKey == [path |-> <<"secret", "acme", "key">>, wild |-> FALSE, capabilities |-> {"deny"}]
Mixed == [path |-> <<>>, wild |-> TRUE, capabilities |-> {"read", "deny"}]
MCDocuments == {<<Everything>>, <<NoKey, [Everything EXCEPT !.path = <<"param">>]>>, <<Mixed>>}

Key == <<"secret", "acme", "key">>
Url == <<"secret", "acme", "url">>
Elsewhere == <<"secret", "beta", "key">>
MCSecrets == (Key :> <<TextOf(Key)>>) @@ (Url :> <<TextOf(Url), Reference(Key)>>) @@ (Elsewhere :> None)

MCPaths == {<<"db">>, <<"app", "db">>}
MCValues == {<<Text>>, <<Reference(Url), Reference(Key)>>, <<Reference(Elsewhere)>>}

(* Every pattern and path of up to two pieces, one of them a traversal.    *)
MCRules ==
  {rule \in [path: {<<>>, <<"a">>, <<"a", "b">>}, wild: BOOLEAN,
             capabilities: {{"read"}, {"write"}, {"deny"}}] : ValidRule(rule)}
MCSubjects == {<<"a">>, <<"a", "b">>, <<"a", "*">>, <<"a", "..">>}

Interchangeable == Permutations(Requests) \cup Permutations(Operators)

=============================================================================
