---------------------------- MODULE MCPublishing ----------------------------
(* Publishing with every topic of up to four characters over a slash and    *)
(* two letters, and every policy of one prefix of up to three.              *)
EXTENDS Publishing

MCCharacters == {Slash, "a", "v"}

MCTexts    == BoundedSeq(MCCharacters, 4)
MCPolicies == {{}, {<<"a">>, <<"v", Slash>>}} \cup {{p} : p \in BoundedSeq(MCCharacters, 3)}
MCResponses == {NoText, <<"v">>}
MCClientIDs == {NoText, <<"a">>, <<"v">>}
=============================================================================
