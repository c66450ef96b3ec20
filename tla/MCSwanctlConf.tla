---------------------------- MODULE MCSwanctlConf ----------------------------
(* An instance of SwanctlConf for TLC.                                      *)
EXTENDS SwanctlConf, TLC

CONSTANTS n1, n2, a1, a2, host

MCSymmetry == Permutations({n1, n2}) \cup Permutations({a1, a2})

MCDHGroups == {[keyword |-> "modp2048", label |-> "Group 14"],
               [keyword |-> "ecp256", label |-> "Group 19"]}

\* One of everything and no group for ESP; several of everything, in an order
\* that is not the catalogue's; and nothing ticked for IKE, which is refused.
MCPicks ==
  LET List(cs, is, gs) == [ciphers |-> cs, integrities |-> is, groups |-> gs] IN
  {[ike |-> List(<<"aes256">>, <<"sha256">>, <<"Group 14">>),
    esp |-> List(<<"aes256">>, <<"sha256">>, <<>>)],
   [ike |-> List(<<"aes256", "aes128">>, <<"sha256">>, <<"Group 19", "Group 14">>),
    esp |-> List(<<"aes128">>, <<"sha1", "sha256">>, <<"Group 14">>)],
   [ike |-> List(<<"aes256">>, <<"sha256">>, <<>>),
    esp |-> List(<<"aes256">>, <<>>, <<>>)]}

\* Nothing typed, a name with a port, and a port past the range.
MCEndpoints ==
  {[host |-> None, port |-> None], [host |-> host, port |-> 65535],
   [host |-> host, port |-> 65536]}
=============================================================================
