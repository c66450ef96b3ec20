----------------------------- MODULE ProfileForm -----------------------------
(***************************************************************************)
(* The form for a profile: what it shows of one that exists, what may be   *)
(* chosen in it, and what Save makes of the choices.  The proposals are    *)
(* kept as a list of strings only, so a form that is opened again has to   *)
(* work out from them what had been ticked.                                *)
(***************************************************************************)
EXTENDS Naturals, Sequences, FiniteSets

CONSTANTS
  Net,        \* networks that may be listed for a split tunnel
  Addr, Host, \* what may be typed as the gateway: an address or a name
  Ident,      \* identities that may be typed as Local ID or Peer ID
  None,       \* a field left empty
  MaxCidrs,   \* longest list of networks
  DHGroups,   \* the catalogue: strongSwan's keyword and the label of a group
  Ciphers, Integrities, \* what else a proposal is put together from
  Picks,      \* what may be ticked in the six checklists
  Endpoints   \* what may be typed as SAML host and SAML port

\* A checklist holds what is ticked in it, in the order in which it was.
Ticked(s) == \A i, j \in 1 .. Len(s) : s[i] = s[j] => i = j

\* The keywords are unique, as profile_test.go checks, and so are the labels.
ASSUME FormAssumption ==
  /\ MaxCidrs \in Nat
  /\ None \notin Nat
  /\ Endpoints \subseteq [host : Addr \cup Host \cup {None}, port : Nat \cup {None}]
  /\ \A g, h \in DHGroups : g.keyword = h.keyword <=> g.label = h.label
  /\ \A g \in DHGroups : g.keyword # None
  /\ \A k \in Picks : \A l \in {k.ike, k.esp} :
       /\ l.ciphers \in Seq(Ciphers) /\ Ticked(l.ciphers)
       /\ l.integrities \in Seq(Integrities) /\ Ticked(l.integrities)
       /\ l.groups \in Seq({g.label : g \in DHGroups}) /\ Ticked(l.groups)

-----------------------------------------------------------------------------
(* The proposals: <<cipher, integrity, group>>, None for no group.          *)

Each(Op(_), s) == [i \in 1 .. Len(s) |-> Op(s[i])]

\* A set of places in a list, in order.
InOrder(S) ==
  LET before == [i \in S |-> Cardinality({j \in S : j < i})]
  IN [k \in 1 .. Cardinality(S) |-> CHOOSE i \in S : before[i] = k - 1]

\* appendUnique, over a list: each element where it occurs first.
Unique(s) ==
  LET first == {i \in 1 .. Len(s) : \A j \in 1 .. i - 1 : s[j] # s[i]}
  IN Each(LAMBDA i : s[i], InOrder(first))

\* The nested loops of buildProposals.
Combinations(cs, is, gs) ==
  LET groups == IF gs = <<>> THEN <<None>> ELSE gs
      g == Len(groups)
      i == Len(is)
  IN [k \in 1 .. Len(cs) * i * g |->
        <<cs[((k - 1) \div (i * g)) + 1], is[(((k - 1) \div g) % i) + 1],
          groups[((k - 1) % g) + 1]>>]

\* Variant: a combination that occurs again is listed again.
BuildRepeated(cs, is, gs) == Combinations(cs, is, gs)

BuildProposals(cs, is, gs) == Unique(Combinations(cs, is, gs))

Known(keyword) == \E g \in DHGroups : g.keyword = keyword
Label(keyword) == (CHOOSE g \in DHGroups : g.keyword = keyword).label
Keyword(label) == (CHOOSE g \in DHGroups : g.label = label).keyword

\* seedProposalPickers.  A group is ticked once per proposal it occurs in.
Seed(ps) ==
  [ciphers     |-> Unique(Each(LAMBDA p : p[1], ps)),
   integrities |-> Unique(Each(LAMBDA p : p[2], ps)),
   groups      |-> Each(LAMBDA i : Label(ps[i][3]),
                        InOrder({i \in 1 .. Len(ps) : Known(ps[i][3])}))]

Proposals(l) == BuildProposals(l.ciphers, l.integrities, Each(Keyword, l.groups))

-----------------------------------------------------------------------------
(* The fields.                                                              *)

authSAML == "PSK + SAML"

AuthOptions(version) ==
  IF version = "IKEv1" THEN <<"PSK only", "PSK + XAuth", authSAML>>
                       ELSE <<"PSK + EAP-MSCHAPv2", authSAML>>

Offered(version) == {AuthOptions(version)[i] : i \in DOMAIN AuthOptions(version)}

Cidrs == UNION {[1 .. n -> Net] : n \in 0 .. MaxCidrs}

\* What the form can be made to say before Save is pressed.
Forms ==
  {w \in [version : {"IKEv1", "IKEv2"}, mode : {"Main", "Aggressive"},
          auth : Offered("IKEv1") \cup Offered("IKEv2"),
          gateway : Addr \cup Host,
          localID : Ident \cup {None}, remoteID : Ident \cup {None},
          split : {"full", "custom"}, cidrs : Cidrs, picks : Picks,
          saml : Endpoints] :
     w.auth \in Offered(w.version)}

\* Another version is chosen: updateAuthOptions falls back to its first option.
ChooseVersion(w, v) ==
  [w EXCEPT !.version = v,
            !.auth = IF @ \in Offered(v) THEN @ ELSE AuthOptions(v)[1]]

AuthMode(version, auth) ==
  CASE auth = "PSK only" -> "psk"
    [] auth = "PSK + XAuth" -> "psk_xauth"
    [] auth = "PSK + EAP-MSCHAPv2" -> "eap_mschapv2"
    [] auth = authSAML -> IF version = "IKEv1" THEN "psk_xauth_saml"
                                               ELSE "psk_eap_saml"

\* The option that showProfileForm selects for a profile.
AuthOption(auth) ==
  CASE auth = "psk" -> "PSK only"
    [] auth = "psk_xauth" -> "PSK + XAuth"
    [] auth = "eap_mschapv2" -> "PSK + EAP-MSCHAPv2"
    [] auth \in {"psk_xauth_saml", "psk_eap_saml"} -> authSAML

MaxPort == 65535

\* The login needs the name on the gateway's certificate, and a port, if one
\* is typed, within its range.
BadEndpoint(w) ==
  \/ w.saml.host = None /\ w.gateway \in Addr
  \/ w.saml.port # None /\ w.saml.port \notin 1 .. MaxPort

\* Save is refused without a group for IKE, or a cipher or an integrity.
Refused(w) ==
  \/ w.auth = authSAML /\ BadEndpoint(w)
  \/ w.picks.ike.groups = <<>>
  \/ \E l \in {w.picks.ike, w.picks.esp} : l.ciphers = <<>> \/ l.integrities = <<>>

\* The profile that Save makes of the form.
Saved(w) ==
  [ike       |-> IF w.version = "IKEv1" THEN "v1" ELSE "v2",
   mode      |-> IF w.version # "IKEv1" THEN ""
                 ELSE IF w.mode = "Aggressive" THEN "aggressive" ELSE "main",
   auth      |-> AuthMode(w.version, w.auth),
   gateway   |-> w.gateway, localID |-> w.localID, remoteID |-> w.remoteID,
   saml      |-> IF w.auth # authSAML THEN [host |-> None, port |-> 0]
                 ELSE [w.saml EXCEPT !.port = IF @ = None THEN 0 ELSE @],
   proposals |-> [ike |-> Proposals(w.picks.ike), esp |-> Proposals(w.picks.esp)],
   split     |-> w.split,
   cidrs     |-> IF w.split = "custom" THEN w.cidrs ELSE <<>>]

\* The form that is opened for a profile.
Shown(p) ==
  [version  |-> IF p.ike = "v1" THEN "IKEv1" ELSE "IKEv2",
   mode     |-> IF p.mode = "aggressive" THEN "Aggressive" ELSE "Main",
   auth     |-> AuthOption(p.auth),
   gateway  |-> p.gateway, localID |-> p.localID, remoteID |-> p.remoteID,
   split    |-> p.split, cidrs |-> p.cidrs,
   saml     |-> [p.saml EXCEPT !.port = IF @ = 0 THEN None ELSE @],
   picks    |-> [ike |-> Seed(p.proposals.ike), esp |-> Seed(p.proposals.esp)]]
=============================================================================
