----------------------------- MODULE SwanctlConf -----------------------------
(***************************************************************************)
(* What a saved profile comes to.  The form turns choices into a Profile   *)
(* and Credentials, internal/profile renders them as a conf.d entry and a  *)
(* secrets file, connect reads the names of the children back out of the   *)
(* entry, and charon and the FortiGate negotiate from what is in the two   *)
(* files.  One profile, one step after another: what happens when calls    *)
(* overlap is the subject of Daemon.                                       *)
(***************************************************************************)
EXTENDS ProfileForm

CONSTANTS
  Everything, \* 0.0.0.0/0
  Own, Group, \* our address as an identity; the gateway's phase-1 name
  User        \* user names, SAML UIDs among them

ASSUME ConfAssumption ==
  /\ Everything \notin Net
  /\ None \notin Addr \cup Host \cup Ident \cup User \cup {Own, Group}
  /\ Addr \cap (Host \cup Ident \cup {Own, Group}) = {}
  /\ Host \cap Ident = {}
  /\ Own \notin Host \cup Ident \cup {Group}

VARIABLES
  profile,  \* the profile saved last, None before the first Save
  creds,    \* with its credentials
  dns,      \* what net.LookupHost answers for each name; {} when it fails
  resolved, \* what it answered when the secrets were rendered
  phase,    \* how far a Connect has come
  peer,     \* the address charon talks to
  todo,     \* the children connect has yet to initiate
  routed    \* the networks that lead into the tunnel

saved == <<profile, creds, resolved>>
vars  == <<saved, dns, phase, peer, todo, routed>>

-----------------------------------------------------------------------------
(* What is saved.                                                           *)

SAML == {"psk_xauth_saml", "psk_eap_saml"}

\* The profiles that the Save button can produce.
Profile == {Saved(w) : w \in {x \in Forms : ~Refused(x)}}

\* A SAML profile is saved without a user: its token is fetched at Connect.
Entered(p, user) == IF p.auth \in SAML THEN None ELSE user

-----------------------------------------------------------------------------
(* RenderConf.                                                              *)

\* Variant: an empty list of custom networks is taken as it is.
ListedTrafficSelectors(p) == IF p.split = "custom" THEN p.cidrs ELSE <<Everything>>

\* The networks reached through the tunnel: those listed, or everything.
RemoteTrafficSelectors(p) ==
  IF p.split = "custom" /\ Len(p.cidrs) > 0 THEN p.cidrs ELSE <<Everything>>

\* Variant: one child lists every network, in either version of IKE.
OneChild(p) == <<RemoteTrafficSelectors(p)>>

\* IKEv1 negotiates one pair of selectors per child: a child per network.
ChildRemoteTS(p) ==
  LET ts == RemoteTrafficSelectors(p) IN
  IF p.ike = "v1" THEN [i \in 1 .. Len(ts) |-> <<ts[i]>>] ELSE <<ts>>

\* The i-th child is called <conn>-<i>, but the first just <conn>, here 1.
ChildName(i) == i

Round(auth, id, user) == [auth |-> auth, id |-> id, user |-> user]

\* writeAuthRounds: what we authenticate with, round by round.
LocalRounds(p, user) ==
  CASE p.auth = "psk" -> <<Round("psk", p.localID, None)>>
    [] p.auth \in {"psk_xauth", "psk_xauth_saml"} ->
         <<Round("psk", p.localID, None), Round("xauth", None, user)>>
    [] p.auth = "eap_mschapv2" -> <<Round("eap", None, user)>>
    [] p.auth = "psk_eap_saml" -> <<Round("eap", p.localID, user)>>

\* What the peer must present; None accepts anything.
RemoteID(p) == p.remoteID

\* The entry: the headers of its blocks, with their indentation, are kept
\* because connect finds the children by them.
RenderConf(p, user) ==
  LET ts == ChildRemoteTS(p)
      Block(d, w, n) == [indent |-> d, word |-> w, name |-> n] IN
  [version    |-> p.ike,
   aggressive |-> p.ike = "v1" /\ p.mode = "aggressive",
   addrs      |-> p.gateway,
   local      |-> LocalRounds(p, user),
   remote     |-> RemoteID(p),
   ts         |-> [i \in 1 .. Len(ts) |-> [name |-> ChildName(i), nets |-> ts[i]]],
   blocks     |-> [i \in 1 .. Len(LocalRounds(p, user)) |-> Block(4, "local", 0)]
                    \o <<Block(4, "remote", 0), Block(4, "children", 0)>>
                    \o [i \in 1 .. Len(ts) |-> Block(6, "child", ChildName(i))]]

-----------------------------------------------------------------------------
(* RenderSecrets.                                                           *)

\* Variant: the PSK is bound to the gateway as typed, and to that alone.
PskTyped(p, addrs) == {p.gateway}

\* Every identity the PSK is bound to.
PskIdentities(p, addrs) ==
  ({p.gateway, p.localID} \ {None}) \cup (IF p.gateway \in Host THEN addrs ELSE {})

\* Variant: the SAML token over EAP gets no section of its own.
UserSecretNoSaml(p, user) ==
  IF user = None THEN {}
  ELSE IF p.auth \in {"psk_xauth", "psk_xauth_saml"}
         THEN {[kind |-> "xauth", id |-> user]}
  ELSE IF p.auth = "eap_mschapv2" THEN {[kind |-> "eap", id |-> user]} ELSE {}

UserSecret(p, user) ==
  IF user = None THEN {}
  ELSE CASE p.auth = "psk" -> {}
         [] p.auth \in {"psk_xauth", "psk_xauth_saml"} ->
              {[kind |-> "xauth", id |-> user]}
         [] p.auth \in {"eap_mschapv2", "psk_eap_saml"} ->
              {[kind |-> "eap", id |-> user]}

RenderSecrets(p, user, addrs) ==
  [psk |-> PskIdentities(p, addrs), user |-> UserSecret(p, user)]

-----------------------------------------------------------------------------
(* Saving.  strongSwan loads what has been written.                         *)

\* conf.d/<conn>.conf and conf.d/<conn>-secrets.conf, which only Apply writes.
entry   == RenderConf(profile, creds)
secrets == RenderSecrets(profile, creds, resolved)

\* What LookupHost finds out about the gateway; an address is not looked up.
Lookup(p) == IF p.gateway \in Host THEN dns[p.gateway] ELSE {}

Apply(p, user) ==
  /\ profile' = p
  /\ creds' = user
  /\ resolved' = Lookup(p)
  /\ phase' = "idle"
  /\ peer' = None
  /\ todo' = <<>> /\ routed' = {}
  /\ UNCHANGED dns

Idle == phase \in {"idle", "noaddr", "nokey", "badid", "nouser"}

\* Done once: another first Save leads where another behaviour leads.
Save(w) ==
  /\ profile = None
  /\ ~Refused(w)
  /\ LET p == Saved(w) IN \E user \in User \cup {None} : Apply(p, Entered(p, user))

\* The form is opened for the profile, and saved with the version it shows or
\* with the other one chosen.
Edit(version) ==
  /\ Idle /\ profile # None
  /\ LET w == ChooseVersion(Shown(profile), version)
         p == Saved(w)
     IN /\ ~Refused(w)
        /\ \E user \in User \cup {None} : Apply(p, Entered(p, user))

\* connectSAML applies the profile again, with the UID that was logged in.
ApplyToken(uid) ==
  /\ Idle /\ profile # None
  /\ profile.auth \in SAML
  /\ Apply(profile, uid)

-----------------------------------------------------------------------------
(* Connecting.                                                              *)

\* childNamesFromConf: the headers indented by six, after "children", in the
\* order in which they come.
ChildNames ==
  LET b     == entry.blocks
      found == {i \in 1 .. Len(b) : /\ b[i].indent = 6
                                    /\ \E j \in 1 .. i : b[j].word = "children"}
  IN IF found = {} THEN <<ChildName(1)>> ELSE Each(LAMBDA i : b[i].name, InOrder(found))

Connect ==
  /\ Idle /\ profile # None
  /\ todo' = ChildNames
  /\ phase' = "phase1"
  /\ UNCHANGED <<saved, dns, peer, routed>>

\* What we present: the configured id, or our address.
Presented == IF entry.local[1].id = None THEN Own
                                                ELSE entry.local[1].id

\* A FortiGate presents its address or, in aggressive mode, its phase-1 name.
PeerIdents(a) == IF entry.aggressive THEN {a, Group} ELSE {a}

\* charon looks the PSK up by the identities and addresses in play.
PskFound(a) == secrets.psk \cap {Presented, a} # {}

UserFound ==
  \A i \in 1 .. Len(entry.local) :
    LET r == entry.local[i] IN
    r.auth # "psk" => /\ r.user # None
                      /\ [kind |-> r.auth, id |-> r.user] \in secrets.user

\* The gateway has an address, and phase 1 succeeds or says what is missing.
Phase1 ==
  /\ phase = "phase1"
  /\ \/ /\ entry.addrs \in Host /\ dns[entry.addrs] = {}
        /\ phase' = "noaddr" /\ peer' = None
     \/ \E a \in IF entry.addrs \in Host THEN dns[entry.addrs]
                                         ELSE {entry.addrs} :
        \E id \in PeerIdents(a) :
          /\ peer' = a
          /\ phase' = IF entry.remote \notin {None, id} THEN "badid"
                      ELSE IF ~PskFound(a) THEN "nokey"
                      ELSE IF ~UserFound THEN "nouser"
                      ELSE "phase2"
  /\ UNCHANGED <<saved, dns, todo, routed>>

\* The gateway narrows the selectors of an IKEv1 child to the first one.
Granted(nets) == IF entry.version = "v1" THEN {nets[1]}
                 ELSE {nets[i] : i \in 1 .. Len(nets)}

\* swanctl --initiate brings up the first child of the given name.
Initiate ==
  /\ phase = "phase2" /\ todo # <<>>
  /\ LET named == {i \in 1 .. Len(entry.ts) : entry.ts[i].name = Head(todo)}
     IN \E i \in named : /\ \A j \in named : i <= j
                         /\ routed' = routed \cup Granted(entry.ts[i].nets)
  /\ todo' = Tail(todo)
  /\ UNCHANGED <<saved, dns, phase, peer>>

Connected ==
  /\ phase = "phase2" /\ todo = <<>>
  /\ phase' = "up"
  /\ UNCHANGED <<saved, dns, peer, todo, routed>>

Disconnect ==
  /\ phase \in {"phase2", "up"}
  /\ phase' = "idle"
  /\ peer' = None
  /\ todo' = <<>> /\ routed' = {}
  /\ UNCHANGED <<saved, dns>>

\* The name moves, starts or stops resolving.
DnsChanges(h) ==
  /\ phase # "phase1"
  /\ \E a \in SUBSET Addr : dns' = [dns EXCEPT ![h] = a]
  /\ UNCHANGED <<saved, phase, peer, todo, routed>>

-----------------------------------------------------------------------------
Init ==
  /\ profile = None /\ creds = None /\ resolved = {}
  /\ dns \in [Host -> SUBSET Addr]
  /\ phase = "idle" /\ peer = None
  /\ todo = <<>> /\ routed = {}

Next ==
  \/ \E w \in Forms : Save(w)
  \/ \E v \in {"IKEv1", "IKEv2"} : Edit(v)
  \/ \E uid \in User : ApplyToken(uid)
  \/ Connect \/ Phase1 \/ Initiate \/ Connected \/ Disconnect
  \/ \E h \in Host : DnsChanges(h)

Spec == Init /\ [][Next]_vars

-----------------------------------------------------------------------------
(* Properties.                                                              *)

Phases == {"idle", "phase1", "phase2", "up", "noaddr", "nokey", "badid", "nouser"}

\* Every variable stays in its type, and the entry in its shape: at least one
\* child, each with at least one selector.
TypeOK ==
  /\ profile \in Profile \cup {None}
  /\ creds \in User \cup {None}
  /\ dns \in [Host -> SUBSET Addr]
  /\ resolved \subseteq Addr
  /\ profile # None => /\ entry.ts # <<>>
                       /\ \A i \in 1 .. Len(entry.ts) : entry.ts[i].nets # <<>>
  /\ phase \in Phases
  /\ peer \in Addr \cup {None}
  /\ todo \in Seq(Nat)
  /\ routed \subseteq Net \cup {Everything}

Networks(p) == LET ts == RemoteTrafficSelectors(p) IN {ts[i] : i \in 1 .. Len(ts)}

\* When Connect has initiated the children it read out of the entry, every
\* network of the profile leads into the tunnel and nothing else does.  In
\* IKEv1 the gateway drops all selectors of a child but the first, so this
\* needs the children, their names and the reading of them to agree.
AllNetworksRouted == phase = "up" => routed = Networks(profile)

\* The PSK is found by every gateway the secrets were rendered for.  It is
\* missing only when a name leads to an address it did not lead to when the
\* profile was saved, and no Local ID that we present stands in for it.
PskBound ==
  phase = "nokey" =>
    /\ profile.gateway \in Host /\ peer \notin resolved
    /\ profile.localID = None \/ profile.auth = "eap_mschapv2"

\* A user who has been entered, or has logged in, always has a secret that
\* charon finds for the round the entry asks for: what is missing then is
\* the user's name, never its secret.
UserSecretFound == phase = "nouser" => creds = None

\* A profile that is opened in the form and saved without a change stays what
\* it was, its proposals included: those the form works out from them are the
\* same ones, in the same order, none dropped and none listed twice.
RoundTrip == profile # None => Saved(Shown(profile)) = profile
=============================================================================
