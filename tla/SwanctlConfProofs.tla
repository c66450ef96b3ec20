-------------------------- MODULE SwanctlConfProofs --------------------------
(***************************************************************************)
(* Theorems about SwanctlConf, for every set of addresses, names,          *)
(* identities, networks and users, and every catalogue of groups.          *)
(***************************************************************************)
EXTENDS SwanctlConf, ProfileFormProofs, FiniteSetTheorems, TLAPS

AuthModes == {"psk", "psk_xauth", "psk_xauth_saml", "eap_mschapv2", "psk_eap_saml"}

\* What the rest needs to know of a profile: the form produces no other mode
\* of authentication, and always a gateway.
Shaped(p) == p.auth \in AuthModes /\ p.gateway \in Addr \cup Host

Options == {"PSK only", "PSK + XAuth", "PSK + EAP-MSCHAPv2", authSAML}

LEMMA OfferedType ==
  ASSUME NEW v PROVE Offered(v) \subseteq Options /\ AuthOptions(v)[1] \in Options
<1> DEFINE s == AuthOptions(v)
<1>1. s \in Seq(Options) /\ Len(s) # 0
  <2>1. CASE v = "IKEv1"
    BY <2>1 DEF AuthOptions, Options
  <2>2. CASE v # "IKEv1"
    BY <2>2 DEF AuthOptions, Options
  <2> QED BY <2>1, <2>2
<1>2. Offered(v) = {s[i] : i \in DOMAIN s}
  BY DEF Offered
<1> HIDE DEF s
<1>3. /\ DOMAIN s = 1 .. Len(s) /\ 1 \in 1 .. Len(s)
      /\ \A i \in 1 .. Len(s) : s[i] \in Options
  BY <1>1
<1>4. Offered(v) \subseteq Options /\ s[1] \in Options
  BY <1>2, <1>3
<1> QED BY <1>4 DEF s

LEMMA AuthModeType ==
  ASSUME NEW v, NEW a \in Options PROVE AuthMode(v, a) \in AuthModes
BY DEF AuthMode, Options, AuthModes, authSAML

\* Whatever the form says when Save is pressed, ...
LEMMA SavedShape ==
  ASSUME NEW w \in Forms PROVE Shaped(Saved(w))
<1>1. w.auth \in Options /\ w.gateway \in Addr \cup Host
  BY OfferedType DEF Forms
<1>2. /\ Saved(w).auth = AuthMode(w.version, w.auth)
      /\ Saved(w).gateway = w.gateway
  BY DEF Saved
<1> QED BY <1>1, <1>2, AuthModeType DEF Shaped

\* ... and when a profile is opened and saved again.
LEMMA EditedShape ==
  ASSUME NEW p, Shaped(p), NEW v
  PROVE  Shaped(Saved(ChooseVersion(Shown(p), v)))
<1> DEFINE w == ChooseVersion(Shown(p), v)
<1>1. Shown(p).auth \in Options /\ Shown(p).gateway = p.gateway
  BY DEF Shown, AuthOption, Shaped, AuthModes, Options
<1>2. w.auth \in Options /\ w.gateway = p.gateway
  <2>1. w = [Shown(p) EXCEPT !.version = v,
               !.auth = IF @ \in Offered(v) THEN @ ELSE AuthOptions(v)[1]]
    BY DEF ChooseVersion
  <2>2. /\ w.auth = IF Shown(p).auth \in Offered(v) THEN Shown(p).auth
                    ELSE AuthOptions(v)[1]
        /\ w.gateway = Shown(p).gateway
    <3> DEFINE s == Shown(p)
    <3>1. DOMAIN s = {"version", "mode", "auth", "gateway", "localID",
                      "remoteID", "split", "cidrs", "saml", "picks"}
      BY DEF Shown
    <3> HIDE DEF s
    <3> QED BY <2>1, <3>1 DEF s
  <2> QED BY <1>1, <2>2, OfferedType
<1>3. /\ Saved(w).auth = AuthMode(w.version, w.auth)
      /\ Saved(w).gateway = w.gateway
  BY DEF Saved
<1> HIDE DEF w
<1>4. Shaped(Saved(w))
  BY <1>2, <1>3, AuthModeType DEF Shaped
<1> QED BY <1>4 DEF w

-----------------------------------------------------------------------------
(* The entry and its secrets.                                               *)

LEMMA LocalRoundsShape ==
  ASSUME NEW p, Shaped(p), NEW user
  PROVE  /\ LocalRounds(p, user)[1].id =
              IF p.auth = "eap_mschapv2" THEN None ELSE p.localID
         /\ \A i \in 1 .. Len(LocalRounds(p, user)) :
              LET r == LocalRounds(p, user)[i] IN
              r.auth # "psk" => r.user = user /\
                (user # None => [kind |-> r.auth, id |-> user] \in UserSecret(p, user))
<1>1. CASE p.auth = "psk"
  BY <1>1 DEF LocalRounds, Round
<1>2. CASE p.auth \in {"psk_xauth", "psk_xauth_saml"}
  BY <1>2 DEF LocalRounds, Round, UserSecret
<1>3. CASE p.auth = "eap_mschapv2"
  BY <1>3 DEF LocalRounds, Round, UserSecret
<1>4. CASE p.auth = "psk_eap_saml"
  BY <1>4 DEF LocalRounds, Round, UserSecret
<1> QED BY <1>1, <1>2, <1>3, <1>4 DEF Shaped, AuthModes

\* A user who is known has a secret for every round.
LEMMA KnownUserFound == Shaped(profile) /\ creds # None => UserFound
BY LocalRoundsShape DEF UserFound, entry, secrets, RenderConf, RenderSecrets

\* The PSK is bound to the gateway, its resolved addresses, and the Local ID.
LEMMA PskMissing ==
  ASSUME Shaped(profile), NEW a, ~PskFound(a),
         profile.gateway \notin Host => a = profile.gateway
  PROVE  /\ profile.gateway \in Host /\ a \notin resolved
         /\ profile.localID = None \/ profile.auth = "eap_mschapv2"
<1>1. secrets.psk = ({profile.gateway, profile.localID} \ {None})
        \cup (IF profile.gateway \in Host THEN resolved ELSE {})
  BY DEF secrets, RenderSecrets, PskIdentities
<1>2. profile.gateway # None
  BY ConfAssumption DEF Shaped
<1>3. a \notin secrets.psk /\ Presented \notin secrets.psk
  BY DEF PskFound
<1>4. profile.gateway \in Host /\ a \notin resolved
  BY <1>1, <1>2, <1>3
<1>5. entry.local = LocalRounds(profile, creds)
  BY DEF entry, RenderConf
<1>6. ASSUME profile.localID # None, profile.auth # "eap_mschapv2" PROVE FALSE
  <2>1. Presented = profile.localID
    BY <1>5, <1>6, LocalRoundsShape DEF Presented
  <2> QED BY <1>1, <1>3, <1>6, <2>1
<1> QED BY <1>4, <1>6

-----------------------------------------------------------------------------
(* The inductive invariant: a Connect that failed has failed for a reason.  *)

ShapeInv == profile # None => Shaped(profile)
PhaseInv == phase = "phase1" => profile # None

ConfInv ==
  /\ ShapeInv /\ PhaseInv
  /\ UserSecretFound /\ PskBound

LEMMA InitConf == Init => ConfInv
BY DEF Init, ConfInv, ShapeInv, PhaseInv, UserSecretFound, PskBound

LEMMA ApplyConf ==
  ASSUME NEW p, NEW user, Apply(p, user), Shaped(p) PROVE ConfInv'
BY DEF Apply, ConfInv, ShapeInv, PhaseInv, UserSecretFound, PskBound

LEMMA Phase1Conf == ConfInv /\ Phase1 => ConfInv'
<1> SUFFICES ASSUME ConfInv, Phase1 PROVE ConfInv'
  OBVIOUS
<1>1. Shaped(profile) /\ UNCHANGED <<profile, creds, resolved>>
  BY DEF Phase1, saved, ConfInv, ShapeInv, PhaseInv
<1>2. entry.addrs = profile.gateway /\ entry.remote = profile.remoteID
  BY DEF entry, RenderConf, RemoteID
<1>3. CASE phase' = "noaddr"
  BY <1>1, <1>3 DEF ConfInv, ShapeInv, PhaseInv, UserSecretFound, PskBound
<1>4. ASSUME NEW a \in IF entry.addrs \in Host THEN dns[entry.addrs]
                                               ELSE {entry.addrs},
             NEW id, peer' = a,
             phase' = IF entry.remote \notin {None, id} THEN "badid"
                      ELSE IF ~PskFound(a) THEN "nokey"
                      ELSE IF ~UserFound THEN "nouser"
                      ELSE "phase2"
      PROVE  ConfInv'
  <2>1. profile.gateway \notin Host => a = profile.gateway
    BY <1>2, <1>4
  <2>3. phase' = "nokey" => ~PskFound(a)
    BY <1>4
  <2>4. phase' = "nouser" => creds = None
    BY <1>1, <1>4, KnownUserFound
  <2>5. phase' = "nokey" =>
          /\ profile.gateway \in Host /\ a \notin resolved
          /\ profile.localID = None \/ profile.auth = "eap_mschapv2"
    BY <1>1, <2>1, <2>3, PskMissing
  <2>6. phase' # "phase1"
    BY <1>4
  <2> QED BY <1>1, <1>4, <2>4, <2>5, <2>6
       DEF ConfInv, ShapeInv, PhaseInv, UserSecretFound, PskBound
<1> QED BY <1>3, <1>4 DEF Phase1

LEMMA NextConf == ConfInv /\ [Next]_vars => ConfInv'
<1> SUFFICES ASSUME ConfInv, [Next]_vars PROVE ConfInv'
  OBVIOUS
<1>1. ASSUME NEW w \in Forms, Save(w) PROVE ConfInv'
  BY <1>1, SavedShape, ApplyConf DEF Save
<1>2. ASSUME NEW v, Edit(v) PROVE ConfInv'
  BY <1>2, EditedShape, ApplyConf DEF Edit, ConfInv, ShapeInv
<1>3. ASSUME NEW uid, ApplyToken(uid) PROVE ConfInv'
  BY <1>3, ApplyConf DEF ApplyToken, ConfInv, ShapeInv
<1> USE DEF ConfInv, ShapeInv, PhaseInv, UserSecretFound, PskBound
<1>4. ASSUME Connect PROVE ConfInv'
  BY <1>4 DEF Connect, saved
<1>5. ASSUME Phase1 PROVE ConfInv'
  BY <1>5, Phase1Conf
<1>6. ASSUME Initiate PROVE ConfInv'
  BY <1>6 DEF Initiate, saved
<1>7. ASSUME Connected PROVE ConfInv'
  BY <1>7 DEF Connected, saved
<1>8. ASSUME Disconnect PROVE ConfInv'
  BY <1>8 DEF Disconnect, saved
<1>9. ASSUME NEW h \in Host, DnsChanges(h) PROVE ConfInv'
  BY <1>9 DEF DnsChanges, saved
<1>10. ASSUME UNCHANGED vars PROVE ConfInv'
  BY <1>10 DEF vars, saved
<1> QED BY <1>1, <1>2, <1>3, <1>4, <1>5, <1>6, <1>7, <1>8, <1>9, <1>10 DEF Next

\* Whatever is edited, and whoever has logged in: a user who is known has the
\* secret that the rounds of the entry ask for.
THEOREM SecretForUser == Spec => []UserSecretFound
<1>1. ConfInv => UserSecretFound
  BY DEF ConfInv
<1> QED BY <1>1, InitConf, NextConf, PTL DEF Spec

\* However the DNS changes, the PSK is missing only for a gateway that has
\* moved since the profile was saved.
THEOREM PskForGateway == Spec => []PskBound
<1>1. ConfInv => PskBound
  BY DEF ConfInv
<1> QED BY <1>1, InitConf, NextConf, PTL DEF Spec

-----------------------------------------------------------------------------
(* A Connect routes the networks of the children one by one.                *)

Networked(p) == p.ike \in {"v1", "v2"} /\ p.cidrs \in Seq(Net)

LEMMA SavedNetworks ==
  ASSUME NEW w, w.cidrs \in Seq(Net) PROVE Networked(Saved(w))
BY DEF Saved, Networked

LEMMA FormNetworks ==
  ASSUME NEW w \in Forms PROVE w.cidrs \in Seq(Net)
<1>1. PICK n \in 0 .. MaxCidrs : w.cidrs \in [1 .. n -> Net]
  BY DEF Forms, Cidrs
<1>2. n \in Nat
  BY FormAssumption
<1> QED BY <1>1, <1>2

LEMMA EditedNetworks ==
  ASSUME NEW p, Networked(p), NEW v
  PROVE  Networked(Saved(ChooseVersion(Shown(p), v)))
<1> DEFINE w == ChooseVersion(Shown(p), v)
<1>1. w.cidrs = Shown(p).cidrs
  <2> DEFINE s == Shown(p)
  <2>1. w = [s EXCEPT !.version = v,
               !.auth = IF @ \in Offered(v) THEN @ ELSE AuthOptions(v)[1]]
    BY DEF ChooseVersion
  <2>2. DOMAIN s = {"version", "mode", "auth", "gateway", "localID",
                    "remoteID", "split", "cidrs", "saml", "picks"}
    BY DEF Shown
  <2> HIDE DEF s
  <2>3. w.cidrs = s.cidrs
    BY <2>1, <2>2
  <2> QED BY <2>3 DEF s
<1>2. Shown(p).cidrs = p.cidrs
  BY DEF Shown
<1> HIDE DEF w
<1>3. Networked(Saved(w))
  BY <1>1, <1>2, SavedNetworks DEF Networked
<1> QED BY <1>3 DEF w

\* The children: in IKEv1 one for each network, in IKEv2 one for all of them.
LEMMA ChildrenShape ==
  ASSUME NEW p, Networked(p)
  PROVE  LET ts == RemoteTrafficSelectors(p)
             cs == ChildRemoteTS(p)
         IN /\ ts \in Seq(Net \cup {Everything}) /\ ts # <<>>
            /\ cs \in Seq(Seq(Net \cup {Everything})) /\ Len(cs) >= 1
            /\ p.ike = "v1" => Len(cs) = Len(ts) /\
                 \A i \in 1 .. Len(cs) : cs[i] = <<ts[i]>>
            /\ p.ike # "v1" => cs = <<ts>>
<1>1. RemoteTrafficSelectors(p) \in Seq(Net \cup {Everything})
  BY DEF RemoteTrafficSelectors, Networked
<1>2. Len(RemoteTrafficSelectors(p)) >= 1
  BY DEF RemoteTrafficSelectors, Networked
<1> DEFINE ts == RemoteTrafficSelectors(p)
<1>3. ChildRemoteTS(p) = IF p.ike = "v1" THEN [i \in 1 .. Len(ts) |-> <<ts[i]>>] ELSE <<ts>>
  BY DEF ChildRemoteTS
<1> HIDE DEF ts
<1>4. CASE p.ike = "v1"
  <2>1. \A i \in 1 .. Len(ts) : <<ts[i]>> \in Seq(Net \cup {Everything})
    BY <1>1 DEF ts
  <2> QED BY <1>1, <1>2, <1>3, <1>4, <2>1 DEF ts
<1>5. CASE p.ike # "v1"
  BY <1>1, <1>2, <1>3, <1>5 DEF ts
<1> QED BY <1>4, <1>5

LEMMA FunctionSeq ==
  ASSUME NEW S, NEW n \in Nat, NEW f \in [1 .. n -> S]
  PROVE  f \in Seq(S) /\ Len(f) = n
OBVIOUS

LEMMA ConcatAt ==
  ASSUME NEW S, NEW s \in Seq(S), NEW t \in Seq(S), NEW c, c = s \o t
  PROVE  /\ c \in Seq(S) /\ Len(c) = Len(s) + Len(t)
         /\ \A i \in 1 .. Len(s) : c[i] = s[i]
         /\ \A i \in 1 .. Len(t) : c[Len(s) + i] = t[i]
OBVIOUS

LEMMA ConcatThree ==
  ASSUME NEW S, NEW f \in Seq(S), NEW m \in Seq(S), NEW t \in Seq(S),
         NEW b, b = f \o m \o t
  PROVE  /\ Len(b) = Len(f) + Len(m) + Len(t)
         /\ \A i \in 1 .. Len(f) : b[i] = f[i]
         /\ \A i \in 1 .. Len(m) : b[Len(f) + i] = m[i]
         /\ \A i \in 1 .. Len(t) : b[Len(f) + Len(m) + i] = t[i]
<1>1. PICK c : c = f \o m
  OBVIOUS
<1>2. /\ c \in Seq(S) /\ Len(c) = Len(f) + Len(m)
      /\ \A i \in 1 .. Len(f) : c[i] = f[i]
      /\ \A i \in 1 .. Len(m) : c[Len(f) + i] = m[i]
  BY <1>1, ConcatAt
<1>3. c \in Seq(S) /\ b = c \o t
  BY <1>1, <1>2
<1>4. /\ Len(b) = Len(c) + Len(t)
      /\ \A i \in 1 .. Len(c) : b[i] = c[i]
      /\ \A i \in 1 .. Len(t) : b[Len(c) + i] = t[i]
  BY <1>3, ConcatAt
<1> QED BY <1>2, <1>4

\* The blocks of an entry: the rounds and the peer, "children", and n of them.
Laid(b, l, n) ==
  /\ Len(b) = l + 2 + n
  /\ \A i \in 1 .. l + 1 : b[i].indent = 4 /\ b[i].word # "children"
  /\ b[l + 2].indent = 4 /\ b[l + 2].word = "children"
  /\ \A i \in 1 .. n : b[l + 2 + i].indent = 6 /\ b[l + 2 + i].name = i

LEMMA BlocksShape ==
  ASSUME NEW p, Shaped(p), Networked(p), NEW user,
         NEW b, b = RenderConf(p, user).blocks, NEW n, n = Len(ChildRemoteTS(p))
  PROVE  \E l \in Nat : Laid(b, l, n)
<1> DEFINE l == Len(LocalRounds(p, user))
           round == [indent |-> 4, word |-> "local", name |-> 0]
           remote == [indent |-> 4, word |-> "remote", name |-> 0]
           children == [indent |-> 4, word |-> "children", name |-> 0]
           child(i) == [indent |-> 6, word |-> "child", name |-> i]
           Block == {round, remote, children} \cup {child(i) : i \in 1 .. n}
           first == [i \in 1 .. l |-> round]
           mid == <<remote, children>>
           last == [i \in 1 .. n |-> child(i)]
<1>1. l \in Nat
  BY DEF LocalRounds, Round, Shaped, AuthModes
<1>2. n \in Nat
  BY ChildrenShape
<1>3. b = first \o mid \o last
  BY DEF RenderConf, ChildName
<1> HIDE DEF l, round, remote, children, child
<1>4. first \in Seq(Block) /\ Len(first) = l
  <2>1. first \in [1 .. l -> Block]
    OBVIOUS
  <2> HIDE DEF first, Block
  <2> QED BY <1>1, <2>1, FunctionSeq
<1>5. last \in Seq(Block) /\ Len(last) = n
  <2>1. last \in [1 .. n -> Block]
    OBVIOUS
  <2> HIDE DEF last, Block
  <2> QED BY <1>2, <2>1, FunctionSeq
<1>6. mid \in Seq(Block) /\ Len(mid) = 2
  OBVIOUS
<1>7. /\ \A i \in 1 .. l : first[i] = round
      /\ mid[1] = remote /\ mid[2] = children
      /\ \A i \in 1 .. n : last[i] = child(i)
  OBVIOUS
<1> HIDE DEF first, mid, last, Block
<1>10. /\ Len(b) = l + 2 + n
       /\ \A i \in 1 .. l : b[i] = first[i]
       /\ b[l + 1] = mid[1] /\ b[l + 2] = mid[2]
       /\ \A i \in 1 .. n : b[l + 2 + i] = last[i]
  <2>1. PICK S, f, m, t : S = Block /\ f = first /\ m = mid /\ t = last
    OBVIOUS
  <2>2. f \in Seq(S) /\ m \in Seq(S) /\ t \in Seq(S) /\ b = f \o m \o t
    BY <1>3, <1>4, <1>5, <1>6, <2>1
  <2>3. /\ Len(b) = Len(f) + Len(m) + Len(t)
        /\ \A i \in 1 .. Len(f) : b[i] = f[i]
        /\ \A i \in 1 .. Len(m) : b[Len(f) + i] = m[i]
        /\ \A i \in 1 .. Len(t) : b[Len(f) + Len(m) + i] = t[i]
    BY <2>2, ConcatThree
  <2>4. Len(f) = l /\ Len(m) = 2 /\ Len(t) = n
    BY <1>4, <1>5, <1>6, <2>1
  <2> QED BY <2>1, <2>3, <2>4
<1>11. \A i \in 1 .. l + 1 : b[i] \in {round, remote}
  <2>1. \A i \in 1 .. l : b[i] = round
    BY <1>7, <1>10
  <2>2. b[l + 1] = remote
    BY <1>7, <1>10
  <2>3. \A i \in 1 .. l + 1 : i = l + 1 \/ i \in 1 .. l
    BY <1>1
  <2> QED BY <2>1, <2>2, <2>3
<1>12. b[l + 2] = children /\ \A i \in 1 .. n : b[l + 2 + i] = child(i)
  BY <1>7, <1>10
<1>13. /\ \A i \in 1 .. l + 1 : b[i].indent = 4 /\ b[i].word # "children"
       /\ b[l + 2].indent = 4 /\ b[l + 2].word = "children"
       /\ \A i \in 1 .. n : b[l + 2 + i].indent = 6 /\ b[l + 2 + i].name = i
  <2>1. /\ \A x \in {round, remote} : x.indent = 4 /\ x.word # "children"
        /\ children.indent = 4 /\ children.word = "children"
        /\ \A i : child(i).indent = 6 /\ child(i).name = i
    BY DEF round, remote, children, child
  <2> QED BY <1>11, <1>12, <2>1
<1> QED BY <1>1, <1>10, <1>13 DEF Laid

LEMMA PlacesFrom ==
  ASSUME NEW a \in Nat, NEW n \in Nat, NEW S, S = a + 1 .. a + n
  PROVE  InOrder(S) = [k \in 1 .. n |-> a + k]
<1> DEFINE f == [k \in 1 .. n |-> a + k]
<1>1. Increasing(f, n)
  BY DEF Increasing
<1>2. S = {f[k] : k \in 1 .. n}
  <2>1. ASSUME NEW i \in S PROVE i - a \in 1 .. n /\ f[i - a] = i
    BY <2>1
  <2>2. \A k \in 1 .. n : f[k] \in S
    OBVIOUS
  <2> QED BY <2>1, <2>2
<1> HIDE DEF f
<1>3. InOrder(S) = f
  BY <1>1, <1>2, InOrderIs
<1> QED BY <1>3 DEF f

LEMMA FoundAt ==
  ASSUME NEW l \in Nat, NEW n \in Nat, NEW b, Laid(b, l, n)
  PROVE  {i \in 1 .. Len(b) : /\ b[i].indent = 6
                              /\ \E j \in 1 .. i : b[j].word = "children"}
         = l + 3 .. l + 2 + n
<1> USE DEF Laid
<1>1. ASSUME NEW i \in 1 .. Len(b), b[i].indent = 6 PROVE i \in l + 3 .. l + 2 + n
  <2>1. i \notin 1 .. l + 1 /\ i # l + 2
    BY <1>1
  <2> QED BY <2>1
<1>2. ASSUME NEW i \in l + 3 .. l + 2 + n
      PROVE  i \in 1 .. Len(b) /\ b[i].indent = 6 /\ l + 2 \in 1 .. i
  <2>1. i - (l + 2) \in 1 .. n /\ i = l + 2 + (i - (l + 2))
    BY <1>2
  <2>2. b[i].indent = 6
    BY <2>1
  <2> QED BY <1>2, <2>2
<1> QED BY <1>1, <1>2

\* What connect reads out of the entry are the names of its children, in order.
LEMMA NamesRead ==
  ASSUME Shaped(profile), Networked(profile)
  PROVE  /\ Len(entry.ts) = Len(ChildRemoteTS(profile)) /\ Len(entry.ts) \in Nat \ {0}
         /\ \A i \in 1 .. Len(entry.ts) : /\ entry.ts[i].name = i
                                          /\ entry.ts[i].nets = ChildRemoteTS(profile)[i]
         /\ ChildNames = [i \in 1 .. Len(entry.ts) |-> i]
<1>1. PICK n, b, S :
        /\ n = Len(ChildRemoteTS(profile)) /\ b = entry.blocks
        /\ S = {i \in 1 .. Len(b) : /\ b[i].indent = 6
                                    /\ \E j \in 1 .. i : b[j].word = "children"}
  OBVIOUS
<1>2. n \in Nat \ {0}
  <2>1. Len(ChildRemoteTS(profile)) \in Nat \ {0}
    BY ChildrenShape
  <2> QED BY <1>1, <2>1
<1>3. entry.ts = [i \in 1 .. n |-> [name |-> i, nets |-> ChildRemoteTS(profile)[i]]]
  BY <1>1 DEF entry, RenderConf, ChildName
<1>4. PICK l \in Nat : Laid(b, l, n)
  <2>1. \E l \in Nat : Laid(entry.blocks, l, Len(ChildRemoteTS(profile)))
    BY BlocksShape DEF entry
  <2> QED BY <1>1, <2>1
<1>5. ChildNames = IF S = {} THEN <<1>>
                   ELSE [k \in 1 .. Len(InOrder(S)) |-> b[InOrder(S)[k]].name]
  BY <1>1 DEF ChildNames, ChildName, Each
<1>6. S = l + 3 .. l + 2 + n
  <2>1. n \in Nat /\ l \in Nat
    BY <1>2, <1>4
  <2>2. {i \in 1 .. Len(b) : /\ b[i].indent = 6
                             /\ \E j \in 1 .. i : b[j].word = "children"}
        = l + 3 .. l + 2 + n
    BY <1>4, <2>1, FoundAt
  <2> QED BY <1>1, <2>2
<1>7. S = (l + 2) + 1 .. (l + 2) + n /\ l + 2 \in Nat
  BY <1>2, <1>4, <1>6
<1>8. InOrder(S) = [k \in 1 .. n |-> l + 2 + k] /\ Len(InOrder(S)) = n
  <2>1. n \in Nat /\ l + 2 \in Nat
    BY <1>2, <1>7
  <2>2. InOrder(S) = [k \in 1 .. n |-> l + 2 + k]
    BY <1>7, <2>1, PlacesFrom
  <2>3. InOrder(S) \in [1 .. n -> Nat]
    BY <2>1, <2>2
  <2> QED BY <2>1, <2>2, <2>3, FunctionSeq
<1>9. S # {}
  <2>1. l + 3 \in l + 3 .. l + 2 + n
    BY <1>2, <1>4
  <2> QED BY <1>6, <2>1
<1>10. ChildNames = [k \in 1 .. n |-> k]
  <2>1. \A k \in 1 .. n : b[l + 2 + k].name = k
    BY <1>4 DEF Laid
  <2> QED BY <1>5, <1>8, <1>9, <2>1
<1> QED BY <1>1, <1>2, <1>3, <1>10

\* The first k children, once initiated, have these networks routed.
RoutedBy(k) == UNION {Granted(entry.ts[i].nets) : i \in 1 .. k}

TunnelInv ==
  /\ profile # None => Networked(profile)
  /\ phase \in {"phase1", "phase2", "up"} => profile # None
  /\ phase \notin {"phase2", "up"} => routed = {}
  /\ phase = "phase1" => todo = [i \in 1 .. Len(entry.ts) |-> i]
  /\ phase = "phase2" =>
       \E k \in 0 .. Len(entry.ts) : /\ todo = [i \in 1 .. Len(entry.ts) - k |-> k + i]
                                     /\ routed = RoutedBy(k)
  /\ phase = "up" => routed = RoutedBy(Len(entry.ts))

\* What all the children route together is what the profile lists.
LEMMA AllRouted ==
  ASSUME Shaped(profile), Networked(profile)
  PROVE  RoutedBy(Len(entry.ts)) = Networks(profile)
<1> DEFINE ts == RemoteTrafficSelectors(profile)
           cs == ChildRemoteTS(profile)
<1>1. /\ Len(entry.ts) = Len(cs) /\ entry.version = profile.ike
      /\ \A i \in 1 .. Len(cs) : entry.ts[i].nets = cs[i]
  <2>1. entry.version = profile.ike
    BY DEF entry, RenderConf
  <2> QED BY <2>1, NamesRead
<1>2. Networks(profile) = {ts[i] : i \in 1 .. Len(ts)}
  BY DEF Networks
<1>3. /\ profile.ike = "v1" => Len(cs) = Len(ts) /\ \A i \in 1 .. Len(cs) : cs[i] = <<ts[i]>>
      /\ profile.ike # "v1" => cs = <<ts>>
  BY ChildrenShape
<1> HIDE DEF ts, cs
<1>4. RoutedBy(Len(entry.ts)) = UNION {Granted(cs[i]) : i \in 1 .. Len(cs)}
  BY <1>1 DEF RoutedBy
<1>5. CASE profile.ike = "v1"
  <2>1. \A i \in 1 .. Len(cs) : Granted(cs[i]) = {ts[i]}
    BY <1>1, <1>3, <1>5 DEF Granted
  <2>2. UNION {Granted(cs[i]) : i \in 1 .. Len(cs)} = {ts[i] : i \in 1 .. Len(cs)}
    BY <2>1
  <2> QED BY <1>2, <1>3, <1>4, <1>5, <2>2
<1>6. CASE profile.ike # "v1"
  <2>1. Len(cs) = 1 /\ cs[1] = ts
    BY <1>3, <1>6
  <2>2. Granted(ts) = {ts[i] : i \in 1 .. Len(ts)}
    BY <1>1, <1>6 DEF Granted
  <2>3. UNION {Granted(cs[i]) : i \in 1 .. Len(cs)} = Granted(ts)
    BY <2>1
  <2> QED BY <1>2, <1>4, <2>2, <2>3
<1> QED BY <1>5, <1>6

LEMMA ApplyTunnel ==
  ASSUME NEW p, NEW user, Apply(p, user), Networked(p) PROVE TunnelInv'
BY DEF Apply, TunnelInv

LEMMA InitiateTunnel == ConfInv /\ TunnelInv /\ Initiate => TunnelInv'
<1> SUFFICES ASSUME ConfInv, TunnelInv, Initiate PROVE TunnelInv'
  OBVIOUS
<1>1. /\ phase = "phase2" /\ phase' = "phase2" /\ todo # <<>>
      /\ UNCHANGED <<profile, creds, resolved>>
  BY DEF Initiate, saved
<1>2. Shaped(profile) /\ Networked(profile) /\ entry' = entry
  BY <1>1 DEF ConfInv, ShapeInv, TunnelInv, entry
<1> DEFINE n == Len(entry.ts)
<1>3. n \in Nat /\ \A i \in 1 .. n : entry.ts[i].name = i
  BY <1>2, NamesRead
<1>4. PICK k \in 0 .. n : todo = [i \in 1 .. n - k |-> k + i] /\ routed = RoutedBy(k)
  BY <1>1 DEF TunnelInv
<1>5. PICK c \in 1 .. n : /\ entry.ts[c].name = Head(todo)
                          /\ routed' = routed \cup Granted(entry.ts[c].nets)
                          /\ todo' = Tail(todo)
  BY DEF Initiate
<1>6. k + 1 \in 1 .. n /\ Head(todo) = k + 1
      /\ todo' = [i \in 1 .. n - (k + 1) |-> (k + 1) + i]
  <2> HIDE DEF n
  <2>1. n - k \in Nat /\ Len(todo) = n - k /\ todo \in Seq(Nat)
    BY <1>3, <1>4
  <2>2. n - k # 0
    BY <1>1, <2>1
  <2> QED BY <1>3, <1>4, <1>5, <2>1, <2>2
<1>7. c = k + 1
  BY <1>3, <1>5, <1>6
<1>8. routed' = RoutedBy(k + 1)
  <2>1. 1 .. k + 1 = (1 .. k) \cup {k + 1}
    BY <1>3
  <2> QED BY <1>4, <1>5, <1>7, <2>1 DEF RoutedBy
<1>9. RoutedBy(k + 1)' = RoutedBy(k + 1)
  BY <1>2 DEF RoutedBy, Granted
<1> QED BY <1>1, <1>2, <1>3, <1>6, <1>8, <1>9 DEF TunnelInv

LEMMA NextTunnel == ConfInv /\ TunnelInv /\ [Next]_vars => TunnelInv'
<1> SUFFICES ASSUME ConfInv, TunnelInv, [Next]_vars PROVE TunnelInv'
  OBVIOUS
<1>1. ASSUME NEW w \in Forms, Save(w) PROVE TunnelInv'
  BY <1>1, FormNetworks, SavedNetworks, ApplyTunnel DEF Save
<1>2. ASSUME NEW v, Edit(v) PROVE TunnelInv'
  BY <1>2, EditedNetworks, ApplyTunnel DEF Edit, TunnelInv
<1>3. ASSUME NEW uid, ApplyToken(uid) PROVE TunnelInv'
  BY <1>3, ApplyTunnel DEF ApplyToken, TunnelInv
<1>4. ASSUME Connect PROVE TunnelInv'
  <2>1. Shaped(profile) /\ Networked(profile) /\ UNCHANGED <<profile, creds, routed>>
    BY <1>4 DEF Connect, saved, ConfInv, ShapeInv, TunnelInv
  <2>2. todo' = [i \in 1 .. Len(entry.ts) |-> i] /\ entry' = entry
    BY <1>4, <2>1, NamesRead DEF Connect, entry
  <2>3. routed = {}
    BY <1>4 DEF Connect, Idle, TunnelInv
  <2> QED BY <1>4, <2>1, <2>2, <2>3 DEF Connect, TunnelInv
<1>5. ASSUME UNCHANGED <<profile, creds, todo, routed>>,
             phase' = phase \/ (phase = "phase1" /\ phase' # "up")
                            \/ (phase = "phase2" /\ phase' = "up" /\ todo = <<>>)
      PROVE  TunnelInv'
  <2>1. entry' = entry
    BY <1>5 DEF entry
  <2>2. \A k : RoutedBy(k)' = RoutedBy(k)
    BY <2>1 DEF RoutedBy, Granted
  <2>3. profile # None => Len(entry.ts) \in Nat
    BY NamesRead DEF ConfInv, ShapeInv, TunnelInv
  <2>4. CASE phase' = phase
    BY <1>5, <2>1, <2>2, <2>4 DEF TunnelInv
  <2>5. CASE phase = "phase1" /\ phase' # "phase1" /\ phase' # "up"
    <3>1. RoutedBy(0) = {}
      BY DEF RoutedBy
    <3>2. profile # None /\ routed = {} /\ todo = [i \in 1 .. Len(entry.ts) |-> i]
      BY <2>5 DEF TunnelInv
    <3>3. [i \in 1 .. Len(entry.ts) |-> i] = [i \in 1 .. Len(entry.ts) - 0 |-> 0 + i]
      BY <2>3, <3>2
    <3>4. /\ todo' = [i \in 1 .. Len(entry.ts) - 0 |-> 0 + i] /\ routed' = RoutedBy(0)
          /\ 0 \in 0 .. Len(entry.ts)
      BY <1>5, <2>3, <3>1, <3>2, <3>3
    <3> QED BY <1>5, <2>1, <2>2, <2>5, <3>2, <3>4 DEF TunnelInv
  <2>6. CASE phase = "phase2" /\ phase' = "up" /\ todo = <<>>
    <3>1. PICK k \in 0 .. Len(entry.ts) :
             todo = [i \in 1 .. Len(entry.ts) - k |-> k + i] /\ routed = RoutedBy(k)
      BY <2>6 DEF TunnelInv
    <3>2. Len(entry.ts) \in Nat
      BY <2>3, <2>6 DEF TunnelInv
    <3>3. k = Len(entry.ts)
      <4>1. PICK m \in Nat : m = Len(entry.ts) - k
        BY <3>1, <3>2
      <4>2. todo \in [1 .. m -> Nat]
        BY <3>1, <3>2, <4>1
      <4>3. Len(todo) = m
        BY <4>2, FunctionSeq
      <4>4. m = 0
        BY <2>6, <4>3
      <4> QED BY <3>1, <3>2, <4>1, <4>4
    <3> QED BY <1>5, <2>1, <2>2, <2>6, <3>1, <3>3 DEF TunnelInv
  <2> QED BY <1>5, <2>4, <2>5, <2>6
<1>6. ASSUME Phase1 PROVE TunnelInv'
  <2>1. UNCHANGED <<profile, creds, todo, routed>> /\ phase = "phase1"
    BY <1>6 DEF Phase1, saved
  <2>2. phase' # "up"
    BY <1>6 DEF Phase1
  <2> QED BY <1>5, <2>1, <2>2
<1>7. ASSUME Initiate PROVE TunnelInv'
  BY <1>7, InitiateTunnel
<1>8. ASSUME Connected PROVE TunnelInv'
  BY <1>5, <1>8 DEF Connected, saved
<1>9. ASSUME Disconnect PROVE TunnelInv'
  BY <1>9 DEF Disconnect, saved, TunnelInv
<1>10. ASSUME NEW h \in Host, DnsChanges(h) PROVE TunnelInv'
  BY <1>5, <1>10 DEF DnsChanges, saved
<1>11. ASSUME UNCHANGED vars PROVE TunnelInv'
  BY <1>5, <1>11 DEF vars, saved
<1> QED BY <1>1, <1>2, <1>3, <1>4, <1>6, <1>7, <1>8, <1>9, <1>10, <1>11 DEF Next

\* When Connect has initiated what it read out of the entry, however many
\* networks there are: each of them leads into the tunnel, and nothing else.
THEOREM NetworksRouted == Spec => []AllNetworksRouted
<1>1. Init => TunnelInv
  BY DEF Init, TunnelInv
<1>2. ASSUME ConfInv, TunnelInv PROVE AllNetworksRouted
  BY <1>2, AllRouted DEF AllNetworksRouted, ConfInv, ShapeInv, TunnelInv
<1> QED BY <1>1, <1>2, InitConf, NextConf, NextTunnel, PTL DEF Spec

-----------------------------------------------------------------------------
(* What is saved, and saved again, is what the form can save.               *)

ProfileInv == profile \in Profile \cup {None}

LEMMA SavedIsProfile ==
  ASSUME NEW w \in Forms, ~Refused(w) PROVE Saved(w) \in Profile
BY DEF Profile

LEMMA NextProfile == ConfInv /\ ProfileInv /\ [Next]_vars => ProfileInv'
<1> SUFFICES ASSUME ConfInv, ProfileInv, [Next]_vars PROVE ProfileInv'
  OBVIOUS
<1>1. ASSUME NEW w \in Forms, Save(w) PROVE ProfileInv'
  BY <1>1, SavedIsProfile DEF Save, Apply, ProfileInv
<1>2. ASSUME NEW v \in {"IKEv1", "IKEv2"}, Edit(v) PROVE ProfileInv'
  <2>1. PICK w \in Forms : ~Refused(w) /\ profile = Saved(w)
    BY <1>2 DEF Edit, ProfileInv, Profile
  <2>2. profile' = Saved(ChooseVersion(Shown(profile), v))
    BY <1>2 DEF Edit, Apply
  <2>3. PICK y \in Forms : ~Refused(y) /\ profile' = Saved(y)
    BY <1>2, <2>1, <2>2, SavedChanged
  <2> QED BY <2>3, SavedIsProfile DEF ProfileInv
<1>3. ASSUME UNCHANGED profile PROVE ProfileInv'
  BY <1>3 DEF ProfileInv
<1>4. ASSUME NEW uid, ApplyToken(uid) PROVE ProfileInv'
  BY <1>3, <1>4 DEF ApplyToken, Apply
<1>5. ASSUME Connect \/ Phase1 \/ Initiate \/ Connected \/ Disconnect PROVE ProfileInv'
  BY <1>3, <1>5 DEF Connect, Phase1, Initiate, Connected, Disconnect, saved
<1>6. ASSUME NEW h \in Host, DnsChanges(h) PROVE ProfileInv'
  BY <1>3, <1>6 DEF DnsChanges, saved
<1>7. ASSUME UNCHANGED vars PROVE ProfileInv'
  BY <1>3, <1>7 DEF vars, saved
<1> QED BY <1>1, <1>2, <1>4, <1>5, <1>6, <1>7 DEF Next

\* However often it has been edited, a profile that is opened and saved without
\* a change stays what it was: whatever the catalogue of groups, and however
\* many ciphers, integrities and groups are ticked.
THEOREM ProfileKept == Spec => []RoundTrip
<1>1. Init => ProfileInv
  BY DEF Init, ProfileInv
<1>2. ASSUME ProfileInv PROVE RoundTrip
  BY <1>2, SavedAgain DEF RoundTrip, ProfileInv, Profile
<1> QED BY <1>1, <1>2, InitConf, NextConf, NextProfile, PTL DEF Spec

-----------------------------------------------------------------------------
(* Types.                                                                   *)

RestOK ==
  /\ creds \in User \cup {None}
  /\ dns \in [Host -> SUBSET Addr]
  /\ resolved \subseteq Addr
  /\ phase \in Phases
  /\ peer \in Addr \cup {None}
  /\ todo \in Seq(Nat)
  /\ routed \subseteq Net \cup {Everything}

LEMMA ApplyRest ==
  ASSUME RestOK, NEW p, NEW user \in User \cup {None}, Apply(p, user) PROVE RestOK'
<1>1. Lookup(p) \subseteq Addr
  BY DEF Lookup, RestOK
<1> QED BY <1>1 DEF Apply, RestOK, Phases

LEMMA NextRest == ConfInv /\ TunnelInv /\ RestOK /\ [Next]_vars => RestOK'
<1> SUFFICES ASSUME ConfInv, TunnelInv, RestOK, [Next]_vars PROVE RestOK'
  OBVIOUS
<1>1. ASSUME NEW w \in Forms, Save(w) PROVE RestOK'
  <2>1. PICK user \in User \cup {None} : Apply(Saved(w), Entered(Saved(w), user))
    BY <1>1 DEF Save
  <2>2. Entered(Saved(w), user) \in User \cup {None}
    BY DEF Entered
  <2> QED BY <2>1, <2>2, ApplyRest
<1>2. ASSUME NEW v, Edit(v) PROVE RestOK'
  <2> DEFINE p == Saved(ChooseVersion(Shown(profile), v))
  <2>1. PICK user \in User \cup {None} : Apply(p, Entered(p, user))
    BY <1>2 DEF Edit
  <2>2. Entered(p, user) \in User \cup {None}
    BY DEF Entered
  <2> QED BY <2>1, <2>2, ApplyRest
<1>3. ASSUME NEW uid \in User, ApplyToken(uid) PROVE RestOK'
  BY <1>3, ApplyRest DEF ApplyToken
<1> USE DEF RestOK, Phases
<1>4. ASSUME Connect PROVE RestOK'
  <2>1. ChildNames \in Seq(Nat)
    <3>1. PICK n \in Nat : ChildNames = [i \in 1 .. n |-> i]
      BY <1>4, NamesRead DEF Connect, ConfInv, ShapeInv, TunnelInv
    <3> QED BY <3>1
  <2> QED BY <1>4, <2>1 DEF Connect, saved
<1>5. ASSUME Phase1 PROVE RestOK'
  <2>1. Shaped(profile) /\ entry.addrs = profile.gateway
    BY <1>5 DEF Phase1, ConfInv, ShapeInv, PhaseInv, entry, RenderConf
  <2>2. /\ UNCHANGED <<creds, dns, resolved, todo, routed>>
        /\ \/ peer' = None /\ phase' = "noaddr"
           \/ \E a \in IF entry.addrs \in Host THEN dns[entry.addrs] ELSE {entry.addrs} :
                peer' = a /\ phase' \in {"badid", "nokey", "nouser", "phase2"}
    BY <1>5 DEF Phase1, saved
  <2>3. \A a \in IF entry.addrs \in Host THEN dns[entry.addrs] ELSE {entry.addrs} : a \in Addr
    BY <2>1 DEF Shaped
  <2> QED BY <2>2, <2>3
<1>6. ASSUME Initiate PROVE RestOK'
  <2>1. Shaped(profile) /\ Networked(profile)
    BY <1>6 DEF Initiate, ConfInv, ShapeInv, TunnelInv
  <2>2. PICK i \in 1 .. Len(entry.ts) : routed' = routed \cup Granted(entry.ts[i].nets)
    BY <1>6 DEF Initiate
  <2>3. /\ entry.ts[i].nets = ChildRemoteTS(profile)[i]
        /\ i \in 1 .. Len(ChildRemoteTS(profile)) /\ entry.version = profile.ike
    BY <2>1, <2>2, NamesRead DEF entry, RenderConf
  <2>4. PICK ts : /\ ts \in Seq(Net \cup {Everything}) /\ ts # <<>>
                  /\ profile.ike = "v1" => entry.ts[i].nets = <<ts[i]>> /\ i \in 1 .. Len(ts)
                  /\ profile.ike # "v1" => entry.ts[i].nets = ts
    <3>1. PICK ts, cs : ts = RemoteTrafficSelectors(profile) /\ cs = ChildRemoteTS(profile)
      OBVIOUS
    <3>2. /\ ts \in Seq(Net \cup {Everything}) /\ ts # <<>>
          /\ profile.ike = "v1" => Len(cs) = Len(ts) /\
               \A j \in 1 .. Len(cs) : cs[j] = <<ts[j]>>
          /\ profile.ike # "v1" => cs = <<ts>>
      BY <2>1, <3>1, ChildrenShape
    <3>3. profile.ike # "v1" => i = 1 /\ cs[1] = ts
      BY <2>3, <3>1, <3>2
    <3> QED BY <2>3, <3>1, <3>2, <3>3
  <2>5. Granted(entry.ts[i].nets) \subseteq Net \cup {Everything}
    <3>1. CASE profile.ike = "v1"
      BY <2>3, <2>4, <3>1 DEF Granted
    <3>2. CASE profile.ike # "v1"
      BY <2>3, <2>4, <3>2 DEF Granted
    <3> QED BY <3>1, <3>2
  <2>6. UNCHANGED <<creds, dns, resolved, phase, peer>> /\ todo # <<>> /\ todo' = Tail(todo)
    BY <1>6 DEF Initiate, saved
  <2>7. todo' \in Seq(Nat)
    BY <2>6
  <2> QED BY <2>2, <2>5, <2>6, <2>7
<1>7. ASSUME Connected \/ Disconnect PROVE RestOK'
  <2>1. CASE Connected
    BY <2>1 DEF Connected, saved
  <2>2. CASE Disconnect
    <3>1. <<>> \in Seq(Nat)
      OBVIOUS
    <3> QED BY <2>2, <3>1 DEF Disconnect, saved
  <2> QED BY <1>7, <2>1, <2>2
<1>8. ASSUME NEW h \in Host, DnsChanges(h) PROVE RestOK'
  BY <1>8 DEF DnsChanges, saved
<1>9. ASSUME UNCHANGED vars PROVE RestOK'
  BY <1>9 DEF vars, saved
<1> QED BY <1>1, <1>2, <1>3, <1>4, <1>5, <1>6, <1>7, <1>8, <1>9 DEF Next

LEMMA EntryShape ==
  ASSUME Shaped(profile), Networked(profile)
  PROVE  /\ entry.ts # <<>>
         /\ \A i \in 1 .. Len(entry.ts) : entry.ts[i].nets # <<>>
<1>1. /\ Len(entry.ts) = Len(ChildRemoteTS(profile)) /\ Len(entry.ts) \in Nat \ {0}
      /\ \A i \in 1 .. Len(entry.ts) : entry.ts[i].nets = ChildRemoteTS(profile)[i]
  BY NamesRead
<1>2. entry.ts # <<>>
  BY <1>1
<1>3. PICK ts, cs : ts = RemoteTrafficSelectors(profile) /\ cs = ChildRemoteTS(profile)
  OBVIOUS
<1>4. /\ ts # <<>>
      /\ profile.ike = "v1" => \A i \in 1 .. Len(cs) : cs[i] = <<ts[i]>>
      /\ profile.ike # "v1" => cs = <<ts>>
  BY <1>3, ChildrenShape
<1>5. \A i \in 1 .. Len(cs) : cs[i] # <<>>
  BY <1>4
<1> QED BY <1>1, <1>2, <1>3, <1>5

\* Whatever is ticked, typed and edited, the profile is one that the form can
\* save, and its entry has a child with a selector to initiate.
THEOREM TypeCorrect == Spec => []TypeOK
<1>1. Init => ProfileInv /\ RestOK
  BY DEF Init, ProfileInv, RestOK, Phases
<1>2. Init => TunnelInv
  BY DEF Init, TunnelInv
<1>3. ASSUME ConfInv, TunnelInv, ProfileInv, RestOK PROVE TypeOK
  BY <1>3, EntryShape DEF TypeOK, ConfInv, ShapeInv, TunnelInv, ProfileInv, RestOK
<1> QED BY <1>1, <1>2, <1>3, InitConf, NextConf, NextTunnel, NextProfile, NextRest, PTL DEF Spec
=============================================================================
