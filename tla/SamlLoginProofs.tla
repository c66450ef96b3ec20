--------------------------- MODULE SamlLoginProofs ---------------------------
(***************************************************************************)
(* Theorems about SamlLogin, for any number of logins and profiles.        *)
(***************************************************************************)
EXTENDS SamlLogin, TLAPS

\* A login that has begun is about a profile; one that applies has a token.
Placed ==
  \A s \in Session :
    /\ pc[s] # "idle" => of[s] \in Profile
    /\ pc[s] \in {"apply", "connect"} => got[s] # None

TypeInv == TypeOK /\ Placed

LEMMA InitType == Init => TypeInv
BY SamlAssumption DEF Init, TypeInv, TypeOK, Placed, Maybe, At, Serving

LEMMA NextType == TypeInv /\ [Next]_vars => TypeInv'
<1> SUFFICES ASSUME TypeInv, [Next]_vars PROVE TypeInv'
  OBVIOUS
<1> USE SamlAssumption DEF TypeInv
<1> USE DEF Maybe, At, Goto, Serving
<1>1. ASSUME NEW s \in Session, NEW p \in Profile, Start(s, p) PROVE TypeInv'
  BY <1>1 DEF Start, TypeOK, Placed, user, vpn, hist
<1>2. ASSUME NEW s \in Session, Load(s) PROVE TypeInv'
  BY <1>2 DEF Load, TypeOK, Placed, user, vpn, hist
<1>3. ASSUME NEW s \in Session, Listen(s) PROVE TypeInv'
  BY <1>3 DEF Listen, TypeOK, Placed, user, vpn, hist
<1>4. ASSUME NEW s \in Session, Post(s) PROVE TypeInv'
  BY <1>4 DEF Post, TypeOK, Placed, vpn, hist
<1>5. ASSUME NEW s \in Session, Show(s) PROVE TypeInv'
  BY <1>5 DEF Show, TypeOK, Placed, local, vpn, hist
<1>6. ASSUME NEW s \in Session, Cancel(s) PROVE TypeInv'
  BY <1>6 DEF Cancel, TypeOK, Placed, vpn, hist
<1>7. ASSUME NEW s \in Session, Expire(s) PROVE TypeInv'
  BY <1>7 DEF Expire, TypeOK, Placed, user, vpn, hist
<1>8. ASSUME NEW s \in Session, LogIn(s) PROVE TypeInv'
  BY <1>8 DEF LogIn, TypeOK, Placed, local, vpn, hist
<1>9. ASSUME NEW u \in Session, NEW s \in Session, Callback(u, s) PROVE TypeInv'
  BY <1>9 DEF Callback, TypeOK, Placed, local, user, vpn
<1>10. ASSUME NEW s \in Session, Wait(s) PROVE TypeInv'
  BY <1>10 DEF Wait, TypeOK, Placed, user, vpn, hist
<1>11. ASSUME NEW s \in Session, Close(s) PROVE TypeInv'
  BY <1>11 DEF Close, TypeOK, Placed, user, vpn, hist
<1>12. ASSUME NEW s \in Session, Hide(s) PROVE TypeInv'
  BY <1>12 DEF Hide, TypeOK, Placed, vpn, hist
<1>13. ASSUME NEW s \in Session, Apply(s) PROVE TypeInv'
  <2>1. /\ At(s, "apply") /\ of[s] \in Profile /\ got[s] \in Session
        /\ UNCHANGED <<of, ctx, got, port, buf, user, presented, strays>>
    BY <1>13 DEF Apply, TypeOK, Placed
  <2>2. secrets' \in {secrets, [secrets EXCEPT ![of[s]] = <<s, got[s]>>]}
    BY <1>13 DEF Apply
  <2>3. secrets' \in [Profile -> Maybe(Session \X Session)]
    <3>1. <<s, got[s]>> \in Session \X Session
      BY <2>1
    <3> QED BY <2>1, <2>2, <3>1 DEF TypeOK
  <2>4. overlaid' \subseteq Session
    BY <1>13 DEF Apply, TypeOK
  <2>5. pc' \in {[pc EXCEPT ![s] = "connect"], [pc EXCEPT ![s] = "done"]}
    BY <1>13 DEF Apply
  <2> QED BY <2>1, <2>3, <2>4, <2>5 DEF TypeOK, Placed, user
<1>14. ASSUME NEW s \in Session, Connect(s) PROVE TypeInv'
  BY <1>14 DEF Connect, TypeOK, Placed, user, hist
<1>15. ASSUME NEW p \in Profile, SaveProfile(p) PROVE TypeInv'
  BY <1>15 DEF SaveProfile, TypeOK, Placed, local, user, hist
<1>16. ASSUME UNCHANGED vars PROVE TypeInv'
  BY <1>16 DEF TypeOK, Placed, vars, local, user, vpn, hist
<1> QED
  BY <1>1, <1>2, <1>3, <1>4, <1>5, <1>6, <1>7, <1>8, <1>9, <1>10, <1>11, <1>12,
     <1>13, <1>14, <1>15, <1>16 DEF Next, Program, Prompting, Rest

\* Every variable stays in its type, and whoever is between Listen and Close
\* is the one that has the port.
THEOREM TypeCorrect == Spec => []TypeOK
<1>1. TypeInv => TypeOK
  BY DEF TypeInv
<1> QED BY <1>1, InitType, NextType, PTL DEF Spec

-----------------------------------------------------------------------------
(* Whose token is presented.                                                *)

\* What has come back for a login is its own token, ...
OwnToken(s) == s \notin strays => buf[s] \in {None, s} /\ got[s] \in {None, s}

\* ... what it has applied stays until it connects, or is taken back, ...
Kept(s) == pc[s] = "connect" /\ s \notin overlaid =>
             secrets[of[s]] \in {None, <<s, got[s]>>}

\* ... and so what it presents is its own.
Presented(s) == s \notin strays \cup overlaid =>
                  presented[s] = None \/ presented[s] = <<s, s>>

FreshInv == \A s \in Session : OwnToken(s) /\ Kept(s) /\ Presented(s)

LEMMA InitFresh == Init => FreshInv
BY DEF Init, FreshInv, OwnToken, Kept, Presented

LEMMA NextFresh == TypeInv /\ FreshInv /\ [Next]_vars => FreshInv'
<1> SUFFICES ASSUME TypeInv, FreshInv, [Next]_vars PROVE FreshInv'
  OBVIOUS
<1> USE DEF FreshInv, OwnToken, Kept, Presented
<1> USE DEF At, Goto, Serving, Maybe
<1>1. ASSUME NEW s \in Session, NEW p \in Profile, Start(s, p) PROVE FreshInv'
  BY <1>1 DEF Start, TypeInv, TypeOK, user, vpn, hist
<1>2. ASSUME NEW s \in Session, Load(s) PROVE FreshInv'
  BY <1>2 DEF Load, TypeInv, TypeOK, user, vpn, hist
<1>3. ASSUME NEW s \in Session, Listen(s) PROVE FreshInv'
  BY <1>3 DEF Listen, TypeInv, TypeOK, user, vpn, hist
<1>4. ASSUME NEW s \in Session, Post(s) PROVE FreshInv'
  BY <1>4 DEF Post, TypeInv, TypeOK, vpn, hist
<1>5. ASSUME NEW s \in Session, Show(s) PROVE FreshInv'
  BY <1>5 DEF Show, local, vpn, hist
<1>6. ASSUME NEW s \in Session, Cancel(s) PROVE FreshInv'
  BY <1>6 DEF Cancel, vpn, hist
<1>7. ASSUME NEW s \in Session, Expire(s) PROVE FreshInv'
  BY <1>7 DEF Expire, user, vpn, hist
<1>8. ASSUME NEW s \in Session, LogIn(s) PROVE FreshInv'
  BY <1>8 DEF LogIn, local, vpn, hist
<1>9. ASSUME NEW u \in Session, NEW s \in Session, Callback(u, s) PROVE FreshInv'
  BY <1>9 DEF Callback, TypeInv, TypeOK, local, user, vpn
<1>10. ASSUME NEW s \in Session, Wait(s) PROVE FreshInv'
  BY <1>10 DEF Wait, TypeInv, TypeOK, user, vpn, hist
<1>11. ASSUME NEW s \in Session, Close(s) PROVE FreshInv'
  BY <1>11 DEF Close, TypeInv, TypeOK, user, vpn, hist
<1>12. ASSUME NEW s \in Session, Hide(s) PROVE FreshInv'
  BY <1>12 DEF Hide, vpn, hist
<1>13. ASSUME NEW s \in Session, Apply(s) PROVE FreshInv'
  <2>1. overlaid' = overlaid \cup
          {u \in Session \ {s} : pc[u] = "connect" /\ of[u] = of[s]}
    BY <1>13 DEF Apply
  <2>2. /\ UNCHANGED <<of, got, buf, presented, strays>>
        /\ secrets' \in {secrets, [secrets EXCEPT ![of[s]] = <<s, got[s]>>]}
    BY <1>13 DEF Apply
  <2>3. of[s] \in Profile /\ secrets \in [Profile -> Maybe(Session \X Session)]
    BY <1>13 DEF Apply, TypeInv, TypeOK, Placed
  <2>4. ASSUME NEW u \in Session \ {s} PROVE Kept(u)'
    <3> SUFFICES ASSUME pc'[u] = "connect", u \notin overlaid'
                 PROVE secrets'[of[u]] \in {None, <<u, got[u]>>}
      BY <2>2
    <3>1. pc[u] = "connect" /\ of[u] \in Profile
      BY <1>13, <2>4 DEF Apply, TypeInv, TypeOK, Placed
    <3>2. u \notin overlaid /\ of[u] # of[s]
      BY <1>13, <2>1, <3>1 DEF Apply
    <3>3. secrets'[of[u]] = secrets[of[u]]
      BY <2>2, <2>3, <3>1, <3>2
    <3> QED BY <3>1, <3>2, <3>3
  <2>5. Kept(s)'
    <3> SUFFICES ASSUME pc'[s] = "connect" PROVE secrets'[of[s]] = <<s, got[s]>>
      BY <2>2
    <3>1. secrets' = [secrets EXCEPT ![of[s]] = <<s, got[s]>>]
      BY <1>13 DEF Apply, TypeInv, TypeOK
    <3> QED BY <2>3, <3>1
  <2> QED BY <2>1, <2>2, <2>4, <2>5
<1>14. ASSUME NEW s \in Session, Connect(s) PROVE FreshInv'
  <2>1. got[s] # None
    BY <1>14 DEF Connect, TypeInv, Placed
  <2>2. s \notin strays \cup overlaid => secrets[of[s]] \in {None, <<s, s>>}
    BY <1>14, <2>1 DEF Connect
  <2>3. UNCHANGED <<of, got, buf, secrets, strays, overlaid>>
    BY <1>14 DEF Connect, hist
  <2>4. \A u \in Session \ {s} : presented'[u] = presented[u] /\ pc'[u] = pc[u]
    BY <1>14 DEF Connect, TypeInv, TypeOK
  <2>5. presented'[s] \in {presented[s], secrets[of[s]]} /\ pc'[s] = "done"
    BY <1>14 DEF Connect, TypeInv, TypeOK
  <2> QED BY <2>2, <2>3, <2>4, <2>5
<1>15. ASSUME NEW p \in Profile, SaveProfile(p) PROVE FreshInv'
  <2>1. \A q \in Profile : secrets'[q] \in {None, secrets[q]}
    BY <1>15 DEF SaveProfile, TypeInv, TypeOK
  <2>2. /\ \A u \in Session : pc[u] # "idle" => of[u] \in Profile
        /\ UNCHANGED <<pc, of, got, buf, presented, strays, overlaid>>
    BY <1>15 DEF SaveProfile, TypeInv, Placed, local, hist
  <2> QED BY <2>1, <2>2
<1>16. ASSUME UNCHANGED vars PROVE FreshInv'
  BY <1>16 DEF vars, local, user, vpn, hist
<1> QED
  BY <1>1, <1>2, <1>3, <1>4, <1>5, <1>6, <1>7, <1>8, <1>9, <1>10, <1>11, <1>12,
     <1>13, <1>14, <1>15, <1>16 DEF Next, Program, Prompting, Rest

\* However many logins are cancelled, expire, are reloaded or fail, and however
\* often the profile is saved meanwhile, what a login presents is its own UID
\* with its own token, but for the two accidents that FreshToken names.
THEOREM FreshTokens == Spec => []FreshToken
<1>1. FreshInv => FreshToken
  BY DEF FreshInv, Presented, FreshToken
<1> QED BY <1>1, InitType, NextType, InitFresh, NextFresh, PTL DEF Spec
-----------------------------------------------------------------------------
(* Logins keep to the desk.                                                 *)

\* No token is heard before Wait hears one.
HeardInv ==
  \A s \in Session :
    pc[s] \in {"idle", "load", "listen", "post", "wait"} => got[s] = None

LEMMA InitHeard == Init => HeardInv
BY DEF Init, HeardInv

LEMMA NextHeard == TypeInv /\ HeardInv /\ [Next]_vars => HeardInv'
<1> SUFFICES ASSUME TypeInv, HeardInv, [Next]_vars PROVE HeardInv'
  OBVIOUS
<1> USE DEF TypeInv, TypeOK, HeardInv, At, Goto
\* Only Wait hears, and nobody goes back.
<1>1. ASSUME NEW s \in Session, NEW p \in Profile, Start(s, p) PROVE HeardInv'
  BY <1>1 DEF Start
<1>2. ASSUME NEW s \in Session, Load(s) \/ Listen(s) \/ Post(s) PROVE HeardInv'
  BY <1>2 DEF Load, Listen, Post
<1>3. ASSUME NEW s \in Session, Wait(s) PROVE HeardInv'
  BY <1>3 DEF Wait
<1>4. ASSUME NEW s \in Session, Close(s) \/ Apply(s) \/ Connect(s) PROVE HeardInv'
  <2>1. /\ got' = got
        /\ \E l \in {"apply", "connect", "done"} : pc' = [pc EXCEPT ![s] = l]
    BY <1>4 DEF Close, Apply, Connect
  <2> QED BY <2>1
<1>5. ASSUME UNCHANGED <<pc, got>> PROVE HeardInv'
  BY <1>5
<1>6. ASSUME NEW s \in Session,
             Show(s) \/ Cancel(s) \/ Expire(s) \/ LogIn(s) \/ Hide(s)
      PROVE  HeardInv'
  BY <1>5, <1>6 DEF Show, Cancel, Expire, LogIn, Hide, local
<1>7. ASSUME NEW u \in Session, NEW s \in Session, Callback(u, s) PROVE HeardInv'
  BY <1>5, <1>7 DEF Callback, local
<1>8. ASSUME NEW p \in Profile, SaveProfile(p) PROVE HeardInv'
  BY <1>5, <1>8 DEF SaveProfile, local
<1> QED
  BY <1>1, <1>2, <1>3, <1>4, <1>5, <1>6, <1>7, <1>8
     DEF Next, Program, Prompting, Rest, vars, local

\* A goroutine that goes on moves its login at the desk and no other.
LEMMA GoesOn ==
  ASSUME TypeOK, NEW s \in Session, NEW l, Goto(s, l)
  PROVE  phase' = [phase EXCEPT ![s] = PhaseOf(l)]
<1> DEFINE G == [u \in Session |-> IF u = s THEN PhaseOf(l) ELSE PhaseOf(pc[u])]
<1>1. \A u \in Session : PhaseOf(pc'[u]) = IF u = s THEN PhaseOf(l) ELSE PhaseOf(pc[u])
  BY DEF Goto, TypeOK
<1>2. phase' = [u \in Session |-> PhaseOf(pc'[u])]
  BY DEF phase
<1>3. \A u \in Session : phase'[u] = G[u]
  BY <1>1, <1>2
<1>4. phase' = G
  BY <1>2, <1>3
<1>5. [phase EXCEPT ![s] = PhaseOf(l)] = G
  BY DEF phase
<1> QED BY <1>4, <1>5

LEMMA PhaseNow == \A s \in Session : phase[s] = PhaseOf(pc[s])
BY DEF phase

\* What each place of connectSAML is at the desk.
LEMMA Places ==
  /\ PhaseOf("idle") = "out"
  /\ PhaseOf("load") = "queue" /\ PhaseOf("listen") = "queue"
  /\ PhaseOf("post") = "port" /\ PhaseOf("wait") = "port" /\ PhaseOf("close") = "port"
  /\ PhaseOf("apply") = "token" /\ PhaseOf("connect") = "given"
  /\ PhaseOf("done") = "over"
BY DEF PhaseOf

\* A move within a phase is none at the desk.
LEMMA StaysPut ==
  ASSUME TypeOK, NEW s \in Session, NEW l, Goto(s, l), PhaseOf(l) = PhaseOf(pc[s])
  PROVE  phase' = phase
<1>1. phase' = [phase EXCEPT ![s] = phase[s]]
  BY GoesOn, PhaseNow
<1>2. phase = [u \in Session |-> phase[u]]
  BY DEF phase
<1> HIDE DEF phase
<1> QED BY <1>1, <1>2

LEMMA Moves ==
  ASSUME TypeOK, NEW s \in Session, NEW l, Goto(s, l)
  PROVE  Desk!Move(s, PhaseOf(pc[s]), PhaseOf(l))
BY GoesOn, PhaseNow DEF Desk!Move

LEMMA DeskStep ==
  ASSUME TypeInv, HeardInv, [Next]_vars
  PROVE  [Desk!Next]_(Desk!desk)
<1> USE DEF TypeInv
<1> USE DEF At
<1>1. ASSUME NEW s \in Session, NEW p \in Profile, Start(s, p) PROVE Desk!Next
  <2>1. Desk!Move(s, "out", "queue")
    BY <1>1, Moves, Places DEF Start
  <2>2. Desk!Enter(s, p)
    BY <1>1, <2>1 DEF Start, Desk!Enter, vpn
  <2> QED BY <2>2 DEF Desk!Next
<1>2. ASSUME NEW s \in Session, Load(s) PROVE Desk!Next \/ UNCHANGED Desk!desk
  <2>1. UNCHANGED <<of, port, got, secrets, presented>>
    BY <1>2 DEF Load, vpn
  <2>2. CASE Goto(s, "listen")
    <3>1. phase' = phase
      BY <1>2, <2>2, StaysPut, Places DEF Load
    <3> QED BY <2>1, <3>1 DEF Desk!desk
  <2>3. CASE Goto(s, "done")
    <3>1. Desk!Move(s, "queue", "over")
      BY <1>2, <2>3, Moves, Places DEF Load
    <3> QED BY <2>1, <3>1 DEF Desk!GiveUp, Desk!Next
  <2> QED BY <1>2, <2>2, <2>3 DEF Load
<1>3. ASSUME NEW s \in Session, Listen(s) PROVE Desk!Next
  <2>1. At(s, "listen") /\ UNCHANGED <<of, got, secrets, presented>>
    BY <1>3 DEF Listen, vpn
  <2>2. CASE port = None /\ port' = s /\ Goto(s, "post")
    <3>1. Desk!Move(s, "queue", "port")
      BY <2>1, <2>2, Moves, Places
    <3> QED BY <2>1, <2>2, <3>1 DEF Desk!Come, Desk!Next
  <2>3. CASE UNCHANGED port /\ Goto(s, "done")
    <3>1. Desk!Move(s, "queue", "over")
      BY <2>1, <2>3, Moves, Places
    <3> QED BY <2>1, <2>3, <3>1 DEF Desk!GiveUp, Desk!Next
  <2> QED BY <1>3, <2>2, <2>3 DEF Listen
<1>4. ASSUME NEW s \in Session, Post(s) PROVE Desk!Next \/ UNCHANGED Desk!desk
  <2>1. At(s, "post") /\ UNCHANGED <<of, got, secrets, presented>>
    BY <1>4 DEF Post, vpn
  <2>2. CASE Goto(s, "wait") /\ UNCHANGED port
    <3>1. phase' = phase
      BY <2>1, <2>2, StaysPut, Places
    <3> QED BY <2>1, <2>2, <3>1 DEF Desk!desk
  <2>3. CASE Goto(s, "done") /\ port' = None
    <3>1. Desk!Move(s, "port", "over")
      BY <2>1, <2>3, Moves, Places
    <3>2. port = s /\ got[s] = None
      BY <2>1 DEF TypeOK, HeardInv
    <3> QED BY <2>1, <2>3, <3>1, <3>2 DEF Desk!Leave, Desk!Next
  <2> QED BY <1>4, <2>2, <2>3 DEF Post
<1>5. ASSUME NEW s \in Session, Wait(s) PROVE Desk!Next \/ UNCHANGED Desk!desk
  <2>1. /\ port = s /\ got[s] = None
        /\ UNCHANGED <<of, port, secrets, presented>>
    BY <1>5 DEF Wait, TypeOK, HeardInv, Serving, vpn
  <2>2. phase' = phase
    BY <1>5, StaysPut, Places DEF Wait
  <2>3. CASE buf[s] # None /\ got' = [got EXCEPT ![s] = buf[s]]
    <3>1. buf[s] \in Session
      BY <2>3 DEF TypeOK, Maybe
    <3>2. Desk!Hear(s, buf[s])
      BY <2>1, <2>2, <2>3 DEF Desk!Hear
    <3> QED BY <3>1, <3>2 DEF Desk!Next
  <2>4. CASE UNCHANGED got
    BY <2>1, <2>2, <2>4 DEF Desk!desk
  <2> QED BY <1>5, <2>3, <2>4 DEF Wait
<1>6. ASSUME NEW s \in Session, Close(s) PROVE Desk!Next
  <2>1. /\ port = s /\ port' = None /\ At(s, "close")
        /\ UNCHANGED <<of, got, secrets, presented>>
    BY <1>6 DEF Close, TypeOK, Serving, vpn
  <2>2. Desk!Move(s, "port", IF got[s] = None THEN "over" ELSE "token")
    <3>1. CASE got[s] = None
      BY <1>6, <3>1, Moves, Places DEF Close
    <3>2. CASE got[s] # None
      BY <1>6, <3>2, Moves, Places DEF Close
    <3> QED BY <3>1, <3>2
  <2> QED BY <2>1, <2>2 DEF Desk!Leave, Desk!Next
<1>7. ASSUME NEW s \in Session, Apply(s) PROVE Desk!Next
  <2>1. At(s, "apply") /\ UNCHANGED <<of, got, port, presented>>
    BY <1>7 DEF Apply
  <2>2. CASE Goto(s, "connect") /\ secrets' = [secrets EXCEPT ![of[s]] = <<s, got[s]>>]
    <3>1. Desk!Move(s, "token", "given")
      BY <2>1, <2>2, Moves, Places
    <3> QED BY <2>1, <2>2, <3>1 DEF Desk!Give, Desk!Next
  <2>3. CASE /\ Goto(s, "done")
             /\ secrets' \in {secrets, [secrets EXCEPT ![of[s]] = <<s, got[s]>>]}
    <3>1. Desk!Move(s, "token", "over")
      BY <2>1, <2>3, Moves, Places
    <3> QED BY <2>1, <2>3, <3>1 DEF Desk!Give, Desk!Next
  <2> QED BY <1>7, <2>2, <2>3 DEF Apply
<1>8. ASSUME NEW s \in Session, Connect(s) PROVE Desk!Next
  <2>1. Desk!Move(s, "given", "over")
    BY <1>8, Moves, Places DEF Connect
  <2> QED BY <1>8, <2>1 DEF Connect, Desk!Present, Desk!Next
<1>13. ASSUME NEW p \in Profile, SaveProfile(p) PROVE Desk!Next
  <2>1. phase' = phase
    BY <1>13 DEF SaveProfile, phase, local
  <2>2. Desk!TakeBack(p)
    BY <1>13, <2>1 DEF SaveProfile, Desk!TakeBack, local
  <2> QED BY <2>2 DEF Desk!Next
\* The dialog, the tabs and the clock are not seen at the desk.
<1>9. ASSUME UNCHANGED <<local, port, vpn>> \/ UNCHANGED <<pc, of, got, port, vpn>>
      PROVE  UNCHANGED Desk!desk
  <2>1. phase' = phase
    BY <1>9 DEF phase, local
  <2> QED BY <1>9, <2>1 DEF local, vpn, Desk!desk
<1>10. ASSUME NEW s \in Session,
              Show(s) \/ Cancel(s) \/ Expire(s) \/ LogIn(s) \/ Hide(s)
       PROVE  UNCHANGED Desk!desk
  BY <1>9, <1>10 DEF Show, Cancel, Expire, LogIn, Hide
<1>11. ASSUME NEW u \in Session, NEW s \in Session, Callback(u, s)
       PROVE  UNCHANGED Desk!desk
  BY <1>9, <1>11 DEF Callback
<1>12. ASSUME UNCHANGED vars PROVE UNCHANGED Desk!desk
  BY <1>9, <1>12 DEF vars
<1> QED
  BY <1>1, <1>2, <1>3, <1>4, <1>5, <1>6, <1>7, <1>8, <1>10, <1>11, <1>12, <1>13
     DEF Next, Program, Prompting, Rest

\* For any number of logins, whatever the gateway, the browser, the user and
\* the clock do: one login at a time has the port, a token is heard at most
\* once per login and only there, and none goes on to the daemon without one
\* or before it has given the port back.
THEOREM KeepsToDesk == Spec => DeskSpec
<1>1. Init => Desk!Init
  BY Places DEF Init, Desk!Init, phase
<1>2. TypeInv /\ HeardInv /\ [Next]_vars => [Desk!Next]_(Desk!desk)
  BY DeskStep
<1> QED BY <1>1, <1>2, InitType, NextType, InitHeard, NextHeard, PTL
       DEF Spec, DeskSpec, Desk!Spec
=============================================================================
