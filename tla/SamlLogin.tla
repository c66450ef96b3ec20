----------------------------- MODULE SamlLogin -----------------------------
(***************************************************************************)
(* Logins through the browser.  Each runs on a goroutine of its own: it    *)
(* takes port 8020, asks the gateway for a login page, waits for the       *)
(* browser to come back to the port, and has the daemon connect with the   *)
(* token it brings.  The port is one, the tabs are many, and an old tab    *)
(* may come back to the listener of a later login.  Meanwhile the profile  *)
(* can be saved from its form, or removed.                                 *)
(***************************************************************************)
EXTENDS Naturals

CONSTANTS
  Session, \* bound: the logins; each one's UID, and the token minted for it
  Profile,
  None

ASSUME SamlAssumption == None \notin Session \cup Profile

VARIABLES
  pc,        \* where connectSAML is, by session
  of,        \* the profile it connects
  port,      \* the session that listens on 8020
  ctx,       \* the sessions whose context is done
  buf,       \* Session.result, a channel of capacity one
  got,       \* what Wait has returned
  waiting,   \* the "Complete the login" dialog
  tab,       \* the browser's tab
  secrets,   \* by profile, the <<UID, token>> that the daemon holds
  presented, \* what charon has presented to the gateway
  strays,    \* history: sessions that another one's tab has come back to
  overlaid   \* history: sessions whose secrets another one has overwritten

local == <<pc, of, ctx, got>>
user  == <<waiting, tab>>
vpn   == <<secrets, presented>>
hist  == <<strays, overlaid>>
vars  == <<local, port, buf, user, vpn, hist>>

At(s, l)   == pc[s] = l
Goto(s, l) == pc' = [pc EXCEPT ![s] = l]
Serving(s) == pc[s] \in {"wait", "close"}

-----------------------------------------------------------------------------
(* connectSAML and saml.Begin.                                              *)

Start(s, p) ==
  /\ At(s, "idle")
  /\ Goto(s, "load")
  /\ of' = [of EXCEPT ![s] = p]
  /\ UNCHANGED <<ctx, got, port, buf, user, vpn, hist>>

\* Without a pre-shared key in the keyring there is nothing to connect with.
Load(s) ==
  /\ At(s, "load")
  /\ \E l \in {"listen", "done"} : Goto(s, l)
  /\ UNCHANGED <<of, ctx, got, port, buf, user, vpn, hist>>

\* "local port 8020 is busy", or this login has it.
Listen(s) ==
  /\ At(s, "listen")
  /\ IF port = None
       THEN port' = s /\ Goto(s, "post")
       ELSE UNCHANGED port /\ Goto(s, "done")
  /\ UNCHANGED <<of, ctx, got, buf, user, vpn, hist>>

\* Variant: the error path forgets the listener.
PostKeepsPort(s) ==
  /\ At(s, "post")
  /\ \/ Goto(s, "wait") /\ waiting' = [waiting EXCEPT ![s] = "queued"]
     \/ Goto(s, "done") /\ UNCHANGED waiting
  /\ UNCHANGED <<of, ctx, got, port, buf, tab, vpn, hist>>

\* The gateway names its login page and the server starts, or Begin fails
\* and closes the listener.
Post(s) ==
  /\ At(s, "post")
  /\ \/ /\ Goto(s, "wait")
        /\ waiting' = [waiting EXCEPT ![s] = "queued"]
        /\ UNCHANGED port
     \/ /\ Goto(s, "done")
        /\ port' = None
        /\ UNCHANGED waiting
  /\ UNCHANGED <<of, ctx, got, buf, tab, vpn, hist>>

\* On the UI thread, in its time: the dialog, and the page in the browser.
Show(s) ==
  /\ waiting[s] = "queued"
  /\ waiting' = [waiting EXCEPT ![s] = "shown"]
  /\ tab' = [tab EXCEPT ![s] = "open"]
  /\ UNCHANGED <<local, port, buf, vpn, hist>>

-----------------------------------------------------------------------------
(* The user, the browser and the clock.                                     *)

\* The dialog's Cancel button.
Cancel(s) ==
  /\ waiting[s] = "shown"
  /\ waiting' = [waiting EXCEPT ![s] = "closed"]
  /\ ctx' = ctx \cup {s}
  /\ UNCHANGED <<pc, of, got, port, buf, tab, vpn, hist>>

\* Five minutes after Start.
Expire(s) ==
  /\ pc[s] \in {"post", "wait"}
  /\ s \notin ctx
  /\ ctx' = ctx \cup {s}
  /\ UNCHANGED <<pc, of, got, port, buf, user, vpn, hist>>

\* The user is done on the gateway's page; the tab holds the token.
LogIn(u) ==
  /\ tab[u] = "open"
  /\ tab' = [tab EXCEPT ![u] = "in"]
  /\ UNCHANGED <<local, port, buf, waiting, vpn, hist>>

\* The handler: the redirect, or a reload of the tab, whichever login now
\* listens.  A second callback is ignored.
Callback(u, s) ==
  /\ tab[u] = "in"
  /\ port = s /\ Serving(s)
  /\ buf' = [buf EXCEPT ![s] = IF @ = None THEN u ELSE @]
  /\ strays' = strays \cup ({s} \ {u})
  /\ UNCHANGED <<local, port, user, vpn, overlaid>>

-----------------------------------------------------------------------------
(* Session.Wait, Session.Close, and what connectSAML does then.             *)

\* Variant: the login waits for the browser alone.
WaitForBrowser(s) ==
  /\ At(s, "wait")
  /\ buf[s] # None
  /\ got' = [got EXCEPT ![s] = buf[s]]
  /\ Goto(s, "close")
  /\ UNCHANGED <<of, ctx, port, buf, user, vpn, hist>>

\* When both are ready the select takes either.
Wait(s) ==
  /\ At(s, "wait")
  /\ \/ buf[s] # None /\ got' = [got EXCEPT ![s] = buf[s]]
     \/ s \in ctx /\ UNCHANGED got
  /\ Goto(s, "close")
  /\ UNCHANGED <<of, ctx, port, buf, user, vpn, hist>>

\* Variant: the error of Wait is dropped.
CloseAnyway(s) ==
  /\ At(s, "close")
  /\ port' = None
  /\ Goto(s, "apply")
  /\ UNCHANGED <<of, ctx, got, buf, user, vpn, hist>>

Close(s) ==
  /\ At(s, "close")
  /\ port' = None
  /\ Goto(s, IF got[s] = None THEN "done" ELSE "apply")
  /\ UNCHANGED <<of, ctx, got, buf, user, vpn, hist>>

\* The closure queued after Wait; it runs after Show.
Hide(s) ==
  /\ pc[s] \in {"apply", "connect", "done"}
  /\ waiting[s] = "shown"
  /\ waiting' = [waiting EXCEPT ![s] = "closed"]
  /\ ctx' = ctx \cup {s}
  /\ UNCHANGED <<pc, of, got, port, buf, tab, vpn, hist>>

\* ApplyProfile with the session's UID and the token it got.
Apply(s) ==
  /\ At(s, "apply")
  /\ \/ /\ secrets' = [secrets EXCEPT ![of[s]] = <<s, got[s]>>]
        /\ overlaid' = overlaid \cup
             {u \in Session \ {s} : At(u, "connect") /\ of[u] = of[s]}
        /\ Goto(s, "connect")
     \/ /\ secrets' \in {secrets, [secrets EXCEPT ![of[s]] = <<s, got[s]>>]}
        /\ overlaid' = overlaid \cup
             {u \in Session \ {s} : At(u, "connect") /\ of[u] = of[s]}
        /\ Goto(s, "done")
  /\ UNCHANGED <<of, ctx, got, port, buf, user, presented, strays>>

\* ApplyProfile from the profile's form, whose credentials hold no UID and no
\* token, or RemoveProfile: at any time, also between Apply and Connect.
SaveProfile(p) ==
  /\ secrets[p] # None
  /\ secrets' = [secrets EXCEPT ![p] = None]
  /\ UNCHANGED <<local, port, buf, user, presented, hist>>

\* Connect: charon presents the secrets, or never gets that far.
Connect(s) ==
  /\ At(s, "connect")
  /\ presented' \in {presented, [presented EXCEPT ![s] = secrets[of[s]]]}
  /\ Goto(s, "done")
  /\ UNCHANGED <<of, ctx, got, port, buf, user, secrets, hist>>

-----------------------------------------------------------------------------
Init ==
  /\ pc = [s \in Session |-> "idle"]
  /\ of = [s \in Session |-> None]
  /\ port = None /\ ctx = {}
  /\ buf = [s \in Session |-> None] /\ got = [s \in Session |-> None]
  /\ waiting = [s \in Session |-> "none"]
  /\ tab = [s \in Session |-> "none"]
  /\ secrets = [p \in Profile |-> None]
  /\ presented = [s \in Session |-> None]
  /\ strays = {} /\ overlaid = {}

\* What the program does by itself.
Program(s) ==
  Listen(s) \/ Post(s) \/ Show(s) \/ Wait(s) \/ Close(s) \/ Hide(s)

\* What may wait on a question to the user: the keyring's, or polkit's.
Prompting(s) == Load(s) \/ Apply(s) \/ Connect(s)

\* Nothing is left to do when the last login has ended.
Rest == (\A s \in Session : At(s, "done")) /\ UNCHANGED vars

Next ==
  \/ \E s \in Session, p \in Profile : Start(s, p)
  \/ \E s \in Session : \/ Program(s) \/ Prompting(s)
                       \/ Cancel(s) \/ Expire(s) \/ LogIn(s)
  \/ \E p \in Profile : SaveProfile(p)
  \/ \E s, u \in Session : Callback(u, s)
  \/ Rest

Spec == Init /\ [][Next]_vars

\* The goroutines and the UI thread run, and the timer fires; nobody has to
\* answer a prompt.
FairSpec ==
  /\ Spec
  /\ \A s \in Session : WF_vars(Program(s)) /\ WF_vars(Expire(s))

-----------------------------------------------------------------------------
(* Properties.                                                              *)

Maybe(S) == S \cup {None}

\* Every variable stays in its type, and the port belongs to the login
\* that is between its Listen and its Close.
TypeOK ==
  /\ pc \in [Session -> {"idle", "load", "listen", "post", "wait", "close",
                         "apply", "connect", "done"}]
  /\ of \in [Session -> Maybe(Profile)]
  /\ port \in Maybe(Session)
  /\ \A s \in Session : port = s <=> At(s, "post") \/ Serving(s)
  /\ ctx \subseteq Session
  /\ buf \in [Session -> Maybe(Session)] /\ got \in [Session -> Maybe(Session)]
  /\ waiting \in [Session -> {"none", "queued", "shown", "closed"}]
  /\ tab \in [Session -> {"none", "open", "in"}]
  /\ secrets \in [Profile -> Maybe(Session \X Session)]
  /\ presented \in [Session -> Maybe(Session \X Session)]
  /\ strays \subseteq Session /\ overlaid \subseteq Session

\* What a login has presented to the gateway is its own UID with the token
\* that the gateway minted for it, whatever was cancelled, timed out, reloaded
\* or saved meanwhile, except when the tab of another login came back to its
\* port or another login of the same profile came between its Apply and its
\* Connect; those are the two ways past OneTimeToken.
FreshToken ==
  \A s \in Session \ (strays \cup overlaid) :
    presented[s] # None => presented[s] = <<s, s>>

PhaseOf(l) == CASE l = "idle" -> "out"
                [] l \in {"load", "listen"} -> "queue"
                [] l \in {"post", "wait", "close"} -> "port"
                [] l = "apply" -> "token"
                [] l = "connect" -> "given"
                [] l = "done" -> "over"

phase == [s \in Session |-> PhaseOf(pc[s])]

Desk == INSTANCE LoginDesk WITH token <- got

\* Whatever the gateway, the browser, the user and the clock do, logins keep to
\* the desk: each is at the port at most once and alone, hears one token at
\* most and only there, and no login goes on to the daemon without one, or
\* before it has given the port back (saml.go:13-15, app.go:201-203).
DeskSpec == Desk!Spec

\* A login does not keep port 8020, without which no other can start.
PortFreed == \A s \in Session : port = s ~> port # s

\* Once a login has read the keyring it comes to its end, or to polkit's
\* question, with its dialog closed, whatever the browser does.
Ended ==
  \A s \in Session :
    At(s, "listen") ~> /\ pc[s] \in {"apply", "connect", "done"}
                       /\ waiting[s] \in {"none", "closed"}

\* saml.go:16 says that the tunnel is authenticated with the UID as the identity
\* and the token of its login as the secret: no other tab's, and no other login's
\* of the same profile.
OneTimeToken ==
  \A s \in Session : presented[s] # None => presented[s] = <<s, s>>
=============================================================================
