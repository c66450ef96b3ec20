----------------------------- MODULE LoginDesk -----------------------------
(***************************************************************************)
(* What a login through the browser promises, with no word on pages, tabs, *)
(* dialogs and clocks: one login at a time stands at the port, hears at    *)
(* most one token there and leaves it for good; only one that has heard a  *)
(* token has the daemon given it, and asks for at most one Connect with    *)
(* it, which presents it unless it was taken back meanwhile.  How often    *)
(* one Connect presents it is Daemon's matter.  (the doc comments of       *)
(* package saml and of connectSAML)                                        *)
(***************************************************************************)
CONSTANTS Session, Profile, None

VARIABLES
  phase,    \* of each login: "out", "queue", "port", "token", "given", "over"
  of,       \* the profile that it is for
  port,     \* the login at the port
  token,    \* what each has heard
  secrets,  \* by profile, what the daemon holds
  presented \* what the Connect of each has presented

desk == <<phase, of, port, token, secrets, presented>>

Move(s, from, to) == phase[s] = from /\ phase' = [phase EXCEPT ![s] = to]

Enter(s, p) ==
  /\ Move(s, "out", "queue")
  /\ of' = [of EXCEPT ![s] = p]
  /\ UNCHANGED <<port, token, secrets, presented>>

GiveUp(s) ==
  /\ Move(s, "queue", "over")
  /\ UNCHANGED <<of, port, token, secrets, presented>>

Come(s) ==
  /\ port = None
  /\ Move(s, "queue", "port") /\ port' = s
  /\ UNCHANGED <<of, token, secrets, presented>>

Hear(s, t) ==
  /\ port = s /\ token[s] = None
  /\ token' = [token EXCEPT ![s] = t]
  /\ UNCHANGED <<phase, of, port, secrets, presented>>

Leave(s) ==
  /\ port = s
  /\ Move(s, "port", IF token[s] = None THEN "over" ELSE "token")
  /\ port' = None
  /\ UNCHANGED <<of, token, secrets, presented>>

\* The daemon may have installed what it refuses in the end.
Give(s) ==
  /\ \/ Move(s, "token", "given")
        /\ secrets' = [secrets EXCEPT ![of[s]] = <<s, token[s]>>]
     \/ Move(s, "token", "over")
        /\ secrets' \in {secrets, [secrets EXCEPT ![of[s]] = <<s, token[s]>>]}
  /\ UNCHANGED <<of, port, token, presented>>

\* The profile is saved without a token, or removed.
TakeBack(p) ==
  /\ secrets' = [secrets EXCEPT ![p] = None]
  /\ UNCHANGED <<phase, of, port, token, presented>>

Present(s) ==
  /\ Move(s, "given", "over")
  /\ presented' \in {presented, [presented EXCEPT ![s] = secrets[of[s]]]}
  /\ UNCHANGED <<of, port, token, secrets>>

Init ==
  /\ phase = [s \in Session |-> "out"] /\ of = [s \in Session |-> None]
  /\ port = None /\ token = [s \in Session |-> None]
  /\ secrets = [p \in Profile |-> None] /\ presented = [s \in Session |-> None]

Next ==
  \/ \E s \in Session :
       \/ \E p \in Profile : Enter(s, p)
       \/ GiveUp(s) \/ Come(s) \/ Leave(s) \/ Give(s) \/ Present(s)
       \/ \E t \in Session : Hear(s, t)
  \/ \E p \in Profile : TakeBack(p)

Spec == Init /\ [][Next]_desk
=============================================================================
