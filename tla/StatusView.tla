------------------------------ MODULE StatusView ------------------------------
(***************************************************************************)
(* What the window says about the tunnels.  A ticker and every click on    *)
(* the list start a poll on a goroutine: it asks the UI thread which       *)
(* profile is selected, asks the daemon for its status, and comes back to  *)
(* the UI thread with the answer.  Meanwhile tunnels come and go, other    *)
(* polls answer, and the user clicks on.  The polls of unselected profiles *)
(* feed the dots of the list, those of the selected one the dot, the card  *)
(* and the primary button, which connects or disconnects by what it shows. *)
(***************************************************************************)
EXTENDS Naturals, Sequences

CONSTANTS
  Profile,      \* the profiles, each standing for its connection too
  SamlProfile,  \* those that log in through the browser
  Outputs,      \* what swanctl --list-sas may print
  Down,         \* or that it fails: strongSwan is stopped
  Ticker,       \* the goroutine of startStatusPolling
  Clicker,      \* bound: the goroutines that clicks can have running at once
  Every,        \* the others are polled every so many ticks, in the code 5
  None          \* no profile

\* A header line of list-sas, and whether an INSTALLED child follows it.
SA == [conn : Profile, installed : BOOLEAN,
       ike : {"CONNECTING", "ESTABLISHED", "DELETING"}]

ASSUME StatusAssumption ==
  /\ SamlProfile \subseteq Profile
  /\ Outputs \subseteq Seq(SA)
  /\ Down \notin Outputs
  /\ Ticker \notin Clicker
  /\ Every \in Nat \ {0}
  /\ None \notin Profile

VARIABLES
  output,   \* what swanctl --list-sas would print now
  selected, \* App.selected
  button,   \* App.currentState: what the primary button goes by
  card,     \* the status card: the name and the state that it shows
  dots,     \* App.states: the dots of the list, "" where there is none yet
  poll,     \* pollSelected, per goroutine: where it is, and what it has;
            \* or "login" for a connectSAML
  others,   \* pollOthers of the ticker
  tick      \* the ticker's count of its ticks

world == <<output, selected>>
view  == <<button, card, dots>>
polls == <<poll, others, tick>>
vars  == <<world, view, polls>>

Poller  == {Ticker} \cup Clicker
Nothing == [p \in Profile |-> ""]
Rest    == [at |-> "idle", todo |-> {}, fresh |-> Nothing]

ConnState == {"disconnected", "connecting", "connected", "no_tunnel"}

-----------------------------------------------------------------------------
(* ParseListSAS.                                                            *)

Own(out, c) == {i \in DOMAIN out : out[i].conn = c}

\* A header that says neither leaves the state as an earlier one has set it.
Telling(out, c) == {i \in Own(out, c) : out[i].ike \in {"CONNECTING", "ESTABLISHED"}}

\* Variant: a child anywhere in the output counts.
ParseAnyBlock(out, c) ==
  IF Telling(out, c) = {} THEN "disconnected"
  ELSE IF \E i \in DOMAIN out : out[i].installed THEN "connected" ELSE "no_tunnel"

\* The last telling header decides, an INSTALLED child in any own block counts.
ParseListSAS(out, c) ==
  LET last == CHOOSE i \in Telling(out, c) : \A j \in Telling(out, c) : j <= i
  IN IF Telling(out, c) = {} THEN "disconnected"
     ELSE IF out[last].ike = "CONNECTING" THEN "connecting"
     ELSE IF \E i \in Own(out, c) : out[i].installed THEN "connected"
     ELSE "no_tunnel"

\* DaemonClient.Status, with the daemon's handler behind it.
Status(c) == IF output = Down THEN "error" ELSE ParseListSAS(output, c)

-----------------------------------------------------------------------------
(* The window.                                                              *)

Blank == [name |-> None, state |-> "none"]

\* statusCard.showError leaves the name as it is.
CardError == [card EXCEPT !.state = "error"]

Go(k, at, p, st) == poll' = [poll EXCEPT ![k] = [at |-> at, p |-> p, st |-> st]]
Stop(k)          == Go(k, "idle", None, "none")

\* A click starts a goroutine.
Start(k, at) == poll[k].at = "idle" /\ Go(k, at, None, "none")

\* list.OnSelected, for a row that is not selected yet: the button stays as it
\* is, and a goroutine polls.
Select(p) ==
  /\ p # selected
  /\ selected' = p
  /\ \E k \in Clicker : Start(k, "ask")
  /\ UNCHANGED <<output, view, others, tick>>

\* removeSelected has come back from the daemon: nothing stays selected.  That
\* the list gets shorter is the subject of Profiles.
Remove ==
  /\ selected # None
  /\ selected' = None
  /\ UNCHANGED <<output, view, polls>>

\* connectSelected, from the button or the tray.  A plain profile's goroutine
\* only calls the daemon, and what that does shows in the output.
ConnectSelected ==
  /\ selected # None
  /\ button' = "connecting"
  /\ card' = [name |-> selected, state |-> "connecting"]
  /\ IF selected \in SamlProfile THEN \E k \in Clicker : Start(k, "login")
                                ELSE UNCHANGED poll
  /\ UNCHANGED <<world, dots, others, tick>>

\* disconnectSelected: all it does is call the daemon.
DisconnectSelected ==
  /\ selected # None
  /\ UNCHANGED vars

\* What a click on the primary button would do.
Offers == IF button \in {"connected", "no_tunnel", "connecting"}
            THEN "disconnect" ELSE "connect"

PrimaryAction ==
  \/ Offers = "disconnect" /\ DisconnectSelected
  \/ Offers = "connect" /\ ConnectSelected

\* The tray offers both at any time.
Tray == ConnectSelected \/ DisconnectSelected

\* connectSAML ends, and if it fails resets the button whatever is selected.
LoginEnds(k) ==
  /\ poll[k].at = "login"
  /\ Stop(k)
  /\ button' \in {button, "disconnected"}
  /\ UNCHANGED <<world, card, dots, others, tick>>

-----------------------------------------------------------------------------
(* pollSelected.                                                            *)

NextTick == tick' = (tick + 1) % Every

\* The ticker goes on after its poll: to the others, or to the next tick.
Done(k) ==
  IF k # Ticker THEN UNCHANGED <<others, tick>>
  ELSE IF tick = 0
    THEN others' = [Rest EXCEPT !.at = "ask"] /\ UNCHANGED tick
    ELSE NextTick /\ UNCHANGED others

\* The goroutine asks, and the UI thread says which profile is selected; if
\* none is, the card is blanked and the poll is over.
Choose(k) ==
  /\ IF k = Ticker THEN poll[k].at = "idle" /\ others.at = "idle"
                   ELSE poll[k].at = "ask"
  /\ \/ /\ selected # None
        /\ Go(k, "call", selected, "none")
        /\ UNCHANGED <<card, others, tick>>
     \/ /\ selected = None
        /\ Stop(k)
        /\ card' = Blank
        /\ Done(k)
  /\ UNCHANGED <<world, button, dots>>

Answer(k) ==
  /\ poll[k].at = "call"
  /\ Go(k, "show", poll[k].p, Status(poll[k].p))
  /\ UNCHANGED <<world, view, others, tick>>

\* Variant: the answer is taken for one about the profile selected now.
DisplaySelected(p, st) ==
  /\ button' = st
  /\ card' = [name |-> selected, state |-> st]
  /\ dots' = IF selected = None THEN dots ELSE [dots EXCEPT ![selected] = st]

\* Variant: the button is left alone.
DisplayNoButton(p, st) ==
  /\ dots' = [dots EXCEPT ![p] = st]
  /\ card' = [name |-> p, state |-> st]
  /\ UNCHANGED button

\* The closure that shows an answer: reflectState, the card and the dot.
Display(p, st) ==
  /\ dots' = [dots EXCEPT ![p] = st]
  /\ card' = [name |-> p, state |-> st]
  /\ button' = st

\* Variant: an error is shown like any state.
ShowAny(k) ==
  /\ poll[k].at = "show"
  /\ Display(poll[k].p, poll[k].st)
  /\ Stop(k)
  /\ Done(k)
  /\ UNCHANGED world

\* The UI thread shows the answer, whatever is selected by now.  An error is
\* shown on the card alone.
Show(k) ==
  /\ poll[k].at = "show"
  /\ \/ /\ poll[k].st = "error"
        /\ card' = CardError
        /\ UNCHANGED <<button, dots>>
     \/ poll[k].st # "error" /\ Display(poll[k].p, poll[k].st)
  /\ Stop(k)
  /\ Done(k)
  /\ UNCHANGED world

-----------------------------------------------------------------------------
(* pollOthers.                                                              *)

\* The UI thread lists the profiles that are not selected.
ChooseOthers ==
  /\ others.at = "ask"
  /\ others' = [at |-> "call", todo |-> Profile \ {selected}, fresh |-> Nothing]
  /\ UNCHANGED <<world, view, poll, tick>>

\* One call after another.  A profile whose call fails is skipped.
AnswerOther(p) ==
  /\ others.at = "call" /\ p \in others.todo
  /\ others' = [at |-> "call", todo |-> others.todo \ {p},
                fresh |-> [others.fresh EXCEPT ![p] =
                             IF Status(p) = "error" THEN "" ELSE Status(p)]]
  /\ UNCHANGED <<world, view, poll, tick>>

\* Variant: what has been collected is not written back.
ShowNoOthers ==
  /\ others.at = "call" /\ others.todo = {}
  /\ others' = Rest
  /\ NextTick
  /\ UNCHANGED <<world, view, poll>>

\* Variant: the collected dots replace all the old ones.
ShowOthersOnly ==
  /\ others.at = "call" /\ others.todo = {}
  /\ dots' = others.fresh
  /\ others' = Rest
  /\ NextTick
  /\ UNCHANGED <<world, button, card, poll>>

\* The UI thread takes over the fresh ones; the ticker's round is over.
ShowOthers ==
  /\ others.at = "call" /\ others.todo = {}
  /\ dots' = [p \in Profile |-> IF others.fresh[p] = "" THEN dots[p]
                                                        ELSE others.fresh[p]]
  /\ others' = Rest
  /\ NextTick
  /\ UNCHANGED <<world, button, card, poll>>

-----------------------------------------------------------------------------
\* strongSwan, the daemon's other calls and the gateways: SAs come and go,
\* strongSwan stops and is started.  External.
Charon ==
  /\ output' \in (Outputs \cup {Down}) \ {output}
  /\ UNCHANGED <<selected, view, polls>>

Init ==
  /\ output \in Outputs \cup {Down}
  /\ selected = None
  /\ button = "disconnected" /\ card = Blank /\ dots = Nothing
  /\ poll = [k \in Poller |-> [at |-> "idle", p |-> None, st |-> "none"]]
  /\ others = Rest /\ tick = 0

User == (\E p \in Profile : Select(p)) \/ Remove \/ PrimaryAction \/ Tray

Next ==
  \/ User \/ Charon
  \/ \E k \in Clicker : LoginEnds(k)
  \/ \E p \in Profile : AnswerOther(p)
  \/ \E k \in Poller : Choose(k) \/ Answer(k) \/ Show(k)
  \/ ChooseOthers \/ ShowOthers

Spec == Init /\ [][Next]_vars

\* Go runs its goroutines and the ticker, the UI thread works off its queue,
\* and swanctl --list-sas returns.  Nothing is assumed of users and tunnels.
Fairness ==
  /\ \A k \in Poller : WF_vars(Choose(k) \/ Answer(k) \/ Show(k))
  /\ WF_vars(ChooseOthers \/ (\E p \in Profile : AnswerOther(p)) \/ ShowOthers)

FairSpec == Spec /\ Fairness

-----------------------------------------------------------------------------
(* Properties.                                                              *)

\* What an answer st about profile c claims of an output.  With several SAs
\* of one connection more than one answer can be right.
Sound(out, c, st) ==
  LET own      == {out[i] : i \in Own(out, c)}
      Is(ike)  == \E s \in own : s.ike = ike
      hasChild == \E s \in own : s.installed
  IN /\ st \in ConnState
     /\ st = "connected"    => Is("ESTABLISHED") /\ hasChild
     /\ st = "no_tunnel"    => Is("ESTABLISHED") /\ ~hasChild
     /\ st = "connecting"   => Is("CONNECTING")
     /\ st = "disconnected" => ~Is("ESTABLISHED") /\ ~Is("CONNECTING")

Dots   == [Profile -> ConnState \cup {""}]
Card   == [name : Profile \cup {None}, state : ConnState \cup {"error", "none"}]
Poll   == [at : {"idle", "ask", "call", "show", "login"},
           p : Profile \cup {None}, st : ConnState \cup {"error", "none"}]
Others == [at : {"idle", "ask", "call"}, todo : SUBSET Profile, fresh : Dots]

\* Every variable stays in its type: an error is no state of a tunnel, and
\* neither the button nor a dot ever takes it for one.
TypeOK ==
  /\ output \in Outputs \cup {Down}
  /\ selected \in Profile \cup {None}
  /\ button \in ConnState
  /\ card \in Card
  /\ dots \in Dots
  /\ poll \in [Poller -> Poll]
  /\ others \in Others
  /\ tick \in 0 .. Every - 1

\* No profile is ever given the state of another: the dot and the card show
\* of a profile only what some output says of that profile.  The card may say
\* "connecting" before charon does.  In the code it rests on pollSelected
\* keeping the profile that it asked about (statuspoll.go:49-58), and on the
\* parser keeping the blocks apart (status.go:49).
OwnState ==
  /\ \A p \in Profile :
       dots[p] # "" => \E out \in Outputs : Sound(out, p, dots[p])
  /\ card.state \in ConnState \ {"connecting"} =>
       \E out \in Outputs : Sound(out, card.name, card.state)

\* The window tells the truth about the selected profile.
Agrees ==
  IF selected = None THEN card = Blank
  ELSE IF output = Down THEN card.state = "error"
  ELSE /\ Sound(output, selected, button)
       /\ Sound(output, selected, dots[selected])
       /\ card = [name |-> selected, state |-> button]

WorldChanges == world' # world

\* Nothing that could say otherwise is on its way: every poll that has begun is
\* one of the selected profile and, if answered, up to date; no login is open;
\* the round of the others has found nothing else about it.
Quiet ==
  /\ \A k \in Poller :
       /\ poll[k].at # "login"
       /\ poll[k].at \in {"call", "show"} => poll[k].p = selected
       /\ poll[k].at = "show" => poll[k].st = Status(selected)
  /\ selected # None /\ output # Down =>
       \/ others.fresh[selected] = ""
       \/ Sound(output, selected, others.fresh[selected])

Steady == Agrees /\ Quiet
StaysSteady == Steady /\ ~WorldChanges /\ ~ConnectSelected => Steady'

\* A window that has come to agree with the tunnel, with nothing else on its
\* way, is left so by every poll, tick and round of the dots: until the user
\* connects or selects, or the tunnel changes, nothing flickers.
NoFlicker == [][StaysSteady]_vars

\* Whatever late or reordered answers, or a failed login, have put on the
\* button, the card and the dot, the window comes to agree with the tunnel
\* of the selected profile, unless selection and tunnels keep changing.
Settles == []<>Agrees \/ []<><<WorldChanges>>_vars

\* So do the dots of the profiles that are not selected.
DotsSettle ==
  \/ []<>(output = Down \/ \A p \in Profile \ {selected} : Sound(output, p, dots[p]))
  \/ []<><<WorldChanges>>_vars
=============================================================================
