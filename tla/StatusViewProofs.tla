--------------------------- MODULE StatusViewProofs ---------------------------
(***************************************************************************)
(* Theorems about StatusView, for every list of profiles, every set of     *)
(* outputs that list-sas may print, and any number of clicks that poll.    *)
(***************************************************************************)
EXTENDS StatusView, Integers, WellFoundedInduction, TLAPS

-----------------------------------------------------------------------------
(* The parser.                                                              *)

\* A non-empty set of positions has a last one: the least distance from the
\* end, since the naturals are well-founded.
LEMMA LastOf ==
  ASSUME NEW n \in Nat, NEW T, T \subseteq 1 .. n, T # {}
  PROVE  \E i \in T : \A j \in T : j <= i
<1> DEFINE R == {ss \in Nat \X Nat : ss[1] < ss[2]}
           U == {n - i : i \in T}
<1>1. U \subseteq Nat /\ U # {}
  <2>1. \A i \in T : i \in Nat /\ i <= n /\ n - i \in Nat
    OBVIOUS
  <2>2. PICK i \in T : TRUE
    OBVIOUS
  <2>3. n - i \in U
    OBVIOUS
  <2> QED BY <2>1, <2>3
<1>2. IsWellFoundedOn(R, Nat)
  BY NatLessThanWellFounded DEF OpToRel
<1>3. PICK x \in U : \A y \in U : ~(<<y, x>> \in R)
  <2> HIDE DEF R, U
  <2> QED BY <1>1, <1>2, WFMin
<1>4. \A y \in U : ~(y < x)
  BY <1>1, <1>3
<1>5. PICK i \in T : x = n - i
  OBVIOUS
<1>6. ASSUME NEW j \in T PROVE j <= i
  <2>1. n - j \in U
    OBVIOUS
  <2> QED BY <2>1, <1>4, <1>5
<1> QED BY <1>6

\* ParseListSAS is right about every output that Outputs can hold: whatever
\* SAs of other connections surround the block, in whatever order, and however
\* many of its own there are, its answer is one that Sound allows.
THEOREM ParseSound ==
  ASSUME NEW out \in Outputs, NEW c
  PROVE  Sound(out, c, ParseListSAS(out, c))
<1> DEFINE T == Telling(out, c)
           last == CHOOSE i \in T : \A j \in T : j <= i
<1>1. out \in Seq(SA)
  BY StatusAssumption
<1>2. T \subseteq 1 .. Len(out) /\ Len(out) \in Nat
  BY <1>1 DEF Telling, Own
<1>3. CASE T = {}
  <2>1. ParseListSAS(out, c) = "disconnected"
    BY <1>3 DEF ParseListSAS
  <2>2. \A i \in Own(out, c) : out[i].ike \notin {"CONNECTING", "ESTABLISHED"}
    BY <1>3 DEF Telling
  <2> QED BY <2>1, <2>2 DEF Sound, ConnState
<1>4. CASE T # {}
  <2>1. last \in T
    <3>1. \E i \in T : \A j \in T : j <= i
      <4> HIDE DEF T
      <4> QED BY <1>2, <1>4, LastOf
    <3> QED BY <3>1
  <2>2. last \in Own(out, c) /\ out[last].ike \in {"CONNECTING", "ESTABLISHED"}
    BY <2>1 DEF Telling
  <2>3. ParseListSAS(out, c) =
          IF out[last].ike = "CONNECTING" THEN "connecting"
          ELSE IF \E i \in Own(out, c) : out[i].installed THEN "connected"
          ELSE "no_tunnel"
    BY <1>4 DEF ParseListSAS
  <2> HIDE DEF last
  <2> QED BY <2>2, <2>3 DEF Sound, ConnState
<1> QED BY <1>3, <1>4

Blocks(out, c) == {out[i] : i \in Own(out, c)}

Ambiguous(out, c) ==
  \E s, t \in Blocks(out, c) : s.ike = "ESTABLISHED" /\ t.ike = "CONNECTING"

\* Of a connection that does not have an established SA and a negotiating one
\* at once, the answer depends on its own SAs alone: not on the order in which
\* they are printed, nor on those of other connections before and after.
THEOREM OrderIrrelevant ==
  ASSUME NEW out1 \in Outputs, NEW out2 \in Outputs, NEW c,
         Blocks(out1, c) = Blocks(out2, c), ~Ambiguous(out1, c)
  PROVE  ParseListSAS(out1, c) = ParseListSAS(out2, c)
<1>1. PICK x, y : x = ParseListSAS(out1, c) /\ y = ParseListSAS(out2, c)
  OBVIOUS
<1>2. Sound(out1, c, x) /\ Sound(out2, c, y)
  BY <1>1, ParseSound
<1>3. PICK B : B = Blocks(out1, c) /\ B = Blocks(out2, c)
  OBVIOUS
<1> DEFINE Is(ike) == \E s \in B : s.ike = ike
           has == \E s \in B : s.installed
           Right(st) == /\ st = "connected"    => Is("ESTABLISHED") /\ has
                        /\ st = "no_tunnel"    => Is("ESTABLISHED") /\ ~has
                        /\ st = "connecting"   => Is("CONNECTING")
                        /\ st = "disconnected" => ~Is("ESTABLISHED") /\ ~Is("CONNECTING")
<1>4. Right(x) /\ Right(y) /\ x \in ConnState /\ y \in ConnState
  BY <1>2, <1>3 DEF Sound, Blocks
<1>5. ~(Is("ESTABLISHED") /\ Is("CONNECTING"))
  BY <1>3 DEF Ambiguous
<1> QED BY <1>1, <1>4, <1>5 DEF ConnState

LEMMA ParseType == \A out, c : ParseListSAS(out, c) \in ConnState
BY DEF ParseListSAS, ConnState

LEMMA StatusType == \A c : Status(c) \in ConnState \cup {"error"}
BY ParseType DEF Status

-----------------------------------------------------------------------------
(* Types.                                                                   *)

\* A poll that is calling has a profile, one that has been answered a state.
PollInv ==
  \A k \in Poller :
    /\ poll[k].at \in {"call", "show"} => poll[k].p \in Profile
    /\ poll[k].at = "show" => poll[k].st # "none"

TypeInv == TypeOK /\ PollInv

LEMMA NothingType == Nothing \in Dots /\ Rest \in Others
BY DEF Nothing, Rest, Others, Dots

\* A goroutine that moves leaves the others where they are.
LEMMA GoOne ==
  ASSUME TypeOK, NEW k \in Poller,
         NEW at \in {"idle", "ask", "call", "show", "login"},
         NEW p \in Profile \cup {None}, NEW st \in ConnState \cup {"error", "none"},
         Go(k, at, p, st)
  PROVE  /\ poll' \in [Poller -> Poll]
         /\ poll'[k].at = at /\ poll'[k].p = p /\ poll'[k].st = st
         /\ \A j \in Poller \ {k} : poll'[j] = poll[j]
<1> DEFINE r == [at |-> at, p |-> p, st |-> st]
<1>1. r \in Poll /\ r.at = at /\ r.p = p /\ r.st = st
  BY DEF Poll
<1>2. poll \in [Poller -> Poll] /\ poll' = [poll EXCEPT ![k] = r]
  BY DEF TypeOK, Go
<1> HIDE DEF r
<1> QED BY <1>1, <1>2

LEMMA StopOne ==
  ASSUME TypeOK, NEW k \in Poller, Stop(k)
  PROVE  /\ poll' \in [Poller -> Poll] /\ poll'[k].at = "idle"
         /\ \A j \in Poller \ {k} : poll'[j] = poll[j]
BY GoOne DEF Stop

LEMMA InitType == Init => TypeInv
<1> SUFFICES ASSUME Init PROVE TypeInv
  OBVIOUS
<1>1. [at |-> "idle", p |-> None, st |-> "none"] \in Poll
  BY DEF Poll
<1>2. poll \in [Poller -> Poll] /\ \A k \in Poller : poll[k].at = "idle"
  BY <1>1 DEF Init
<1>3. card \in Card /\ button \in ConnState
  BY DEF Init, Blank, Card, ConnState
<1>4. tick \in 0 .. Every - 1
  BY StatusAssumption DEF Init
<1> QED BY <1>2, <1>3, <1>4, NothingType DEF Init, TypeInv, TypeOK, PollInv

LEMMA TickType == ASSUME TypeOK, NextTick PROVE tick' \in 0 .. Every - 1
BY StatusAssumption DEF TypeOK, NextTick

\* What the ticker does after a poll leaves nothing collected.
LEMMA DoneType ==
  ASSUME TypeOK, NEW k \in Poller, Done(k)
  PROVE  /\ others' \in Others /\ tick' \in 0 .. Every - 1
         /\ others'.fresh \in {others.fresh, Nothing}
<1>1. CASE k # Ticker
  BY <1>1 DEF Done, TypeOK
<1>2. CASE k = Ticker /\ tick = 0
  BY <1>2, NothingType DEF Done, TypeOK, Rest, Others
<1>3. CASE k = Ticker /\ tick # 0
  BY <1>3, TickType DEF Done, TypeOK
<1> QED BY <1>1, <1>2, <1>3

LEMMA NextType == TypeInv /\ [Next]_vars => TypeInv'
<1> SUFFICES ASSUME TypeInv, [Next]_vars PROVE TypeInv'
  OBVIOUS
<1> USE DEF TypeInv
<1>0. Clicker \subseteq Poller
  BY DEF Poller
<1>1. ASSUME NEW p \in Profile, Select(p) PROVE TypeInv'
  <2>1. PICK k \in Poller : Go(k, "ask", None, "none")
    BY <1>0, <1>1 DEF Select, Start
  <2>2. /\ poll' \in [Poller -> Poll] /\ poll'[k].at = "ask"
        /\ \A j \in Poller \ {k} : poll'[j] = poll[j]
    BY <2>1, GoOne
  <2> QED BY <1>1, <2>2 DEF Select, TypeOK, PollInv, view
<1>2. ASSUME Remove PROVE TypeInv'
  BY <1>2 DEF Remove, TypeOK, PollInv, view, polls
<1>3. ASSUME ConnectSelected PROVE TypeInv'
  <2>1. /\ poll' \in [Poller -> Poll]
        /\ \A j \in Poller : poll'[j].at = "login" \/ poll'[j] = poll[j]
    <3>1. CASE selected \in SamlProfile
      <4>1. PICK k \in Poller : Go(k, "login", None, "none")
        BY <1>0, <1>3, <3>1 DEF ConnectSelected, Start
      <4> QED BY <4>1, GoOne
    <3>2. CASE selected \notin SamlProfile
      BY <1>3, <3>2 DEF ConnectSelected, TypeOK
    <3> QED BY <3>1, <3>2
  <2>2. card' \in Card /\ button' \in ConnState
    BY <1>3 DEF ConnectSelected, TypeOK, Card, ConnState
  <2> QED BY <1>3, <2>1, <2>2 DEF ConnectSelected, TypeOK, PollInv, world
<1>4. ASSUME NEW k \in Clicker, LoginEnds(k) PROVE TypeInv'
  <2>1. /\ poll' \in [Poller -> Poll] /\ poll'[k].at = "idle"
        /\ \A j \in Poller \ {k} : poll'[j] = poll[j]
    BY <1>0, <1>4, StopOne DEF LoginEnds
  <2>2. button' \in ConnState
    BY <1>4 DEF LoginEnds, TypeOK, ConnState
  <2> QED BY <1>4, <2>1, <2>2 DEF LoginEnds, TypeOK, PollInv, world
<1>5. ASSUME Charon PROVE TypeInv'
  BY <1>5 DEF Charon, TypeOK, PollInv, view, polls
<1>6. ASSUME NEW k \in Poller, Choose(k) PROVE TypeInv'
  <2>1. CASE selected # None /\ Go(k, "call", selected, "none") /\ UNCHANGED <<card, others, tick>>
    <3>1. /\ poll' \in [Poller -> Poll]
          /\ poll'[k].at = "call" /\ poll'[k].p = selected /\ selected \in Profile
          /\ \A j \in Poller \ {k} : poll'[j] = poll[j]
      BY <2>1, GoOne DEF TypeOK
    <3> QED BY <1>6, <2>1, <3>1 DEF Choose, TypeOK, PollInv, world
  <2>2. CASE Stop(k) /\ card' = Blank /\ Done(k)
    <3>1. /\ poll' \in [Poller -> Poll] /\ poll'[k].at = "idle"
          /\ \A j \in Poller \ {k} : poll'[j] = poll[j]
      BY <2>2, StopOne
    <3>2. card' \in Card /\ others' \in Others /\ tick' \in 0 .. Every - 1
      BY <2>2, DoneType DEF Blank, Card
    <3> QED BY <1>6, <3>1, <3>2 DEF Choose, TypeOK, PollInv, world
  <2> QED BY <1>6, <2>1, <2>2 DEF Choose
<1>7. ASSUME NEW k \in Poller, Answer(k) PROVE TypeInv'
  <2>1. poll[k].p \in Profile /\ Status(poll[k].p) \in ConnState \cup {"error"}
    BY <1>7, StatusType DEF Answer, PollInv
  <2>2. Status(poll[k].p) # "none"
    BY <2>1 DEF ConnState
  <2>3. /\ poll' \in [Poller -> Poll]
        /\ poll'[k].p = poll[k].p /\ poll'[k].st = Status(poll[k].p)
        /\ \A j \in Poller \ {k} : poll'[j] = poll[j]
    BY <1>7, <2>1, GoOne DEF Answer
  <2> QED BY <1>7, <2>1, <2>2, <2>3 DEF Answer, TypeOK, PollInv, world, view
<1>8. ASSUME NEW k \in Poller, Show(k) PROVE TypeInv'
  <2>1. /\ poll' \in [Poller -> Poll] /\ poll'[k].at = "idle"
        /\ \A j \in Poller \ {k} : poll'[j] = poll[j]
    BY <1>8, StopOne DEF Show
  <2>2. others' \in Others /\ tick' \in 0 .. Every - 1 /\ UNCHANGED world
    BY <1>8, DoneType DEF Show
  <2>3. CASE poll[k].st = "error" /\ card' = CardError /\ UNCHANGED <<button, dots>>
    <3>1. card' \in Card
      BY <2>3 DEF CardError, Card, TypeOK
    <3> QED BY <2>1, <2>2, <2>3, <3>1 DEF TypeOK, PollInv, world
  <2>4. CASE poll[k].st # "error" /\ Display(poll[k].p, poll[k].st)
    <3>1. poll[k] \in Poll /\ poll[k].p \in Profile /\ poll[k].st # "none"
      BY <1>8 DEF Show, PollInv, TypeOK
    <3>2. poll[k].st \in ConnState
      BY <2>4, <3>1 DEF Poll
    <3>3. card' \in Card /\ button' \in ConnState /\ dots' \in Dots
      BY <2>4, <3>1, <3>2 DEF Display, Card, Dots, TypeOK
    <3> QED BY <2>1, <2>2, <3>3 DEF TypeOK, PollInv, world
  <2> QED BY <1>8, <2>3, <2>4 DEF Show
<1>9. ASSUME NEW p \in Profile, AnswerOther(p) PROVE TypeInv'
  <2>1. others' \in Others
    BY <1>9, StatusType DEF AnswerOther, Others, Dots, TypeOK
  <2> QED BY <1>9, <2>1 DEF AnswerOther, TypeOK, PollInv, world, view
<1>10. ASSUME ChooseOthers PROVE TypeInv'
  <2>1. others' \in Others
    BY <1>10, NothingType DEF ChooseOthers, Others
  <2> QED BY <1>10, <2>1 DEF ChooseOthers, TypeOK, PollInv, world, view
<1>11. ASSUME ShowOthers PROVE TypeInv'
  <2>1. dots' \in Dots
    BY <1>11 DEF ShowOthers, TypeOK, Others, Dots
  <2>2. others' \in Others /\ tick' \in 0 .. Every - 1
    BY <1>11, NothingType, TickType DEF ShowOthers
  <2> QED BY <1>11, <2>1, <2>2 DEF ShowOthers, TypeOK, PollInv, world
<1>12. ASSUME UNCHANGED vars PROVE TypeInv'
  BY <1>12 DEF vars, world, view, polls, TypeOK, PollInv
<1> QED
  BY <1>1, <1>2, <1>3, <1>4, <1>5, <1>6, <1>7, <1>8, <1>9, <1>10, <1>11, <1>12
     DEF Next, User, PrimaryAction, Tray, DisconnectSelected

LEMMA TypeInvariant == Spec => []TypeInv
BY InitType, NextType, PTL DEF Spec

\* Nothing but the state of a tunnel gets onto the button or a dot, from the
\* first poll on (the fault would be an error taken for a state).
THEOREM TypeCorrect == Spec => []TypeOK
BY TypeInvariant, PTL DEF TypeInv

-----------------------------------------------------------------------------
(* Every state shown is the profile's own.                                  *)

Says(c, st) == \E out \in Outputs : Sound(out, c, st)

\* An answer that is on its way is about the profile it was asked for.
Sincere(k) ==
  poll[k].at = "show" /\ poll[k].st # "error" => Says(poll[k].p, poll[k].st)

AnswerInv ==
  /\ \A k \in Poller : Sincere(k)
  /\ \A p \in Profile : others.fresh[p] # "" => Says(p, others.fresh[p])

DotsOwn == \A p \in Profile : dots[p] # "" => Says(p, dots[p])
CardOwn == card.state \in ConnState \ {"connecting"} => Says(card.name, card.state)

OwnInv == DotsOwn /\ CardOwn /\ AnswerInv

LEMMA StatusSays ==
  ASSUME TypeOK, NEW c, Status(c) # "error"
  PROVE  Says(c, Status(c))
BY ParseSound DEF TypeOK, Status, Says

LEMMA InitOwn == Init => OwnInv
<1> SUFFICES ASSUME Init PROVE OwnInv
  OBVIOUS
<1>1. DotsOwn
  BY DEF Init, DotsOwn, Nothing
<1>2. CardOwn
  BY DEF Init, CardOwn, Blank, ConnState
<1>3. AnswerInv
  BY DEF Init, AnswerInv, Sincere, Rest, Nothing
<1> QED BY <1>1, <1>2, <1>3 DEF OwnInv

\* The steps that show nothing and bring in no answer.
LEMMA OwnKept ==
  ASSUME OwnInv, UNCHANGED dots,
         UNCHANGED card \/ card'.state \notin ConnState \ {"connecting"},
         others'.fresh \in {others.fresh, Nothing},
         \A k \in Poller : poll'[k].at # "show" \/ poll'[k] = poll[k]
  PROVE  OwnInv'
<1>1. DotsOwn' /\ CardOwn'
  BY DEF OwnInv, DotsOwn, CardOwn, Says
<1>2. \A k \in Poller : Sincere(k)'
  BY DEF OwnInv, AnswerInv, Sincere, Says
<1>3. \A p \in Profile : others.fresh[p]' # "" => Says(p, others.fresh[p]')
  BY DEF OwnInv, AnswerInv, Says, Nothing
<1> QED BY <1>1, <1>2, <1>3 DEF OwnInv, AnswerInv, Says

LEMMA NextOwn == TypeInv /\ OwnInv /\ [Next]_vars => OwnInv'
<1> SUFFICES ASSUME TypeInv, OwnInv, [Next]_vars PROVE OwnInv'
  OBVIOUS
<1> USE DEF TypeInv
<1>0. Clicker \subseteq Poller
  BY DEF Poller
<1>1. ASSUME NEW p \in Profile, Select(p) PROVE OwnInv'
  <2>1. PICK k \in Poller : Go(k, "ask", None, "none")
    BY <1>0, <1>1 DEF Select, Start
  <2>2. \A j \in Poller : poll'[j].at # "show" \/ poll'[j] = poll[j]
    BY <2>1, GoOne
  <2> QED BY <1>1, <2>2, OwnKept DEF Select, view
<1>2. ASSUME Remove PROVE OwnInv'
  BY <1>2, OwnKept DEF Remove, view, polls
<1>3. ASSUME ConnectSelected PROVE OwnInv'
  <2>1. \A j \in Poller : poll'[j].at # "show" \/ poll'[j] = poll[j]
    <3>1. CASE selected \in SamlProfile
      <4>1. PICK k \in Poller : Go(k, "login", None, "none")
        BY <1>0, <1>3, <3>1 DEF ConnectSelected, Start
      <4> QED BY <4>1, GoOne
    <3>2. CASE selected \notin SamlProfile
      BY <1>3, <3>2 DEF ConnectSelected
    <3> QED BY <3>1, <3>2
  <2>2. card'.state = "connecting" /\ UNCHANGED <<dots, others>>
    BY <1>3 DEF ConnectSelected
  <2> QED BY <2>1, <2>2, OwnKept
<1>4. ASSUME NEW k \in Clicker, LoginEnds(k) PROVE OwnInv'
  <2>1. \A j \in Poller : poll'[j].at # "show" \/ poll'[j] = poll[j]
    BY <1>0, <1>4, StopOne DEF LoginEnds
  <2> QED BY <1>4, <2>1, OwnKept DEF LoginEnds
<1>5. ASSUME Charon PROVE OwnInv'
  BY <1>5, OwnKept DEF Charon, view, polls
<1>6. ASSUME NEW k \in Poller, Choose(k) PROVE OwnInv'
  <2>1. CASE Go(k, "call", selected, "none") /\ UNCHANGED <<card, others, tick>>
    <3>1. \A j \in Poller : poll'[j].at # "show" \/ poll'[j] = poll[j]
      BY <2>1, GoOne DEF TypeOK
    <3> QED BY <1>6, <2>1, <3>1, OwnKept DEF Choose
  <2>2. CASE Stop(k) /\ card' = Blank /\ Done(k)
    <3>1. \A j \in Poller : poll'[j].at # "show" \/ poll'[j] = poll[j]
      BY <2>2, StopOne
    <3>2. card'.state \notin ConnState \ {"connecting"}
      BY <2>2 DEF Blank, ConnState
    <3> QED BY <1>6, <2>2, <3>1, <3>2, DoneType, OwnKept DEF Choose
  <2> QED BY <1>6, <2>1, <2>2 DEF Choose
<1>7. ASSUME NEW k \in Poller, Answer(k) PROVE OwnInv'
  <2>1. poll[k].p \in Profile /\ Status(poll[k].p) \in ConnState \cup {"error"}
    BY <1>7, StatusType DEF Answer, PollInv
  <2>2. /\ poll'[k].p = poll[k].p /\ poll'[k].st = Status(poll[k].p)
        /\ \A j \in Poller \ {k} : poll'[j] = poll[j]
    BY <1>7, <2>1, GoOne DEF Answer
  <2>3. Status(poll[k].p) # "error" => Says(poll[k].p, Status(poll[k].p))
    BY StatusSays
  <2>4. \A j \in Poller : Sincere(j)'
    BY <2>2, <2>3 DEF OwnInv, AnswerInv, Sincere, Says
  <2>5. UNCHANGED <<dots, card, others>>
    BY <1>7 DEF Answer, view
  <2> QED BY <2>4, <2>5 DEF OwnInv, DotsOwn, CardOwn, AnswerInv, Says
<1>8. ASSUME NEW k \in Poller, Show(k) PROVE OwnInv'
  <2>1. \A j \in Poller : poll'[j].at # "show" \/ poll'[j] = poll[j]
    BY <1>8, StopOne DEF Show
  <2>2. others'.fresh \in {others.fresh, Nothing}
    BY <1>8, DoneType DEF Show
  <2>3. CASE card' = CardError /\ UNCHANGED <<button, dots>>
    <3>1. card'.state \notin ConnState \ {"connecting"}
      BY <2>3 DEF CardError, TypeOK, Card, ConnState
    <3> QED BY <2>1, <2>2, <2>3, <3>1, OwnKept
  <2>4. CASE poll[k].st # "error" /\ Display(poll[k].p, poll[k].st)
    <3>1. Says(poll[k].p, poll[k].st)
      BY <1>8, <2>4 DEF Show, OwnInv, AnswerInv, Sincere
    <3>2. DotsOwn' /\ CardOwn'
      BY <2>4, <3>1 DEF Display, OwnInv, DotsOwn, CardOwn, Says, TypeOK, Dots
    <3>3. AnswerInv'
      BY <2>1, <2>2 DEF OwnInv, AnswerInv, Sincere, Says, Nothing
    <3> QED BY <3>2, <3>3 DEF OwnInv
  <2> QED BY <1>8, <2>3, <2>4 DEF Show
<1>9. ASSUME NEW p \in Profile, AnswerOther(p) PROVE OwnInv'
  <2>1. Status(p) # "error" => Says(p, Status(p))
    BY StatusSays
  <2>2. UNCHANGED <<dots, card, poll>>
    BY <1>9 DEF AnswerOther, view
  <2>3. others'.fresh = [others.fresh EXCEPT ![p] =
                           IF Status(p) = "error" THEN "" ELSE Status(p)]
    BY <1>9 DEF AnswerOther
  <2>4. others.fresh \in Dots
    BY DEF TypeOK, Others
  <2>5. \A q \in Profile : others'.fresh[q] # "" => Says(q, others'.fresh[q])
    BY <2>1, <2>3, <2>4 DEF OwnInv, AnswerInv, Dots
  <2>6. \A k \in Poller : Sincere(k)'
    BY <2>2 DEF OwnInv, AnswerInv, Sincere, Says
  <2> QED BY <2>2, <2>5, <2>6 DEF OwnInv, DotsOwn, CardOwn, AnswerInv, Says
<1>10. ASSUME ChooseOthers PROVE OwnInv'
  BY <1>10, OwnKept DEF ChooseOthers, view
<1>11. ASSUME ShowOthers PROVE OwnInv'
  <2>1. DotsOwn'
    BY <1>11 DEF ShowOthers, OwnInv, AnswerInv, DotsOwn, Says
  <2>2. AnswerInv' /\ CardOwn'
    BY <1>11 DEF ShowOthers, OwnInv, CardOwn, AnswerInv, Sincere, Says, Rest, Nothing
  <2> QED BY <2>1, <2>2 DEF OwnInv
<1>12. ASSUME UNCHANGED vars PROVE OwnInv'
  BY <1>12, OwnKept DEF vars, world, view, polls
<1> QED
  BY <1>1, <1>2, <1>3, <1>4, <1>5, <1>6, <1>7, <1>8, <1>9, <1>10, <1>11, <1>12
     DEF Next, User, PrimaryAction, Tray, DisconnectSelected

\* However late answers arrive and whatever is selected by then, a profile is
\* never shown in a state that only another profile can be in.
THEOREM OwnStateShown == Spec => []OwnState
<1>1. OwnInv => OwnState
  BY DEF OwnInv, DotsOwn, CardOwn, Says, OwnState
<1> QED BY <1>1, TypeInvariant, InitOwn, NextOwn, PTL DEF Spec
-----------------------------------------------------------------------------
(* Nothing flickers.                                                        *)

\* The two halves of Quiet.
PollQuiet(k) ==
  /\ poll[k].at # "login"
  /\ poll[k].at \in {"call", "show"} => poll[k].p = selected
  /\ poll[k].at = "show" => poll[k].st = Status(selected)

OthersQuiet ==
  selected # None /\ output # Down =>
    \/ others.fresh[selected] = ""
    \/ Sound(output, selected, others.fresh[selected])

LEMMA QuietHalves == Quiet <=> (\A k \in Poller : PollQuiet(k)) /\ OthersQuiet
BY DEF Quiet, PollQuiet, OthersQuiet

\* While the tunnels stay as they are, a poll that does not move or only asks
\* stays quiet.
LEMMA PollsStayQuiet ==
  ASSUME Quiet, UNCHANGED world,
         \A k \in Poller : poll'[k] = poll[k] \/ poll'[k].at \in {"idle", "ask"}
  PROVE  \A k \in Poller : PollQuiet(k)'
<1> SUFFICES ASSUME NEW k \in Poller PROVE PollQuiet(k)'
  OBVIOUS
<1>1. PollQuiet(k) /\ UNCHANGED <<output, selected>>
  BY QuietHalves DEF world
<1>2. CASE poll'[k] = poll[k]
  BY <1>1, <1>2 DEF PollQuiet, Status
<1>3. CASE poll'[k].at \in {"idle", "ask"}
  BY <1>3 DEF PollQuiet
<1> QED BY <1>2, <1>3

LEMMA OthersStayQuiet ==
  ASSUME TypeOK, Quiet, UNCHANGED world, others'.fresh \in {others.fresh, Nothing}
  PROVE  OthersQuiet'
<1>1. OthersQuiet /\ UNCHANGED <<output, selected>>
  BY QuietHalves DEF world
<1>2. selected # None => Nothing[selected] = ""
  BY DEF Nothing, TypeOK
<1> QED BY <1>1, <1>2 DEF OthersQuiet

LEMMA QuietAgain ==
  ASSUME \A k \in Poller : PollQuiet(k)', OthersQuiet'
  PROVE  Quiet'
BY DEF Quiet, PollQuiet, OthersQuiet

LEMMA AgreesKept == ASSUME Agrees, UNCHANGED <<world, view>> PROVE Agrees'
BY DEF Agrees, world, view

\* What the parser makes of the output is true of it.
LEMMA StatusSound ==
  ASSUME TypeOK, NEW c
  PROVE  /\ output = Down <=> Status(c) = "error"
         /\ output # Down => Sound(output, c, Status(c))
<1>1. ParseListSAS(output, c) \in ConnState
  BY ParseType
<1>2. ParseListSAS(output, c) # "error"
  BY <1>1 DEF ConnState
<1>3. output # Down => Sound(output, c, ParseListSAS(output, c))
  BY ParseSound DEF TypeOK
<1> QED BY <1>2, <1>3 DEF Status

\* An answer about the selected profile that is up to date is shown as what
\* the tunnel is.
LEMMA ShowAgrees ==
  ASSUME TypeInv, Steady, UNCHANGED world, NEW k \in Poller, Show(k)
  PROVE  Agrees'
<1>1. /\ poll[k].p = selected /\ poll[k].st = Status(selected)
      /\ selected \in Profile /\ selected # None
      /\ UNCHANGED <<output, selected>>
  BY QuietHalves, StatusAssumption DEF Steady, Show, PollQuiet, TypeInv, PollInv, world
<1>2. CASE output = Down
  <2>1. poll[k].st = "error"
    BY <1>1, <1>2, StatusSound DEF TypeInv
  <2>2. card'.state = "error"
    BY <2>1 DEF Show, CardError, TypeInv, TypeOK, Card
  <2> QED BY <1>1, <1>2, <2>2 DEF Agrees
<1>3. CASE output # Down
  <2>1. poll[k].st # "error" /\ Sound(output, selected, poll[k].st)
    BY <1>1, <1>3, StatusSound DEF TypeInv
  <2>2. Display(selected, poll[k].st)
    BY <1>1, <2>1 DEF Show
  <2>3. dots \in Dots
    BY DEF TypeInv, TypeOK
  <2>4. /\ button' = poll[k].st /\ dots'[selected] = poll[k].st
        /\ card' = [name |-> selected, state |-> poll[k].st]
    BY <1>1, <2>2, <2>3 DEF Display, Dots
  <2> QED BY <1>1, <1>3, <2>1, <2>4 DEF Agrees
<1> QED BY <1>2, <1>3

LEMMA NextSteady ==
  ASSUME TypeInv, [Next]_vars
  PROVE  StaysSteady
<1> SUFFICES ASSUME Steady, UNCHANGED world, ~ConnectSelected PROVE Steady'
  BY DEF StaysSteady, WorldChanges
<1> USE DEF TypeInv
<1>0. Agrees /\ Quiet /\ UNCHANGED <<output, selected>> /\ Clicker \subseteq Poller
  BY DEF Steady, world, Poller
<1>1. ASSUME NEW p \in Profile, Select(p) PROVE FALSE
  BY <1>0, <1>1 DEF Select
<1>2. ~Remove
  BY <1>0 DEF Remove
<1>3. ~Charon
  BY <1>0 DEF Charon
<1>4. ASSUME NEW k \in Clicker, LoginEnds(k) PROVE FALSE
  BY <1>0, <1>4, QuietHalves DEF LoginEnds, PollQuiet
<1>5. ASSUME NEW k \in Poller, Choose(k) PROVE Steady'
  <2>1. CASE selected # None /\ Go(k, "call", selected, "none") /\ UNCHANGED <<card, others, tick>>
    <3>1. Agrees'
      BY <1>0, <1>5, <2>1, AgreesKept DEF Choose, view
    <3>2. /\ poll'[k].at = "call" /\ poll'[k].p = selected
          /\ \A j \in Poller \ {k} : poll'[j] = poll[j]
      BY <2>1, GoOne DEF TypeOK
    <3>3. ASSUME NEW j \in Poller PROVE PollQuiet(j)'
      <4>1. CASE j = k
        BY <1>0, <3>2, <4>1 DEF PollQuiet
      <4>2. CASE j # k
        BY <1>0, <3>2, <4>2, QuietHalves DEF PollQuiet, Status
      <4> QED BY <4>1, <4>2
    <3>4. OthersQuiet'
      BY <1>0, <2>1, OthersStayQuiet
    <3> QED BY <3>1, <3>3, <3>4, QuietAgain DEF Steady
  <2>2. CASE selected = None /\ Stop(k) /\ card' = Blank /\ Done(k)
    <3>1. Agrees'
      BY <1>0, <2>2 DEF Agrees, Blank
    <3>2. \A j \in Poller : poll'[j] = poll[j] \/ poll'[j].at \in {"idle", "ask"}
      BY <2>2, StopOne
    <3>3. others'.fresh \in {others.fresh, Nothing}
      BY <2>2, DoneType
    <3>4. (\A j \in Poller : PollQuiet(j)') /\ OthersQuiet'
      BY <1>0, <3>2, <3>3, PollsStayQuiet, OthersStayQuiet
    <3> QED BY <3>1, <3>4, QuietAgain DEF Steady
  <2> QED BY <1>5, <2>1, <2>2 DEF Choose
<1>6. ASSUME NEW k \in Poller, Answer(k) PROVE Steady'
  <2>1. Agrees'
    BY <1>0, <1>6, AgreesKept DEF Answer
  <2>2. poll[k].p = selected
    BY <1>0, <1>6, QuietHalves DEF Answer, PollQuiet
  <2>3. selected \in Profile /\ Status(selected) \in ConnState \cup {"error"}
    BY <1>6, <2>2, StatusType DEF Answer, PollInv
  <2>4. /\ poll'[k].p = selected /\ poll'[k].st = Status(selected)
        /\ poll'[k].at = "show" /\ \A j \in Poller \ {k} : poll'[j] = poll[j]
    BY <1>6, <2>2, <2>3, GoOne DEF Answer
  <2>5. ASSUME NEW j \in Poller PROVE PollQuiet(j)'
    <3>1. CASE j = k
      BY <1>0, <2>4, <3>1 DEF PollQuiet, Status
    <3>2. CASE j # k
      BY <1>0, <2>4, <3>2, QuietHalves DEF PollQuiet, Status
    <3> QED BY <3>1, <3>2
  <2>6. OthersQuiet'
    BY <1>0, <1>6, OthersStayQuiet DEF Answer
  <2> QED BY <2>1, <2>5, <2>6, QuietAgain DEF Steady
<1>7. ASSUME NEW k \in Poller, Show(k) PROVE Steady'
  <2>1. Agrees'
    BY <1>7, ShowAgrees
  <2>2. \A j \in Poller : poll'[j] = poll[j] \/ poll'[j].at \in {"idle", "ask"}
    BY <1>7, StopOne DEF Show
  <2>3. others'.fresh \in {others.fresh, Nothing}
    BY <1>7, DoneType DEF Show
  <2>4. (\A j \in Poller : PollQuiet(j)') /\ OthersQuiet'
    BY <1>0, <2>2, <2>3, PollsStayQuiet, OthersStayQuiet
  <2> QED BY <2>1, <2>4, QuietAgain DEF Steady
<1>8. ASSUME NEW p \in Profile, AnswerOther(p) PROVE Steady'
  <2>1. Agrees' /\ UNCHANGED poll
    BY <1>0, <1>8, AgreesKept DEF AnswerOther
  <2>2. \A j \in Poller : PollQuiet(j)'
    BY <1>0, <2>1, PollsStayQuiet
  <2>3. others.fresh \in Dots /\ selected \in Profile \cup {None}
    BY DEF TypeOK, Others
  <2>4. others'.fresh = [others.fresh EXCEPT ![p] =
                           IF Status(p) = "error" THEN "" ELSE Status(p)]
    BY <1>8 DEF AnswerOther
  <2>5. CASE p = selected
    <3>1. others'.fresh[selected] = IF Status(selected) = "error" THEN "" ELSE Status(selected)
      BY <2>3, <2>4, <2>5 DEF Dots
    <3>2. output # Down => Sound(output, selected, Status(selected))
      BY StatusSound
    <3> QED BY <1>0, <2>1, <2>2, <3>1, <3>2, StatusSound, QuietAgain DEF OthersQuiet, Steady
  <2>6. CASE p # selected
    <3>1. selected # None => others'.fresh[selected] = others.fresh[selected]
      BY <2>3, <2>4, <2>6 DEF Dots
    <3>2. OthersQuiet'
      BY <1>0, <3>1, QuietHalves DEF OthersQuiet
    <3> QED BY <2>1, <2>2, <3>2, QuietAgain DEF Steady
  <2> QED BY <2>5, <2>6
<1>9. ASSUME ChooseOthers PROVE Steady'
  <2>1. Agrees' /\ UNCHANGED poll /\ others'.fresh \in {others.fresh, Nothing}
    BY <1>0, <1>9, AgreesKept DEF ChooseOthers
  <2>2. (\A j \in Poller : PollQuiet(j)') /\ OthersQuiet'
    BY <1>0, <2>1, PollsStayQuiet, OthersStayQuiet
  <2> QED BY <2>1, <2>2, QuietAgain DEF Steady
<1>10. ASSUME ShowOthers PROVE Steady'
  <2>1. /\ UNCHANGED <<button, card, poll>>
        /\ others'.fresh \in {others.fresh, Nothing}
    BY <1>10 DEF ShowOthers, Rest
  <2>2. (\A j \in Poller : PollQuiet(j)') /\ OthersQuiet'
    BY <1>0, <2>1, PollsStayQuiet, OthersStayQuiet
  <2>3. selected # None =>
          dots'[selected] = IF others.fresh[selected] = "" THEN dots[selected]
                                                           ELSE others.fresh[selected]
    BY <1>10 DEF ShowOthers, TypeOK
  <2>4. OthersQuiet
    BY <1>0, QuietHalves
  <2>5. Agrees'
    BY <1>0, <2>1, <2>3, <2>4 DEF Agrees, OthersQuiet
  <2> QED BY <2>2, <2>5, QuietAgain DEF Steady
<1>11. ASSUME UNCHANGED vars PROVE Steady'
  <2>1. Agrees' /\ UNCHANGED <<poll, others>>
    BY <1>0, <1>11, AgreesKept DEF vars, polls
  <2>2. (\A j \in Poller : PollQuiet(j)') /\ OthersQuiet'
    BY <1>0, <2>1, PollsStayQuiet, OthersStayQuiet
  <2> QED BY <2>1, <2>2, QuietAgain DEF Steady
<1> QED
  BY <1>1, <1>2, <1>3, <1>4, <1>5, <1>6, <1>7, <1>8, <1>9, <1>10, <1>11
     DEF Next, User, PrimaryAction, Tray, DisconnectSelected

\* A window that agrees with the tunnel, with no stale answer and no login on
\* its way, goes on agreeing whatever polls, ticks and rounds of the dots do:
\* of what Settles asks, all but that it ever comes to that.
THEOREM NothingFlickers == Spec => NoFlicker
<1>1. TypeInv /\ [Next]_vars => [StaysSteady]_vars
  BY NextSteady
<1> QED BY <1>1, TypeInvariant, PTL DEF Spec, NoFlicker
=============================================================================
