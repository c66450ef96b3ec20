---------------------------- MODULE DaemonProofs ----------------------------
(***************************************************************************)
(* Theorems about Daemon, for any number of calls, connections, profiles   *)
(* and any set of faults.                                                  *)
(***************************************************************************)
EXTENDS Daemon, TLAPS

\* The names of groups of variables, which every UNCHANGED uses.
USE DEF files, loaded, tunnel, charon, ask, locals, hist

-----------------------------------------------------------------------------
(* What the helpers return.                                                 *)

\* The methods a call at step l can be serving.
MayBeAt(op, l) ==
  /\ l = "listSas" => op = "Status"
  /\ l \in {"readMain", "truncMain", "writeMain", "checkIke", "truncConf",
            "writeConf", "truncSec", "writeSec"} => op = "ApplyProfile"
  /\ l \in {"rmConf", "rmSec"} => op = "RemoveProfile"
  /\ l \in {"load", "send"} => op \in Writers
  /\ l \in {"ensureXauth", "startingXauth"} => op \in {"ApplyProfile", "Connect"}
  /\ l \in {"start", "starting", "peek", "list", "initiate", "initiating"} =>
       op = "Connect"
  /\ l = "terminate" => op = "Disconnect"
  /\ l = "authorize" => op # "Status"

\* A handler starts at a step of its own method, and with a valid name only.
LEMMA FirstStepOwn ==
  ASSUME NEW r \in Requests
  PROVE  /\ FirstStep(r) \in Working \cup {"failed"}
         /\ FirstStep(r) \in Working => r.conn \in ValidConn
         /\ MayBeAt(r.op, FirstStep(r))
         /\ FirstStep(r) = "listSas" => r.op = "Status"
BY DaemonAssumption DEF FirstStep, MayBeAt, Methods, Working, Writers

\* Where a handler starts.
Starts == {"listSas", "readMain", "start", "terminate", "rmConf"}

LEMMA FirstStepStarts ==
  ASSUME NEW r \in Requests
  PROVE  FirstStep(r) \in Starts \cup {"failed"}
BY DaemonAssumption DEF FirstStep, Methods, Starts

\* A file's text names a positive number of children.
LEMMA ChildCountsType ==
  ASSUME NEW x \in Content, NEW n \in ChildCounts(x)
  PROVE  n \in Nat \ {0}
BY DaemonAssumption DEF Content, ChildCounts, IsV1

\* A load never yields an emptied file.
LEMMA OnDiskType ==
  ASSUME NEW f \in [Conn -> Content]
  PROVE  OnDisk(f) \in [Conn -> Content \ {Blank}]
BY DaemonAssumption DEF OnDisk, Content

LEMMA NothingType == Nothing \in [Conn -> Content \ {Blank}]
BY DaemonAssumption DEF Nothing, Content

\* A write leaves a profile's text, possibly mixed with another's.
LEMMA OverlayType ==
  ASSUME NEW x, NEW p \in Payload, NEW y \in Overlay(x, p)
  PROVE  y \in Content
BY DEF Overlay, Content

-----------------------------------------------------------------------------
(* Type correctness, with the tie between a call's step and its request.    *)

\* Each call is at a step of its own method; past polkit only with its yes
\* (Status excepted) and only for a name connNameRE accepts.
Placed(k) ==
  /\ pc[k] # "idle" => req[k] \in Requests
  /\ pc[k] \in Working => /\ ConnOf(k) \in ValidConn
                          /\ Op(k) = "Status" \/ allowed[k]
  /\ MayBeAt(Op(k), pc[k])

TypeInv == TypeOK /\ \A k \in Call : Placed(k)

LEMMA TypeInit == Init => TypeInv
<1> SUFFICES ASSUME Init PROVE TypeInv
  OBVIOUS
<1>1. TypeOK
  <2>1. /\ swanctlConf \subseteq Text
        /\ conf \in [Conn -> Content] /\ sec \in [Conn -> Content]
        /\ charonUp \in BOOLEAN
    BY DEF Init, Text, Content
  <2>3. /\ lconf \in [Conn -> Content \ {Blank}]
        /\ lsec \in [Conn -> Content \ {Blank}]
    BY <2>1, OnDiskType, NothingType DEF Init
  <2>5. /\ rconf \in [Call -> [Conn -> Content \ {Blank}]]
        /\ rsec \in [Call -> [Conn -> Content \ {Blank}]]
    BY NothingType DEF Init
  <2>4. /\ ike \in [Conn -> {"none", "CONNECTING", "ESTABLISHED"}]
        /\ child \in [Conn -> SUBSET Nat]
    BY DEF Init
  <2>6. /\ pc \in [Call -> Waiting \cup Working \cup Finished]
        /\ req \in [Call -> Requests \cup {NoRequest}]
        /\ allowed \in [Call -> BOOLEAN] /\ seen \in [Call -> SUBSET Text]
        /\ held \in [Call -> BOOLEAN]
        /\ at \in [Call -> Nat] /\ total \in [Call -> Nat]
        /\ err \in [Call -> SUBSET Nat] /\ presented \in [Call -> Nat]
        /\ alone \in [Call -> BOOLEAN] /\ latest \in [Call -> BOOLEAN]
        /\ intact \in [Call -> BOOLEAN] /\ cut \in BOOLEAN
    BY DEF Init, Waiting
  <2> QED BY <2>1, <2>3, <2>4, <2>5, <2>6 DEF TypeOK
<1>2. ASSUME NEW k \in Call PROVE Placed(k)
  BY DEF Init, Placed, Working, MayBeAt
<1> QED BY <1>1, <1>2 DEF TypeInv


\* Reduction of Next to its actions, shared by every invariant proof.
LEMMA NextCases ==
  ASSUME [Next]_vars
  PROVE  \/ UNCHANGED vars
         \/ \E k \in Call :
              \/ \E r \in Requests : Request(k, r)
              \/ Admit(k) \/ Deny(k) \/ IOError(k)
              \/ ReadMain(k)
              \/ TruncMain(k)
              \/ WriteMain(k)
              \/ CheckIke(k)
              \/ EnsureXauth(k)
              \/ XauthStarted(k)
              \/ TruncConf(k)
              \/ WriteConf(k)
              \/ TruncSec(k)
              \/ WriteSec(k)
              \/ ReadAll(k)
              \/ LoadAll(k)
              \/ RmConf(k)
              \/ RmSec(k)
              \/ Start(k)
              \/ ConnectStarted(k)
              \/ Peek(k)
              \/ List(k)
              \/ Initiate(k)
              \/ Initiated(k)
              \/ Terminate(k)
              \/ ListSas(k)
         \/ \E c \in Conn : ChildLost(c) \/ IkeLost(c) \/ CharonSettles(c)
         \/ Kill \/ CharonStop
BY DEF Next, Step

LEMMA AdvanceType ==
  ASSUME TypeInv, NEW k \in Call, NEW e \in SUBSET Nat, Advance(k, e)
  PROVE  /\ at' \in [Call -> Nat] /\ err' \in [Call -> SUBSET Nat]
         /\ pc' \in [Call -> Waiting \cup Working \cup Finished]
<1>1. at' \in [Call -> Nat]
  BY DEF Advance, TypeInv, TypeOK
<1>2. err' \in [Call -> SUBSET Nat]
  BY DEF Advance, TypeInv, TypeOK
<1>3. \E l \in {"initiate", "ok", "failed"} : pc' = [pc EXCEPT ![k] = l]
  BY DEF Advance, Goto
<1>4. pc' \in [Call -> Waiting \cup Working \cup Finished]
  BY <1>3 DEF TypeInv, TypeOK, Working, Finished
<1> QED BY <1>1, <1>2, <1>4

\* What a load-all has read, and what it makes of charon's copy.
LEMMA LoadTypes ==
  ASSUME TypeInv, NEW k \in Call
  PROVE  /\ ReadFiles(k) \/ Forget(k) =>
              /\ rconf' \in [Call -> [Conn -> Content \ {Blank}]]
              /\ rsec' \in [Call -> [Conn -> Content \ {Blank}]]
         /\ \A bad : SendFiles(k, bad) =>
              /\ lconf' \in [Conn -> Content \ {Blank}]
              /\ lsec' \in [Conn -> Content \ {Blank}]
<1>1. /\ OnDisk(conf) \in [Conn -> Content \ {Blank}]
      /\ OnDisk(sec) \in [Conn -> Content \ {Blank}]
      /\ Nothing \in [Conn -> Content \ {Blank}]
  BY OnDiskType, NothingType DEF TypeInv, TypeOK
<1>2. ASSUME ReadFiles(k) \/ Forget(k)
      PROVE  /\ rconf' \in [Call -> [Conn -> Content \ {Blank}]]
             /\ rsec' \in [Call -> [Conn -> Content \ {Blank}]]
  <2>1. CASE ReadFiles(k)
    <3>1. rconf' = [rconf EXCEPT ![k] = OnDisk(conf)]
      BY <2>1 DEF ReadFiles
    <3>2. rsec' = [rsec EXCEPT ![k] = OnDisk(sec)]
      BY <2>1 DEF ReadFiles
    <3> QED BY <1>1, <3>1, <3>2 DEF TypeInv, TypeOK
  <2>2. CASE Forget(k)
    <3>1. rconf' = [rconf EXCEPT ![k] = Nothing]
      BY <2>2 DEF Forget
    <3>2. rsec' = [rsec EXCEPT ![k] = Nothing]
      BY <2>2 DEF Forget
    <3> QED BY <1>1, <3>1, <3>2 DEF TypeInv, TypeOK
  <2> QED BY <1>2, <2>1, <2>2
<1>3. ASSUME NEW bad, SendFiles(k, bad)
      PROVE  /\ lconf' \in [Conn -> Content \ {Blank}]
             /\ lsec' \in [Conn -> Content \ {Blank}]
  BY <1>3 DEF SendFiles, TypeInv, TypeOK
<1> QED BY <1>2, <1>3

LEMMA TypeOKStep ==
  ASSUME TypeInv, [Next]_vars
  PROVE  TypeOK'
<1>0. CASE UNCHANGED vars
  BY <1>0 DEF vars, TypeOK, Goto, ConnOf, Waiting, Working, Finished, TypeInv
<1>1. ASSUME NEW k \in Call, NEW r \in Requests, Request(k, r) PROVE TypeOK'
  BY <1>1, FirstStepOwn, DaemonAssumption
  DEF Request, Entry, TypeOK, Goto, ConnOf, Waiting, Working, Finished, TypeInv
<1>2. ASSUME NEW k \in Call, Admit(k) PROVE TypeOK'
  <2>1. req[k] \in Requests
    BY <1>2 DEF Admit, TypeInv, Placed
  <2>2. FirstStep(req[k]) \in Working \cup Finished
    BY <2>1, FirstStepOwn DEF Finished
  <2> QED
    BY <1>2, <2>2 DEF Admit, TypeInv, TypeOK, Goto
<1>3. ASSUME NEW k \in Call, Deny(k) PROVE TypeOK'
  BY <1>3 DEF Deny, TypeOK, Goto, ConnOf, Waiting, Working, Finished, TypeInv
<1>4. ASSUME NEW k \in Call, IOError(k) PROVE TypeOK'
  BY <1>4
  DEF IOError, TypeOK, Goto, ConnOf, Waiting, Working, Finished, TypeInv
<1>5. ASSUME NEW k \in Call, ReadMain(k) PROVE TypeOK'
  BY <1>5
  DEF ReadMain, AfterMain, Text, TypeOK, Goto, ConnOf, Waiting, Working,
      Finished, TypeInv
<1>6. ASSUME NEW k \in Call, TruncMain(k) PROVE TypeOK'
  BY <1>6
  DEF TruncMain, Cross, TypeOK, Goto, ConnOf, Waiting, Working, Finished,
      TypeInv
<1>7. ASSUME NEW k \in Call, WriteMain(k) PROVE TypeOK'
  BY <1>7
  DEF WriteMain, AfterMain, Text, TypeOK, Goto, ConnOf, Waiting, Working,
      Finished, TypeInv
<1>8. ASSUME NEW k \in Call, CheckIke(k) PROVE TypeOK'
  BY <1>8
  DEF CheckIke, TypeOK, Goto, ConnOf, Waiting, Working, Finished, TypeInv
<1>9. ASSUME NEW k \in Call, EnsureXauth(k) PROVE TypeOK'
  BY <1>9, LoadTypes
  DEF EnsureXauth, EnsureRunning, IkeChecked, TypeOK, Goto, Working, Finished,
      TypeInv
<1>9a. ASSUME NEW k \in Call, XauthStarted(k) PROVE TypeOK'
  BY <1>9a, LoadTypes
  DEF XauthStarted, Started, IkeChecked, TypeOK, Goto, Working, Finished,
      TypeInv
<1>10. ASSUME NEW k \in Call, TruncConf(k) PROVE TypeOK'
  BY <1>10
  DEF TruncConf, Content, TypeOK, Goto, ConnOf, Waiting, Working, Finished,
      TypeInv
<1>11. ASSUME NEW k \in Call, WriteConf(k) PROVE TypeOK'
  <2>1. req[k].p \in Payload
    BY <1>11, DaemonAssumption DEF WriteConf, TypeInv, Placed, MayBeAt, Op
  <2>2. conf' = conf \/ \E x \in Content : conf' = [conf EXCEPT ![ConnOf(k)] = x]
    BY <1>11, <2>1, OverlayType DEF WriteConf
  <2>3. conf' \in [Conn -> Content]
    BY <2>2 DEF TypeInv, TypeOK
  <2> QED
    BY <1>11, <2>3 DEF WriteConf, TypeInv, TypeOK, Goto, Working
<1>12. ASSUME NEW k \in Call, TruncSec(k) PROVE TypeOK'
  BY <1>12
  DEF TruncSec, Content, TypeOK, Goto, ConnOf, Waiting, Working, Finished,
      TypeInv
<1>13. ASSUME NEW k \in Call, WriteSec(k) PROVE TypeOK'
  <2>1. req[k].p \in Payload
    BY <1>13, DaemonAssumption DEF WriteSec, TypeInv, Placed, MayBeAt, Op
  <2>2. sec' = sec \/ \E x \in Content : sec' = [sec EXCEPT ![ConnOf(k)] = x]
    BY <1>13, <2>1, OverlayType DEF WriteSec
  <2>3. sec' \in [Conn -> Content]
    BY <2>2 DEF TypeInv, TypeOK
  <2> QED
    BY <1>13, <2>3 DEF WriteSec, TypeInv, TypeOK, Goto, Working
<1>13a. ASSUME NEW k \in Call, ReadAll(k) PROVE TypeOK'
  <2>1. /\ rconf' \in [Call -> [Conn -> Content \ {Blank}]]
        /\ rsec' \in [Call -> [Conn -> Content \ {Blank}]]
    BY <1>13a, LoadTypes DEF ReadAll, TypeInv, TypeOK
  <2>2. pc' \in [Call -> Waiting \cup Working \cup Finished]
    <3>1. \E l \in {"send", "failed"} : pc' = [pc EXCEPT ![k] = l]
      BY <1>13a DEF ReadAll, Goto
    <3> QED BY <3>1 DEF Working, Finished, TypeInv, TypeOK
  <2>3. intact' \in [Call -> BOOLEAN]
    BY <1>13a DEF ReadAll, TypeInv, TypeOK
  <2> QED BY <1>13a, <2>1, <2>2, <2>3 DEF ReadAll, TypeInv, TypeOK
<1>14. ASSUME NEW k \in Call, LoadAll(k) PROVE TypeOK'
  <2>1. /\ lconf' \in [Conn -> Content \ {Blank}]
        /\ lsec' \in [Conn -> Content \ {Blank}]
    BY <1>14, LoadTypes DEF LoadAll, TypeInv, TypeOK
  <2>2. pc' \in [Call -> Waiting \cup Working \cup Finished]
    BY <1>14 DEF LoadAll, Goto, Finished, TypeInv, TypeOK
  <2> QED BY <1>14, <2>1, <2>2, LoadTypes DEF LoadAll, TypeInv, TypeOK
<1>15. ASSUME NEW k \in Call, RmConf(k) PROVE TypeOK'
  <2>1. conf' = conf \/ conf' = [conf EXCEPT ![ConnOf(k)] = Absent]
    BY <1>15 DEF RmConf
  <2>2. conf' \in [Conn -> Content] /\ held' \in [Call -> BOOLEAN]
    BY <1>15, <2>1 DEF RmConf, Content, HeldAfterUnlink, TypeInv, TypeOK
  <2>3. err' \in [Call -> SUBSET Nat]
    <3>1. err' = err \/ err' = [err EXCEPT ![k] = @ \cup {TheConf}]
      BY <1>15 DEF RmConf
    <3>2. {TheConf} \in SUBSET Nat /\ err \in [Call -> SUBSET Nat]
      BY DEF TheConf, TypeInv, TypeOK
    <3> QED BY <3>1, <3>2
  <2> QED BY <1>15, <2>2, <2>3 DEF RmConf, Goto, Working, TypeInv, TypeOK
<1>16. ASSUME NEW k \in Call, RmSec(k) PROVE TypeOK'
  <2>1. sec' = sec \/ sec' = [sec EXCEPT ![ConnOf(k)] = Absent]
    BY <1>16 DEF RmSec
  <2>2. sec' \in [Conn -> Content] /\ held' \in [Call -> BOOLEAN]
    BY <1>16, <2>1 DEF RmSec, Content, HeldAfterUnlink, TypeInv, TypeOK
  <2>3. err' \in [Call -> SUBSET Nat]
    <3>1. err' = err \/ err' = [err EXCEPT ![k] = @ \cup {TheSec}]
      BY <1>16 DEF RmSec
    <3>2. {TheSec} \in SUBSET Nat /\ err \in [Call -> SUBSET Nat]
      BY DEF TheSec, TypeInv, TypeOK
    <3> QED BY <3>1, <3>2
  <2> QED BY <1>16, <2>2, <2>3 DEF RmSec, Goto, Working, TypeInv, TypeOK
<1>17. ASSUME NEW k \in Call, Start(k) PROVE TypeOK'
  BY <1>17, LoadTypes
  DEF Start, EnsureRunning, TypeOK, Goto, Working, Finished, TypeInv
<1>17a. ASSUME NEW k \in Call, ConnectStarted(k) PROVE TypeOK'
  BY <1>17a, LoadTypes
  DEF ConnectStarted, Started, TypeOK, Goto, Working, TypeInv
<1>18. ASSUME NEW k \in Call, Peek(k) PROVE TypeOK'
  BY <1>18 DEF Peek, TypeOK, Goto, ConnOf, Waiting, Working, Finished, TypeInv
<1>19. ASSUME NEW k \in Call, List(k) PROVE TypeOK'
  <2>1. conf[ConnOf(k)] \in Content
    BY <1>19, DaemonAssumption DEF List, TypeInv, TypeOK, Placed, ConnOf
  <2>2. total' \in [Call -> Nat]
    BY <1>19, <2>1, ChildCountsType DEF List, TypeInv, TypeOK
  <2> QED
    BY <1>19, <2>2 DEF List, TypeInv, TypeOK, Goto, Working
<1>20. ASSUME NEW k \in Call, Initiate(k) PROVE TypeOK'
  <2>1. at[k] \in Nat
    BY DEF TypeInv, TypeOK
  <2>2. /\ at' \in [Call -> Nat] /\ err' \in [Call -> SUBSET Nat]
        /\ pc' \in [Call -> Waiting \cup Working \cup Finished]
    <3>1. CASE Advance(k, {at[k]})
      BY <3>1, <2>1, AdvanceType
    <3>2. CASE Goto(k, "initiating") /\ UNCHANGED <<at, err>>
      BY <3>2 DEF Goto, TypeInv, TypeOK, Working
    <3> QED BY <1>20, <3>1, <3>2 DEF Initiate
  <2>3. /\ ike' \in [Conn -> {"none", "CONNECTING", "ESTABLISHED"}]
        /\ held' \in [Call -> BOOLEAN]
    BY <1>20 DEF Initiate, TypeInv, TypeOK
  <2> QED
    BY <1>20, <2>2, <2>3 DEF Initiate, TypeInv, TypeOK
<1>21. ASSUME NEW k \in Call, Initiated(k) PROVE TypeOK'
  <2>1. at[k] \in Nat
    BY DEF TypeInv, TypeOK
  <2>2. /\ at' \in [Call -> Nat] /\ err' \in [Call -> SUBSET Nat]
        /\ pc' \in [Call -> Waiting \cup Working \cup Finished]
    <3>1. Advance(k, {at[k]}) \/ Advance(k, {})
      BY <1>21 DEF Initiated
    <3> QED BY <2>1, <3>1, AdvanceType
  <2>3. /\ ike' \in [Conn -> {"none", "CONNECTING", "ESTABLISHED"}]
    BY <1>21 DEF Initiated, TypeInv, TypeOK
  <2>5. child' \in [Conn -> SUBSET Nat]
    <3>1. \/ child' = child
          \/ child' = [child EXCEPT ![ConnOf(k)] = @ \cup {at[k]}]
      BY <1>21 DEF Initiated
    <3>2. {at[k]} \in SUBSET Nat /\ child \in [Conn -> SUBSET Nat]
      BY <2>1 DEF TypeInv, TypeOK
    <3> QED BY <3>1, <3>2
  <2>4. held' \in [Call -> BOOLEAN] /\ presented' \in [Call -> Nat]
    <3>1. held' = held \/ held' = HeldAfterLoss(ConnOf(k))
      BY <1>21 DEF Initiated
    <3>2. \/ presented' = presented
          \/ \E n \in 1 .. MaxPrompts : presented' = [presented EXCEPT ![k] = @ + n]
      BY <1>21 DEF Initiated
    <3>3. held' \in [Call -> BOOLEAN]
      BY <3>1 DEF TypeInv, TypeOK, HeldAfterLoss
    <3>4. presented' \in [Call -> Nat]
      <4>1. presented \in [Call -> Nat] /\ 1 .. MaxPrompts \subseteq Nat
        BY DaemonAssumption DEF TypeInv, TypeOK
      <4> QED BY <3>2, <4>1
    <3> QED BY <3>3, <3>4
  <2>6. UNCHANGED <<files, charonUp, loaded, ask, seen, total, hist>>
    BY <1>21 DEF Initiated
  <2> QED
    BY <2>2, <2>3, <2>4, <2>5, <2>6 DEF TypeInv, TypeOK
<1>22. ASSUME NEW k \in Call, Terminate(k) PROVE TypeOK'
  BY <1>22
  DEF Terminate, HeldAfterLoss, TypeOK, Goto, ConnOf, Waiting, Working,
      Finished, TypeInv
<1>23. ASSUME NEW k \in Call, ListSas(k) PROVE TypeOK'
  BY <1>23
  DEF ListSas, TypeOK, Goto, ConnOf, Waiting, Working, Finished, TypeInv
<1>24. ASSUME NEW c \in Conn, ChildLost(c) PROVE TypeOK'
  BY <1>24
  DEF ChildLost, TypeOK, Goto, ConnOf, Waiting, Working, Finished, TypeInv
<1>25. ASSUME NEW c \in Conn, IkeLost(c) PROVE TypeOK'
  BY <1>25
  DEF IkeLost, HeldAfterLoss, TypeOK, Goto, ConnOf, Waiting, Working, Finished,
      TypeInv
<1>26. ASSUME NEW c \in Conn, CharonSettles(c) PROVE TypeOK'
  <2>1. child' = child \/ \E i \in 1 .. MaxNets : child' = [child EXCEPT ![c] = {i}]
    BY <1>26 DEF CharonSettles
  <2>2. child' \in [Conn -> SUBSET Nat]
    <3>1. \A i \in 1 .. MaxNets : {i} \in SUBSET Nat
      BY DaemonAssumption
    <3>2. child \in [Conn -> SUBSET Nat]
      BY DEF TypeInv, TypeOK
    <3> QED BY <2>1, <3>1, <3>2
  <2> QED BY <1>26, <2>2 DEF CharonSettles, TypeInv, TypeOK
<1>27. ASSUME Kill PROVE TypeOK'
  <2>1. /\ lconf' \in [Conn -> Content \ {Blank}]
        /\ lsec' \in [Conn -> Content \ {Blank}]
    BY <1>27, LoadTypes DEF Kill, TypeInv, TypeOK
  <2>2. /\ rconf' \in [Call -> [Conn -> Content \ {Blank}]]
        /\ rsec' \in [Call -> [Conn -> Content \ {Blank}]]
    BY <1>27, NothingType DEF Kill
  <2>3. /\ pc' \in [Call -> Waiting \cup Working \cup Finished]
        /\ cut' \in BOOLEAN
    BY <1>27 DEF Kill, Finished, TypeInv, TypeOK
  <2> QED BY <1>27, <2>1, <2>2, <2>3 DEF Kill, TypeInv, TypeOK
<1>28. ASSUME CharonStop PROVE TypeOK'
  BY <1>28, NothingType
  DEF CharonStop, Cross, TypeOK, Goto, ConnOf, Waiting, Working, Finished,
      TypeInv
<1> QED
  BY NextCases, <1>0, <1>1, <1>2, <1>3, <1>4, <1>5, <1>6, <1>7, <1>8, <1>9,
     <1>9a, <1>10, <1>11, <1>12, <1>13, <1>13a, <1>14, <1>15, <1>16, <1>17,
     <1>17a, <1>18, <1>19, <1>20, <1>21, <1>22, <1>23, <1>24, <1>25, <1>26,
     <1>27, <1>28

LEMMA PlacedStep ==
  ASSUME TypeInv, [Next]_vars, NEW j \in Call
  PROVE  Placed(j)'
<1>0. CASE UNCHANGED vars
  BY <1>0
  DEF vars, TypeOK, Placed, MayBeAt, Op, ConnOf, Working, Finished, TypeInv
<1>1. ASSUME NEW k \in Call, NEW r \in Requests, Request(k, r) PROVE Placed(j)'
  BY <1>1, FirstStepOwn, DaemonAssumption
  DEF Request, Entry, TypeOK, Placed, MayBeAt, Goto, Op, ConnOf, Working,
      Finished, TypeInv
<1>2. ASSUME NEW k \in Call, Admit(k) PROVE Placed(j)'
  BY <1>2, FirstStepOwn
  DEF Admit, TypeOK, Placed, MayBeAt, Goto, Op, ConnOf, Working, Finished,
      TypeInv
<1>3. ASSUME NEW k \in Call, Deny(k) PROVE Placed(j)'
  BY <1>3
  DEF Deny, TypeOK, Placed, MayBeAt, Goto, Op, ConnOf, Working, Finished,
      TypeInv
<1>4. ASSUME NEW k \in Call, IOError(k) PROVE Placed(j)'
  BY <1>4
  DEF IOError, TypeOK, Placed, MayBeAt, Goto, Op, ConnOf, Working, Finished,
      TypeInv
<1>5. ASSUME NEW k \in Call, ReadMain(k) PROVE Placed(j)'
  BY <1>5
  DEF ReadMain, AfterMain, TypeOK, Placed, MayBeAt, Goto, Op, ConnOf, Working,
      Finished, TypeInv
<1>6. ASSUME NEW k \in Call, TruncMain(k) PROVE Placed(j)'
  BY <1>6
  DEF TruncMain, TypeOK, Placed, MayBeAt, Goto, Op, ConnOf, Working, Finished,
      TypeInv
<1>7. ASSUME NEW k \in Call, WriteMain(k) PROVE Placed(j)'
  BY <1>7
  DEF WriteMain, AfterMain, TypeOK, Placed, MayBeAt, Goto, Op, ConnOf, Working,
      Finished, TypeInv
<1>8. ASSUME NEW k \in Call, CheckIke(k) PROVE Placed(j)'
  BY <1>8
  DEF CheckIke, TypeOK, Placed, MayBeAt, Goto, Op, ConnOf, Working, Finished,
      TypeInv
<1>9. ASSUME NEW k \in Call, EnsureXauth(k) PROVE Placed(j)'
  BY <1>9
  DEF EnsureXauth, EnsureRunning, ReadFiles, IkeChecked, TypeOK, Placed,
      MayBeAt, Goto, Op, ConnOf, Working, Finished, TypeInv
<1>9a. ASSUME NEW k \in Call, XauthStarted(k) PROVE Placed(j)'
  BY <1>9a
  DEF XauthStarted, Started, IkeChecked, TypeOK, Placed,
      MayBeAt, Goto, Op, ConnOf, Working, Finished, TypeInv
<1>10. ASSUME NEW k \in Call, TruncConf(k) PROVE Placed(j)'
  BY <1>10
  DEF TruncConf, TypeOK, Placed, MayBeAt, Goto, Op, ConnOf, Working, Finished,
      TypeInv
<1>11. ASSUME NEW k \in Call, WriteConf(k) PROVE Placed(j)'
  BY <1>11
  DEF WriteConf, TypeOK, Placed, MayBeAt, Goto, Op, ConnOf, Working, Finished,
      TypeInv
<1>12. ASSUME NEW k \in Call, TruncSec(k) PROVE Placed(j)'
  BY <1>12
  DEF TruncSec, TypeOK, Placed, MayBeAt, Goto, Op, ConnOf, Working, Finished,
      TypeInv
<1>13. ASSUME NEW k \in Call, WriteSec(k) PROVE Placed(j)'
  BY <1>13
  DEF WriteSec, Writers, TypeOK, Placed, MayBeAt, Goto, Op, ConnOf, Working,
      Finished, TypeInv
<1>13a. ASSUME NEW k \in Call, ReadAll(k) PROVE Placed(j)'
  BY <1>13a
  DEF ReadAll, Writers, TypeOK, Placed, MayBeAt, Goto, Op, ConnOf, Working,
      Finished, TypeInv
<1>14. ASSUME NEW k \in Call, LoadAll(k) PROVE Placed(j)'
  BY <1>14
  DEF LoadAll, Writers, TypeOK, Placed, MayBeAt, Goto, Op, ConnOf, Working,
      Finished, TypeInv
<1>15. ASSUME NEW k \in Call, RmConf(k) PROVE Placed(j)'
  BY <1>15
  DEF RmConf, TypeOK, Placed, MayBeAt, Goto, Op, ConnOf, Working, Finished,
      TypeInv
<1>16. ASSUME NEW k \in Call, RmSec(k) PROVE Placed(j)'
  BY <1>16
  DEF RmSec, Writers, TypeOK, Placed, MayBeAt, Goto, Op, ConnOf, Working,
      Finished, TypeInv
<1>17. ASSUME NEW k \in Call, Start(k) PROVE Placed(j)'
  BY <1>17
  DEF Start, EnsureRunning, ReadFiles, TypeOK, Placed, MayBeAt, Goto, Op,
      ConnOf, Working, Finished, TypeInv
<1>17a. ASSUME NEW k \in Call, ConnectStarted(k) PROVE Placed(j)'
  BY <1>17a
  DEF ConnectStarted, Started, TypeOK, Placed, MayBeAt, Goto, Op,
      ConnOf, Working, Finished, TypeInv
<1>18. ASSUME NEW k \in Call, Peek(k) PROVE Placed(j)'
  BY <1>18
  DEF Peek, TypeOK, Placed, MayBeAt, Goto, Op, ConnOf, Working, Finished,
      TypeInv
<1>19. ASSUME NEW k \in Call, List(k) PROVE Placed(j)'
  BY <1>19
  DEF List, TypeOK, Placed, MayBeAt, Goto, Op, ConnOf, Working, Finished,
      TypeInv
<1>20. ASSUME NEW k \in Call, Initiate(k) PROVE Placed(j)'
  <2>1. pc'[j] # pc[j] =>
          j = k /\ pc'[j] \in {"initiating", "initiate", "ok", "failed"}
    BY <1>20 DEF Initiate, Advance, Goto, TypeInv, TypeOK
  <2>2. UNCHANGED <<req, allowed>> /\ pc[k] = "initiate"
    BY <1>20 DEF Initiate
  <2> QED
    BY <2>1, <2>2 DEF TypeInv, Placed, MayBeAt, Op, ConnOf, Working
<1>21. ASSUME NEW k \in Call, Initiated(k) PROVE Placed(j)'
  BY <1>21
  DEF Initiated, Advance, TypeOK, Placed, MayBeAt, Goto, Op, ConnOf, Working,
      Finished, TypeInv
<1>22. ASSUME NEW k \in Call, Terminate(k) PROVE Placed(j)'
  BY <1>22
  DEF Terminate, TypeOK, Placed, MayBeAt, Goto, Op, ConnOf, Working, Finished,
      TypeInv
<1>23. ASSUME NEW k \in Call, ListSas(k) PROVE Placed(j)'
  BY <1>23
  DEF ListSas, TypeOK, Placed, MayBeAt, Goto, Op, ConnOf, Working, Finished,
      TypeInv
<1>24. ASSUME NEW c \in Conn, ChildLost(c) PROVE Placed(j)'
  BY <1>24
  DEF ChildLost, TypeOK, Placed, MayBeAt, Op, ConnOf, Working, Finished,
      TypeInv
<1>25. ASSUME NEW c \in Conn, IkeLost(c) PROVE Placed(j)'
  BY <1>25
  DEF IkeLost, TypeOK, Placed, MayBeAt, Op, ConnOf, Working, Finished, TypeInv
<1>26. ASSUME NEW c \in Conn, CharonSettles(c) PROVE Placed(j)'
  BY <1>26
  DEF CharonSettles, TypeOK, Placed, MayBeAt, Op, ConnOf, Working, Finished,
      TypeInv
<1>27. ASSUME Kill PROVE Placed(j)'
  BY <1>27
  DEF Kill, Active, TypeOK, Placed, MayBeAt, Op, ConnOf, Working, Finished,
      TypeInv
<1>28. ASSUME CharonStop PROVE Placed(j)'
  BY <1>28
  DEF CharonStop, TypeOK, Placed, MayBeAt, Op, ConnOf, Working, Finished,
      TypeInv
<1> QED
  BY NextCases, <1>0, <1>1, <1>2, <1>3, <1>4, <1>5, <1>6, <1>7, <1>8, <1>9,
     <1>9a, <1>10, <1>11, <1>12, <1>13, <1>13a, <1>14, <1>15, <1>16, <1>17,
     <1>17a, <1>18, <1>19, <1>20, <1>21, <1>22, <1>23, <1>24, <1>25, <1>26,
     <1>27, <1>28

\* Types are right and calls stay within their methods, in every state.
LEMMA TypeAlways == Spec => []TypeInv
<1>1. TypeInv /\ [Next]_vars => TypeInv'
  BY TypeOKStep, PlacedStep DEF TypeInv
<1> QED
  BY TypeInit, <1>1, PTL DEF Spec

\* Every variable of the daemon stays in its type.
THEOREM TypeCorrect == Spec => []TypeOK
<1>1. TypeInv => TypeOK
  BY DEF TypeInv
<1> QED
  BY TypeAlways, <1>1, PTL

-----------------------------------------------------------------------------
(* The administrator's swanctl.conf.                                        *)

\* A call about to rewrite the file has read the administrator's text.
HasRead(k) == pc[k] \in {"truncMain", "writeMain"} => "admin" \in seen[k] \/ cut

AdminInv == AdminTextKept /\ \A k \in Call : HasRead(k)

LEMMA AdminStep ==
  ASSUME TypeInv, AdminInv, [Next]_vars
  PROVE  AdminInv'
<1>0. CASE UNCHANGED vars
  BY <1>0
  DEF vars, TypeInv, TypeOK, AdminInv, AdminTextKept, HasRead, MidRewrite
<1>1. ASSUME NEW k \in Call, NEW r \in Requests, Request(k, r) PROVE AdminInv'
  BY <1>1, DaemonAssumption
  DEF Request, Entry, FirstStep, TypeInv, TypeOK, AdminInv, AdminTextKept,
      HasRead, MidRewrite, Goto
<1>2. ASSUME NEW k \in Call, Admit(k) PROVE AdminInv'
  <2>1. req[k] \in Requests
    BY <1>2 DEF Admit, TypeInv, Placed
  <2>2. FirstStep(req[k]) \notin {"truncMain", "writeMain"}
    BY <2>1, DaemonAssumption DEF FirstStep, Methods
  <2> QED
    BY <1>2, <2>2
    DEF Admit, TypeInv, TypeOK, AdminInv, AdminTextKept, HasRead, MidRewrite,
        Goto
<1>3. ASSUME NEW k \in Call, Deny(k) PROVE AdminInv'
  BY <1>3
  DEF Deny, TypeInv, TypeOK, AdminInv, AdminTextKept, HasRead, MidRewrite, Goto
<1>4. ASSUME NEW k \in Call, IOError(k) PROVE AdminInv'
  BY <1>4
  DEF IOError, TypeInv, TypeOK, AdminInv, AdminTextKept, HasRead, MidRewrite,
      Goto
<1>5. ASSUME NEW k \in Call, ReadMain(k) PROVE AdminInv'
  BY <1>5
  DEF ReadMain, AfterMain, TypeInv, TypeOK, AdminInv, AdminTextKept, HasRead,
      MidRewrite, Goto
<1>6. ASSUME NEW k \in Call, TruncMain(k) PROVE AdminInv'
  BY <1>6
  DEF TruncMain, TypeInv, TypeOK, AdminInv, AdminTextKept, HasRead, MidRewrite,
      Goto
<1>7. ASSUME NEW k \in Call, WriteMain(k) PROVE AdminInv'
  BY <1>7
  DEF WriteMain, AfterMain, TypeInv, TypeOK, AdminInv, AdminTextKept, HasRead,
      MidRewrite, Goto
<1>8. ASSUME NEW k \in Call, CheckIke(k) PROVE AdminInv'
  BY <1>8
  DEF CheckIke, TypeInv, TypeOK, AdminInv, AdminTextKept, HasRead, MidRewrite,
      Goto
<1>9. ASSUME NEW k \in Call, EnsureXauth(k) PROVE AdminInv'
  BY <1>9
  DEF EnsureXauth, EnsureRunning, ReadFiles, IkeChecked, TypeInv, TypeOK,
      AdminInv, AdminTextKept, HasRead, MidRewrite, Goto
<1>9a. ASSUME NEW k \in Call, XauthStarted(k) PROVE AdminInv'
  BY <1>9a
  DEF XauthStarted, Started, IkeChecked, TypeInv, TypeOK,
      AdminInv, AdminTextKept, HasRead, MidRewrite, Goto
<1>10. ASSUME NEW k \in Call, TruncConf(k) PROVE AdminInv'
  BY <1>10
  DEF TruncConf, TypeInv, TypeOK, AdminInv, AdminTextKept, HasRead, MidRewrite,
      Goto
<1>11. ASSUME NEW k \in Call, WriteConf(k) PROVE AdminInv'
  BY <1>11
  DEF WriteConf, TypeInv, TypeOK, AdminInv, AdminTextKept, HasRead, MidRewrite,
      Goto
<1>12. ASSUME NEW k \in Call, TruncSec(k) PROVE AdminInv'
  BY <1>12
  DEF TruncSec, TypeInv, TypeOK, AdminInv, AdminTextKept, HasRead, MidRewrite,
      Goto
<1>13. ASSUME NEW k \in Call, WriteSec(k) PROVE AdminInv'
  BY <1>13
  DEF WriteSec, TypeInv, TypeOK, AdminInv, AdminTextKept, HasRead, MidRewrite,
      Goto
<1>13a. ASSUME NEW k \in Call, ReadAll(k) PROVE AdminInv'
  BY <1>13a
  DEF ReadAll, TypeInv, TypeOK, AdminInv, AdminTextKept, HasRead, MidRewrite,
      Goto
<1>14. ASSUME NEW k \in Call, LoadAll(k) PROVE AdminInv'
  BY <1>14
  DEF LoadAll, TypeInv, TypeOK, AdminInv, AdminTextKept, HasRead, MidRewrite,
      Goto
<1>15. ASSUME NEW k \in Call, RmConf(k) PROVE AdminInv'
  BY <1>15
  DEF RmConf, TypeInv, TypeOK, AdminInv, AdminTextKept, HasRead, MidRewrite,
      Goto
<1>16. ASSUME NEW k \in Call, RmSec(k) PROVE AdminInv'
  BY <1>16
  DEF RmSec, TypeInv, TypeOK, AdminInv, AdminTextKept, HasRead, MidRewrite,
      Goto
<1>17. ASSUME NEW k \in Call, Start(k) PROVE AdminInv'
  BY <1>17
  DEF Start, EnsureRunning, ReadFiles, TypeInv, TypeOK, AdminInv,
      AdminTextKept, HasRead, MidRewrite, Goto
<1>17a. ASSUME NEW k \in Call, ConnectStarted(k) PROVE AdminInv'
  BY <1>17a
  DEF ConnectStarted, Started, TypeInv, TypeOK, AdminInv,
      AdminTextKept, HasRead, MidRewrite, Goto
<1>18. ASSUME NEW k \in Call, Peek(k) PROVE AdminInv'
  BY <1>18
  DEF Peek, TypeInv, TypeOK, AdminInv, AdminTextKept, HasRead, MidRewrite, Goto
<1>19. ASSUME NEW k \in Call, List(k) PROVE AdminInv'
  BY <1>19
  DEF List, TypeInv, TypeOK, AdminInv, AdminTextKept, HasRead, MidRewrite, Goto
<1>20. ASSUME NEW k \in Call, Initiate(k) PROVE AdminInv'
  BY <1>20
  DEF Initiate, Advance, TypeInv, TypeOK, AdminInv, AdminTextKept, HasRead,
      MidRewrite, Goto
<1>21. ASSUME NEW k \in Call, Initiated(k) PROVE AdminInv'
  BY <1>21
  DEF Initiated, Advance, TypeInv, TypeOK, AdminInv, AdminTextKept, HasRead,
      MidRewrite, Goto
<1>22. ASSUME NEW k \in Call, Terminate(k) PROVE AdminInv'
  BY <1>22
  DEF Terminate, TypeInv, TypeOK, AdminInv, AdminTextKept, HasRead, MidRewrite,
      Goto
<1>23. ASSUME NEW k \in Call, ListSas(k) PROVE AdminInv'
  BY <1>23
  DEF ListSas, TypeInv, TypeOK, AdminInv, AdminTextKept, HasRead, MidRewrite,
      Goto
<1>24. ASSUME NEW c \in Conn, ChildLost(c) PROVE AdminInv'
  BY <1>24
  DEF ChildLost, TypeInv, TypeOK, AdminInv, AdminTextKept, HasRead, MidRewrite
<1>25. ASSUME NEW c \in Conn, IkeLost(c) PROVE AdminInv'
  BY <1>25
  DEF IkeLost, TypeInv, TypeOK, AdminInv, AdminTextKept, HasRead, MidRewrite
<1>26. ASSUME NEW c \in Conn, CharonSettles(c) PROVE AdminInv'
  BY <1>26
  DEF CharonSettles, TypeInv, TypeOK, AdminInv, AdminTextKept, HasRead,
      MidRewrite
<1>27. ASSUME Kill PROVE AdminInv'
  BY <1>27
  DEF Kill, Active, TypeInv, TypeOK, AdminInv, AdminTextKept, HasRead,
      MidRewrite
<1>28. ASSUME CharonStop PROVE AdminInv'
  BY <1>28
  DEF CharonStop, TypeInv, TypeOK, AdminInv, AdminTextKept, HasRead, MidRewrite
<1> QED
  BY NextCases, <1>0, <1>1, <1>2, <1>3, <1>4, <1>5, <1>6, <1>7, <1>8, <1>9,
     <1>9a, <1>10, <1>11, <1>12, <1>13, <1>13a, <1>14, <1>15, <1>16, <1>17,
     <1>17a, <1>18, <1>19, <1>20, <1>21, <1>22, <1>23, <1>24, <1>25, <1>26,
     <1>27, <1>28

\* ensureConfDIncluded never loses the administrator's text, however many
\* Applies overlap and whatever fails, but for a write cut short or read
\* halfway.
THEOREM AdminTextSafe == Spec => []AdminTextKept
<1>1. Init => AdminInv
  BY DEF Init, AdminInv, AdminTextKept, HasRead
<1>2. TypeInv /\ AdminInv /\ [Next]_vars => AdminInv'
  BY AdminStep
<1>3. AdminInv => AdminTextKept
  BY DEF AdminInv
<1> QED
  BY TypeAlways, <1>1, <1>2, <1>3, PTL DEF Spec

-----------------------------------------------------------------------------
(* Calls that nothing disturbs.                                             *)

\* No other call in progress can get in the way of an undisturbed one.
Solo(k) == Undisturbed(k) =>
  \A j \in Call \ {k} : Active(j) => ~Conflict(req[j], req[k])

SoloInv == \A k \in Call : Solo(k)

LEMMA ConflictSym ==
  ASSUME NEW r, NEW s
  PROVE  Conflict(r, s) <=> Conflict(s, r)
BY DEF Conflict

\* A step that is not a request ends calls and disturbs them, never the
\* opposite.
OnlyEnds ==
  /\ req' = req
  /\ \A k \in Call : /\ Undisturbed(k)' => Undisturbed(k)
                     /\ intact[k]' => intact[k]
                     /\ Active(k)' => Active(k)

LEMMA OnlyEndsStep ==
  ASSUME TypeInv, [Next]_vars
  PROVE  \/ OnlyEnds
         \/ \E k \in Call, r \in Requests : Request(k, r)
<1>0. CASE UNCHANGED vars
  BY <1>0 DEF vars, TypeInv, TypeOK, OnlyEnds, Undisturbed, Active, Finished
<1>1. ASSUME NEW k \in Call, Admit(k) PROVE OnlyEnds
  BY <1>1
  DEF Admit, TypeInv, TypeOK, OnlyEnds, Undisturbed, Active, Goto, Finished
<1>2. ASSUME NEW k \in Call, Deny(k) PROVE OnlyEnds
  BY <1>2
  DEF Deny, TypeInv, TypeOK, OnlyEnds, Undisturbed, Active, Goto, Finished
<1>3. ASSUME NEW k \in Call, IOError(k) PROVE OnlyEnds
  BY <1>3
  DEF IOError, TypeInv, TypeOK, OnlyEnds, Undisturbed, Active, Goto, Finished
<1>4. ASSUME NEW k \in Call, ReadMain(k) PROVE OnlyEnds
  BY <1>4
  DEF ReadMain, TypeInv, TypeOK, OnlyEnds, Undisturbed, Active, Goto, Finished
<1>5. ASSUME NEW k \in Call, TruncMain(k) PROVE OnlyEnds
  BY <1>5
  DEF TruncMain, Cross, TypeInv, TypeOK, OnlyEnds, Undisturbed, Active, Goto,
      Finished
<1>6. ASSUME NEW k \in Call, WriteMain(k) PROVE OnlyEnds
  BY <1>6
  DEF WriteMain, TypeInv, TypeOK, OnlyEnds, Undisturbed, Active, Goto, Finished
<1>7. ASSUME NEW k \in Call, CheckIke(k) PROVE OnlyEnds
  BY <1>7
  DEF CheckIke, TypeInv, TypeOK, OnlyEnds, Undisturbed, Active, Goto, Finished
<1>8. ASSUME NEW k \in Call, EnsureXauth(k) PROVE OnlyEnds
  BY <1>8
  DEF EnsureXauth, EnsureRunning, TypeInv, TypeOK, OnlyEnds, Undisturbed,
      Active, Goto, Finished
<1>8a. ASSUME NEW k \in Call, XauthStarted(k) PROVE OnlyEnds
  BY <1>8a
  DEF XauthStarted, Started, TypeInv, TypeOK, OnlyEnds, Undisturbed,
      Active, Goto, Finished
<1>9. ASSUME NEW k \in Call, TruncConf(k) PROVE OnlyEnds
  BY <1>9
  DEF TruncConf, TypeInv, TypeOK, OnlyEnds, Undisturbed, Active, Goto, Finished
<1>10. ASSUME NEW k \in Call, WriteConf(k) PROVE OnlyEnds
  BY <1>10
  DEF WriteConf, TypeInv, TypeOK, OnlyEnds, Undisturbed, Active, Goto, Finished
<1>11. ASSUME NEW k \in Call, TruncSec(k) PROVE OnlyEnds
  BY <1>11
  DEF TruncSec, TypeInv, TypeOK, OnlyEnds, Undisturbed, Active, Goto, Finished
<1>12. ASSUME NEW k \in Call, WriteSec(k) PROVE OnlyEnds
  BY <1>12
  DEF WriteSec, TypeInv, TypeOK, OnlyEnds, Undisturbed, Active, Goto, Finished
<1>12a. ASSUME NEW k \in Call, ReadAll(k) PROVE OnlyEnds
  BY <1>12a
  DEF ReadAll, TypeInv, TypeOK, OnlyEnds, Undisturbed, Active, Goto, Finished
<1>13. ASSUME NEW k \in Call, LoadAll(k) PROVE OnlyEnds
  BY <1>13
  DEF LoadAll, TypeInv, TypeOK, OnlyEnds, Undisturbed, Active, Goto, Finished
<1>14. ASSUME NEW k \in Call, RmConf(k) PROVE OnlyEnds
  BY <1>14
  DEF RmConf, TypeInv, TypeOK, OnlyEnds, Undisturbed, Active, Goto, Finished
<1>15. ASSUME NEW k \in Call, RmSec(k) PROVE OnlyEnds
  BY <1>15
  DEF RmSec, TypeInv, TypeOK, OnlyEnds, Undisturbed, Active, Goto, Finished
<1>16. ASSUME NEW k \in Call, Start(k) PROVE OnlyEnds
  BY <1>16
  DEF Start, EnsureRunning, TypeInv, TypeOK, OnlyEnds, Undisturbed, Active,
      Goto, Finished
<1>16a. ASSUME NEW k \in Call, ConnectStarted(k) PROVE OnlyEnds
  BY <1>16a
  DEF ConnectStarted, Started, TypeInv, TypeOK, OnlyEnds, Undisturbed, Active,
      Goto, Finished
<1>17. ASSUME NEW k \in Call, Peek(k) PROVE OnlyEnds
  BY <1>17
  DEF Peek, TypeInv, TypeOK, OnlyEnds, Undisturbed, Active, Goto, Finished
<1>18. ASSUME NEW k \in Call, List(k) PROVE OnlyEnds
  BY <1>18
  DEF List, TypeInv, TypeOK, OnlyEnds, Undisturbed, Active, Goto, Finished
<1>19. ASSUME NEW k \in Call, Initiate(k) PROVE OnlyEnds
  BY <1>19
  DEF Initiate, Advance, TypeInv, TypeOK, OnlyEnds, Undisturbed, Active, Goto,
      Finished
<1>20. ASSUME NEW k \in Call, Initiated(k) PROVE OnlyEnds
  BY <1>20
  DEF Initiated, Advance, TypeInv, TypeOK, OnlyEnds, Undisturbed, Active, Goto,
      Finished
<1>21. ASSUME NEW k \in Call, Terminate(k) PROVE OnlyEnds
  BY <1>21
  DEF Terminate, TypeInv, TypeOK, OnlyEnds, Undisturbed, Active, Goto, Finished
<1>22. ASSUME NEW k \in Call, ListSas(k) PROVE OnlyEnds
  BY <1>22
  DEF ListSas, TypeInv, TypeOK, OnlyEnds, Undisturbed, Active, Goto, Finished
<1>23. ASSUME NEW c \in Conn, ChildLost(c) PROVE OnlyEnds
  BY <1>23
  DEF ChildLost, TypeInv, TypeOK, OnlyEnds, Undisturbed, Active, Finished
<1>24. ASSUME NEW c \in Conn, IkeLost(c) PROVE OnlyEnds
  BY <1>24
  DEF IkeLost, TypeInv, TypeOK, OnlyEnds, Undisturbed, Active, Finished
<1>25. ASSUME NEW c \in Conn, CharonSettles(c) PROVE OnlyEnds
  BY <1>25
  DEF CharonSettles, TypeInv, TypeOK, OnlyEnds, Undisturbed, Active, Finished
<1>26. ASSUME Kill PROVE OnlyEnds
  BY <1>26 DEF Kill, TypeInv, TypeOK, OnlyEnds, Undisturbed, Active, Finished
<1>27. ASSUME CharonStop PROVE OnlyEnds
  BY <1>27
  DEF CharonStop, Cross, TypeInv, TypeOK, OnlyEnds, Undisturbed, Active,
      Finished
<1> QED
  BY NextCases, <1>0, <1>1, <1>2, <1>3, <1>4, <1>5, <1>6, <1>7, <1>8, <1>8a,
     <1>9, <1>10, <1>11, <1>12, <1>12a, <1>13, <1>14, <1>15, <1>16, <1>16a,
     <1>17, <1>18, <1>19, <1>20, <1>21, <1>22, <1>23, <1>24, <1>25, <1>26,
     <1>27

LEMMA SoloStep ==
  ASSUME TypeInv, SoloInv, [Next]_vars
  PROVE  SoloInv'
<1>1. CASE OnlyEnds
  BY <1>1 DEF OnlyEnds, SoloInv, Solo
<1>2. ASSUME NEW k \in Call, NEW r \in Requests, Request(k, r) PROVE SoloInv'
  <2>1. ASSUME NEW j \in Call PROVE Solo(j)'
    <3>1. CASE j = k
      BY <1>2, <3>1, ConflictSym
      DEF Request, Solo, Undisturbed, Active, Goto, TypeInv, TypeOK
    <3>2. CASE j # k
      BY <1>2, <3>2, ConflictSym
      DEF Request, SoloInv, Solo, Undisturbed, Active, Goto, TypeInv, TypeOK
    <3> QED BY <3>1, <3>2
  <2> QED BY <2>1 DEF SoloInv
<1> QED BY OnlyEndsStep, <1>1, <1>2

\* What the steps of others leave alone while an undisturbed writer stays
\* where it is: its files, the file it has open, its failures to unlink.
OthersKeep(k) ==
  LET c == ConnOf(k) IN
  /\ conf'[c] = conf[c] /\ sec'[c] = sec[c]
  /\ pc[k] \in {"writeConf", "writeSec"} => held'[k] = held[k]
  /\ err'[k] = err[k]

LEMMA OthersStep ==
  ASSUME TypeInv, NEW k \in Call, Solo(k), Op(k) \in Writers, req[k] \in Requests,
         ConnOf(k) \in Conn, pc[k] # "idle", pc'[k] = pc[k], Undisturbed(k)',
         Undisturbed(k), [Next]_vars
  PROVE  OthersKeep(k)
<1>0. CASE UNCHANGED vars
  BY <1>0
  DEF vars, TypeInv, TypeOK, OthersKeep, Solo, Conflict, Writers, Undisturbed,
      Active, Placed, MayBeAt, Op, ConnOf, Finished
<1>1. ASSUME NEW i \in Call, NEW r \in Requests, Request(i, r) PROVE OthersKeep(k)
  BY <1>1
  DEF Request, TypeInv, TypeOK, OthersKeep, Solo, Conflict, Writers,
      Undisturbed, Active, Placed, MayBeAt, Op, ConnOf, Goto, Finished
<1>2. ASSUME NEW i \in Call, Admit(i) PROVE OthersKeep(k)
  BY <1>2
  DEF Admit, TypeInv, TypeOK, OthersKeep, Solo, Conflict, Writers, Undisturbed,
      Active, Placed, MayBeAt, Op, ConnOf, Goto, Finished
<1>3. ASSUME NEW i \in Call, Deny(i) PROVE OthersKeep(k)
  BY <1>3
  DEF Deny, TypeInv, TypeOK, OthersKeep, Solo, Conflict, Writers, Undisturbed,
      Active, Placed, MayBeAt, Op, ConnOf, Goto, Finished
<1>4. ASSUME NEW i \in Call, IOError(i) PROVE OthersKeep(k)
  BY <1>4
  DEF IOError, TypeInv, TypeOK, OthersKeep, Solo, Conflict, Writers,
      Undisturbed, Active, Placed, MayBeAt, Op, ConnOf, Goto, Finished
<1>5. ASSUME NEW i \in Call, ReadMain(i) PROVE OthersKeep(k)
  BY <1>5
  DEF ReadMain, AfterMain, TypeInv, TypeOK, OthersKeep, Solo, Conflict,
      Writers, Undisturbed, Active, Placed, MayBeAt, Op, ConnOf, Goto, Finished
<1>6. ASSUME NEW i \in Call, TruncMain(i) PROVE OthersKeep(k)
  BY <1>6
  DEF TruncMain, TypeInv, TypeOK, OthersKeep, Solo, Conflict, Writers,
      Undisturbed, Active, Placed, MayBeAt, Op, ConnOf, Goto, Finished
<1>7. ASSUME NEW i \in Call, WriteMain(i) PROVE OthersKeep(k)
  BY <1>7
  DEF WriteMain, AfterMain, TypeInv, TypeOK, OthersKeep, Solo, Conflict,
      Writers, Undisturbed, Active, Placed, MayBeAt, Op, ConnOf, Goto, Finished
<1>8. ASSUME NEW i \in Call, CheckIke(i) PROVE OthersKeep(k)
  BY <1>8
  DEF CheckIke, TypeInv, TypeOK, OthersKeep, Solo, Conflict, Writers,
      Undisturbed, Active, Placed, MayBeAt, Op, ConnOf, Goto, Finished
<1>9. ASSUME NEW i \in Call, EnsureXauth(i) PROVE OthersKeep(k)
  BY <1>9
  DEF EnsureXauth, EnsureRunning, ReadFiles, IkeChecked, TypeInv, TypeOK,
      OthersKeep, Solo, Conflict, Writers, Undisturbed, Active, Placed,
      MayBeAt, Op, ConnOf, Goto, Finished
<1>9a. ASSUME NEW i \in Call, XauthStarted(i) PROVE OthersKeep(k)
  BY <1>9a
  DEF XauthStarted, Started, IkeChecked, TypeInv, TypeOK,
      OthersKeep, Solo, Conflict, Writers, Undisturbed, Active, Placed,
      MayBeAt, Op, ConnOf, Goto, Finished
<1>10. ASSUME NEW i \in Call, TruncConf(i) PROVE OthersKeep(k)
  BY <1>10
  DEF TruncConf, TypeInv, TypeOK, OthersKeep, Solo, Conflict, Writers,
      Undisturbed, Active, Placed, MayBeAt, Op, ConnOf, Goto, Finished
<1>11. ASSUME NEW i \in Call, WriteConf(i) PROVE OthersKeep(k)
  BY <1>11
  DEF WriteConf, TypeInv, TypeOK, OthersKeep, Solo, Conflict, Writers,
      Undisturbed, Active, Placed, MayBeAt, Op, ConnOf, Goto, Finished
<1>12. ASSUME NEW i \in Call, TruncSec(i) PROVE OthersKeep(k)
  BY <1>12
  DEF TruncSec, TypeInv, TypeOK, OthersKeep, Solo, Conflict, Writers,
      Undisturbed, Active, Placed, MayBeAt, Op, ConnOf, Goto, Finished
<1>13. ASSUME NEW i \in Call, WriteSec(i) PROVE OthersKeep(k)
  BY <1>13
  DEF WriteSec, TypeInv, TypeOK, OthersKeep, Solo, Conflict, Writers,
      Undisturbed, Active, Placed, MayBeAt, Op, ConnOf, Goto, Finished
<1>13a. ASSUME NEW i \in Call, ReadAll(i) PROVE OthersKeep(k)
  BY <1>13a
  DEF ReadAll, TypeInv, TypeOK, OthersKeep, Solo, Conflict, Writers,
      Undisturbed, Active, Placed, MayBeAt, Op, ConnOf, Goto, Finished
<1>14. ASSUME NEW i \in Call, LoadAll(i) PROVE OthersKeep(k)
  BY <1>14
  DEF LoadAll, TypeInv, TypeOK, OthersKeep, Solo, Conflict, Writers,
      Undisturbed, Active, Placed, MayBeAt, Op, ConnOf, Goto, Finished
<1>15. ASSUME NEW i \in Call, RmConf(i) PROVE OthersKeep(k)
  <2>1. i # k /\ pc[i] = "rmConf" /\ Op(i) = "RemoveProfile"
    BY <1>15 DEF RmConf, Goto, TypeInv, TypeOK, Placed, MayBeAt
  <2>2. ConnOf(i) # ConnOf(k)
    BY <2>1 DEF Solo, Conflict, Writers, Active, Finished, Op, ConnOf
  <2>3. err'[k] = err[k]
    BY <1>15, <2>1 DEF RmConf, TypeInv, TypeOK
  <2>4. conf'[ConnOf(k)] = conf[ConnOf(k)] /\ sec' = sec
    BY <1>15, <2>2 DEF RmConf, TypeInv, TypeOK
  <2>5. held'[k] = held[k]
    <3>1. held' = held \/ held' = HeldAfterUnlink(ConnOf(i), "writeConf")
      BY <1>15 DEF RmConf
    <3>2. held[k] \in BOOLEAN
      BY DEF TypeInv, TypeOK
    <3>3. ~(pc[k] = "writeConf" /\ ConnOf(k) = ConnOf(i))
      BY <2>2
    <3>4. HeldAfterUnlink(ConnOf(i), "writeConf")[k] = held[k]
      BY <3>2, <3>3, Zenon DEF HeldAfterUnlink
    <3> QED BY <3>1, <3>4
  <2> QED BY <2>3, <2>4, <2>5 DEF OthersKeep
<1>16. ASSUME NEW i \in Call, RmSec(i) PROVE OthersKeep(k)
  <2>1. i # k /\ pc[i] = "rmSec" /\ Op(i) = "RemoveProfile"
    BY <1>16 DEF RmSec, Goto, TypeInv, TypeOK, Placed, MayBeAt
  <2>2. ConnOf(i) # ConnOf(k)
    BY <2>1 DEF Solo, Conflict, Writers, Active, Finished, Op, ConnOf
  <2>3. err'[k] = err[k]
    BY <1>16, <2>1 DEF RmSec, TypeInv, TypeOK
  <2>4. sec'[ConnOf(k)] = sec[ConnOf(k)] /\ conf' = conf
    BY <1>16, <2>2 DEF RmSec, TypeInv, TypeOK
  <2>5. held'[k] = held[k]
    <3>1. held' = held \/ held' = HeldAfterUnlink(ConnOf(i), "writeSec")
      BY <1>16 DEF RmSec
    <3>2. held[k] \in BOOLEAN
      BY DEF TypeInv, TypeOK
    <3>3. ~(pc[k] = "writeSec" /\ ConnOf(k) = ConnOf(i))
      BY <2>2
    <3>4. HeldAfterUnlink(ConnOf(i), "writeSec")[k] = held[k]
      BY <3>2, <3>3, Zenon DEF HeldAfterUnlink
    <3> QED BY <3>1, <3>4
  <2> QED BY <2>3, <2>4, <2>5 DEF OthersKeep
<1>17. ASSUME NEW i \in Call, Start(i) PROVE OthersKeep(k)
  BY <1>17
  DEF Start, EnsureRunning, ReadFiles, TypeInv, TypeOK, OthersKeep, Solo,
      Conflict, Writers, Undisturbed, Active, Placed, MayBeAt, Op, ConnOf,
      Goto, Finished
<1>17a. ASSUME NEW i \in Call, ConnectStarted(i) PROVE OthersKeep(k)
  BY <1>17a
  DEF ConnectStarted, Started, TypeInv, TypeOK, OthersKeep, Solo,
      Conflict, Writers, Undisturbed, Active, Placed, MayBeAt, Op, ConnOf,
      Goto, Finished
<1>18. ASSUME NEW i \in Call, Peek(i) PROVE OthersKeep(k)
  BY <1>18
  DEF Peek, TypeInv, TypeOK, OthersKeep, Solo, Conflict, Writers, Undisturbed,
      Active, Placed, MayBeAt, Op, ConnOf, Goto, Finished
<1>19. ASSUME NEW i \in Call, List(i) PROVE OthersKeep(k)
  BY <1>19
  DEF List, TypeInv, TypeOK, OthersKeep, Solo, Conflict, Writers, Undisturbed,
      Active, Placed, MayBeAt, Op, ConnOf, Goto, Finished
<1>20. ASSUME NEW i \in Call, Initiate(i) PROVE OthersKeep(k)
  BY <1>20
  DEF Initiate, Advance, TypeInv, TypeOK, OthersKeep, Solo, Conflict, Writers,
      Undisturbed, Active, Placed, MayBeAt, Op, ConnOf, Goto, Finished
<1>21. ASSUME NEW i \in Call, Initiated(i) PROVE OthersKeep(k)
  BY <1>21
  DEF Initiated, Advance, HeldAfterLoss, TypeInv, TypeOK, OthersKeep, Solo,
      Conflict, Writers, Undisturbed, Active, Placed, MayBeAt, Op, ConnOf,
      Goto, Finished
<1>22. ASSUME NEW i \in Call, Terminate(i) PROVE OthersKeep(k)
  <2>1. UNCHANGED <<conf, sec, err>>
    BY <1>22 DEF Terminate
  <2>2. held' = held \/ held' = HeldAfterLoss(ConnOf(i))
    BY <1>22 DEF Terminate
  <2>3. pc[k] \in {"writeConf", "writeSec"} => held'[k] = held[k]
    BY <2>2 DEF HeldAfterLoss, TypeInv, TypeOK
  <2> QED BY <2>1, <2>3 DEF OthersKeep
<1>23. ASSUME NEW i \in Call, ListSas(i) PROVE OthersKeep(k)
  BY <1>23
  DEF ListSas, TypeInv, TypeOK, OthersKeep, Solo, Conflict, Writers,
      Undisturbed, Active, Placed, MayBeAt, Op, ConnOf, Goto, Finished
<1>24. ASSUME NEW d \in Conn, ChildLost(d) PROVE OthersKeep(k)
  BY <1>24
  DEF ChildLost, TypeInv, TypeOK, OthersKeep, Solo, Conflict, Writers,
      Undisturbed, Active, Placed, MayBeAt, Op, ConnOf, Finished
<1>25. ASSUME NEW d \in Conn, IkeLost(d) PROVE OthersKeep(k)
  BY <1>25
  DEF IkeLost, HeldAfterLoss, TypeInv, TypeOK, OthersKeep, Solo, Conflict,
      Writers, Undisturbed, Active, Placed, MayBeAt, Op, ConnOf, Finished
<1>26. ASSUME NEW d \in Conn, CharonSettles(d) PROVE OthersKeep(k)
  BY <1>26
  DEF CharonSettles, TypeInv, TypeOK, OthersKeep, Solo, Conflict, Writers,
      Undisturbed, Active, Placed, MayBeAt, Op, ConnOf, Finished
<1>27. ASSUME Kill PROVE OthersKeep(k)
  BY <1>27
  DEF Kill, TypeInv, TypeOK, OthersKeep, Solo, Conflict, Writers, Undisturbed,
      Active, Placed, MayBeAt, Op, ConnOf, Finished
<1>28. ASSUME CharonStop PROVE OthersKeep(k)
  BY <1>28
  DEF CharonStop, TypeInv, TypeOK, OthersKeep, Solo, Conflict,
      Writers, Undisturbed, Active, Placed, MayBeAt, Op, ConnOf, Finished
<1> QED
  BY NextCases, <1>0, <1>1, <1>2, <1>3, <1>4, <1>5, <1>6, <1>7, <1>8, <1>9,
     <1>9a, <1>10, <1>11, <1>12, <1>13, <1>13a, <1>14, <1>15, <1>16, <1>17,
     <1>17a, <1>18, <1>19, <1>20, <1>21, <1>22, <1>23, <1>24, <1>25, <1>26,
     <1>27, <1>28

-----------------------------------------------------------------------------
(* What an undisturbed Apply or Remove has achieved at each of its steps.   *)

PastMain == {"checkIke", "ensureXauth", "startingXauth", "truncConf",
             "writeConf", "truncSec", "writeSec", "load", "send", "ok"}

Mentions == {"include", "mention"} \cap swanctlConf # {}

Saving(k) ==
  LET c == ConnOf(k)
      p == req[k].p
  IN Op(k) = "ApplyProfile" /\ Undisturbed(k) =>
       /\ intact[k] /\ pc[k] \in PastMain => Mentions
       /\ pc[k] = "writeConf" => conf[c] = Blank /\ held[k]
       /\ pc[k] \in {"truncSec", "writeSec", "load", "send", "ok"} => conf[c] = p
       /\ pc[k] = "writeSec" => sec[c] = Blank /\ held[k]
       /\ pc[k] \in {"load", "send", "ok"} => sec[c] = p

Removing(k) ==
  LET c == ConnOf(k)
  IN Op(k) = "RemoveProfile" /\ Undisturbed(k) =>
       /\ pc[k] \in {"rmSec", "load", "send", "ok"} =>
            conf[c] = Absent \/ TheConf \in err[k]
       /\ pc[k] \in {"load", "send", "ok"} =>
            sec[c] = Absent \/ TheSec \in err[k]

\* What a load-all finds of the file f of k's profile: what it holds, or
\* nothing where the entry is being removed or conf.d is not included.
Fresh(k, f) ==
  {f[ConnOf(k)]} \cup (IF Op(k) = "RemoveProfile" \/ "include" \notin swanctlConf
                         THEN {Absent} ELSE {})

\* Once an uncrossed writer has read for its own load-all, so has everybody
\* whose load-all is still to come: charon will be told nothing older.
Loads(k) ==
  LET c == ConnOf(k)
  IN Op(k) \in Writers /\ Undisturbed(k) /\ intact[k] /\ pc[k] \in {"send", "ok"} =>
       /\ \A j \in Call : Sending(j) =>
            rconf[j][c] \in Fresh(k, conf) /\ rsec[j][c] \in Fresh(k, sec)
       /\ pc[k] = "ok" => lconf[c] \in Fresh(k, conf) /\ lsec[c] \in Fresh(k, sec)

\* A rewriting of swanctl.conf starts from a text that does not speak of
\* conf.d, and until it ends the file does not.
MainInv ==
  /\ \A k \in Call : pc[k] \in {"truncMain", "writeMain"} => "mention" \notin seen[k]
  /\ (\E k \in Call : MidRewrite(k)) => "mention" \notin swanctlConf

WriterInv ==
  /\ SoloInv /\ MainInv
  /\ \A k \in Call : Saving(k) /\ Removing(k) /\ Loads(k)

\* What a step leaves of swanctl.conf once it has spoken of conf.d ...
MainKept ==
  Mentions => \A m \in {"include", "mention"} : m \in swanctlConf' <=> m \in swanctlConf
\* ... and what it makes of what has been read and loaded.
Relay ==
  /\ \A j \in Call : Sending(j)' =>
       \/ Sending(j) /\ rconf'[j] = rconf[j] /\ rsec'[j] = rsec[j]
       \/ rconf'[j] = OnDisk(conf) /\ rsec'[j] = OnDisk(sec)
  /\ \/ UNCHANGED <<lconf, lsec>>
     \/ \E j \in Call : /\ Sending(j) /\ lsec' = rsec[j]
                        /\ \A c \in Conn : lconf'[c] \in {lconf[c], rconf[j][c]}

\* Most steps touch neither.
Idle == UNCHANGED <<swanctlConf, loaded>> /\ \A j \in Call : Sending(j)' => Sending(j)

LEMMA IdleKeeps == Idle => MainKept /\ Relay
BY DEF Idle, MainKept, Relay

\* The rewriting keeps what was read and adds the include.
LEMMA WriteMainText ==
  ASSUME NEW i \in Call, WriteMain(i)
  PROVE  /\ "include" \in swanctlConf'
         /\ "mention" \in swanctlConf' <=> "mention" \in seen[i]
<1>1. swanctlConf' \in {seen[i] \cup {"include"}, seen[i] \cup {"include", "junk"}}
  BY DEF WriteMain
<1> QED BY <1>1

LEMMA LoadStep ==
  ASSUME TypeInv, MainInv, [Next]_vars, NEW k \in Call, intact'[k], pc'[k] = pc[k]
  PROVE  MainKept /\ Relay
<1> USE DEF Goto, TypeInv, TypeOK, Sending, Starting, Idle
<1>0. CASE UNCHANGED vars
  BY <1>0, IdleKeeps DEF vars
<1>1. ASSUME NEW i \in Call, NEW r \in Requests, Request(i, r)
      PROVE  Idle
  BY <1>1, FirstStepOwn, DaemonAssumption DEF Request, Entry, FirstStep
<1>2. ASSUME NEW i \in Call, Admit(i) PROVE Idle
  <2>1. req[i] \in Requests
    BY <1>2 DEF Admit, Placed
  <2>2. FirstStep(req[i]) \notin {"send", "starting", "startingXauth"}
    BY <2>1, DaemonAssumption DEF FirstStep, Methods
  <2> QED BY <1>2, <2>2 DEF Admit
<1>3. ASSUME NEW i \in Call, \/ Deny(i) \/ IOError(i) \/ ReadMain(i) \/ CheckIke(i)
      PROVE  Idle
  BY <1>3 DEF Deny, IOError, ReadMain, AfterMain, CheckIke
<1>4. ASSUME NEW i \in Call,
             TruncConf(i) \/ WriteConf(i) \/ TruncSec(i) \/ WriteSec(i)
      PROVE  Idle
  BY <1>4 DEF TruncConf, WriteConf, TruncSec, WriteSec
<1>5. ASSUME NEW i \in Call, RmConf(i) \/ RmSec(i) \/ Peek(i) \/ List(i)
      PROVE  Idle
  BY <1>5 DEF RmConf, RmSec, Peek, List
<1>6. ASSUME NEW i \in Call,
             Initiate(i) \/ Initiated(i) \/ Terminate(i) \/ ListSas(i)
      PROVE  Idle
  <2>1. UNCHANGED <<swanctlConf, loaded>>
    BY <1>6 DEF Initiate, Initiated, Terminate, ListSas
  <2>2. \A j \in Call \ {i} : pc'[j] = pc[j]
    BY <1>6 DEF Initiate, Initiated, Advance, Terminate, ListSas
  <2>3. pc'[i] \in {"initiate", "initiating"} \cup Finished
    BY <1>6 DEF Initiate, Initiated, Advance, Terminate, ListSas, Finished
  <2> QED BY <2>1, <2>2, <2>3 DEF Finished
<1>7. ASSUME NEW d \in Conn, ChildLost(d) \/ IkeLost(d) \/ CharonSettles(d)
      PROVE  Idle
  BY <1>7 DEF ChildLost, IkeLost, CharonSettles
<1>8. ASSUME NEW i \in Call, TruncMain(i) PROVE FALSE
  BY <1>8 DEF TruncMain, Cross
<1>9. ASSUME CharonStop PROVE FALSE
  BY <1>9 DEF CharonStop, Cross
<1>10. ASSUME NEW i \in Call, WriteMain(i) PROVE MainKept /\ Relay
  <2>1. UNCHANGED loaded /\ \A j \in Call : Sending(j)' => Sending(j)
    BY <1>10 DEF WriteMain, AfterMain
  <2>2. Relay
    BY <2>1 DEF Relay
  <2>3. /\ "mention" \notin swanctlConf /\ "mention" \notin seen[i]
    BY <1>10 DEF WriteMain, MainInv, MidRewrite
  <2>4. "include" \in swanctlConf' /\ "mention" \notin swanctlConf'
    BY <1>10, <2>3, WriteMainText
  <2> QED BY <2>2, <2>3, <2>4 DEF MainKept, Mentions
<1>11. ASSUME NEW i \in Call, EnsureXauth(i) \/ Start(i) \/ ReadAll(i)
       PROVE  MainKept /\ Relay
  <2>1. UNCHANGED <<swanctlConf, lconf, lsec>>
    BY <1>11 DEF EnsureXauth, Start, EnsureRunning, ReadAll
  <2>2. /\ \A j \in Call \ {i} : pc'[j] = pc[j]
        /\ pc[i] \notin {"send"} \cup Starting
    BY <1>11 DEF EnsureXauth, Start, EnsureRunning, ReadAll
  <2>3. \/ ReadFiles(i)
        \/ UNCHANGED <<rconf, rsec>> /\ pc'[i] \notin {"send"} \cup Starting
    BY <1>11 DEF EnsureXauth, Start, EnsureRunning, ReadAll, IkeChecked
  <2>4. \A j \in Call \ {i} : rconf'[j] = rconf[j] /\ rsec'[j] = rsec[j]
    BY <2>3 DEF ReadFiles
  <2>5. Sending(i)' => rconf'[i] = OnDisk(conf) /\ rsec'[i] = OnDisk(sec)
    BY <2>3 DEF ReadFiles
  <2> QED BY <2>1, <2>2, <2>4, <2>5 DEF MainKept, Relay
<1>12. ASSUME NEW i \in Call, XauthStarted(i) \/ ConnectStarted(i) \/ LoadAll(i)
       PROVE  MainKept /\ Relay
  <2>1. UNCHANGED swanctlConf /\ Sending(i) /\ Forget(i)
    BY <1>12 DEF XauthStarted, ConnectStarted, Started, LoadAll
  <2>2. /\ \A j \in Call \ {i} : pc'[j] = pc[j]
        /\ pc'[i] \notin {"send"} \cup Starting
    BY <1>12 DEF XauthStarted, ConnectStarted, LoadAll, IkeChecked
  <2>3. \A j \in Call \ {i} : rconf'[j] = rconf[j] /\ rsec'[j] = rsec[j]
    BY <2>1 DEF Forget
  <2>4. UNCHANGED <<lconf, lsec>> \/ \E bad : SendFiles(i, bad)
    BY <1>12 DEF XauthStarted, ConnectStarted, Started, LoadAll
  <2>5. \/ UNCHANGED <<lconf, lsec>>
        \/ /\ lsec' = rsec[i]
           /\ \A c \in Conn : lconf'[c] \in {lconf[c], rconf[i][c]}
    BY <2>4 DEF SendFiles
  <2> QED BY <2>1, <2>2, <2>3, <2>5 DEF MainKept, Relay
<1>13. ASSUME Kill PROVE MainKept /\ Relay
  <2>1. UNCHANGED swanctlConf /\ \A j \in Call : ~Sending(j)'
    BY <1>13 DEF Kill, Active, Finished
  <2>2. \/ UNCHANGED <<lconf, lsec>>
        \/ \E i \in Call : Sending(i) /\ SendFiles(i, {})
    BY <1>13 DEF Kill
  <2>3. \/ UNCHANGED <<lconf, lsec>>
        \/ \E i \in Call : /\ Sending(i) /\ lsec' = rsec[i]
                           /\ \A c \in Conn : lconf'[c] \in {lconf[c], rconf[i][c]}
    BY <2>2 DEF SendFiles
  <2> QED BY <2>1, <2>3 DEF MainKept, Relay
<1> QED
  BY NextCases, IdleKeeps, <1>0, <1>1, <1>2, <1>3, <1>4, <1>5, <1>6, <1>7,
     <1>8, <1>9, <1>10, <1>11, <1>12, <1>13

\* swanctl.conf itself.
LEMMA MainInvStep ==
  ASSUME TypeInv, MainInv, [Next]_vars
  PROVE  MainInv'
<1> USE DEF Goto, TypeInv, TypeOK, MainInv, MidRewrite
<1> DEFINE Apart == /\ UNCHANGED <<swanctlConf, seen>>
                    /\ \A j \in Call : pc'[j] \in {"truncMain", "writeMain"} =>
                                         pc'[j] = pc[j]
<1>0. Apart => MainInv'
  OBVIOUS
<1>1. CASE UNCHANGED vars
  BY <1>1 DEF vars
<1>2. ASSUME NEW i \in Call, NEW r \in Requests, Request(i, r) PROVE Apart
  BY <1>2, DaemonAssumption DEF Request, Entry, FirstStep
<1>3. ASSUME NEW i \in Call, Admit(i) PROVE Apart
  <2>1. req[i] \in Requests
    BY <1>3 DEF Admit, Placed
  <2>2. FirstStep(req[i]) \notin {"truncMain", "writeMain"}
    BY <2>1, DaemonAssumption DEF FirstStep, Methods
  <2> QED BY <1>3, <2>2 DEF Admit
<1>4. ASSUME NEW i \in Call, \/ Deny(i) \/ IOError(i) \/ CheckIke(i) \/ EnsureXauth(i)
                             \/ XauthStarted(i)
      PROVE  Apart
  BY <1>4
  DEF Deny, IOError, CheckIke, EnsureXauth, EnsureRunning, XauthStarted,
      IkeChecked
<1>5. ASSUME NEW i \in Call,
             TruncConf(i) \/ WriteConf(i) \/ TruncSec(i) \/ WriteSec(i)
      PROVE  Apart
  BY <1>5 DEF TruncConf, WriteConf, TruncSec, WriteSec
<1>6. ASSUME NEW i \in Call, ReadAll(i) \/ LoadAll(i) \/ RmConf(i) \/ RmSec(i)
      PROVE  Apart
  BY <1>6 DEF ReadAll, LoadAll, RmConf, RmSec
<1>7. ASSUME NEW i \in Call, Start(i) \/ ConnectStarted(i) \/ Peek(i) \/ List(i)
      PROVE  Apart
  BY <1>7 DEF Start, EnsureRunning, ConnectStarted, Peek, List
<1>8. ASSUME NEW i \in Call,
             Initiate(i) \/ Initiated(i) \/ Terminate(i) \/ ListSas(i)
      PROVE  Apart
  BY <1>8 DEF Initiate, Initiated, Advance, Terminate, ListSas
<1>9. ASSUME NEW d \in Conn, ChildLost(d) \/ IkeLost(d) \/ CharonSettles(d)
      PROVE  Apart
  BY <1>9 DEF ChildLost, IkeLost, CharonSettles
<1>10. ASSUME Kill \/ CharonStop PROVE Apart
  BY <1>10 DEF Kill, Active, CharonStop
<1>11. ASSUME NEW i \in Call, ReadMain(i) PROVE MainInv'
  BY <1>11 DEF ReadMain, AfterMain
<1>12. ASSUME NEW i \in Call, TruncMain(i) PROVE MainInv'
  BY <1>12 DEF TruncMain
<1>13. ASSUME NEW i \in Call, WriteMain(i) PROVE MainInv'
  <2>1. "mention" \notin swanctlConf'
    BY <1>13, WriteMainText DEF WriteMain
  <2>2. seen' = seen
    BY <1>13 DEF WriteMain
  <2>3. \A j \in Call : pc'[j] \in {"truncMain", "writeMain"} => pc'[j] = pc[j]
    BY <1>13 DEF WriteMain, AfterMain
  <2> QED BY <2>1, <2>2, <2>3
<1> QED
  BY NextCases, <1>0, <1>1, <1>2, <1>3, <1>4, <1>5, <1>6, <1>7, <1>8, <1>9,
     <1>10, <1>11, <1>12, <1>13

\* A step of another call, or of the environment.
LEMMA WriterElsewhere ==
  ASSUME TypeInv, WriterInv, [Next]_vars, NEW k \in Call, pc'[k] = pc[k]
  PROVE  (Saving(k) /\ Removing(k) /\ Loads(k))'
<1> SUFFICES ASSUME Op(k)' \in Writers, Undisturbed(k)', pc[k] # "idle"
             PROVE  (Saving(k) /\ Removing(k) /\ Loads(k))'
  BY DEF Saving, Removing, Loads, Writers, PastMain
<1>1. /\ req'[k] = req[k] /\ Undisturbed(k)
      /\ intact'[k] => intact[k]
  <2>1. CASE OnlyEnds
    BY <2>1 DEF OnlyEnds
  <2>2. ASSUME NEW j \in Call, NEW r \in Requests, Request(j, r)
        PROVE  req'[k] = req[k] /\ Undisturbed(k) /\ intact'[k] = intact[k]
    BY <2>2 DEF Request, Undisturbed, TypeInv, TypeOK
  <2> QED BY <2>1, <2>2, OnlyEndsStep
<1>2. req[k] \in Requests /\ Op(k) \in Writers
  BY <1>1 DEF TypeInv, Placed, Op
<1>3. ConnOf(k) \in Conn
  BY <1>2, DaemonAssumption DEF ConnOf
<1>4. OthersKeep(k)
  BY <1>1, <1>2, <1>3, OthersStep DEF WriterInv, SoloInv
<1>5. ASSUME Op(k) = "ApplyProfile" PROVE req[k].p \notin {Blank, Absent}
  BY <1>2, <1>5, DaemonAssumption DEF Op
<1>6. intact'[k] => MainKept /\ Relay
  BY LoadStep DEF WriterInv
<1>7. ConnOf(k)' = ConnOf(k) /\ Op(k)' = Op(k)
  BY <1>1 DEF ConnOf, Op
<1>8. Saving(k)'
  <2>1. Op(k) = "ApplyProfile" /\ intact'[k] /\ pc[k] \in PastMain => Mentions'
    BY <1>1, <1>6 DEF WriterInv, Saving, MainKept, Mentions
  <2> QED BY <1>1, <1>4, <1>7, <2>1 DEF OthersKeep, WriterInv, Saving
<1>9. Removing(k)'
  BY <1>1, <1>4, <1>7 DEF OthersKeep, WriterInv, Removing
<1>10. Loads(k)'
  <2> SUFFICES ASSUME intact'[k], pc[k] \in {"send", "ok"} PROVE Loads(k)'
    BY DEF Loads
  <2>1. /\ MainKept /\ Relay /\ Loads(k) /\ Saving(k) /\ intact[k]
    BY <1>1, <1>6 DEF WriterInv
  <2>2. /\ \A j \in Call : Sending(j) =>
             rconf[j][ConnOf(k)] \in Fresh(k, conf) /\ rsec[j][ConnOf(k)] \in Fresh(k, sec)
        /\ pc[k] = "ok" => /\ lconf[ConnOf(k)] \in Fresh(k, conf)
                           /\ lsec[ConnOf(k)] \in Fresh(k, sec)
    BY <1>1, <1>2, <2>1 DEF Loads
  <2>3. Op(k) = "ApplyProfile" =>
          /\ Mentions /\ conf[ConnOf(k)] = req[k].p /\ sec[ConnOf(k)] = req[k].p
    BY <1>1, <2>1 DEF Saving, PastMain
  <2>4. /\ Fresh(k, conf)' = Fresh(k, conf)
        /\ Fresh(k, sec)' = Fresh(k, sec)
    BY <1>2, <1>4, <1>7, <2>1, <2>3 DEF Fresh, OthersKeep, MainKept, Writers
  <2>5. /\ OnDisk(conf)[ConnOf(k)] \in Fresh(k, conf)
        /\ OnDisk(sec)[ConnOf(k)] \in Fresh(k, sec)
    BY <1>2, <1>3, <1>5, <2>3 DEF OnDisk, Fresh, Writers
  <2>6. \A j \in Call : Sending(j)' =>
          rconf'[j][ConnOf(k)] \in Fresh(k, conf) /\ rsec'[j][ConnOf(k)] \in Fresh(k, sec)
    BY <2>1, <2>2, <2>5 DEF Relay
  <2>7. pc[k] = "ok" => /\ lconf'[ConnOf(k)] \in Fresh(k, conf)
                        /\ lsec'[ConnOf(k)] \in Fresh(k, sec)
    BY <1>3, <2>1, <2>2 DEF Relay
  <2> QED BY <1>7, <2>4, <2>6, <2>7 DEF Loads
<1> QED BY <1>8, <1>9, <1>10

\* Where a handler goes on without touching a file.
LEMMA WriterPasses ==
  ASSUME WriterInv, NEW k \in Call,
         UNCHANGED <<files, req, held, err, alone, latest>>,
         intact'[k] => intact[k],
         \/ pc'[k] \notin PastMain \cup {"rmSec"}
         \/ /\ pc'[k] \in {"checkIke", "ensureXauth", "startingXauth", "truncConf"}
            /\ pc[k] \in PastMain \/ Mentions
         \/ pc[k] = "load" /\ pc'[k] = "send"
         \/ pc[k] = "send" /\ pc'[k] = "ok"
  PROVE  (Saving(k) /\ Removing(k))'
<1>1. /\ Op(k)' = Op(k) /\ ConnOf(k)' = ConnOf(k) /\ Mentions' = Mentions
      /\ Undisturbed(k)' = Undisturbed(k)
  BY DEF Op, ConnOf, Mentions, Undisturbed
<1>2. Saving(k)'
  BY <1>1 DEF WriterInv, Saving, PastMain
<1>3. Removing(k)'
  BY <1>1 DEF WriterInv, Removing, PastMain
<1> QED BY <1>2, <1>3

\* A step of the call itself, or one that ends it.
LEMMA WriterOwn ==
  ASSUME TypeInv, WriterInv, NEW k \in Call, pc'[k] # pc[k], [Next]_vars
  PROVE  (Saving(k) /\ Removing(k))'
<1>0. CASE UNCHANGED vars
  BY <1>0, DaemonAssumption
  DEF vars, TypeInv, TypeOK, WriterInv, Saving, Removing, PastMain,
      Undisturbed, Placed, MayBeAt, Op, ConnOf, Working, Finished
<1>1. ASSUME NEW i \in Call, NEW r \in Requests, Request(i, r) PROVE (Saving(k) /\ Removing(k))'
  BY <1>1, FirstStepOwn, DaemonAssumption
  DEF Request, Entry, TypeInv, TypeOK, WriterInv, Saving, Removing, PastMain,
      Undisturbed, Placed, MayBeAt, Op, ConnOf, Goto, Working, Finished
<1>2. ASSUME NEW i \in Call, Admit(i) PROVE (Saving(k) /\ Removing(k))'
  <2>1. i = k /\ pc[k] = "authorize"
    BY <1>2 DEF Admit, Goto, TypeInv, TypeOK
  <2>2. req[k] \in Requests
    BY <2>1 DEF TypeInv, Placed
  <2>3. pc'[k] \notin PastMain \cup {"rmSec"}
    BY <1>2, <2>1, <2>2, DaemonAssumption
    DEF Admit, Goto, FirstStep, Methods, PastMain, TypeInv, TypeOK
  <2> QED BY <2>3 DEF Saving, Removing, PastMain
<1>3. ASSUME NEW i \in Call, Deny(i) PROVE (Saving(k) /\ Removing(k))'
  BY <1>3, DaemonAssumption
  DEF Deny, TypeInv, TypeOK, WriterInv, Saving, Removing, PastMain,
      Undisturbed, Placed, MayBeAt, Op, ConnOf, Goto, Working, Finished
<1>4. ASSUME NEW i \in Call, IOError(i) PROVE (Saving(k) /\ Removing(k))'
  BY <1>4, DaemonAssumption
  DEF IOError, TypeInv, TypeOK, WriterInv, Saving, Removing, PastMain,
      Undisturbed, Placed, MayBeAt, Op, ConnOf, Goto, Working, Finished
<1>5. ASSUME NEW i \in Call, ReadMain(i) PROVE (Saving(k) /\ Removing(k))'
  <2>1. i = k /\ UNCHANGED <<files, req, held, err, alone, latest, intact>>
    BY <1>5 DEF ReadMain, Goto, TypeInv, TypeOK
  <2>2. \/ pc'[k] \in {"checkIke", "truncConf"} /\ Mentions
        \/ pc'[k] = "truncMain"
    BY <1>5, <2>1 DEF ReadMain, AfterMain, Goto, TypeInv, TypeOK, Mentions
  <2> QED BY <2>1, <2>2, WriterPasses DEF PastMain
<1>6. ASSUME NEW i \in Call, TruncMain(i) PROVE (Saving(k) /\ Removing(k))'
  BY <1>6, DaemonAssumption
  DEF TruncMain, TypeInv, TypeOK, WriterInv, Saving, Removing,
      PastMain, Undisturbed, Placed, MayBeAt, Op, ConnOf, Goto, Working,
      Finished
<1>7. ASSUME NEW i \in Call, WriteMain(i) PROVE (Saving(k) /\ Removing(k))'
  <2>1. i = k /\ UNCHANGED <<conf, sec, req>> /\ Op(k) = "ApplyProfile"
    BY <1>7 DEF WriteMain, Goto, TypeInv, TypeOK, Placed, MayBeAt
  <2>2. pc'[k] \in {"checkIke", "truncConf"}
    BY <1>7, <2>1 DEF WriteMain, AfterMain, Goto, TypeInv, TypeOK
  <2>3. Mentions'
    BY <1>7, WriteMainText DEF Mentions
  <2> QED BY <2>1, <2>2, <2>3 DEF Saving, Removing, PastMain, Op
<1>8. ASSUME NEW i \in Call, CheckIke(i) PROVE (Saving(k) /\ Removing(k))'
  <2>1. i = k /\ UNCHANGED <<files, req, held, err, alone, latest, intact>>
    BY <1>8 DEF CheckIke, Goto, TypeInv, TypeOK
  <2>2. pc[k] = "checkIke" /\ pc'[k] \in {"ensureXauth", "truncConf", "failed"}
    BY <1>8, <2>1 DEF CheckIke, Goto, TypeInv, TypeOK
  <2> QED BY <2>1, <2>2, WriterPasses DEF PastMain
<1>9. ASSUME NEW i \in Call, EnsureXauth(i) PROVE (Saving(k) /\ Removing(k))'
  <2>1. i = k /\ UNCHANGED <<files, req, held, err, alone, latest, intact>>
    BY <1>9 DEF EnsureXauth, EnsureRunning, Goto, TypeInv, TypeOK
  <2>2. /\ pc[k] = "ensureXauth"
        /\ pc'[k] \in {"startingXauth", "list", "truncConf", "failed"}
    BY <1>9, <2>1 DEF EnsureXauth, EnsureRunning, IkeChecked, Goto, TypeInv, TypeOK
  <2> QED BY <2>1, <2>2, WriterPasses DEF PastMain
<1>9a. ASSUME NEW i \in Call, XauthStarted(i) PROVE (Saving(k) /\ Removing(k))'
  <2>1. i = k /\ UNCHANGED <<files, req, held, err, alone, latest, intact>>
    BY <1>9a DEF XauthStarted, Goto, TypeInv, TypeOK
  <2>2. pc[k] = "startingXauth" /\ pc'[k] \in {"list", "truncConf", "failed"}
    BY <1>9a, <2>1 DEF XauthStarted, IkeChecked, Goto, TypeInv, TypeOK
  <2> QED BY <2>1, <2>2, WriterPasses DEF PastMain
<1>10. ASSUME NEW i \in Call, TruncConf(i) PROVE (Saving(k) /\ Removing(k))'
  <2>1. /\ i = k /\ UNCHANGED <<req, alone, latest, intact>>
        /\ Op(k) = "ApplyProfile" /\ pc[k] = "truncConf" /\ pc'[k] = "writeConf"
        /\ Mentions' = Mentions
    BY <1>10 DEF TruncConf, Goto, TypeInv, TypeOK, Placed, MayBeAt, Mentions
  <2>2. ConnOf(k) \in Conn /\ Op(k)' = Op(k) /\ ConnOf(k)' = ConnOf(k)
    BY <2>1, DaemonAssumption DEF TypeInv, Placed, Working, Op, ConnOf
  <2>3. Undisturbed(k)' = Undisturbed(k)
    BY <2>1 DEF Undisturbed
  <2>4. conf'[ConnOf(k)] = Blank /\ held'[k]
    BY <1>10, <2>1, <2>2 DEF TruncConf, TypeInv, TypeOK
  <2> QED
    BY <2>1, <2>2, <2>3, <2>4 DEF WriterInv, Saving, Removing, PastMain
<1>11. ASSUME NEW i \in Call, WriteConf(i) PROVE (Saving(k) /\ Removing(k))'
  <2>1. /\ i = k /\ UNCHANGED <<req, alone, latest, intact>>
        /\ Op(k) = "ApplyProfile" /\ pc[k] = "writeConf" /\ pc'[k] = "truncSec"
        /\ Mentions' = Mentions
    BY <1>11 DEF WriteConf, Goto, TypeInv, TypeOK, Placed, MayBeAt, Mentions
  <2>2. ConnOf(k) \in Conn /\ Op(k)' = Op(k) /\ ConnOf(k)' = ConnOf(k)
    BY <2>1, DaemonAssumption DEF TypeInv, Placed, Working, Op, ConnOf
  <2>3. Undisturbed(k)' = Undisturbed(k)
    BY <2>1 DEF Undisturbed
  <2>4. Undisturbed(k) => conf'[ConnOf(k)] = req[k].p
    <3>1. Undisturbed(k) => conf[ConnOf(k)] = Blank /\ held[k]
      BY <2>1 DEF WriterInv, Saving
    <3> QED BY <1>11, <2>1, <2>2, <3>1 DEF WriteConf, Overlay, TypeInv, TypeOK
  <2> QED
    BY <2>1, <2>2, <2>3, <2>4 DEF WriterInv, Saving, Removing, PastMain
<1>12. ASSUME NEW i \in Call, TruncSec(i) PROVE (Saving(k) /\ Removing(k))'
  <2>1. /\ i = k /\ UNCHANGED <<req, alone, latest, intact>>
        /\ Op(k) = "ApplyProfile" /\ pc[k] = "truncSec" /\ pc'[k] = "writeSec"
        /\ Mentions' = Mentions
    BY <1>12 DEF TruncSec, Goto, TypeInv, TypeOK, Placed, MayBeAt, Mentions
  <2>2. ConnOf(k) \in Conn /\ Op(k)' = Op(k) /\ ConnOf(k)' = ConnOf(k)
    BY <2>1, DaemonAssumption DEF TypeInv, Placed, Working, Op, ConnOf
  <2>3. Undisturbed(k)' = Undisturbed(k)
    BY <2>1 DEF Undisturbed
  <2>4. sec'[ConnOf(k)] = Blank /\ held'[k] /\ conf' = conf
    BY <1>12, <2>1, <2>2 DEF TruncSec, TypeInv, TypeOK
  <2> QED
    BY <2>1, <2>2, <2>3, <2>4 DEF WriterInv, Saving, Removing, PastMain
<1>13. ASSUME NEW i \in Call, WriteSec(i) PROVE (Saving(k) /\ Removing(k))'
  <2>1. /\ i = k /\ UNCHANGED <<req, alone, latest, intact>>
        /\ Op(k) = "ApplyProfile" /\ pc[k] = "writeSec" /\ pc'[k] = "load"
        /\ Mentions' = Mentions
    BY <1>13 DEF WriteSec, Goto, TypeInv, TypeOK, Placed, MayBeAt, Mentions
  <2>2. ConnOf(k) \in Conn /\ Op(k)' = Op(k) /\ ConnOf(k)' = ConnOf(k)
    BY <2>1, DaemonAssumption DEF TypeInv, Placed, Working, Op, ConnOf
  <2>3. Undisturbed(k)' = Undisturbed(k)
    BY <2>1 DEF Undisturbed
  <2>4. conf' = conf /\ (Undisturbed(k) => sec'[ConnOf(k)] = req[k].p)
    <3>1. Undisturbed(k) => sec[ConnOf(k)] = Blank /\ held[k]
      BY <2>1 DEF WriterInv, Saving
    <3> QED BY <1>13, <2>1, <2>2, <3>1 DEF WriteSec, Overlay, TypeInv, TypeOK
  <2> QED
    BY <2>1, <2>2, <2>3, <2>4 DEF WriterInv, Saving, Removing, PastMain
<1>13a. ASSUME NEW i \in Call, ReadAll(i) PROVE (Saving(k) /\ Removing(k))'
  <2>1. /\ i = k /\ UNCHANGED <<files, req, held, err, alone, latest>>
        /\ intact'[k] => intact[k]
    BY <1>13a DEF ReadAll, Goto, TypeInv, TypeOK
  <2>2. pc[k] = "load" /\ pc'[k] \in {"send", "failed"}
    BY <1>13a, <2>1 DEF ReadAll, Goto, TypeInv, TypeOK
  <2> QED BY <2>1, <2>2, WriterPasses DEF PastMain
<1>14. ASSUME NEW i \in Call, LoadAll(i) PROVE (Saving(k) /\ Removing(k))'
  <2>1. i = k /\ UNCHANGED <<files, req, held, err, alone, latest, intact>>
    BY <1>14 DEF LoadAll, Goto, TypeInv, TypeOK
  <2>2. pc[k] = "send" /\ pc'[k] \in {"ok", "failed"}
    BY <1>14, <2>1 DEF LoadAll, Goto, TypeInv, TypeOK
  <2> QED BY <2>1, <2>2, WriterPasses DEF PastMain
<1>15. ASSUME NEW i \in Call, RmConf(i) PROVE (Saving(k) /\ Removing(k))'
  BY <1>15, DaemonAssumption
  DEF RmConf, HeldAfterUnlink, TypeInv, TypeOK, WriterInv, Saving, Removing,
      PastMain, Undisturbed, Placed, MayBeAt, Op, ConnOf, Goto, Working,
      Finished
<1>16. ASSUME NEW i \in Call, RmSec(i) PROVE (Saving(k) /\ Removing(k))'
  BY <1>16, DaemonAssumption
  DEF RmSec, HeldAfterUnlink, TypeInv, TypeOK, WriterInv, Saving, Removing,
      PastMain, Undisturbed, Placed, MayBeAt, Op, ConnOf, Goto, Working,
      Finished
<1>17. ASSUME NEW i \in Call, Start(i) PROVE (Saving(k) /\ Removing(k))'
  BY <1>17, DaemonAssumption
  DEF Start, EnsureRunning, ReadFiles, TypeInv, TypeOK, WriterInv, Saving,
      Removing, PastMain, Undisturbed, Placed, MayBeAt, Op, ConnOf, Goto,
      Working, Finished
<1>17a. ASSUME NEW i \in Call, ConnectStarted(i) PROVE (Saving(k) /\ Removing(k))'
  BY <1>17a, DaemonAssumption
  DEF ConnectStarted, Started, TypeInv, TypeOK, WriterInv, Saving,
      Removing, PastMain, Undisturbed, Placed, MayBeAt, Op, ConnOf, Goto,
      Working, Finished
<1>18. ASSUME NEW i \in Call, Peek(i) PROVE (Saving(k) /\ Removing(k))'
  BY <1>18, DaemonAssumption
  DEF Peek, TypeInv, TypeOK, WriterInv, Saving, Removing, PastMain,
      Undisturbed, Placed, MayBeAt, Op, ConnOf, Goto, Working, Finished
<1>19. ASSUME NEW i \in Call, List(i) PROVE (Saving(k) /\ Removing(k))'
  BY <1>19, DaemonAssumption
  DEF List, TypeInv, TypeOK, WriterInv, Saving, Removing, PastMain,
      Undisturbed, Placed, MayBeAt, Op, ConnOf, Goto, Working, Finished
<1>20. ASSUME NEW i \in Call, Initiate(i) PROVE (Saving(k) /\ Removing(k))'
  <2>1. i = k /\ Op(k) = "Connect" /\ req' = req
    BY <1>20 DEF Initiate, Advance, Goto, TypeInv, TypeOK, Placed, MayBeAt
  <2> QED BY <2>1 DEF Saving, Removing, Op
<1>21. ASSUME NEW i \in Call, Initiated(i) PROVE (Saving(k) /\ Removing(k))'
  <2>1. i = k /\ Op(k) = "Connect" /\ req' = req
    BY <1>21 DEF Initiated, Advance, Goto, TypeInv, TypeOK, Placed, MayBeAt
  <2> QED BY <2>1 DEF Saving, Removing, Op
<1>22. ASSUME NEW i \in Call, Terminate(i) PROVE (Saving(k) /\ Removing(k))'
  BY <1>22, DaemonAssumption
  DEF Terminate, HeldAfterLoss, TypeInv, TypeOK, WriterInv, Saving, Removing,
      PastMain, Undisturbed, Placed, MayBeAt, Op, ConnOf, Goto, Working,
      Finished
<1>23. ASSUME NEW i \in Call, ListSas(i) PROVE (Saving(k) /\ Removing(k))'
  BY <1>23, DaemonAssumption
  DEF ListSas, TypeInv, TypeOK, WriterInv, Saving, Removing, PastMain,
      Undisturbed, Placed, MayBeAt, Op, ConnOf, Goto, Working, Finished
<1>24. ASSUME NEW d \in Conn, ChildLost(d) PROVE (Saving(k) /\ Removing(k))'
  BY <1>24, DaemonAssumption
  DEF ChildLost, TypeInv, TypeOK, WriterInv, Saving, Removing, PastMain,
      Undisturbed, Placed, MayBeAt, Op, ConnOf, Working, Finished
<1>25. ASSUME NEW d \in Conn, IkeLost(d) PROVE (Saving(k) /\ Removing(k))'
  BY <1>25, DaemonAssumption
  DEF IkeLost, HeldAfterLoss, TypeInv, TypeOK, WriterInv, Saving, Removing,
      PastMain, Undisturbed, Placed, MayBeAt, Op, ConnOf, Working, Finished
<1>26. ASSUME NEW d \in Conn, CharonSettles(d) PROVE (Saving(k) /\ Removing(k))'
  BY <1>26, DaemonAssumption
  DEF CharonSettles, TypeInv, TypeOK, WriterInv, Saving, Removing, PastMain,
      Undisturbed, Placed, MayBeAt, Op, ConnOf, Working, Finished
<1>27. ASSUME Kill PROVE (Saving(k) /\ Removing(k))'
  BY <1>27, DaemonAssumption
  DEF Kill, Active, TypeInv, TypeOK, WriterInv, Saving, Removing, PastMain,
      Undisturbed, Placed, MayBeAt, Op, ConnOf, Working, Finished
<1>28. ASSUME CharonStop PROVE (Saving(k) /\ Removing(k))'
  BY <1>28, DaemonAssumption
  DEF CharonStop, TypeInv, TypeOK, WriterInv, Saving, Removing,
      PastMain, Undisturbed, Placed, MayBeAt, Op, ConnOf, Working, Finished
<1> QED
  BY NextCases, <1>0, <1>1, <1>2, <1>3, <1>4, <1>5, <1>6, <1>7, <1>8, <1>9,
     <1>9a, <1>10, <1>11, <1>12, <1>13, <1>13a, <1>14, <1>15, <1>16, <1>17,
     <1>17a, <1>18, <1>19, <1>20, <1>21, <1>22, <1>23, <1>24, <1>25, <1>26,
     <1>27, <1>28

\* How a writer comes to send, and to reply: by its load-all alone.
LEMMA LoadsOwn ==
  ASSUME TypeInv, WriterInv, NEW k \in Call, pc'[k] # pc[k], [Next]_vars
  PROVE  Loads(k)'
<1> USE DEF Goto, TypeInv, TypeOK
<1> DEFINE Apart == pc'[k] \notin {"send", "ok"} \/ Op(k)' \notin Writers
<1>0. Apart => Loads(k)'
  BY DEF Loads
<1>1. CASE UNCHANGED vars
  BY <1>1 DEF vars
<1>2. ASSUME NEW i \in Call, NEW r \in Requests, Request(i, r) PROVE Apart
  BY <1>2, FirstStepStarts DEF Request, Entry, Starts
<1>3. ASSUME NEW i \in Call, Admit(i) PROVE Apart
  <2>1. req[i] \in Requests
    BY <1>3 DEF Admit, Placed
  <2>2. FirstStep(req[i]) \notin {"send", "ok"}
    BY <2>1, FirstStepStarts DEF Starts
  <2> QED BY <1>3, <2>2 DEF Admit
<1>4. ASSUME NEW i \in Call, \/ Deny(i) \/ IOError(i) \/ CheckIke(i) \/ ReadMain(i)
                             \/ TruncMain(i) \/ WriteMain(i)
      PROVE  Apart
  BY <1>4
  DEF Deny, IOError, CheckIke, ReadMain, AfterMain, TruncMain, WriteMain
<1>5. ASSUME NEW i \in Call, EnsureXauth(i) \/ XauthStarted(i)
      PROVE  Apart
  BY <1>5 DEF EnsureXauth, EnsureRunning, XauthStarted, IkeChecked
<1>6. ASSUME NEW i \in Call,
             TruncConf(i) \/ WriteConf(i) \/ TruncSec(i) \/ WriteSec(i)
      PROVE  Apart
  BY <1>6 DEF TruncConf, WriteConf, TruncSec, WriteSec
<1>7. ASSUME NEW i \in Call, RmConf(i) \/ RmSec(i) PROVE Apart
  BY <1>7 DEF RmConf, RmSec
<1>8. ASSUME NEW i \in Call, Start(i) \/ ConnectStarted(i) \/ Peek(i) \/ List(i)
      PROVE  Apart
  BY <1>8 DEF Start, EnsureRunning, ConnectStarted, Peek, List
<1>9. ASSUME NEW i \in Call,
             Initiate(i) \/ Initiated(i) \/ Terminate(i) \/ ListSas(i)
      PROVE  Apart
  <2>1. i = k
    BY <1>9 DEF Initiate, Initiated, Advance, Terminate, ListSas
  <2>2. req' = req /\ pc[k] \in {"initiate", "initiating", "terminate", "listSas"}
    BY <1>9, <2>1 DEF Initiate, Initiated, Terminate, ListSas
  <2>3. Op(k) \notin Writers
    BY <2>2 DEF Placed, MayBeAt, Writers
  <2> QED BY <2>2, <2>3 DEF Op
<1>10. ASSUME NEW d \in Conn, ChildLost(d) \/ IkeLost(d) \/ CharonSettles(d)
      PROVE  Apart
  BY <1>10 DEF ChildLost, IkeLost, CharonSettles
<1>11. ASSUME Kill \/ CharonStop PROVE Apart
  BY <1>11 DEF Kill, Active, CharonStop
<1>12. ASSUME NEW i \in Call, ReadAll(i) \/ LoadAll(i) PROVE Loads(k)'
  <2> SUFFICES ASSUME Op(k) \in Writers, Undisturbed(k), intact'[k],
                      pc'[k] \in {"send", "ok"}
               PROVE  Loads(k)'
    BY <1>12 DEF ReadAll, LoadAll, Loads, Op, Undisturbed
  <2>1. /\ i = k /\ UNCHANGED <<files, ask>> /\ intact[k] /\ pc[k] \in {"load", "send"}
        /\ \A j \in Call \ {k} : pc'[j] = pc[j]
    BY <1>12 DEF ReadAll, LoadAll
  <2>2. req[k] \in Requests /\ ConnOf(k) \in Conn
    BY <2>1, DaemonAssumption DEF Placed, ConnOf
  <2>3. ConnOf(k)' = ConnOf(k) /\ Op(k)' = Op(k)
    BY <2>1 DEF ConnOf, Op
  <2>4. Fresh(k, conf)' = Fresh(k, conf) /\ Fresh(k, sec)' = Fresh(k, sec)
    BY <2>1, <2>3 DEF Fresh
  <2>5. CASE ReadAll(k)
    <3>1. /\ pc'[k] = "send" /\ ReadFiles(k) /\ pc[k] = "load"
          /\ \A j \in Call \ {k} : ~Sending(j)
      BY <2>1, <2>5 DEF ReadAll
    <3>2. rconf'[k] = OnDisk(conf) /\ rsec'[k] = OnDisk(sec)
      BY <3>1 DEF ReadFiles
    <3>3. Op(k) = "ApplyProfile" =>
            /\ Mentions /\ conf[ConnOf(k)] = req[k].p /\ sec[ConnOf(k)] = req[k].p
            /\ req[k].p \notin {Blank, Absent}
      BY <2>1, <2>2, <3>1, DaemonAssumption DEF WriterInv, Saving, PastMain, Op
    <3>4. /\ OnDisk(conf)[ConnOf(k)] \in Fresh(k, conf)
          /\ OnDisk(sec)[ConnOf(k)] \in Fresh(k, sec)
      BY <2>2, <3>3 DEF OnDisk, Fresh, Writers
    <3>5. \A j \in Call : Sending(j)' => j = k
      BY <2>1, <3>1 DEF Sending
    <3> QED BY <2>3, <2>4, <3>1, <3>2, <3>4, <3>5 DEF Loads
  <2>6. CASE LoadAll(k)
    <3>1. /\ pc'[k] = "ok" /\ pc[k] = "send" /\ SendFiles(k, {}) /\ Forget(k)
          /\ UNCHANGED hist
      BY <2>1, <2>6 DEF LoadAll
    <3>2. \A j \in Call : Sending(j) =>
            /\ rconf[j][ConnOf(k)] \in Fresh(k, conf)
            /\ rsec[j][ConnOf(k)] \in Fresh(k, sec)
      BY <2>1, <3>1 DEF WriterInv, Loads
    <3>3. \A j \in Call : Sending(j)' =>
            Sending(j) /\ rconf'[j] = rconf[j] /\ rsec'[j] = rsec[j]
      BY <2>1, <3>1 DEF Sending, Starting, Forget
    <3>4. /\ lconf'[ConnOf(k)] \in Fresh(k, conf)
          /\ lsec'[ConnOf(k)] \in Fresh(k, sec)
      BY <2>2, <3>1, <3>2 DEF SendFiles, Sending
    <3> QED BY <2>3, <2>4, <3>2, <3>3, <3>4 DEF Loads
  <2> QED BY <1>12, <2>1, <2>5, <2>6
<1> QED
  BY NextCases, <1>0, <1>1, <1>2, <1>3, <1>4, <1>5, <1>6, <1>7, <1>8, <1>9,
     <1>10, <1>11, <1>12

LEMMA WriterStep ==
  ASSUME TypeInv, WriterInv, [Next]_vars
  PROVE  WriterInv'
<1>1. SoloInv' /\ MainInv'
  BY SoloStep, MainInvStep DEF WriterInv
<1>2. ASSUME NEW k \in Call PROVE (Saving(k) /\ Removing(k) /\ Loads(k))'
  <2>1. CASE pc'[k] = pc[k]
    BY <2>1, WriterElsewhere
  <2>2. CASE pc'[k] # pc[k]
    BY <2>2, WriterOwn, LoadsOwn
  <2> QED BY <2>1, <2>2
<1> QED BY <1>1, <1>2 DEF WriterInv

LEMMA WriterInit == Init => WriterInv
<1> SUFFICES ASSUME Init PROVE WriterInv
  OBVIOUS
<1>1. SoloInv /\ MainInv
  BY DEF Init, SoloInv, Solo, Undisturbed, MainInv, MidRewrite
<1>2. ASSUME NEW k \in Call PROVE Saving(k) /\ Removing(k) /\ Loads(k)
  BY DEF Init, Saving, Removing, Loads, Undisturbed
<1> QED BY <1>1, <1>2 DEF WriterInv

LEMMA WriterAlways == Spec => []WriterInv
<1>1. TypeInv /\ WriterInv /\ [Next]_vars => WriterInv'
  BY WriterStep
<1> QED
  BY TypeAlways, WriterInit, <1>1, PTL DEF Spec

\* An undisturbed ApplyProfile that has replied "applied" has put its profile
\* in both files, whatever calls for other profiles overlap it, and in charon
\* unless its load-all was crossed or conf.d is only mentioned.
THEOREM ApplyInstalls == Spec => []AppliedIsInstalled
<1>1. ASSUME WriterInv, NEW k \in Call, pc[k] = "ok", Op(k) = "ApplyProfile",
             Undisturbed(k)
      PROVE  /\ conf[ConnOf(k)] = req[k].p /\ sec[ConnOf(k)] = req[k].p
             /\ intact[k] /\ ~OnlyMentioned =>
                  lconf[ConnOf(k)] = req[k].p /\ lsec[ConnOf(k)] = req[k].p
  <2>1. conf[ConnOf(k)] = req[k].p /\ sec[ConnOf(k)] = req[k].p
    BY <1>1 DEF WriterInv, Saving
  <2>2. ASSUME intact[k], ~OnlyMentioned
        PROVE  lconf[ConnOf(k)] = req[k].p /\ lsec[ConnOf(k)] = req[k].p
    <3>1. "include" \in swanctlConf
      BY <1>1, <2>2 DEF WriterInv, Saving, PastMain, Mentions, OnlyMentioned
    <3>2. /\ lconf[ConnOf(k)] \in Fresh(k, conf)
          /\ lsec[ConnOf(k)] \in Fresh(k, sec)
      BY <1>1, <2>2 DEF WriterInv, Loads, Writers
    <3> QED BY <1>1, <2>1, <3>1, <3>2 DEF Fresh
  <2> QED BY <2>1, <2>2
<1>2. WriterInv => AppliedIsInstalled
  BY <1>1 DEF AppliedIsInstalled
<1> QED
  BY WriterAlways, <1>2, PTL

\* An undisturbed RemoveProfile that has replied "profile removed" has left no
\* file but one it could not unlink, and unless its load-all was crossed
\* charon keeps nothing that is not in a file.
THEOREM RemoveErases == Spec => []RemovedIsGone
<1>1. ASSUME WriterInv, NEW k \in Call, pc[k] = "ok", Op(k) = "RemoveProfile",
             Undisturbed(k)
      PROVE  /\ conf[ConnOf(k)] = Absent \/ TheConf \in err[k]
             /\ sec[ConnOf(k)] = Absent \/ TheSec \in err[k]
             /\ intact[k] => /\ lconf[ConnOf(k)] \in {Absent, conf[ConnOf(k)]}
                             /\ lsec[ConnOf(k)] \in {Absent, sec[ConnOf(k)]}
  <2>1. /\ conf[ConnOf(k)] = Absent \/ TheConf \in err[k]
        /\ sec[ConnOf(k)] = Absent \/ TheSec \in err[k]
    BY <1>1 DEF WriterInv, Removing
  <2>2. ASSUME intact[k]
        PROVE  /\ lconf[ConnOf(k)] \in {Absent, conf[ConnOf(k)]}
               /\ lsec[ConnOf(k)] \in {Absent, sec[ConnOf(k)]}
    <3>1. /\ lconf[ConnOf(k)] \in Fresh(k, conf)
          /\ lsec[ConnOf(k)] \in Fresh(k, sec)
      BY <1>1, <2>2 DEF WriterInv, Loads, Writers
    <3> QED BY <3>1 DEF Fresh
  <2> QED BY <2>1, <2>2
<1>2. WriterInv => RemovedIsGone
  BY <1>1 DEF RemovedIsGone
<1> QED
  BY WriterAlways, <1>2, PTL

-----------------------------------------------------------------------------
(* Tunnels: what an undisturbed Connect or Disconnect has achieved.         *)

\* charon keeps CHILD_SAs under an established IKE_SA only.
PhaseInv == \A c \in Conn : ike[c] # "ESTABLISHED" => child[c] = {}

LEMMA PhaseStep ==
  ASSUME TypeInv, PhaseInv, [Next]_vars
  PROVE  PhaseInv'
<1>0. CASE UNCHANGED vars
  BY <1>0 DEF vars, TypeInv, TypeOK, PhaseInv
<1>1. ASSUME NEW i \in Call, NEW r \in Requests, Request(i, r) PROVE PhaseInv'
  BY <1>1 DEF Request, TypeInv, TypeOK, PhaseInv, Goto
<1>2. ASSUME NEW i \in Call, Admit(i) PROVE PhaseInv'
  BY <1>2 DEF Admit, TypeInv, TypeOK, PhaseInv, Goto
<1>3. ASSUME NEW i \in Call, Deny(i) PROVE PhaseInv'
  BY <1>3 DEF Deny, TypeInv, TypeOK, PhaseInv, Goto
<1>4. ASSUME NEW i \in Call, IOError(i) PROVE PhaseInv'
  BY <1>4 DEF IOError, TypeInv, TypeOK, PhaseInv, Goto
<1>5. ASSUME NEW i \in Call, ReadMain(i) PROVE PhaseInv'
  BY <1>5 DEF ReadMain, AfterMain, TypeInv, TypeOK, PhaseInv, Goto
<1>6. ASSUME NEW i \in Call, TruncMain(i) PROVE PhaseInv'
  BY <1>6 DEF TruncMain, TypeInv, TypeOK, PhaseInv, Goto
<1>7. ASSUME NEW i \in Call, WriteMain(i) PROVE PhaseInv'
  BY <1>7 DEF WriteMain, AfterMain, TypeInv, TypeOK, PhaseInv, Goto
<1>8. ASSUME NEW i \in Call, CheckIke(i) PROVE PhaseInv'
  BY <1>8 DEF CheckIke, TypeInv, TypeOK, PhaseInv, Goto
<1>9. ASSUME NEW i \in Call, EnsureXauth(i) PROVE PhaseInv'
  BY <1>9
  DEF EnsureXauth, EnsureRunning, ReadFiles, IkeChecked, TypeInv, TypeOK,
      PhaseInv, Goto
<1>9a. ASSUME NEW i \in Call, XauthStarted(i) PROVE PhaseInv'
  BY <1>9a
  DEF XauthStarted, Started, IkeChecked, TypeInv, TypeOK,
      PhaseInv, Goto
<1>10. ASSUME NEW i \in Call, TruncConf(i) PROVE PhaseInv'
  BY <1>10 DEF TruncConf, TypeInv, TypeOK, PhaseInv, Goto
<1>11. ASSUME NEW i \in Call, WriteConf(i) PROVE PhaseInv'
  BY <1>11 DEF WriteConf, TypeInv, TypeOK, PhaseInv, Goto
<1>12. ASSUME NEW i \in Call, TruncSec(i) PROVE PhaseInv'
  BY <1>12 DEF TruncSec, TypeInv, TypeOK, PhaseInv, Goto
<1>13. ASSUME NEW i \in Call, WriteSec(i) PROVE PhaseInv'
  BY <1>13 DEF WriteSec, TypeInv, TypeOK, PhaseInv, Goto
<1>13a. ASSUME NEW i \in Call, ReadAll(i) PROVE PhaseInv'
  BY <1>13a DEF ReadAll, TypeInv, TypeOK, PhaseInv, Goto
<1>14. ASSUME NEW i \in Call, LoadAll(i) PROVE PhaseInv'
  BY <1>14 DEF LoadAll, TypeInv, TypeOK, PhaseInv, Goto
<1>15. ASSUME NEW i \in Call, RmConf(i) PROVE PhaseInv'
  BY <1>15 DEF RmConf, HeldAfterUnlink, TypeInv, TypeOK, PhaseInv, Goto
<1>16. ASSUME NEW i \in Call, RmSec(i) PROVE PhaseInv'
  BY <1>16 DEF RmSec, HeldAfterUnlink, TypeInv, TypeOK, PhaseInv, Goto
<1>17. ASSUME NEW i \in Call, Start(i) PROVE PhaseInv'
  BY <1>17
  DEF Start, EnsureRunning, ReadFiles, TypeInv, TypeOK, PhaseInv, Goto
<1>17a. ASSUME NEW i \in Call, ConnectStarted(i) PROVE PhaseInv'
  BY <1>17a
  DEF ConnectStarted, Started, TypeInv, TypeOK, PhaseInv, Goto
<1>18. ASSUME NEW i \in Call, Peek(i) PROVE PhaseInv'
  BY <1>18 DEF Peek, TypeInv, TypeOK, PhaseInv, Goto
<1>19. ASSUME NEW i \in Call, List(i) PROVE PhaseInv'
  BY <1>19 DEF List, TypeInv, TypeOK, PhaseInv, Goto
<1>20. ASSUME NEW i \in Call, Initiate(i) PROVE PhaseInv'
  <2>1. \A c \in Conn : ike'[c] # "ESTABLISHED" => ike[c] # "ESTABLISHED"
    BY <1>20 DEF Initiate, TypeInv, TypeOK
  <2> QED BY <1>20, <2>1 DEF Initiate, PhaseInv
<1>21. ASSUME NEW i \in Call, Initiated(i) PROVE PhaseInv'
  BY <1>21
  DEF Initiated, Advance, HeldAfterLoss, TypeInv, TypeOK, PhaseInv, Goto
<1>22. ASSUME NEW i \in Call, Terminate(i) PROVE PhaseInv'
  BY <1>22 DEF Terminate, HeldAfterLoss, TypeInv, TypeOK, PhaseInv, Goto
<1>23. ASSUME NEW i \in Call, ListSas(i) PROVE PhaseInv'
  BY <1>23 DEF ListSas, TypeInv, TypeOK, PhaseInv, Goto
<1>24. ASSUME NEW d \in Conn, ChildLost(d) PROVE PhaseInv'
  BY <1>24 DEF ChildLost, TypeInv, TypeOK, PhaseInv
<1>25. ASSUME NEW d \in Conn, IkeLost(d) PROVE PhaseInv'
  BY <1>25 DEF IkeLost, HeldAfterLoss, TypeInv, TypeOK, PhaseInv
<1>26. ASSUME NEW d \in Conn, CharonSettles(d) PROVE PhaseInv'
  BY <1>26 DEF CharonSettles, TypeInv, TypeOK, PhaseInv
<1>27. ASSUME Kill PROVE PhaseInv'
  BY <1>27 DEF Kill, Active, TypeInv, TypeOK, PhaseInv
<1>28. ASSUME CharonStop PROVE PhaseInv'
  BY <1>28 DEF CharonStop, TypeInv, TypeOK, PhaseInv
<1> QED
  BY NextCases, <1>0, <1>1, <1>2, <1>3, <1>4, <1>5, <1>6, <1>7, <1>8, <1>9,
     <1>9a, <1>10, <1>11, <1>12, <1>13, <1>13a, <1>14, <1>15, <1>16, <1>17,
     <1>17a, <1>18, <1>19, <1>20, <1>21, <1>22, <1>23, <1>24, <1>25, <1>26,
     <1>27, <1>28

\* A Disconnect that replied "disconnected" has left no SA.
Down(k) ==
  Op(k) = "Disconnect" /\ Undisturbed(k) /\ pc[k] = "ok" =>
    ike[ConnOf(k)] = "none" /\ child[ConnOf(k)] = {}

LEMMA DownStep ==
  ASSUME TypeInv, SoloInv, NEW k \in Call, Down(k), [Next]_vars
  PROVE  Down(k)'
<1>0. CASE UNCHANGED vars
  BY <1>0, DaemonAssumption
  DEF vars, TypeInv, TypeOK, SoloInv, Solo, Conflict, Writers, Down,
      Undisturbed, Active, Placed, MayBeAt, Op, ConnOf, Working, Finished
<1>1. ASSUME NEW i \in Call, NEW r \in Requests, Request(i, r) PROVE Down(k)'
  BY <1>1, FirstStepOwn, DaemonAssumption
  DEF Request, Entry, TypeInv, TypeOK, SoloInv, Solo, Conflict, Writers, Down,
      Undisturbed, Active, Placed, MayBeAt, Op, ConnOf, Goto, Working, Finished
<1>2. ASSUME NEW i \in Call, Admit(i) PROVE Down(k)'
  <2>1. req[i] \in Requests
    BY <1>2 DEF Admit, TypeInv, Placed
  <2>2. FirstStep(req[i]) # "ok"
    BY <2>1, FirstStepOwn DEF Working
  <2> QED
    BY <1>2, <2>2
    DEF Admit, Goto, TypeInv, TypeOK, Down, Undisturbed, Op, ConnOf
<1>3. ASSUME NEW i \in Call, Deny(i) PROVE Down(k)'
  BY <1>3, DaemonAssumption
  DEF Deny, TypeInv, TypeOK, SoloInv, Solo, Conflict, Writers, Down,
      Undisturbed, Active, Placed, MayBeAt, Op, ConnOf, Goto, Working, Finished
<1>4. ASSUME NEW i \in Call, IOError(i) PROVE Down(k)'
  BY <1>4, DaemonAssumption
  DEF IOError, TypeInv, TypeOK, SoloInv, Solo, Conflict, Writers, Down,
      Undisturbed, Active, Placed, MayBeAt, Op, ConnOf, Goto, Working, Finished
<1>5. ASSUME NEW i \in Call, ReadMain(i) PROVE Down(k)'
  BY <1>5, DaemonAssumption
  DEF ReadMain, AfterMain, TypeInv, TypeOK, SoloInv, Solo, Conflict, Writers,
      Down, Undisturbed, Active, Placed, MayBeAt, Op, ConnOf, Goto, Working,
      Finished
<1>6. ASSUME NEW i \in Call, TruncMain(i) PROVE Down(k)'
  BY <1>6, DaemonAssumption
  DEF TruncMain, TypeInv, TypeOK, SoloInv, Solo, Conflict, Writers,
      Down, Undisturbed, Active, Placed, MayBeAt, Op, ConnOf, Goto, Working,
      Finished
<1>7. ASSUME NEW i \in Call, WriteMain(i) PROVE Down(k)'
  BY <1>7, DaemonAssumption
  DEF WriteMain, AfterMain, TypeInv, TypeOK, SoloInv, Solo, Conflict, Writers,
      Down, Undisturbed, Active, Placed, MayBeAt, Op, ConnOf, Goto, Working,
      Finished
<1>8. ASSUME NEW i \in Call, CheckIke(i) PROVE Down(k)'
  BY <1>8, DaemonAssumption
  DEF CheckIke, TypeInv, TypeOK, SoloInv, Solo, Conflict, Writers, Down,
      Undisturbed, Active, Placed, MayBeAt, Op, ConnOf, Goto, Working, Finished
<1>9. ASSUME NEW i \in Call, EnsureXauth(i) PROVE Down(k)'
  BY <1>9, DaemonAssumption
  DEF EnsureXauth, EnsureRunning, ReadFiles, IkeChecked, TypeInv, TypeOK,
      SoloInv, Solo, Conflict, Writers, Down, Undisturbed, Active, Placed,
      MayBeAt, Op, ConnOf, Goto, Working, Finished
<1>9a. ASSUME NEW i \in Call, XauthStarted(i) PROVE Down(k)'
  BY <1>9a, DaemonAssumption
  DEF XauthStarted, Started, IkeChecked, TypeInv, TypeOK,
      SoloInv, Solo, Conflict, Writers, Down, Undisturbed, Active, Placed,
      MayBeAt, Op, ConnOf, Goto, Working, Finished
<1>10. ASSUME NEW i \in Call, TruncConf(i) PROVE Down(k)'
  BY <1>10, DaemonAssumption
  DEF TruncConf, TypeInv, TypeOK, SoloInv, Solo, Conflict, Writers, Down,
      Undisturbed, Active, Placed, MayBeAt, Op, ConnOf, Goto, Working, Finished
<1>11. ASSUME NEW i \in Call, WriteConf(i) PROVE Down(k)'
  BY <1>11, DaemonAssumption
  DEF WriteConf, TypeInv, TypeOK, SoloInv, Solo, Conflict, Writers, Down,
      Undisturbed, Active, Placed, MayBeAt, Op, ConnOf, Goto, Working, Finished
<1>12. ASSUME NEW i \in Call, TruncSec(i) PROVE Down(k)'
  BY <1>12, DaemonAssumption
  DEF TruncSec, TypeInv, TypeOK, SoloInv, Solo, Conflict, Writers, Down,
      Undisturbed, Active, Placed, MayBeAt, Op, ConnOf, Goto, Working, Finished
<1>13. ASSUME NEW i \in Call, WriteSec(i) PROVE Down(k)'
  BY <1>13, DaemonAssumption
  DEF WriteSec, TypeInv, TypeOK, SoloInv, Solo, Conflict, Writers, Down,
      Undisturbed, Active, Placed, MayBeAt, Op, ConnOf, Goto, Working, Finished
<1>13a. ASSUME NEW i \in Call, ReadAll(i) PROVE Down(k)'
  BY <1>13a, DaemonAssumption
  DEF ReadAll, TypeInv, TypeOK, SoloInv, Solo, Conflict, Writers, Down,
      Undisturbed, Active, Placed, MayBeAt, Op, ConnOf, Goto, Working, Finished
<1>14. ASSUME NEW i \in Call, LoadAll(i) PROVE Down(k)'
  BY <1>14, DaemonAssumption
  DEF LoadAll, TypeInv, TypeOK, SoloInv, Solo, Conflict, Writers, Down,
      Undisturbed, Active, Placed, MayBeAt, Op, ConnOf, Goto, Working, Finished
<1>15. ASSUME NEW i \in Call, RmConf(i) PROVE Down(k)'
  BY <1>15, DaemonAssumption
  DEF RmConf, HeldAfterUnlink, TypeInv, TypeOK, SoloInv, Solo, Conflict,
      Writers, Down, Undisturbed, Active, Placed, MayBeAt, Op, ConnOf, Goto,
      Working, Finished
<1>16. ASSUME NEW i \in Call, RmSec(i) PROVE Down(k)'
  BY <1>16, DaemonAssumption
  DEF RmSec, HeldAfterUnlink, TypeInv, TypeOK, SoloInv, Solo, Conflict,
      Writers, Down, Undisturbed, Active, Placed, MayBeAt, Op, ConnOf, Goto,
      Working, Finished
<1>17. ASSUME NEW i \in Call, Start(i) PROVE Down(k)'
  BY <1>17, DaemonAssumption
  DEF Start, EnsureRunning, ReadFiles, TypeInv, TypeOK, SoloInv, Solo,
      Conflict, Writers, Down, Undisturbed, Active, Placed, MayBeAt, Op,
      ConnOf, Goto, Working, Finished
<1>17a. ASSUME NEW i \in Call, ConnectStarted(i) PROVE Down(k)'
  BY <1>17a, DaemonAssumption
  DEF ConnectStarted, Started, TypeInv, TypeOK, SoloInv, Solo,
      Conflict, Writers, Down, Undisturbed, Active, Placed, MayBeAt, Op,
      ConnOf, Goto, Working, Finished
<1>18. ASSUME NEW i \in Call, Peek(i) PROVE Down(k)'
  BY <1>18, DaemonAssumption
  DEF Peek, TypeInv, TypeOK, SoloInv, Solo, Conflict, Writers, Down,
      Undisturbed, Active, Placed, MayBeAt, Op, ConnOf, Goto, Working, Finished
<1>19. ASSUME NEW i \in Call, List(i) PROVE Down(k)'
  BY <1>19, DaemonAssumption
  DEF List, TypeInv, TypeOK, SoloInv, Solo, Conflict, Writers, Down,
      Undisturbed, Active, Placed, MayBeAt, Op, ConnOf, Goto, Working, Finished
<1>20. ASSUME NEW i \in Call, Initiate(i) PROVE Down(k)'
  <2>1. Op(i) = "Connect" /\ Active(i) /\ UNCHANGED <<req, child, hist>>
    BY <1>20 DEF Initiate, TypeInv, Placed, MayBeAt, Active, Finished
  <2>3. ASSUME Op(k) = "Disconnect", Undisturbed(k), pc'[k] = "ok"
        PROVE  ike[ConnOf(k)] = "none" /\ child[ConnOf(k)] = {}
               /\ ConnOf(k) # ConnOf(i)
    <3>1. i # k /\ pc[k] = "ok"
      BY <1>20, <2>1, <2>3 DEF Initiate, Advance, Goto, TypeInv, TypeOK
    <3>2. ~Conflict(req[i], req[k])
      BY <2>1, <2>3, <3>1 DEF SoloInv, Solo
    <3> QED BY <2>1, <2>3, <3>1, <3>2 DEF Down, Conflict, Writers, Op, ConnOf
  <2>4. \A c \in Conn \ {ConnOf(i)} : ike'[c] = ike[c]
    BY <1>20 DEF Initiate, TypeInv, TypeOK
  <2>5. pc[k] # "idle" => ConnOf(k) \in Conn
    BY DaemonAssumption DEF TypeInv, Placed, ConnOf
  <2>6. pc'[k] = "ok" => pc[k] # "idle"
    BY <1>20 DEF Initiate, Advance, Goto, TypeInv, TypeOK
  <2> QED
    BY <2>1, <2>3, <2>4, <2>5, <2>6 DEF Down, Undisturbed, Op, ConnOf
<1>21. ASSUME NEW i \in Call, Initiated(i) PROVE Down(k)'
  <2>1. Op(i) = "Connect" /\ Active(i) /\ UNCHANGED <<req, hist>>
    BY <1>21 DEF Initiated, TypeInv, Placed, MayBeAt, Active, Finished
  <2>3. ASSUME Op(k) = "Disconnect", Undisturbed(k), pc'[k] = "ok"
        PROVE  ike[ConnOf(k)] = "none" /\ child[ConnOf(k)] = {}
               /\ ConnOf(k) # ConnOf(i)
    <3>1. i # k /\ pc[k] = "ok"
      BY <1>21, <2>1, <2>3 DEF Initiated, Advance, Goto, TypeInv, TypeOK
    <3>2. ~Conflict(req[i], req[k])
      BY <2>1, <2>3, <3>1 DEF SoloInv, Solo
    <3> QED BY <2>1, <2>3, <3>1, <3>2 DEF Down, Conflict, Writers, Op, ConnOf
  <2>4. \A c \in Conn \ {ConnOf(i)} : ike'[c] = ike[c] /\ child'[c] = child[c]
    BY <1>21 DEF Initiated, TypeInv, TypeOK
  <2>5. pc[k] # "idle" => ConnOf(k) \in Conn
    BY DaemonAssumption DEF TypeInv, Placed, ConnOf
  <2>6. pc'[k] = "ok" => pc[k] # "idle"
    BY <1>21 DEF Initiated, Advance, Goto, TypeInv, TypeOK
  <2> QED
    BY <2>1, <2>3, <2>4, <2>5, <2>6 DEF Down, Undisturbed, Op, ConnOf
<1>22. ASSUME NEW i \in Call, Terminate(i) PROVE Down(k)'
  BY <1>22, DaemonAssumption
  DEF Terminate, HeldAfterLoss, TypeInv, TypeOK, SoloInv, Solo, Conflict,
      Writers, Down, Undisturbed, Active, Placed, MayBeAt, Op, ConnOf, Goto,
      Working, Finished
<1>23. ASSUME NEW i \in Call, ListSas(i) PROVE Down(k)'
  BY <1>23, DaemonAssumption
  DEF ListSas, TypeInv, TypeOK, SoloInv, Solo, Conflict, Writers, Down,
      Undisturbed, Active, Placed, MayBeAt, Op, ConnOf, Goto, Working, Finished
<1>24. ASSUME NEW d \in Conn, ChildLost(d) PROVE Down(k)'
  BY <1>24, DaemonAssumption
  DEF ChildLost, TypeInv, TypeOK, SoloInv, Solo, Conflict, Writers, Down,
      Undisturbed, Active, Placed, MayBeAt, Op, ConnOf, Working, Finished
<1>25. ASSUME NEW d \in Conn, IkeLost(d) PROVE Down(k)'
  BY <1>25, DaemonAssumption
  DEF IkeLost, HeldAfterLoss, TypeInv, TypeOK, SoloInv, Solo, Conflict,
      Writers, Down, Undisturbed, Active, Placed, MayBeAt, Op, ConnOf, Working,
      Finished
<1>26. ASSUME NEW d \in Conn, CharonSettles(d) PROVE Down(k)'
  BY <1>26, DaemonAssumption
  DEF CharonSettles, TypeInv, TypeOK, SoloInv, Solo, Conflict, Writers, Down,
      Undisturbed, Active, Placed, MayBeAt, Op, ConnOf, Working, Finished
<1>27. ASSUME Kill PROVE Down(k)'
  BY <1>27, DaemonAssumption
  DEF Kill, Active, TypeInv, TypeOK, SoloInv, Solo, Conflict, Writers, Down,
      Undisturbed, Active, Placed, MayBeAt, Op, ConnOf, Working, Finished
<1>28. ASSUME CharonStop PROVE Down(k)'
  BY <1>28, DaemonAssumption
  DEF CharonStop, TypeInv, TypeOK, SoloInv, Solo, Conflict, Writers,
      Down, Undisturbed, Active, Placed, MayBeAt, Op, ConnOf, Working, Finished
<1> QED
  BY NextCases, <1>0, <1>1, <1>2, <1>3, <1>4, <1>5, <1>6, <1>7, <1>8, <1>9,
     <1>9a, <1>10, <1>11, <1>12, <1>13, <1>13a, <1>14, <1>15, <1>16, <1>17,
     <1>17a, <1>18, <1>19, <1>20, <1>21, <1>22, <1>23, <1>24, <1>25, <1>26,
     <1>27, <1>28

\* How far an undisturbed Connect has come: every child before the current
\* one is up or has failed; the conf still names as many as it counted.
Trying(k) ==
  LET c == ConnOf(k) IN
  /\ pc[k] \notin {"initiate", "initiating"} \cup Finished => at[k] = 0
  /\ pc[k] \notin {"initiate", "initiating", "rmSec", "load", "send"} \cup Finished =>
       err[k] = {}
  /\ pc[k] \in {"initiate", "initiating"} => at[k] > 0
  /\ Op(k) = "Connect" /\ Undisturbed(k) /\ at[k] > 0 =>
       /\ pc[k] \in {"initiate", "initiating", "ok", "failed"} =>
            total[k] \in ChildCounts(conf[c])
       /\ pc[k] \in {"initiate", "initiating"} =>
            at[k] <= total[k] /\ 1 .. at[k] - 1 \subseteq child[c] \cup err[k]
       /\ pc[k] \in {"ok", "failed"} => 1 .. total[k] \subseteq child[c] \cup err[k]
       /\ pc[k] = "ok" => err[k] = {}

\* What the steps of others leave alone while an undisturbed Connect stays
\* where it is.
OthersSpare(k) ==
  LET c == ConnOf(k) IN
  /\ conf'[c] = conf[c]
  /\ child[c] \subseteq child'[c]
  /\ err'[k] = err[k] /\ total'[k] = total[k]

LEMMA SpareStep ==
  ASSUME TypeInv, PhaseInv, NEW k \in Call, Solo(k), Op(k) = "Connect",
         ConnOf(k) \in Conn, pc[k] # "idle", pc'[k] = pc[k], at'[k] = at[k],
         Undisturbed(k)', Undisturbed(k), [Next]_vars
  PROVE  OthersSpare(k)
<1>0. CASE UNCHANGED vars
  BY <1>0
  DEF vars, TypeInv, TypeOK, PhaseInv, OthersSpare, Solo, Conflict, Writers,
      Undisturbed, Active, Placed, MayBeAt, Op, ConnOf, Finished
<1>1. ASSUME NEW i \in Call, NEW r \in Requests, Request(i, r) PROVE OthersSpare(k)
  BY <1>1
  DEF Request, TypeInv, TypeOK, PhaseInv, OthersSpare, Solo, Conflict, Writers,
      Undisturbed, Active, Placed, MayBeAt, Op, ConnOf, Goto, Finished
<1>2. ASSUME NEW i \in Call, Admit(i) PROVE OthersSpare(k)
  BY <1>2
  DEF Admit, TypeInv, TypeOK, PhaseInv, OthersSpare, Solo, Conflict, Writers,
      Undisturbed, Active, Placed, MayBeAt, Op, ConnOf, Goto, Finished
<1>3. ASSUME NEW i \in Call, Deny(i) PROVE OthersSpare(k)
  BY <1>3
  DEF Deny, TypeInv, TypeOK, PhaseInv, OthersSpare, Solo, Conflict, Writers,
      Undisturbed, Active, Placed, MayBeAt, Op, ConnOf, Goto, Finished
<1>4. ASSUME NEW i \in Call, IOError(i) PROVE OthersSpare(k)
  BY <1>4
  DEF IOError, TypeInv, TypeOK, PhaseInv, OthersSpare, Solo, Conflict, Writers,
      Undisturbed, Active, Placed, MayBeAt, Op, ConnOf, Goto, Finished
<1>5. ASSUME NEW i \in Call, ReadMain(i) PROVE OthersSpare(k)
  BY <1>5
  DEF ReadMain, AfterMain, TypeInv, TypeOK, PhaseInv, OthersSpare, Solo,
      Conflict, Writers, Undisturbed, Active, Placed, MayBeAt, Op, ConnOf,
      Goto, Finished
<1>6. ASSUME NEW i \in Call, TruncMain(i) PROVE OthersSpare(k)
  BY <1>6
  DEF TruncMain, TypeInv, TypeOK, PhaseInv, OthersSpare, Solo,
      Conflict, Writers, Undisturbed, Active, Placed, MayBeAt, Op, ConnOf,
      Goto, Finished
<1>7. ASSUME NEW i \in Call, WriteMain(i) PROVE OthersSpare(k)
  BY <1>7
  DEF WriteMain, AfterMain, TypeInv, TypeOK, PhaseInv, OthersSpare, Solo,
      Conflict, Writers, Undisturbed, Active, Placed, MayBeAt, Op, ConnOf,
      Goto, Finished
<1>8. ASSUME NEW i \in Call, CheckIke(i) PROVE OthersSpare(k)
  BY <1>8
  DEF CheckIke, TypeInv, TypeOK, PhaseInv, OthersSpare, Solo, Conflict,
      Writers, Undisturbed, Active, Placed, MayBeAt, Op, ConnOf, Goto, Finished
<1>9. ASSUME NEW i \in Call, EnsureXauth(i) PROVE OthersSpare(k)
  BY <1>9
  DEF EnsureXauth, EnsureRunning, ReadFiles, IkeChecked, TypeInv, TypeOK,
      PhaseInv, OthersSpare, Solo, Conflict, Writers, Undisturbed, Active,
      Placed, MayBeAt, Op, ConnOf, Goto, Finished
<1>9a. ASSUME NEW i \in Call, XauthStarted(i) PROVE OthersSpare(k)
  BY <1>9a
  DEF XauthStarted, Started, IkeChecked, TypeInv, TypeOK,
      PhaseInv, OthersSpare, Solo, Conflict, Writers, Undisturbed, Active,
      Placed, MayBeAt, Op, ConnOf, Goto, Finished
<1>10. ASSUME NEW i \in Call, TruncConf(i) PROVE OthersSpare(k)
  <2>1. i # k /\ pc[i] = "truncConf" /\ Op(i) = "ApplyProfile"
    BY <1>10 DEF TruncConf, Goto, TypeInv, TypeOK, Placed, MayBeAt
  <2>2. ConnOf(i) # ConnOf(k)
    BY <2>1 DEF Solo, Conflict, Writers, Active, Finished, Op, ConnOf
  <2>3. conf'[ConnOf(k)] = conf[ConnOf(k)] /\ UNCHANGED <<child, err, total>>
    BY <1>10, <2>2 DEF TruncConf, TypeInv, TypeOK
  <2> QED BY <2>3 DEF OthersSpare
<1>11. ASSUME NEW i \in Call, WriteConf(i) PROVE OthersSpare(k)
  <2>1. i # k /\ pc[i] = "writeConf" /\ Op(i) = "ApplyProfile"
    BY <1>11 DEF WriteConf, Goto, TypeInv, TypeOK, Placed, MayBeAt
  <2>2. ConnOf(i) # ConnOf(k)
    BY <2>1 DEF Solo, Conflict, Writers, Active, Finished, Op, ConnOf
  <2>3. conf'[ConnOf(k)] = conf[ConnOf(k)] /\ UNCHANGED <<child, err, total>>
    BY <1>11, <2>2 DEF WriteConf, TypeInv, TypeOK
  <2> QED BY <2>3 DEF OthersSpare
<1>12. ASSUME NEW i \in Call, TruncSec(i) PROVE OthersSpare(k)
  BY <1>12
  DEF TruncSec, TypeInv, TypeOK, PhaseInv, OthersSpare, Solo, Conflict,
      Writers, Undisturbed, Active, Placed, MayBeAt, Op, ConnOf, Goto, Finished
<1>13. ASSUME NEW i \in Call, WriteSec(i) PROVE OthersSpare(k)
  BY <1>13
  DEF WriteSec, TypeInv, TypeOK, PhaseInv, OthersSpare, Solo, Conflict,
      Writers, Undisturbed, Active, Placed, MayBeAt, Op, ConnOf, Goto, Finished
<1>13a. ASSUME NEW i \in Call, ReadAll(i) PROVE OthersSpare(k)
  BY <1>13a
  DEF ReadAll, TypeInv, TypeOK, PhaseInv, OthersSpare, Solo, Conflict, Writers,
      Undisturbed, Active, Placed, MayBeAt, Op, ConnOf, Goto, Finished
<1>14. ASSUME NEW i \in Call, LoadAll(i) PROVE OthersSpare(k)
  BY <1>14
  DEF LoadAll, TypeInv, TypeOK, PhaseInv, OthersSpare, Solo, Conflict, Writers,
      Undisturbed, Active, Placed, MayBeAt, Op, ConnOf, Goto, Finished
<1>15. ASSUME NEW i \in Call, RmConf(i) PROVE OthersSpare(k)
  <2>1. i # k /\ pc[i] = "rmConf" /\ Op(i) = "RemoveProfile"
    BY <1>15 DEF RmConf, Goto, TypeInv, TypeOK, Placed, MayBeAt
  <2>2. ConnOf(i) # ConnOf(k)
    BY <2>1 DEF Solo, Conflict, Writers, Active, Finished, Op, ConnOf
  <2>3. conf'[ConnOf(k)] = conf[ConnOf(k)] /\ UNCHANGED <<child, total>>
    BY <1>15, <2>2 DEF RmConf, TypeInv, TypeOK
  <2>4. err'[k] = err[k]
    BY <1>15, <2>1 DEF RmConf, TypeInv, TypeOK
  <2> QED BY <2>3, <2>4 DEF OthersSpare
<1>16. ASSUME NEW i \in Call, RmSec(i) PROVE OthersSpare(k)
  <2>1. i # k
    BY <1>16 DEF RmSec, Goto, TypeInv, TypeOK
  <2>2. err'[k] = err[k] /\ UNCHANGED <<conf, child, total>>
    BY <1>16, <2>1 DEF RmSec, TypeInv, TypeOK
  <2> QED BY <2>2 DEF OthersSpare
<1>17. ASSUME NEW i \in Call, Start(i) PROVE OthersSpare(k)
  BY <1>17
  DEF Start, EnsureRunning, ReadFiles, TypeInv, TypeOK, PhaseInv,
      OthersSpare, Solo, Conflict, Writers, Undisturbed, Active, Placed,
      MayBeAt, Op, ConnOf, Goto, Finished
<1>17a. ASSUME NEW i \in Call, ConnectStarted(i) PROVE OthersSpare(k)
  BY <1>17a
  DEF ConnectStarted, Started, TypeInv, TypeOK, PhaseInv,
      OthersSpare, Solo, Conflict, Writers, Undisturbed, Active, Placed,
      MayBeAt, Op, ConnOf, Goto, Finished
<1>18. ASSUME NEW i \in Call, Peek(i) PROVE OthersSpare(k)
  BY <1>18
  DEF Peek, TypeInv, TypeOK, PhaseInv, OthersSpare, Solo, Conflict, Writers,
      Undisturbed, Active, Placed, MayBeAt, Op, ConnOf, Goto, Finished
<1>19. ASSUME NEW i \in Call, List(i) PROVE OthersSpare(k)
  BY <1>19
  DEF List, TypeInv, TypeOK, PhaseInv, OthersSpare, Solo, Conflict, Writers,
      Undisturbed, Active, Placed, MayBeAt, Op, ConnOf, Goto, Finished
<1>20. ASSUME NEW i \in Call, Initiate(i) PROVE OthersSpare(k)
  <2>1. UNCHANGED <<conf, child, total>>
    BY <1>20 DEF Initiate
  <2>2. i # k
    <3>1. pc[i] = "initiate"
      BY <1>20 DEF Initiate
    <3>2. pc'[i] = "initiating" \/ at'[i] = at[i] + 1
      BY <1>20 DEF Initiate, Advance, Goto, TypeInv, TypeOK
    <3>3. at[i] \in Nat
      BY DEF TypeInv, TypeOK
    <3> QED BY <3>1, <3>2, <3>3
  <2>3. err'[k] = err[k]
    BY <1>20, <2>2 DEF Initiate, Advance, TypeInv, TypeOK
  <2> QED BY <2>1, <2>3 DEF OthersSpare
<1>21. ASSUME NEW i \in Call, Initiated(i) PROVE OthersSpare(k)
  BY <1>21
  DEF Initiated, Advance, HeldAfterLoss, TypeInv, TypeOK, PhaseInv,
      OthersSpare, Solo, Conflict, Writers, Undisturbed, Active, Placed,
      MayBeAt, Op, ConnOf, Goto, Finished
<1>22. ASSUME NEW i \in Call, Terminate(i) PROVE OthersSpare(k)
  <2>1. i # k /\ pc[i] = "terminate" /\ Op(i) = "Disconnect"
    BY <1>22 DEF Terminate, Goto, TypeInv, TypeOK, Placed, MayBeAt
  <2>2. ConnOf(i) # ConnOf(k)
    BY <2>1 DEF Solo, Conflict, Writers, Active, Finished, Op, ConnOf
  <2>3. child'[ConnOf(k)] = child[ConnOf(k)] /\ UNCHANGED <<conf, err, total>>
    BY <1>22, <2>2 DEF Terminate, TypeInv, TypeOK
  <2> QED BY <2>3 DEF OthersSpare
<1>23. ASSUME NEW i \in Call, ListSas(i) PROVE OthersSpare(k)
  BY <1>23
  DEF ListSas, TypeInv, TypeOK, PhaseInv, OthersSpare, Solo, Conflict, Writers,
      Undisturbed, Active, Placed, MayBeAt, Op, ConnOf, Goto, Finished
<1>24. ASSUME NEW d \in Conn, ChildLost(d) PROVE OthersSpare(k)
  BY <1>24
  DEF ChildLost, TypeInv, TypeOK, PhaseInv, OthersSpare, Solo, Conflict,
      Writers, Undisturbed, Active, Placed, MayBeAt, Op, ConnOf, Finished
<1>25. ASSUME NEW d \in Conn, IkeLost(d) PROVE OthersSpare(k)
  BY <1>25
  DEF IkeLost, HeldAfterLoss, TypeInv, TypeOK, PhaseInv, OthersSpare, Solo,
      Conflict, Writers, Undisturbed, Active, Placed, MayBeAt, Op, ConnOf,
      Finished
<1>26. ASSUME NEW d \in Conn, CharonSettles(d) PROVE OthersSpare(k)
  BY <1>26
  DEF CharonSettles, TypeInv, TypeOK, PhaseInv, OthersSpare, Solo, Conflict,
      Writers, Undisturbed, Active, Placed, MayBeAt, Op, ConnOf, Finished
<1>27. ASSUME Kill PROVE OthersSpare(k)
  BY <1>27
  DEF Kill, Active, TypeInv, TypeOK, PhaseInv, OthersSpare, Solo, Conflict,
      Writers, Undisturbed, Active, Placed, MayBeAt, Op, ConnOf, Finished
<1>28. ASSUME CharonStop PROVE OthersSpare(k)
  BY <1>28
  DEF CharonStop, TypeInv, TypeOK, PhaseInv, OthersSpare, Solo,
      Conflict, Writers, Undisturbed, Active, Placed, MayBeAt, Op, ConnOf,
      Finished
<1> QED
  BY NextCases, <1>0, <1>1, <1>2, <1>3, <1>4, <1>5, <1>6, <1>7, <1>8, <1>9,
     <1>9a, <1>10, <1>11, <1>12, <1>13, <1>13a, <1>14, <1>15, <1>16, <1>17,
     <1>17a, <1>18, <1>19, <1>20, <1>21, <1>22, <1>23, <1>24, <1>25, <1>26,
     <1>27, <1>28

LEMMA TryingElsewhere ==
  ASSUME TypeInv, PhaseInv, SoloInv, [Next]_vars, NEW k \in Call, Trying(k),
         pc'[k] = pc[k], at'[k] = at[k], err'[k] = err[k]
  PROVE  Trying(k)'
<1> SUFFICES ASSUME Op(k)' = "Connect", Undisturbed(k)', at[k] > 0
             PROVE  Trying(k)'
  BY DEF Trying, TypeInv, TypeOK
<1>0. pc[k] # "idle"
  BY DEF Trying, TypeInv, TypeOK, Finished
<1>1. req'[k] = req[k] /\ Undisturbed(k)
  <2>1. CASE OnlyEnds
    BY <2>1 DEF OnlyEnds
  <2>2. ASSUME NEW j \in Call, NEW r \in Requests, Request(j, r)
        PROVE  req'[k] = req[k] /\ Undisturbed(k)
    BY <1>0, <2>2 DEF Request, Undisturbed, TypeInv, TypeOK
  <2> QED BY <2>1, <2>2, OnlyEndsStep
<1>2. ConnOf(k) \in Conn
  BY <1>0, DaemonAssumption DEF TypeInv, Placed, ConnOf
<1>3. OthersSpare(k)
  BY <1>0, <1>1, <1>2, SpareStep DEF SoloInv, Op
<1>4. ChildCounts(conf[ConnOf(k)])' = ChildCounts(conf[ConnOf(k)])
  BY <1>1, <1>3 DEF OthersSpare, ChildCounts, IsV1, ConnOf
<1> QED
  BY <1>1, <1>3, <1>4 DEF Trying, OthersSpare, Op, ConnOf

\* One round of connect's loop: the child it was at is now up or has failed.
LEMMA AdvanceTrying ==
  ASSUME TypeInv, NEW k \in Call, Trying(k), NEW e \in SUBSET Nat,
         Advance(k, e), pc[k] \in {"initiate", "initiating"}, ConnOf(k) \in Conn,
         UNCHANGED <<conf, total, ask, hist>>, e \subseteq {at[k]},
         child[ConnOf(k)] \subseteq child'[ConnOf(k)],
         at[k] \in child'[ConnOf(k)] \cup e
  PROVE  Trying(k)'
<1>1. at'[k] = at[k] + 1 /\ err'[k] = err[k] \cup e
  BY DEF Advance, TypeInv, TypeOK
<1>2. at[k] \in Nat /\ total[k] \in Nat
  BY DEF TypeInv, TypeOK
<1>3. pc'[k] = IF at[k] < total[k] THEN "initiate"
               ELSE IF err[k] \cup e = {} THEN "ok" ELSE "failed"
  BY DEF Advance, Goto, TypeInv, TypeOK
<1>4. UNCHANGED <<req, alone, latest>>
  OBVIOUS
<1>5. ChildCounts(conf[ConnOf(k)])' = ChildCounts(conf[ConnOf(k)])
  BY <1>4 DEF ChildCounts, IsV1, ConnOf
<1> SUFFICES ASSUME Op(k) = "Connect", Undisturbed(k), at[k] > 0
             PROVE  Trying(k)'
  <2>1. Op(k)' = Op(k) /\ Undisturbed(k)' = Undisturbed(k)
    BY <1>4 DEF Op, Undisturbed
  <2>2. pc'[k] \in {"initiate", "ok", "failed"}
    BY <1>3
  <2>3. at[k] > 0 /\ at'[k] > 0
    BY <1>1, <1>2 DEF Trying
  <2> QED BY <2>1, <2>2, <2>3 DEF Trying, Finished
<1>6. 1 .. at[k] - 1 \subseteq child[ConnOf(k)] \cup err[k]
  BY DEF Trying
<1>7. 1 .. at[k] \subseteq child'[ConnOf(k)] \cup err'[k]
  BY <1>1, <1>2, <1>6
<1>8. at[k] <= total[k] /\ total[k] \in ChildCounts(conf[ConnOf(k)])
  BY DEF Trying
<1>9. CASE at[k] < total[k]
  <2>1. at'[k] - 1 = at[k] /\ at'[k] <= total'[k] /\ at'[k] > 0
    BY <1>1, <1>2, <1>9
  <2>2. pc'[k] = "initiate" /\ ConnOf(k)' = ConnOf(k)
    BY <1>3, <1>4, <1>9 DEF ConnOf
  <2>3. 1 .. at'[k] - 1 \subseteq child'[ConnOf(k)] \cup err'[k]
    BY <1>7, <2>1
  <2> QED
    BY <1>5, <1>8, <2>1, <2>2, <2>3 DEF Trying, Finished
<1>10. CASE ~(at[k] < total[k])
  <2>1. at[k] = total[k]
    BY <1>2, <1>8, <1>10
  <2> QED
    BY <1>1, <1>3, <1>4, <1>5, <1>7, <1>8, <1>10, <2>1
    DEF Trying, ConnOf, Finished
<1> QED BY <1>9, <1>10

LEMMA TryingOwn ==
  ASSUME TypeInv, NEW k \in Call, Trying(k),
         pc'[k] # pc[k] \/ at'[k] # at[k] \/ err'[k] # err[k], [Next]_vars
  PROVE  Trying(k)'
<1>0. CASE UNCHANGED vars
  BY <1>0, DaemonAssumption
  DEF vars, TypeInv, TypeOK, Trying, Undisturbed, Placed, MayBeAt, Op, ConnOf,
      Goto, Working, Finished
<1>1. ASSUME NEW i \in Call, NEW r \in Requests, Request(i, r) PROVE Trying(k)'
  BY <1>1, FirstStepOwn, DaemonAssumption
  DEF Request, Entry, TypeInv, TypeOK, Trying, Undisturbed, Active, Placed,
      MayBeAt, Op, ConnOf, Goto, Working, Finished
<1>2. ASSUME NEW i \in Call, Admit(i) PROVE Trying(k)'
  <2>1. i = k /\ pc[k] = "authorize"
    BY <1>2 DEF Admit, Goto, TypeInv, TypeOK
  <2>2. req[k] \in Requests
    BY <2>1 DEF TypeInv, Placed
  <2>3. pc'[k] \in (Working \ {"initiate", "initiating"}) \cup {"failed"}
    BY <1>2, <2>1, <2>2, DaemonAssumption
    DEF Admit, Goto, FirstStep, Methods, Working, TypeInv, TypeOK
  <2>4. at'[k] = 0 /\ err'[k] = {}
    BY <1>2, <2>1 DEF Admit, Trying, Finished
  <2> QED BY <2>3, <2>4 DEF Trying, Finished, Working
<1>3. ASSUME NEW i \in Call, Deny(i) PROVE Trying(k)'
  BY <1>3, DaemonAssumption
  DEF Deny, TypeInv, TypeOK, Trying, Undisturbed, Placed, MayBeAt, Op, ConnOf,
      Goto, Working, Finished
<1>4. ASSUME NEW i \in Call, IOError(i) PROVE Trying(k)'
  BY <1>4, DaemonAssumption
  DEF IOError, TypeInv, TypeOK, Trying, Undisturbed, Placed, MayBeAt, Op,
      ConnOf, Goto, Working, Finished
<1>5. ASSUME NEW i \in Call, ReadMain(i) PROVE Trying(k)'
  BY <1>5, DaemonAssumption
  DEF ReadMain, AfterMain, TypeInv, TypeOK, Trying, Undisturbed, Placed,
      MayBeAt, Op, ConnOf, Goto, Working, Finished
<1>6. ASSUME NEW i \in Call, TruncMain(i) PROVE Trying(k)'
  BY <1>6, DaemonAssumption
  DEF TruncMain, TypeInv, TypeOK, Trying, Undisturbed, Placed,
      MayBeAt, Op, ConnOf, Goto, Working, Finished
<1>7. ASSUME NEW i \in Call, WriteMain(i) PROVE Trying(k)'
  BY <1>7, DaemonAssumption
  DEF WriteMain, AfterMain, TypeInv, TypeOK, Trying, Undisturbed, Placed,
      MayBeAt, Op, ConnOf, Goto, Working, Finished
<1>8. ASSUME NEW i \in Call, CheckIke(i) PROVE Trying(k)'
  BY <1>8, DaemonAssumption
  DEF CheckIke, TypeInv, TypeOK, Trying, Undisturbed, Placed, MayBeAt, Op,
      ConnOf, Goto, Working, Finished
<1>9. ASSUME NEW i \in Call, EnsureXauth(i) PROVE Trying(k)'
  BY <1>9, DaemonAssumption
  DEF EnsureXauth, EnsureRunning, ReadFiles, IkeChecked, TypeInv, TypeOK,
      Trying, Undisturbed, Placed, MayBeAt, Op, ConnOf, Goto, Working, Finished
<1>9a. ASSUME NEW i \in Call, XauthStarted(i) PROVE Trying(k)'
  BY <1>9a, DaemonAssumption
  DEF XauthStarted, Started, IkeChecked, TypeInv, TypeOK,
      Trying, Undisturbed, Placed, MayBeAt, Op, ConnOf, Goto, Working, Finished
<1>10. ASSUME NEW i \in Call, TruncConf(i) PROVE Trying(k)'
  BY <1>10, DaemonAssumption
  DEF TruncConf, TypeInv, TypeOK, Trying, Undisturbed, Placed, MayBeAt, Op,
      ConnOf, Goto, Working, Finished
<1>11. ASSUME NEW i \in Call, WriteConf(i) PROVE Trying(k)'
  BY <1>11, DaemonAssumption
  DEF WriteConf, TypeInv, TypeOK, Trying, Undisturbed, Placed, MayBeAt, Op,
      ConnOf, Goto, Working, Finished
<1>12. ASSUME NEW i \in Call, TruncSec(i) PROVE Trying(k)'
  BY <1>12, DaemonAssumption
  DEF TruncSec, TypeInv, TypeOK, Trying, Undisturbed, Placed, MayBeAt, Op,
      ConnOf, Goto, Working, Finished
<1>13. ASSUME NEW i \in Call, WriteSec(i) PROVE Trying(k)'
  BY <1>13, DaemonAssumption
  DEF WriteSec, TypeInv, TypeOK, Trying, Undisturbed, Placed, MayBeAt, Op,
      ConnOf, Goto, Working, Finished
<1>13a. ASSUME NEW i \in Call, ReadAll(i) PROVE Trying(k)'
  BY <1>13a, DaemonAssumption
  DEF ReadAll, TypeInv, TypeOK, Trying, Undisturbed, Placed, MayBeAt, Op,
      ConnOf, Goto, Working, Finished
<1>14. ASSUME NEW i \in Call, LoadAll(i) PROVE Trying(k)'
  BY <1>14, DaemonAssumption
  DEF LoadAll, TypeInv, TypeOK, Trying, Undisturbed, Placed, MayBeAt, Op,
      ConnOf, Goto, Working, Finished
<1>15. ASSUME NEW i \in Call, RmConf(i) PROVE Trying(k)'
  <2>1. i = k /\ pc'[k] = "rmSec"
    BY <1>15 DEF RmConf, Goto, TypeInv, TypeOK
  <2>2. at'[k] = at[k] /\ at[k] = 0
    BY <1>15, <2>1 DEF RmConf, Trying, Finished
  <2> QED BY <2>1, <2>2 DEF Trying, Finished
<1>16. ASSUME NEW i \in Call, RmSec(i) PROVE Trying(k)'
  <2>1. i = k /\ pc'[k] = "load"
    BY <1>16 DEF RmSec, Goto, TypeInv, TypeOK
  <2>2. at'[k] = at[k] /\ at[k] = 0
    BY <1>16, <2>1 DEF RmSec, Trying, Finished
  <2> QED BY <2>1, <2>2 DEF Trying, Finished
<1>17. ASSUME NEW i \in Call, Start(i) PROVE Trying(k)'
  BY <1>17, DaemonAssumption
  DEF Start, EnsureRunning, ReadFiles, TypeInv, TypeOK, Trying, Undisturbed,
      Placed, MayBeAt, Op, ConnOf, Goto, Working, Finished
<1>17a. ASSUME NEW i \in Call, ConnectStarted(i) PROVE Trying(k)'
  BY <1>17a, DaemonAssumption
  DEF ConnectStarted, Started, TypeInv, TypeOK, Trying, Undisturbed,
      Placed, MayBeAt, Op, ConnOf, Goto, Working, Finished
<1>18. ASSUME NEW i \in Call, Peek(i) PROVE Trying(k)'
  BY <1>18, DaemonAssumption
  DEF Peek, TypeInv, TypeOK, Trying, Undisturbed, Placed, MayBeAt, Op, ConnOf,
      Goto, Working, Finished
<1>19. ASSUME NEW i \in Call, List(i) PROVE Trying(k)'
  BY <1>19, ChildCountsType, DaemonAssumption
  DEF List, TypeInv, TypeOK, Trying, Undisturbed, Placed, MayBeAt, Op, ConnOf,
      Goto, Working, Finished
<1>20. ASSUME NEW i \in Call, Initiate(i) PROVE Trying(k)'
  <2>1. i = k /\ pc[k] = "initiate"
    BY <1>20 DEF Initiate, Advance, Goto, TypeInv, TypeOK
  <2>2. UNCHANGED <<conf, child, total, ask, hist>>
    BY <1>20 DEF Initiate
  <2>3. ConnOf(k) \in Conn /\ at[k] \in Nat
    BY <2>1, DaemonAssumption DEF TypeInv, TypeOK, Placed, ConnOf
  <2>4. CASE Advance(k, {at[k]})
    BY <2>1, <2>2, <2>3, <2>4, AdvanceTrying
  <2>5. CASE Goto(k, "initiating") /\ UNCHANGED <<at, err>>
    <3>1. pc'[k] = "initiating"
      BY <2>5 DEF Goto, TypeInv, TypeOK
    <3>2. ChildCounts(conf[ConnOf(k)])' = ChildCounts(conf[ConnOf(k)])
      BY <2>2 DEF ChildCounts, IsV1, ConnOf
    <3> QED
      BY <2>1, <2>2, <2>5, <3>1, <3>2
      DEF Trying, Undisturbed, Op, ConnOf, Finished
  <2> QED BY <1>20, <2>1, <2>4, <2>5 DEF Initiate
<1>21. ASSUME NEW i \in Call, Initiated(i) PROVE Trying(k)'
  <2>1. i = k /\ pc[k] = "initiating"
    BY <1>21 DEF Initiated, Advance, Goto, TypeInv, TypeOK
  <2>2. UNCHANGED <<conf, total, ask, hist>>
    BY <1>21 DEF Initiated
  <2>3. ConnOf(k) \in Conn /\ at[k] \in Nat
    BY <2>1, DaemonAssumption DEF TypeInv, TypeOK, Placed, ConnOf
  <2>4. CASE Advance(k, {at[k]}) /\ child' = child
    BY <2>1, <2>2, <2>3, <2>4, AdvanceTrying
  <2>5. CASE Advance(k, {}) /\ child' = [child EXCEPT ![ConnOf(k)] = @ \cup {at[k]}]
    <3>1. child'[ConnOf(k)] = child[ConnOf(k)] \cup {at[k]}
      BY <2>3, <2>5 DEF TypeInv, TypeOK
    <3> QED BY <2>1, <2>2, <2>3, <2>5, <3>1, AdvanceTrying
  <2> QED BY <1>21, <2>1, <2>4, <2>5 DEF Initiated
<1>22. ASSUME NEW i \in Call, Terminate(i) PROVE Trying(k)'
  BY <1>22, DaemonAssumption
  DEF Terminate, HeldAfterLoss, TypeInv, TypeOK, Trying, Undisturbed, Placed,
      MayBeAt, Op, ConnOf, Goto, Working, Finished
<1>23. ASSUME NEW i \in Call, ListSas(i) PROVE Trying(k)'
  BY <1>23, DaemonAssumption
  DEF ListSas, TypeInv, TypeOK, Trying, Undisturbed, Placed, MayBeAt, Op,
      ConnOf, Goto, Working, Finished
<1>24. ASSUME NEW d \in Conn, ChildLost(d) PROVE Trying(k)'
  BY <1>24, DaemonAssumption
  DEF ChildLost, TypeInv, TypeOK, Trying, Undisturbed, Placed, MayBeAt, Op,
      ConnOf, Goto, Working, Finished
<1>25. ASSUME NEW d \in Conn, IkeLost(d) PROVE Trying(k)'
  BY <1>25, DaemonAssumption
  DEF IkeLost, HeldAfterLoss, TypeInv, TypeOK, Trying, Undisturbed, Placed,
      MayBeAt, Op, ConnOf, Goto, Working, Finished
<1>26. ASSUME NEW d \in Conn, CharonSettles(d) PROVE Trying(k)'
  BY <1>26, DaemonAssumption
  DEF CharonSettles, TypeInv, TypeOK, Trying, Undisturbed, Placed, MayBeAt, Op,
      ConnOf, Goto, Working, Finished
<1>27. ASSUME Kill PROVE Trying(k)'
  BY <1>27, DaemonAssumption
  DEF Kill, Active, TypeInv, TypeOK, Trying, Undisturbed, Active, Placed,
      MayBeAt, Op, ConnOf, Goto, Working, Finished
<1>28. ASSUME CharonStop PROVE Trying(k)'
  BY <1>28, DaemonAssumption
  DEF CharonStop, TypeInv, TypeOK, Trying, Undisturbed, Placed,
      MayBeAt, Op, ConnOf, Goto, Working, Finished
<1> QED
  BY NextCases, <1>0, <1>1, <1>2, <1>3, <1>4, <1>5, <1>6, <1>7, <1>8, <1>9,
     <1>9a, <1>10, <1>11, <1>12, <1>13, <1>13a, <1>14, <1>15, <1>16, <1>17,
     <1>17a, <1>18, <1>19, <1>20, <1>21, <1>22, <1>23, <1>24, <1>25, <1>26,
     <1>27, <1>28

TunnelInv == PhaseInv /\ \A k \in Call : Down(k) /\ Trying(k)

LEMMA TunnelInit == Init => TunnelInv
<1> SUFFICES ASSUME Init PROVE TunnelInv
  OBVIOUS
<1>1. PhaseInv
  BY DEF Init, PhaseInv
<1>2. ASSUME NEW k \in Call PROVE Down(k) /\ Trying(k)
  BY DEF Init, Down, Trying, Undisturbed
<1> QED BY <1>1, <1>2 DEF TunnelInv

LEMMA TunnelStep ==
  ASSUME TypeInv, SoloInv, TunnelInv, [Next]_vars
  PROVE  TunnelInv'
<1>1. PhaseInv'
  BY PhaseStep DEF TunnelInv
<1>2. ASSUME NEW k \in Call PROVE Down(k)'
  BY DownStep DEF TunnelInv
<1>3. ASSUME NEW k \in Call PROVE Trying(k)'
  BY TryingOwn, TryingElsewhere DEF TunnelInv
<1> QED BY <1>1, <1>2, <1>3 DEF TunnelInv

LEMMA TunnelAlways == Spec => []TunnelInv
<1>1. WriterInv => SoloInv
  BY DEF WriterInv
<1>2. TypeInv /\ SoloInv /\ TunnelInv /\ [Next]_vars => TunnelInv'
  BY TunnelStep
<1> QED
  BY TypeAlways, WriterAlways, TunnelInit, <1>1, <1>2, PTL DEF Spec

\* An undisturbed Disconnect that has replied "disconnected" has left neither
\* the IKE_SA nor a CHILD_SA.
THEOREM DisconnectTearsDown == Spec => []DisconnectClears
<1>1. TunnelInv => DisconnectClears
  BY DEF TunnelInv, Down, DisconnectClears
<1> QED
  BY TunnelAlways, <1>1, PTL

\* An undisturbed Connect tries every child of its profile, and replies
\* success only when all are up, however many networks there are.
THEOREM ConnectTriesAll == Spec => []ConnectBringsAll
<1>1. ASSUME TunnelInv, NEW k \in Call, pc[k] \in {"ok", "failed"},
             Op(k) = "Connect", at[k] > 0, Undisturbed(k),
             NEW n \in ChildCounts(conf[ConnOf(k)]), conf[ConnOf(k)] # Garbled
      PROVE  1 .. n \subseteq child[ConnOf(k)]
                             \cup (IF pc[k] = "ok" THEN {} ELSE err[k])
  <2>1. n = total[k]
    BY <1>1 DEF TunnelInv, Trying, ChildCounts
  <2> QED BY <1>1, <2>1 DEF TunnelInv, Trying
<1>2. TunnelInv => ConnectBringsAll
  BY <1>1 DEF ConnectBringsAll
<1> QED
  BY TunnelAlways, <1>2, PTL

-----------------------------------------------------------------------------
(* The authorisation gate: Daemon implements AuthGate.                      *)

\* polkit has not been asked about a call that has not been made.
AllowedInv == \A k \in Call : pc[k] = "idle" => ~allowed[k]

LEMMA AllowedStep ==
  ASSUME TypeInv, AllowedInv, [Next]_vars
  PROVE  AllowedInv'
<1>0. CASE UNCHANGED vars
  BY <1>0 DEF vars, TypeInv, TypeOK, AllowedInv
<1>1. ASSUME NEW i \in Call, NEW r \in Requests, Request(i, r) PROVE AllowedInv'
  BY <1>1 DEF Request, Entry, FirstStep, TypeInv, TypeOK, AllowedInv, Goto
<1>2. ASSUME NEW i \in Call, Admit(i) PROVE AllowedInv'
  <2>1. req[i] \in Requests
    BY <1>2 DEF Admit, TypeInv, Placed
  <2>2. FirstStep(req[i]) # "idle"
    BY <2>1, FirstStepOwn DEF Working
  <2> QED
    BY <1>2, <2>2 DEF Admit, Goto, TypeInv, TypeOK, AllowedInv
<1>3. ASSUME NEW i \in Call, Deny(i) PROVE AllowedInv'
  BY <1>3 DEF Deny, TypeInv, TypeOK, AllowedInv, Goto
<1>4. ASSUME NEW i \in Call, IOError(i) PROVE AllowedInv'
  BY <1>4 DEF IOError, TypeInv, TypeOK, AllowedInv, Goto
<1>5. ASSUME NEW i \in Call, ReadMain(i) PROVE AllowedInv'
  BY <1>5 DEF ReadMain, AfterMain, TypeInv, TypeOK, AllowedInv, Goto
<1>6. ASSUME NEW i \in Call, TruncMain(i) PROVE AllowedInv'
  BY <1>6 DEF TruncMain, TypeInv, TypeOK, AllowedInv, Goto
<1>7. ASSUME NEW i \in Call, WriteMain(i) PROVE AllowedInv'
  BY <1>7 DEF WriteMain, AfterMain, TypeInv, TypeOK, AllowedInv, Goto
<1>8. ASSUME NEW i \in Call, CheckIke(i) PROVE AllowedInv'
  BY <1>8 DEF CheckIke, TypeInv, TypeOK, AllowedInv, Goto
<1>9. ASSUME NEW i \in Call, EnsureXauth(i) PROVE AllowedInv'
  BY <1>9
  DEF EnsureXauth, EnsureRunning, IkeChecked, TypeInv, TypeOK, AllowedInv, Goto
<1>9a. ASSUME NEW i \in Call, XauthStarted(i) PROVE AllowedInv'
  BY <1>9a
  DEF XauthStarted, Started, IkeChecked, TypeInv, TypeOK, AllowedInv, Goto
<1>10. ASSUME NEW i \in Call, TruncConf(i) PROVE AllowedInv'
  BY <1>10 DEF TruncConf, TypeInv, TypeOK, AllowedInv, Goto
<1>11. ASSUME NEW i \in Call, WriteConf(i) PROVE AllowedInv'
  BY <1>11 DEF WriteConf, TypeInv, TypeOK, AllowedInv, Goto
<1>12. ASSUME NEW i \in Call, TruncSec(i) PROVE AllowedInv'
  BY <1>12 DEF TruncSec, TypeInv, TypeOK, AllowedInv, Goto
<1>13. ASSUME NEW i \in Call, WriteSec(i) PROVE AllowedInv'
  BY <1>13 DEF WriteSec, TypeInv, TypeOK, AllowedInv, Goto
<1>13a. ASSUME NEW i \in Call, ReadAll(i) PROVE AllowedInv'
  BY <1>13a DEF ReadAll, TypeInv, TypeOK, AllowedInv, Goto
<1>14. ASSUME NEW i \in Call, LoadAll(i) PROVE AllowedInv'
  BY <1>14 DEF LoadAll, TypeInv, TypeOK, AllowedInv, Goto
<1>15. ASSUME NEW i \in Call, RmConf(i) PROVE AllowedInv'
  BY <1>15 DEF RmConf, TypeInv, TypeOK, AllowedInv, Goto
<1>16. ASSUME NEW i \in Call, RmSec(i) PROVE AllowedInv'
  BY <1>16 DEF RmSec, TypeInv, TypeOK, AllowedInv, Goto
<1>17. ASSUME NEW i \in Call, Start(i) PROVE AllowedInv'
  BY <1>17 DEF Start, EnsureRunning, TypeInv, TypeOK, AllowedInv, Goto
<1>17a. ASSUME NEW i \in Call, ConnectStarted(i) PROVE AllowedInv'
  BY <1>17a DEF ConnectStarted, Started, TypeInv, TypeOK, AllowedInv, Goto
<1>18. ASSUME NEW i \in Call, Peek(i) PROVE AllowedInv'
  BY <1>18 DEF Peek, TypeInv, TypeOK, AllowedInv, Goto
<1>19. ASSUME NEW i \in Call, List(i) PROVE AllowedInv'
  BY <1>19 DEF List, TypeInv, TypeOK, AllowedInv, Goto
<1>20. ASSUME NEW i \in Call, Initiate(i) PROVE AllowedInv'
  BY <1>20 DEF Initiate, Advance, TypeInv, TypeOK, AllowedInv, Goto
<1>21. ASSUME NEW i \in Call, Initiated(i) PROVE AllowedInv'
  BY <1>21 DEF Initiated, Advance, TypeInv, TypeOK, AllowedInv, Goto
<1>22. ASSUME NEW i \in Call, Terminate(i) PROVE AllowedInv'
  BY <1>22 DEF Terminate, TypeInv, TypeOK, AllowedInv, Goto
<1>23. ASSUME NEW i \in Call, ListSas(i) PROVE AllowedInv'
  BY <1>23 DEF ListSas, TypeInv, TypeOK, AllowedInv, Goto
<1>24. ASSUME NEW d \in Conn, ChildLost(d) PROVE AllowedInv'
  BY <1>24 DEF ChildLost, TypeInv, TypeOK, AllowedInv
<1>25. ASSUME NEW d \in Conn, IkeLost(d) PROVE AllowedInv'
  BY <1>25 DEF IkeLost, TypeInv, TypeOK, AllowedInv
<1>26. ASSUME NEW d \in Conn, CharonSettles(d) PROVE AllowedInv'
  BY <1>26 DEF CharonSettles, TypeInv, TypeOK, AllowedInv
<1>27. ASSUME Kill PROVE AllowedInv'
  BY <1>27 DEF Kill, Active, TypeInv, TypeOK, AllowedInv
<1>28. ASSUME CharonStop PROVE AllowedInv'
  BY <1>28 DEF CharonStop, TypeInv, TypeOK, AllowedInv
<1> QED
  BY NextCases, <1>0, <1>1, <1>2, <1>3, <1>4, <1>5, <1>6, <1>7, <1>8, <1>9,
     <1>9a, <1>10, <1>11, <1>12, <1>13, <1>13a, <1>14, <1>15, <1>16, <1>17,
     <1>17a, <1>18, <1>19, <1>20, <1>21, <1>22, <1>23, <1>24, <1>25, <1>26,
     <1>27, <1>28

\* A negotiation that a call waits for is one charon has not given up.
LiveInv == \A k \in Call :
  pc[k] = "initiating" /\ held[k] => ike[ConnOf(k)] # "none"

LEMMA ConnKnown ==
  ASSUME TypeInv, NEW k \in Call, pc[k] # "idle"
  PROVE  ConnOf(k) \in Conn
BY DaemonAssumption DEF TypeInv, Placed, ConnOf

LEMMA LiveLost ==
  ASSUME TypeInv, LiveInv, NEW i \in Call, pc'[i] # "initiating", req' = req,
         \A k \in Call \ {i} : pc'[k] = pc[k],
         held' = HeldAfterLoss(ConnOf(i)), ike' = [ike EXCEPT ![ConnOf(i)] = "none"]
  PROVE  LiveInv'
<1> SUFFICES ASSUME NEW k \in Call, pc'[k] = "initiating", held'[k]
             PROVE  ike'[ConnOf(k)] # "none"
  BY DEF LiveInv, ConnOf
<1>1. k # i /\ pc[k] = "initiating"
  OBVIOUS
<1>2. held[k] /\ ConnOf(k) # ConnOf(i)
  BY <1>1 DEF HeldAfterLoss
<1>3. ike'[ConnOf(k)] = ike[ConnOf(k)]
  BY <1>1, <1>2, ConnKnown DEF TypeInv, TypeOK
<1> QED BY <1>1, <1>2, <1>3 DEF LiveInv

LEMMA LiveKept ==
  ASSUME TypeInv, LiveInv, NEW i \in Call, pc'[i] # "initiating", req' = req,
         \A k \in Call \ {i} : pc'[k] = pc[k], held' = held,
         \A c \in Conn : ike[c] # "none" => ike'[c] # "none"
  PROVE  LiveInv'
<1> SUFFICES ASSUME NEW k \in Call, pc'[k] = "initiating", held'[k]
             PROVE  ike'[ConnOf(k)] # "none"
  BY DEF LiveInv, ConnOf
<1>1. k # i /\ pc[k] = "initiating" /\ held[k]
  OBVIOUS
<1> QED BY <1>1, ConnKnown DEF LiveInv

LEMMA LiveStep ==
  ASSUME TypeInv, LiveInv, [Next]_vars
  PROVE  LiveInv'
<1>0. CASE UNCHANGED vars
  BY <1>0, DaemonAssumption
  DEF vars, TypeInv, TypeOK, LiveInv, Placed, Op, ConnOf
<1>1. ASSUME NEW i \in Call, NEW r \in Requests, Request(i, r) PROVE LiveInv'
  BY <1>1, DaemonAssumption
  DEF Request, Entry, FirstStep, TypeInv, TypeOK, LiveInv, Placed, Op, ConnOf,
      Goto
<1>2. ASSUME NEW i \in Call, Admit(i) PROVE LiveInv'
  <2>1. req[i] \in Requests
    BY <1>2 DEF Admit, TypeInv, Placed
  <2>2. FirstStep(req[i]) # "initiating"
    BY <2>1, DaemonAssumption DEF FirstStep, Methods
  <2> QED
    BY <1>2, <2>2 DEF Admit, Goto, TypeInv, TypeOK, LiveInv, ConnOf
<1>3. ASSUME NEW i \in Call, Deny(i) PROVE LiveInv'
  BY <1>3, DaemonAssumption
  DEF Deny, TypeInv, TypeOK, LiveInv, Placed, Op, ConnOf, Goto
<1>4. ASSUME NEW i \in Call, IOError(i) PROVE LiveInv'
  BY <1>4, DaemonAssumption
  DEF IOError, TypeInv, TypeOK, LiveInv, Placed, Op, ConnOf, Goto
<1>5. ASSUME NEW i \in Call, ReadMain(i) PROVE LiveInv'
  BY <1>5, DaemonAssumption
  DEF ReadMain, AfterMain, TypeInv, TypeOK, LiveInv, Placed, Op, ConnOf, Goto
<1>6. ASSUME NEW i \in Call, TruncMain(i) PROVE LiveInv'
  BY <1>6, DaemonAssumption
  DEF TruncMain, TypeInv, TypeOK, LiveInv, Placed, Op, ConnOf, Goto
<1>7. ASSUME NEW i \in Call, WriteMain(i) PROVE LiveInv'
  BY <1>7, DaemonAssumption
  DEF WriteMain, AfterMain, TypeInv, TypeOK, LiveInv, Placed, Op, ConnOf, Goto
<1>8. ASSUME NEW i \in Call, CheckIke(i) PROVE LiveInv'
  BY <1>8, DaemonAssumption
  DEF CheckIke, TypeInv, TypeOK, LiveInv, Placed, Op, ConnOf, Goto
<1>9. ASSUME NEW i \in Call, EnsureXauth(i) PROVE LiveInv'
  BY <1>9, DaemonAssumption
  DEF EnsureXauth, EnsureRunning, ReadFiles, IkeChecked, TypeInv, TypeOK,
      LiveInv, Placed, Op, ConnOf, Goto
<1>9a. ASSUME NEW i \in Call, XauthStarted(i) PROVE LiveInv'
  BY <1>9a, DaemonAssumption
  DEF XauthStarted, Started, IkeChecked, TypeInv, TypeOK,
      LiveInv, Placed, Op, ConnOf, Goto
<1>10. ASSUME NEW i \in Call, TruncConf(i) PROVE LiveInv'
  BY <1>10, DaemonAssumption
  DEF TruncConf, TypeInv, TypeOK, LiveInv, Placed, Op, ConnOf, Goto
<1>11. ASSUME NEW i \in Call, WriteConf(i) PROVE LiveInv'
  BY <1>11, DaemonAssumption
  DEF WriteConf, TypeInv, TypeOK, LiveInv, Placed, Op, ConnOf, Goto
<1>12. ASSUME NEW i \in Call, TruncSec(i) PROVE LiveInv'
  BY <1>12, DaemonAssumption
  DEF TruncSec, TypeInv, TypeOK, LiveInv, Placed, Op, ConnOf, Goto
<1>13. ASSUME NEW i \in Call, WriteSec(i) PROVE LiveInv'
  BY <1>13, DaemonAssumption
  DEF WriteSec, TypeInv, TypeOK, LiveInv, Placed, Op, ConnOf, Goto
<1>13a. ASSUME NEW i \in Call, ReadAll(i) PROVE LiveInv'
  BY <1>13a, DaemonAssumption
  DEF ReadAll, TypeInv, TypeOK, LiveInv, Placed, Op, ConnOf, Goto
<1>14. ASSUME NEW i \in Call, LoadAll(i) PROVE LiveInv'
  BY <1>14, DaemonAssumption
  DEF LoadAll, TypeInv, TypeOK, LiveInv, Placed, Op, ConnOf, Goto
<1>15. ASSUME NEW i \in Call, RmConf(i) PROVE LiveInv'
  BY <1>15, DaemonAssumption
  DEF RmConf, HeldAfterUnlink, TypeInv, TypeOK, LiveInv, Placed, Op, ConnOf,
      Goto
<1>16. ASSUME NEW i \in Call, RmSec(i) PROVE LiveInv'
  BY <1>16, DaemonAssumption
  DEF RmSec, HeldAfterUnlink, TypeInv, TypeOK, LiveInv, Placed, Op, ConnOf,
      Goto
<1>17. ASSUME NEW i \in Call, Start(i) PROVE LiveInv'
  BY <1>17, DaemonAssumption
  DEF Start, EnsureRunning, ReadFiles, TypeInv, TypeOK, LiveInv, Placed, Op,
      ConnOf, Goto
<1>17a. ASSUME NEW i \in Call, ConnectStarted(i) PROVE LiveInv'
  BY <1>17a, DaemonAssumption
  DEF ConnectStarted, Started, TypeInv, TypeOK, LiveInv, Placed, Op,
      ConnOf, Goto
<1>18. ASSUME NEW i \in Call, Peek(i) PROVE LiveInv'
  BY <1>18, DaemonAssumption
  DEF Peek, TypeInv, TypeOK, LiveInv, Placed, Op, ConnOf, Goto
<1>19. ASSUME NEW i \in Call, List(i) PROVE LiveInv'
  BY <1>19, DaemonAssumption
  DEF List, TypeInv, TypeOK, LiveInv, Placed, Op, ConnOf, Goto
<1>20. ASSUME NEW i \in Call, Initiate(i) PROVE LiveInv'
  <2>1. CASE Advance(i, {at[i]}) /\ UNCHANGED <<ike, held>>
    <3>1. /\ pc'[i] \in {"initiate", "ok", "failed"} /\ req' = req
          /\ \A k \in Call \ {i} : pc'[k] = pc[k]
      BY <1>20, <2>1 DEF Initiate, Advance, Goto, TypeInv, TypeOK
    <3> QED BY <2>1, <3>1, LiveKept
  <2>2. CASE /\ ike' = [ike EXCEPT ![ConnOf(i)] = IF @ = "none" THEN "CONNECTING" ELSE @]
             /\ held' = [held EXCEPT ![i] = TRUE]
    <3>1. /\ \A k \in Call \ {i} : pc'[k] = pc[k] /\ held'[k] = held[k]
          /\ req' = req /\ pc[i] # "idle"
      BY <1>20, <2>2 DEF Initiate, Advance, Goto, TypeInv, TypeOK
    <3>2. \A c \in Conn : ike[c] # "none" \/ c = ConnOf(i) => ike'[c] # "none"
      BY <2>2 DEF TypeInv, TypeOK
    <3> SUFFICES ASSUME NEW k \in Call, pc'[k] = "initiating", held'[k]
                 PROVE  ike'[ConnOf(k)] # "none"
      BY <3>1 DEF LiveInv, ConnOf
    <3>3. CASE k = i
      BY <3>1, <3>2, <3>3, ConnKnown
    <3>4. CASE k # i
      BY <3>1, <3>2, <3>4, ConnKnown DEF LiveInv
    <3> QED BY <3>3, <3>4
  <2> QED BY <1>20, <2>1, <2>2 DEF Initiate
<1>21. ASSUME NEW i \in Call, Initiated(i) PROVE LiveInv'
  <2>1. /\ pc'[i] \in {"initiate", "ok", "failed"} /\ req' = req
        /\ \A k \in Call \ {i} : pc'[k] = pc[k]
    BY <1>21 DEF Initiated, Advance, Goto, TypeInv, TypeOK
  <2>2. CASE held' = HeldAfterLoss(ConnOf(i)) /\ ike' = [ike EXCEPT ![ConnOf(i)] = "none"]
    BY <2>1, <2>2, LiveLost
  <2>3. CASE held' = held /\ ike' \in {ike, [ike EXCEPT ![ConnOf(i)] = "ESTABLISHED"]}
    <3>1. \A c \in Conn : ike[c] # "none" => ike'[c] # "none"
      BY <2>3 DEF TypeInv, TypeOK
    <3> QED BY <2>1, <2>3, <3>1, LiveKept
  <2> QED BY <1>21, <2>2, <2>3 DEF Initiated
<1>22. ASSUME NEW i \in Call, Terminate(i) PROVE LiveInv'
  <2>1. /\ pc'[i] # "initiating" /\ req' = req
        /\ \A k \in Call \ {i} : pc'[k] = pc[k]
    BY <1>22 DEF Terminate, Goto, TypeInv, TypeOK
  <2>2. CASE held' = HeldAfterLoss(ConnOf(i)) /\ ike' = [ike EXCEPT ![ConnOf(i)] = "none"]
    BY <2>1, <2>2, LiveLost
  <2>3. CASE UNCHANGED <<ike, held>>
    BY <2>1, <2>3, LiveKept
  <2> QED BY <1>22, <2>2, <2>3 DEF Terminate
<1>23. ASSUME NEW i \in Call, ListSas(i) PROVE LiveInv'
  BY <1>23, DaemonAssumption
  DEF ListSas, TypeInv, TypeOK, LiveInv, Placed, Op, ConnOf, Goto
<1>24. ASSUME NEW d \in Conn, ChildLost(d) PROVE LiveInv'
  BY <1>24, DaemonAssumption
  DEF ChildLost, TypeInv, TypeOK, LiveInv, Placed, Op, ConnOf
<1>25. ASSUME NEW d \in Conn, IkeLost(d) PROVE LiveInv'
  BY <1>25, DaemonAssumption
  DEF IkeLost, HeldAfterLoss, TypeInv, TypeOK, LiveInv, Placed, Op, ConnOf
<1>26. ASSUME NEW d \in Conn, CharonSettles(d) PROVE LiveInv'
  BY <1>26, DaemonAssumption
  DEF CharonSettles, TypeInv, TypeOK, LiveInv, Placed, Op, ConnOf
<1>27. ASSUME Kill PROVE LiveInv'
  BY <1>27, DaemonAssumption
  DEF Kill, Active, TypeInv, TypeOK, LiveInv, Placed, Op, ConnOf
<1>28. ASSUME CharonStop PROVE LiveInv'
  BY <1>28, DaemonAssumption
  DEF CharonStop, TypeInv, TypeOK, LiveInv, Placed, Op, ConnOf
<1> QED
  BY NextCases, <1>0, <1>1, <1>2, <1>3, <1>4, <1>5, <1>6, <1>7, <1>8, <1>9,
     <1>9a, <1>10, <1>11, <1>12, <1>13, <1>13a, <1>14, <1>15, <1>16, <1>17,
     <1>17a, <1>18, <1>19, <1>20, <1>21, <1>22, <1>23, <1>24, <1>25, <1>26,
     <1>27, <1>28

Holder(k) == Serving(k) /\ allowed[k]
Grants    == {[op |-> Op(k), conn |-> ConnOf(k)] : k \in {j \in Call : Holder(j)}}

\* A step that touches no file, raises no tunnel and lets nobody in.
LEMMA Quiet ==
  ASSUME UNCHANGED files,
         \A c \in Conn : ike[c] = "none" => ike'[c] = "none",
         \A k \in Call : Holder(k)' => Holder(k) /\ req'[k] = req[k]
  PROVE  Gate!Release
<1>1. Grants' \subseteq Grants
  BY DEF Grants, Op, ConnOf
<1>2. {c \in Conn : ike[c] # "none"}' \subseteq {c \in Conn : ike[c] # "none"}
  OBVIOUS
<1>3. [c \in Conn |-> <<conf[c], sec[c]>>]' = [c \in Conn |-> <<conf[c], sec[c]>>]
  OBVIOUS
<1> QED
  BY <1>1, <1>2, <1>3 DEF Gate!Release, Grants, Holder

\* A step of k that keeps everyone's grant and every tunnel.
LEMMA SameGrants ==
  ASSUME UNCHANGED <<req, allowed>>, \A j \in Call : Serving(j)' <=> Serving(j)
  PROVE  Grants' = Grants
BY DEF Grants, Holder, Op, ConnOf

\* A step that edits only the entry of c, on behalf of a call on c.
LEMMA Edits ==
  ASSUME NEW k \in Call, NEW c \in ValidConn, c = ConnOf(k), Holder(k),
         Op(k) \in Writers, Grants' = Grants, UNCHANGED <<swanctlConf, ike>>,
         \A d \in Conn \ {c} : conf'[d] = conf[d] /\ sec'[d] = sec[d]
  PROVE  \E e \in ValidConn : Gate!EditEntry(e)
<1> DEFINE entry == [d \in Conn |-> <<conf[d], sec[d]>>]
<1>1. [op |-> Op(k), conn |-> c] \in Grants
  BY DEF Grants
<1>2. \A d \in Conn \ {c} : entry'[d] = entry[d]
  OBVIOUS
<1>3. {d \in Conn : ike[d] # "none"}' = {d \in Conn : ike[d] # "none"}
  OBVIOUS
<1>4. Gate!EditEntry(c)
  BY <1>1, <1>2, <1>3 DEF Gate!EditEntry, Gate!Granted, Grants, Holder, Writers
<1> QED BY <1>4

\* A call that polkit has let in works with its yes.
LEMMA HolderOf ==
  ASSUME TypeInv, NEW k \in Call, pc[k] \in Working, Op(k) # "Status"
  PROVE  Holder(k) /\ ConnOf(k) \in ValidConn /\ req[k] \in Requests
BY DEF TypeInv, Placed, Holder, Serving, Working

\* The four writes and two removals of conf.d files.
LEMMA EntryStep ==
  ASSUME TypeInv, NEW k \in Call,
         TruncConf(k) \/ WriteConf(k) \/ TruncSec(k) \/ WriteSec(k)
           \/ RmConf(k) \/ RmSec(k)
  PROVE  \E e \in ValidConn : Gate!EditEntry(e)
<1>1. /\ Op(k) \in Writers /\ pc[k] \in Working
      /\ UNCHANGED <<swanctlConf, ike, req, allowed>>
  BY
  DEF TruncConf, WriteConf, TruncSec, WriteSec, RmConf, RmSec, TypeInv, Placed,
      MayBeAt, Writers, Working
<1>2. Holder(k) /\ ConnOf(k) \in ValidConn
  BY <1>1, HolderOf DEF Writers
<1>3. /\ \A j \in Call \ {k} : pc'[j] = pc[j]
      /\ pc'[k] \in Working
  BY
  DEF TruncConf, WriteConf, TruncSec, WriteSec, RmConf, RmSec, Goto, TypeInv,
      TypeOK, Working
<1>4. Grants' = Grants
  BY <1>1, <1>3, SameGrants DEF Serving
<1>5. \A d \in Conn \ {ConnOf(k)} : conf'[d] = conf[d] /\ sec'[d] = sec[d]
  BY
  DEF TruncConf, WriteConf, TruncSec, WriteSec, RmConf, RmSec, TypeInv, TypeOK
<1>6. PICK c \in ValidConn : c = ConnOf(k)
  BY <1>2
<1> QED BY <1>1, <1>2, <1>4, <1>5, <1>6, Edits

\* The truncation and the write of swanctl.conf.
LEMMA MainStep ==
  ASSUME TypeInv, NEW k \in Call, TruncMain(k) \/ WriteMain(k)
  PROVE  Gate!EditMain
<1>1. /\ Op(k) = "ApplyProfile" /\ pc[k] \in Working
      /\ UNCHANGED <<conf, sec, ike, req, allowed>>
  BY DEF TruncMain, WriteMain, TypeInv, Placed, MayBeAt, Working
<1>2. Holder(k) /\ ConnOf(k) \in ValidConn
  BY <1>1, HolderOf
<1>3. /\ \A j \in Call \ {k} : pc'[j] = pc[j]
      /\ pc'[k] \in Working
  BY DEF TruncMain, WriteMain, AfterMain, Goto, TypeInv, TypeOK, Working
<1>4. Grants' = Grants
  BY <1>1, <1>3, SameGrants DEF Serving
<1>5. [op |-> "ApplyProfile", conn |-> ConnOf(k)] \in Grants
  BY <1>1, <1>2 DEF Grants
<1>6. \E c \in ValidConn : [op |-> "ApplyProfile", conn |-> c] \in Grants
  BY <1>2, <1>5
<1>7. /\ {d \in Conn : ike[d] # "none"}' = {d \in Conn : ike[d] # "none"}
      /\ [d \in Conn |-> <<conf[d], sec[d]>>]' = [d \in Conn |-> <<conf[d], sec[d]>>]
  BY <1>1
<1> QED BY <1>4, <1>6, <1>7 DEF Gate!EditMain, Gate!Granted, Grants, Holder

\* polkit's yes is the grant; a name that is not valid earns none.
LEMMA AdmitStep ==
  ASSUME TypeInv, NEW k \in Call, Admit(k)
  PROVE  \/ Gate!Release
         \/ \E c \in Conn : \/ Gate!Grant("ApplyProfile", c)
                           \/ Gate!Grant("RemoveProfile", c)
                           \/ Gate!Grant("Connect", c)
                           \/ Gate!Grant("Disconnect", c)
<1>1. /\ pc[k] = "authorize" /\ req[k] \in Requests /\ Op(k) # "Status"
      /\ UNCHANGED <<files, ike, req>>
  BY DEF Admit, TypeInv, Placed, MayBeAt
<1>2. /\ pc'[k] = FirstStep(req[k]) /\ allowed'[k]
      /\ \A j \in Call \ {k} : pc'[j] = pc[j] /\ allowed'[j] = allowed[j]
  BY DEF Admit, Goto, TypeInv, TypeOK
<1>3. FirstStep(req[k]) \in Working => ConnOf(k) \in ValidConn
  BY <1>1, FirstStepOwn DEF ConnOf
<1>4. ~Holder(k)
  BY <1>1 DEF Holder, Serving, Working
<1>5. \A j \in Call \ {k} : Holder(j)' <=> Holder(j)
  BY <1>2 DEF Holder, Serving
<1>6. CASE FirstStep(req[k]) \notin Working
  <2>1. ~Holder(k)'
    BY <1>2, <1>6 DEF Holder, Serving
  <2>2. \A c \in Conn : ike[c] = "none" => ike'[c] = "none"
    BY <1>1
  <2>3. \A j \in Call : Holder(j)' => Holder(j) /\ req'[j] = req[j]
    BY <1>1, <1>5, <2>1
  <2>4. UNCHANGED files
    BY <1>1
  <2> QED BY <2>2, <2>3, <2>4, Quiet
<1>7. CASE FirstStep(req[k]) \in Working
  <2>1. Holder(k)'
    BY <1>2, <1>7 DEF Holder, Serving
  <2>2. Grants' = Grants \cup {[op |-> Op(k), conn |-> ConnOf(k)]}
    BY <1>1, <1>4, <1>5, <2>1 DEF Grants, Op, ConnOf
  <2>3. PICK c \in Conn : c = ConnOf(k)
    BY <1>1, DaemonAssumption DEF ConnOf
  <2>4. PICK m \in {"ApplyProfile", "RemoveProfile", "Connect", "Disconnect"} :
          m = Op(k)
    BY <1>1, DaemonAssumption DEF Op, Methods
  <2>5. /\ {d \in Conn : ike[d] # "none"}' = {d \in Conn : ike[d] # "none"}
        /\ [d \in Conn |-> <<conf[d], sec[d]>>]' = [d \in Conn |-> <<conf[d], sec[d]>>]
        /\ UNCHANGED swanctlConf
    BY <1>1
  <2>6. Gate!Grant(m, c)
    BY <1>3, <1>7, <2>2, <2>3, <2>4, <2>5 DEF Gate!Grant, Grants, Holder
  <2>7. m = "ApplyProfile" \/ m = "RemoveProfile" \/ m = "Connect" \/ m = "Disconnect"
    OBVIOUS
  <2> QED BY <2>6, <2>7
<1> QED BY <1>6, <1>7

\* Only an initiation raises a tunnel, and it is served under its grant.
LEMMA InitiateStep ==
  ASSUME TypeInv, NEW k \in Call, Initiate(k)
  PROVE  Gate!Release \/ \E c \in ValidConn : Gate!Raise(c)
<1>1. /\ Op(k) = "Connect" /\ pc[k] = "initiate"
      /\ UNCHANGED <<files, req, allowed>>
  BY DEF Initiate, TypeInv, Placed, MayBeAt
<1>2. Holder(k) /\ ConnOf(k) \in ValidConn /\ ConnOf(k) \in Conn
  BY <1>1, HolderOf, DaemonAssumption DEF Working
<1>3. \A j \in Call \ {k} : pc'[j] = pc[j]
  BY DEF Initiate, Advance, Goto, TypeInv, TypeOK
<1>4. CASE ike' = ike
  <2>1. \A j \in Call : Holder(j)' => Holder(j) /\ req'[j] = req[j]
    BY <1>1, <1>2, <1>3 DEF Holder, Serving
  <2>2. \A c \in Conn : ike[c] = "none" => ike'[c] = "none"
    BY <1>4
  <2> QED BY <1>1, <2>1, <2>2, Quiet
<1>5. CASE ike' # ike
  <2>1. pc'[k] = "initiating" /\ ike' = [ike EXCEPT ![ConnOf(k)] = "CONNECTING"]
    BY <1>5 DEF Initiate, Goto, TypeInv, TypeOK
  <2>2. Grants' = Grants
    <3>1. \A j \in Call : Serving(j)' <=> Serving(j)
      BY <1>1, <1>3, <2>1 DEF Serving, Working
    <3> QED BY <1>1, <3>1, SameGrants
  <2>3. PICK c \in ValidConn : c = ConnOf(k)
    BY <1>2
  <2>4. [op |-> "Connect", conn |-> c] \in Grants
    BY <1>1, <1>2, <2>3 DEF Grants
  <2>5. {d \in Conn : ike[d] # "none"}' = {d \in Conn : ike[d] # "none"} \cup {c}
    BY <1>2, <2>1, <2>3 DEF TypeInv, TypeOK
  <2>6. /\ [d \in Conn |-> <<conf[d], sec[d]>>]' = [d \in Conn |-> <<conf[d], sec[d]>>]
        /\ UNCHANGED swanctlConf
    BY <1>1
  <2>7. Gate!Raise(c)
    BY <2>2, <2>4, <2>5, <2>6 DEF Gate!Raise, Gate!Granted, Grants, Holder
  <2> QED BY <2>7
<1> QED BY <1>4, <1>5

\* What makes a step quiet (see Quiet).
Hushed ==
  /\ UNCHANGED files
  /\ \A c \in Conn : ike[c] = "none" => ike'[c] = "none"
  /\ \A k \in Call : Holder(k)' => Holder(k) /\ req'[k] = req[k]

LEMMA GateStep ==
  ASSUME TypeInv, AllowedInv, LiveInv, [Next]_vars
  PROVE  \/ Hushed
         \/ \E k \in Call :
              \/ Admit(k) \/ TruncMain(k) \/ WriteMain(k) \/ Initiate(k)
              \/ TruncConf(k) \/ WriteConf(k) \/ TruncSec(k) \/ WriteSec(k)
              \/ RmConf(k) \/ RmSec(k)
<1>0. CASE UNCHANGED vars
  BY <1>0
  DEF vars, TypeInv, TypeOK, AllowedInv, Hushed, Holder, Serving, Working,
      Finished
<1>1. ASSUME NEW i \in Call, NEW r \in Requests, Request(i, r) PROVE Hushed
  BY <1>1
  DEF Request, Entry, TypeInv, TypeOK, AllowedInv, Hushed, Holder, Serving,
      Goto, Working, Finished
<1>2. ASSUME NEW i \in Call, Deny(i) PROVE Hushed
  BY <1>2
  DEF Deny, TypeInv, TypeOK, AllowedInv, Hushed, Holder, Serving, Goto,
      Working, Finished
<1>3. ASSUME NEW i \in Call, IOError(i) PROVE Hushed
  BY <1>3
  DEF IOError, TypeInv, TypeOK, AllowedInv, Hushed, Holder, Serving, Goto,
      Working, Finished
<1>4. ASSUME NEW i \in Call, ReadMain(i) PROVE Hushed
  BY <1>4
  DEF ReadMain, AfterMain, TypeInv, TypeOK, AllowedInv, Hushed, Holder,
      Serving, Goto, Working, Finished
<1>5. ASSUME NEW i \in Call, CheckIke(i) PROVE Hushed
  BY <1>5
  DEF CheckIke, TypeInv, TypeOK, AllowedInv, Hushed, Holder, Serving, Goto,
      Working, Finished
<1>6. ASSUME NEW i \in Call, EnsureXauth(i) PROVE Hushed
  BY <1>6
  DEF EnsureXauth, EnsureRunning, ReadFiles, IkeChecked, TypeInv, TypeOK,
      AllowedInv, Hushed, Holder, Serving, Goto, Working, Finished
<1>6a. ASSUME NEW i \in Call, XauthStarted(i) PROVE Hushed
  BY <1>6a
  DEF XauthStarted, Started, IkeChecked, TypeInv, TypeOK,
      AllowedInv, Hushed, Holder, Serving, Goto, Working, Finished
<1>6b. ASSUME NEW i \in Call, ReadAll(i) PROVE Hushed
  BY <1>6b
  DEF ReadAll, TypeInv, TypeOK, AllowedInv, Hushed, Holder, Serving, Goto,
      Working, Finished
<1>7. ASSUME NEW i \in Call, LoadAll(i) PROVE Hushed
  BY <1>7
  DEF LoadAll, TypeInv, TypeOK, AllowedInv, Hushed, Holder, Serving, Goto,
      Working, Finished
<1>8. ASSUME NEW i \in Call, Start(i) PROVE Hushed
  BY <1>8
  DEF Start, EnsureRunning, ReadFiles, TypeInv, TypeOK, AllowedInv, Hushed,
      Holder, Serving, Goto, Working, Finished
<1>8a. ASSUME NEW i \in Call, ConnectStarted(i) PROVE Hushed
  BY <1>8a
  DEF ConnectStarted, Started, TypeInv, TypeOK, AllowedInv, Hushed,
      Holder, Serving, Goto, Working, Finished
<1>9. ASSUME NEW i \in Call, Peek(i) PROVE Hushed
  BY <1>9
  DEF Peek, TypeInv, TypeOK, AllowedInv, Hushed, Holder, Serving, Goto,
      Working, Finished
<1>10. ASSUME NEW i \in Call, List(i) PROVE Hushed
  BY <1>10
  DEF List, TypeInv, TypeOK, AllowedInv, Hushed, Holder, Serving, Goto,
      Working, Finished
<1>11. ASSUME NEW i \in Call, Initiated(i) PROVE Hushed
  <2>1. /\ pc[i] = "initiating" /\ UNCHANGED <<files, req, allowed>>
        /\ \A j \in Call \ {i} : pc'[j] = pc[j]
    BY <1>11 DEF Initiated, Advance, Goto, TypeInv, TypeOK
  <2>2. ~held[i] => ike' = ike
    BY <1>11 DEF Initiated
  <2>3. \A c \in Conn \ {ConnOf(i)} : ike'[c] = ike[c]
    BY <1>11 DEF Initiated, TypeInv, TypeOK
  <2>4. \A c \in Conn : ike[c] = "none" => ike'[c] = "none"
    BY <2>1, <2>2, <2>3 DEF LiveInv
  <2> QED BY <2>1, <2>4 DEF Hushed, Holder, Serving, Working
<1>12. ASSUME NEW i \in Call, Terminate(i) PROVE Hushed
  BY <1>12
  DEF Terminate, TypeInv, TypeOK, AllowedInv, Hushed, Holder, Serving, Goto,
      Working, Finished
<1>13. ASSUME NEW i \in Call, ListSas(i) PROVE Hushed
  BY <1>13
  DEF ListSas, TypeInv, TypeOK, AllowedInv, Hushed, Holder, Serving, Goto,
      Working, Finished
<1>14. ASSUME NEW d \in Conn, ChildLost(d) PROVE Hushed
  BY <1>14
  DEF ChildLost, TypeInv, TypeOK, AllowedInv, Hushed, Holder, Serving, Working,
      Finished
<1>15. ASSUME NEW d \in Conn, IkeLost(d) PROVE Hushed
  BY <1>15
  DEF IkeLost, TypeInv, TypeOK, AllowedInv, Hushed, Holder, Serving, Working,
      Finished
<1>16. ASSUME NEW d \in Conn, CharonSettles(d) PROVE Hushed
  BY <1>16
  DEF CharonSettles, TypeInv, TypeOK, AllowedInv, Hushed, Holder, Serving,
      Working, Finished
<1>17. ASSUME Kill PROVE Hushed
  BY <1>17
  DEF Kill, Active, TypeInv, TypeOK, AllowedInv, Hushed, Holder, Serving,
      Working, Finished
<1>18. ASSUME CharonStop PROVE Hushed
  BY <1>18
  DEF CharonStop, TypeInv, TypeOK, AllowedInv, Hushed, Holder, Serving,
      Working, Finished
<1> QED
  BY NextCases, <1>0, <1>1, <1>2, <1>3, <1>4, <1>5, <1>6, <1>6a, <1>6b, <1>7,
     <1>8, <1>8a, <1>9, <1>10, <1>11, <1>12, <1>13, <1>14, <1>15, <1>16, <1>17,
     <1>18

\* Daemon implements AuthGate: privileged files and tunnels change only under
\* a grant of polkit's for that very connection, for any number of concurrent
\* calls (service.go:17-18).
THEOREM GateHolds == Spec => GateSpec
<1>1. Init => AllowedInv
  BY DEF Init, AllowedInv
<1>2. TypeInv /\ AllowedInv /\ [Next]_vars => AllowedInv'
  BY AllowedStep
<1>3. Init => Gate!Init /\ LiveInv
  BY DEF Init, Gate!Init, Serving, Working, LiveInv
<1>5. TypeInv /\ LiveInv /\ [Next]_vars => LiveInv'
  BY LiveStep
<1>4. TypeInv /\ AllowedInv /\ LiveInv /\ [Next]_vars => [Gate!Next]_(Gate!gate)
  <2> SUFFICES ASSUME TypeInv, AllowedInv, LiveInv, [Next]_vars PROVE Gate!Next
    OBVIOUS
  <2>1. CASE Hushed
    <3>1. Gate!Release
      BY <2>1, Quiet DEF Hushed
    <3> QED BY <3>1 DEF Gate!Next
  <2>2. ASSUME NEW k \in Call, Admit(k) PROVE Gate!Next
    BY <2>2, AdmitStep DEF Gate!Next
  <2>3. ASSUME NEW k \in Call, TruncMain(k) \/ WriteMain(k) PROVE Gate!Next
    BY <2>3, MainStep DEF Gate!Next
  <2>4. ASSUME NEW k \in Call, Initiate(k) PROVE Gate!Next
    BY <2>4, InitiateStep DEF Gate!Next
  <2>5. ASSUME NEW k \in Call,
               TruncConf(k) \/ WriteConf(k) \/ TruncSec(k) \/ WriteSec(k)
                 \/ RmConf(k) \/ RmSec(k)
        PROVE  Gate!Next
    BY <2>5, EntryStep DEF Gate!Next
  <2> QED BY GateStep, <2>1, <2>2, <2>3, <2>4, <2>5
<1> QED
  BY TypeAlways, <1>1, <1>2, <1>3, <1>4, <1>5, PTL
  DEF Spec, GateSpec, Gate!Spec

-----------------------------------------------------------------------------
(* The course of one call: how far it is from its reply, and how often it   *)
(* has presented credentials.                                               *)

\* Where each step of a handler leads but for the end.
Onward(l) ==
  CASE l = "idle"        -> Starts \cup {"authorize"}
    [] l = "authorize"   -> Starts
    [] l = "readMain"    -> {"truncMain", "checkIke", "truncConf"}
    [] l = "truncMain"   -> {"writeMain"}
    [] l = "writeMain"   -> {"checkIke", "truncConf"}
    [] l = "checkIke"    -> {"ensureXauth", "truncConf"}
    [] l = "ensureXauth" -> {"startingXauth", "list", "truncConf"}
    [] l = "startingXauth" -> {"list", "truncConf"}
    [] l = "truncConf"   -> {"writeConf"}
    [] l = "writeConf"   -> {"truncSec"}
    [] l = "truncSec"    -> {"writeSec"}
    [] l = "writeSec"    -> {"load"}
    [] l = "rmConf"      -> {"rmSec"}
    [] l = "rmSec"       -> {"load"}
    [] l = "load"        -> {"send"}
    [] l = "start"       -> {"starting", "peek"}
    [] l = "starting"    -> {"peek"}
    [] l = "peek"        -> {"ensureXauth", "list"}
    [] l = "initiate"    -> {"initiating"}
    [] OTHER             -> {}

Counters(k) == <<at[k], total[k], presented[k]>>

\* The loop over the children begins, and goes through one round.
Begins(k) ==
  /\ pc[k] = "list" /\ pc'[k] = "initiate"
  /\ at'[k] = 1 /\ total'[k] \in 1 .. MaxNets /\ presented'[k] = presented[k]
Rounds(k) ==
  /\ pc[k] \in {"initiate", "initiating"}
  /\ pc'[k] \in IF at[k] < total[k] THEN {"initiate"} ELSE {"ok", "failed"}
  /\ at'[k] = at[k] + 1 /\ total'[k] = total[k]
  /\ \E n \in 0 .. MaxPrompts : presented'[k] = presented[k] + n

Ends(k)  == pc[k] \notin Finished /\ pc'[k] \in Finished /\ UNCHANGED Counters(k)
Goes(k)  == pc'[k] \in Onward(pc[k]) /\ UNCHANGED Counters(k)
Stays(k) == UNCHANGED <<pc[k], Counters(k)>>
Moves(k) == Stays(k) \/ Goes(k) \/ Ends(k) \/ Begins(k) \/ Rounds(k)

\* A file never names more children than a profile has networks.
LEMMA ChildCountsBound ==
  ASSUME NEW x \in Content, NEW n \in ChildCounts(x)
  PROVE  n \in 1 .. MaxNets
BY DaemonAssumption DEF Content, ChildCounts, IsV1

\* A round of the loop, whatever came of the child.
LEMMA AdvanceRounds ==
  ASSUME TypeInv, NEW k \in Call, NEW e, Advance(k, e), UNCHANGED total,
         pc[k] \in {"initiate", "initiating"},
         NEW n \in 0 .. MaxPrompts,
         presented' \in {presented, [presented EXCEPT ![k] = @ + n]}
  PROVE  Rounds(k) /\ \A j \in Call \ {k} : Stays(j)
<1>1. presented[k] \in Nat /\ 0 \in 0 .. MaxPrompts
  BY DaemonAssumption DEF TypeInv, TypeOK
<1>2. \/ presented'[k] = presented[k] + 0
      \/ presented'[k] = presented[k] + n
  BY <1>1 DEF TypeInv, TypeOK
<1>3. \E m \in 0 .. MaxPrompts : presented'[k] = presented[k] + m
  BY <1>1, <1>2
<1> QED
  BY <1>3 DEF Advance, Rounds, Stays, Counters, Goto, TypeInv, TypeOK

\* What any step of the system does to any one call.
LEMMA MovesStep ==
  ASSUME TypeInv, [Next]_vars, NEW j \in Call
  PROVE  Moves(j)
<1> USE DEF Goes, Ends, Stays, Counters, Goto, Onward, Finished
<1> DEFINE Move == Goes(j) \/ Ends(j) \/ Stays(j)
<1>0. CASE UNCHANGED vars
  BY <1>0 DEF vars, Moves
<1>1. ASSUME NEW k \in Call, NEW r \in Requests, Request(k, r) PROVE Move
  BY <1>1, FirstStepStarts DEF Request, Entry, TypeInv, TypeOK, Starts
<1>2. ASSUME NEW k \in Call, Admit(k) PROVE Move
  <2>1. FirstStep(req[k]) \in Starts \cup {"failed"}
    BY <1>2, FirstStepStarts DEF Admit, TypeInv, Placed
  <2> QED BY <1>2, <2>1 DEF Admit, TypeInv, TypeOK
<1>3. ASSUME NEW k \in Call, Deny(k) PROVE Move
  BY <1>3 DEF Deny, TypeInv, TypeOK
<1>4. ASSUME NEW k \in Call, IOError(k) PROVE Move
  BY <1>4 DEF IOError, TypeInv, TypeOK
<1>5. ASSUME NEW k \in Call, ReadMain(k) PROVE Move
  BY <1>5 DEF ReadMain, AfterMain, TypeInv, TypeOK
<1>6. ASSUME NEW k \in Call, TruncMain(k) PROVE Move
  BY <1>6 DEF TruncMain, TypeInv, TypeOK
<1>7. ASSUME NEW k \in Call, WriteMain(k) PROVE Move
  BY <1>7 DEF WriteMain, AfterMain, TypeInv, TypeOK
<1>8. ASSUME NEW k \in Call, CheckIke(k) PROVE Move
  BY <1>8 DEF CheckIke, TypeInv, TypeOK
<1>9. ASSUME NEW k \in Call, EnsureXauth(k) PROVE Move
  BY <1>9 DEF EnsureXauth, EnsureRunning, IkeChecked, TypeInv, TypeOK
<1>9a. ASSUME NEW k \in Call, XauthStarted(k) PROVE Move
  BY <1>9a DEF XauthStarted, Started, IkeChecked, TypeInv, TypeOK
<1>10. ASSUME NEW k \in Call, TruncConf(k) PROVE Move
  BY <1>10 DEF TruncConf, TypeInv, TypeOK
<1>11. ASSUME NEW k \in Call, WriteConf(k) PROVE Move
  BY <1>11 DEF WriteConf, TypeInv, TypeOK
<1>12. ASSUME NEW k \in Call, TruncSec(k) PROVE Move
  BY <1>12 DEF TruncSec, TypeInv, TypeOK
<1>13. ASSUME NEW k \in Call, WriteSec(k) PROVE Move
  BY <1>13 DEF WriteSec, TypeInv, TypeOK
<1>13a. ASSUME NEW k \in Call, ReadAll(k) PROVE Move
  BY <1>13a DEF ReadAll, TypeInv, TypeOK
<1>14. ASSUME NEW k \in Call, LoadAll(k) PROVE Move
  BY <1>14 DEF LoadAll, TypeInv, TypeOK
<1>15. ASSUME NEW k \in Call, RmConf(k) PROVE Move
  BY <1>15 DEF RmConf, TypeInv, TypeOK
<1>16. ASSUME NEW k \in Call, RmSec(k) PROVE Move
  BY <1>16 DEF RmSec, TypeInv, TypeOK
<1>17. ASSUME NEW k \in Call, Start(k) PROVE Move
  BY <1>17 DEF Start, EnsureRunning, TypeInv, TypeOK
<1>17a. ASSUME NEW k \in Call, ConnectStarted(k) PROVE Move
  BY <1>17a DEF ConnectStarted, Started, TypeInv, TypeOK
<1>18. ASSUME NEW k \in Call, Peek(k) PROVE Move
  BY <1>18 DEF Peek, TypeInv, TypeOK
<1>19. ASSUME NEW k \in Call, List(k) PROVE Moves(j)
  <2>1. conf[ConnOf(k)] \in Content
    BY <1>19, DaemonAssumption DEF List, TypeInv, TypeOK, Placed, ConnOf
  <2>2. PICK n \in ChildCounts(conf[ConnOf(k)]) : total' = [total EXCEPT ![k] = n]
    BY <1>19 DEF List
  <2>3. n \in 1 .. MaxNets
    BY <2>1, <2>2, ChildCountsBound
  <2>4. Begins(k) /\ \A i \in Call \ {k} : Stays(i)
    BY <1>19, <2>2, <2>3 DEF List, Begins, TypeInv, TypeOK
  <2> QED BY <2>4 DEF Moves
<1>20. ASSUME NEW k \in Call, Initiate(k) PROVE Moves(j)
  <2>1. CASE Advance(k, {at[k]}) /\ UNCHANGED <<total, presented>>
    <3>1. presented' = presented /\ 0 \in 0 .. MaxPrompts
      BY <2>1, DaemonAssumption
    <3> QED BY <1>20, <2>1, <3>1, AdvanceRounds DEF Initiate, Moves
  <2>2. CASE Goto(k, "initiating") /\ UNCHANGED <<at, total, presented>>
    BY <1>20, <2>2 DEF Initiate, Moves, TypeInv, TypeOK
  <2> QED BY <1>20, <2>1, <2>2 DEF Initiate
<1>21. ASSUME NEW k \in Call, Initiated(k) PROVE Moves(j)
  <2>1. \E e \in {{}, {at[k]}} : Advance(k, e)
    BY <1>21 DEF Initiated
  <2>2. PICK n \in 0 .. MaxPrompts :
          presented' \in {presented, [presented EXCEPT ![k] = @ + n]}
    BY <1>21, DaemonAssumption DEF Initiated
  <2> QED BY <1>21, <2>1, <2>2, AdvanceRounds DEF Initiated, Moves
<1>22. ASSUME NEW k \in Call, Terminate(k) PROVE Move
  BY <1>22 DEF Terminate, TypeInv, TypeOK
<1>23. ASSUME NEW k \in Call, ListSas(k) PROVE Move
  BY <1>23 DEF ListSas, TypeInv, TypeOK
<1>24. ASSUME NEW c \in Conn, ChildLost(c) \/ IkeLost(c) \/ CharonSettles(c)
       PROVE  Move
  BY <1>24 DEF ChildLost, IkeLost, CharonSettles
<1>25. ASSUME Kill PROVE Move
  BY <1>25 DEF Kill, Active
<1>26. ASSUME CharonStop PROVE Move
  BY <1>26 DEF CharonStop
<1> QED
  BY NextCases, <1>0, <1>1, <1>2, <1>3, <1>4, <1>5, <1>6, <1>7, <1>8, <1>9,
     <1>9a, <1>10, <1>11, <1>12, <1>13, <1>13a, <1>14, <1>15, <1>16, <1>17,
     <1>17a, <1>18, <1>19, <1>20, <1>21, <1>22, <1>23, <1>24, <1>25, <1>26 DEF Moves

\* n presentations are no more than i children account for.
Within(n, i) == n <= MaxPrompts * i

LEMMA WithinNone == Within(0, 0)
BY DaemonAssumption DEF Within

LEMMA WithinMore ==
  ASSUME NEW n \in Nat, NEW i \in Nat, Within(n, i), NEW m \in 0 .. MaxPrompts
  PROVE  Within(n + m, i + 1)
<1>1. MaxPrompts * (i + 1) = MaxPrompts * i + MaxPrompts
  BY DaemonAssumption
<1>2. MaxPrompts * i \in Nat
  BY DaemonAssumption
<1> QED BY <1>1, <1>2, DaemonAssumption DEF Within

\* In the loop a call is at one of the children it counted, before it at
\* none; it has presented presented credentials for children it is past.
Counted(k) ==
  /\ total[k] <= MaxNets
  /\ pc[k] \in {"initiate", "initiating"} => 0 < at[k] /\ at[k] <= total[k]
  /\ pc[k] \notin {"initiate", "initiating"} \cup Finished => at[k] = 0
  /\ at[k] = 0 => presented[k] = 0
  /\ at[k] > 0 => Within(presented[k], at[k] - 1) /\ at[k] <= total[k] + 1

CountInv == \A k \in Call : Counted(k)

LEMMA CountInit == Init => CountInv
BY DaemonAssumption DEF Init, CountInv, Counted, Finished

LEMMA CountStep == TypeInv /\ CountInv /\ [Next]_vars => CountInv'
<1> SUFFICES ASSUME TypeInv, CountInv, [Next]_vars, NEW k \in Call
             PROVE  Counted(k)'
  BY DEF CountInv
<1>1. /\ at[k] \in Nat /\ total[k] \in Nat /\ presented[k] \in Nat
      /\ MaxNets \in Nat /\ Counted(k) /\ Moves(k)
      /\ pc[k] \in Waiting \cup Working \cup Finished
  BY MovesStep, DaemonAssumption DEF TypeInv, TypeOK, CountInv
<1>2. CASE Stays(k)
  BY <1>1, <1>2 DEF Stays, Counters, Counted
<1>3. CASE Ends(k)
  BY <1>1, <1>3 DEF Ends, Counters, Counted, Finished
<1>4. CASE Goes(k)
  BY <1>1, <1>4
  DEF Goes, Onward, Starts, Counters, Counted, Waiting, Working, Finished
<1>5. CASE Begins(k)
  <2>1. presented'[k] = 0 /\ at'[k] = 1 /\ at'[k] - 1 = 0
    BY <1>1, <1>5 DEF Begins, Counted, Finished
  <2>2. Within(presented'[k], at'[k] - 1)
    BY <2>1, WithinNone
  <2> QED BY <1>1, <1>5, <2>1, <2>2 DEF Begins, Counted, Finished
<1>6. CASE Rounds(k)
  <2>1. PICK n \in 0 .. MaxPrompts : presented'[k] = presented[k] + n
    BY <1>6 DEF Rounds
  <2>2. at[k] > 0 /\ at'[k] = at[k] + 1 /\ at[k] - 1 \in Nat
    BY <1>1, <1>6 DEF Rounds, Counted
  <2>3. Within(presented[k] + n, (at[k] - 1) + 1)
    BY <1>1, <2>2, WithinMore DEF Counted
  <2>4. (at[k] - 1) + 1 = at'[k] - 1
    BY <1>1, <2>2
  <2>5. Within(presented'[k], at'[k] - 1)
    BY <2>1, <2>3, <2>4
  <2> QED BY <1>1, <1>6, <2>2, <2>5 DEF Rounds, Counted, Finished
<1> QED BY <1>1, <1>2, <1>3, <1>4, <1>5, <1>6 DEF Moves

LEMMA CountAlways == Spec => [](TypeInv /\ CountInv)
BY TypeAlways, CountInit, CountStep, PTL DEF Spec

\* However many children a profile has and whatever else disturbs the loop, a
\* Connect has rejected credentials presented at most MaxPrompts times for
\* each child it is past, and it never goes past those it counted.
THEOREM OneAttemptPerChild == Spec => []AttemptPerChild
<1>1. TypeInv /\ CountInv => AttemptPerChild
  <2> SUFFICES ASSUME TypeInv, CountInv, NEW k \in Call, presented[k] > 0
               PROVE  presented[k] <= MaxPrompts * (at[k] - 1) /\ at[k] <= total[k] + 1
    BY DEF AttemptPerChild
  <2>1. at[k] \in Nat /\ at[k] # 0
    BY DEF TypeInv, TypeOK, CountInv, Counted
  <2>2. Within(presented[k], at[k] - 1) /\ at[k] <= total[k] + 1
    BY <2>1 DEF CountInv, Counted
  <2> QED BY <2>2 DEF Within
<1> QED BY <1>1, CountAlways, PTL

\* Of the steps of any actor each shortens the way to the reply of a call
\* that is being served, or leaves that call where it is.
THEOREM CallsDrawNearer == Spec => NearerReply
<1>1. ASSUME TypeInv, CountInv, [Next]_vars, NEW k \in Call, Serving(k)
      PROVE  \/ StepsLeft(k)' < StepsLeft(k)
             \/ UNCHANGED <<pc[k], at[k], total[k]>>
  <2>1. /\ at[k] \in Nat /\ total[k] \in Nat /\ MaxNets \in Nat
        /\ Counted(k) /\ Moves(k) /\ pc[k] \in Working
    BY <1>1, MovesStep, DaemonAssumption DEF TypeInv, TypeOK, CountInv, Serving
  <2>2. CASE Stays(k)
    BY <2>2 DEF Stays, Counters
  <2>3. CASE Ends(k)
    BY <2>1, <2>3 DEF Ends, StepsLeft, Finished, Working, Counted
  <2>4. CASE Goes(k)
    <3>1. CASE pc[k] = "initiate"
      <4>1. pc'[k] = "initiating" /\ at'[k] = at[k] /\ total'[k] = total[k]
        BY <2>4, <3>1 DEF Goes, Counters, Onward
      <4>2. /\ StepsLeft(k) = 2 * (total[k] - at[k]) + 2
            /\ StepsLeft(k)' = 2 * (total[k] - at[k]) + 1
        BY <3>1, <4>1 DEF StepsLeft
      <4> QED BY <2>1, <4>2
    <3>2. CASE pc[k] # "initiate"
      <4>1. pc'[k] \in Onward(pc[k])
        BY <2>4 DEF Goes
      <4>2. CASE pc[k] \in {"readMain", "truncMain", "writeMain"}
        BY <2>1, <4>1, <4>2 DEF Onward, StepsLeft
      <4>3. CASE pc[k] \in {"checkIke", "ensureXauth", "startingXauth"}
        <5>1. MaxNets > 0
          BY DaemonAssumption
        <5> QED BY <2>1, <4>1, <4>3, <5>1 DEF Onward, StepsLeft
      <4>4. CASE pc[k] \in {"start", "starting", "peek"}
        BY <2>1, <4>1, <4>4 DEF Onward, StepsLeft
      <4>5. CASE pc[k] \in {"truncConf", "writeConf", "truncSec", "writeSec"}
        BY <4>1, <4>5 DEF Onward, StepsLeft
      <4>6. CASE pc[k] \in {"load", "send", "rmConf", "rmSec", "list",
                             "initiating", "terminate", "listSas"}
        BY <4>1, <4>6 DEF Onward, StepsLeft
      <4> QED BY <2>1, <3>2, <4>2, <4>3, <4>4, <4>5, <4>6 DEF Working
    <3> QED BY <3>1, <3>2
  <2>5. CASE Begins(k)
    BY <2>1, <2>5 DEF Begins, StepsLeft
  <2>6. CASE Rounds(k)
    <3>1. at'[k] = at[k] + 1 /\ total'[k] = total[k] /\ at[k] <= total[k]
      BY <2>1, <2>6 DEF Rounds, Counted
    <3>2. \/ StepsLeft(k) = 2 * (total[k] - at[k]) + 1
          \/ StepsLeft(k) = 2 * (total[k] - at[k]) + 2
      BY <2>6 DEF Rounds, StepsLeft
    <3>3. CASE at[k] < total[k]
      <4>1. pc'[k] = "initiate"
        BY <2>6, <3>3 DEF Rounds
      <4>2. StepsLeft(k)' = 2 * (total'[k] - at'[k]) + 2
        BY <4>1 DEF StepsLeft
      <4> QED BY <2>1, <3>1, <3>2, <4>2
    <3>4. CASE ~(at[k] < total[k])
      <4>1. pc'[k] \in {"ok", "failed"}
        BY <2>6, <3>4 DEF Rounds
      <4>2. StepsLeft(k)' = 0
        BY <4>1 DEF StepsLeft
      <4> QED BY <2>1, <3>1, <3>2, <4>2
    <3> QED BY <3>3, <3>4
  <2> QED BY <2>1, <2>2, <2>3, <2>4, <2>5, <2>6 DEF Moves
<1>2. TypeInv /\ CountInv /\ [Next]_vars
      => [\A k \in Call : Serving(k) =>
            \/ StepsLeft(k)' < StepsLeft(k)
            \/ UNCHANGED <<pc[k], at[k], total[k]>>]_vars
  BY <1>1
<1> QED BY <1>2, CountAlways, PTL DEF Spec, NearerReply

\* No call is ever more than 2 * MaxNets + 11 steps of its own from its reply.
THEOREM WayIsBounded ==
  Spec => [](\A k \in Call : StepsLeft(k) \in 0 .. 2 * MaxNets + 11)
<1>1. TypeInv /\ CountInv => \A k \in Call : StepsLeft(k) \in 0 .. 2 * MaxNets + 11
  <2> SUFFICES ASSUME TypeInv, CountInv, NEW k \in Call
               PROVE  StepsLeft(k) \in 0 .. 2 * MaxNets + 11
    OBVIOUS
  <2>1. /\ at[k] \in Nat /\ total[k] \in Nat /\ MaxNets \in Nat /\ Counted(k)
    BY DaemonAssumption DEF TypeInv, TypeOK, CountInv
  <2>2. CASE pc[k] \in {"initiate", "initiating"}
    <3>1. total[k] - at[k] \in 0 .. MaxNets - 1
      BY <2>1, <2>2 DEF Counted
    <3>2. \/ StepsLeft(k) = 2 * (total[k] - at[k]) + 1
          \/ StepsLeft(k) = 2 * (total[k] - at[k]) + 2
      BY <2>2 DEF StepsLeft
    <3> QED BY <2>1, <3>1, <3>2
  <2>3. CASE pc[k] \notin {"initiate", "initiating"}
    <3>1. \E n \in 0 .. 11 : \/ StepsLeft(k) = n
                            \/ StepsLeft(k) = 2 * MaxNets + n
      <4> DEFINE Far == {"list", "ensureXauth", "startingXauth", "checkIke", "peek",
                         "writeMain", "starting", "start", "truncMain", "readMain"}
      <4>1. ASSUME pc[k] \notin Far
            PROVE  \/ StepsLeft(k) = 0 \/ StepsLeft(k) = 1 \/ StepsLeft(k) = 2
                   \/ StepsLeft(k) = 3 \/ StepsLeft(k) = 4 \/ StepsLeft(k) = 5
                   \/ StepsLeft(k) = 6
        BY <2>3, <4>1 DEF StepsLeft
      <4>2. ASSUME pc[k] \in Far
            PROVE  \/ StepsLeft(k) = 2 * MaxNets + 1 \/ StepsLeft(k) = 2 * MaxNets + 6
                   \/ StepsLeft(k) = 2 * MaxNets + 7 \/ StepsLeft(k) = 2 * MaxNets + 8
                   \/ StepsLeft(k) = 2 * MaxNets + 9 \/ StepsLeft(k) = 2 * MaxNets + 10
                   \/ StepsLeft(k) = 2 * MaxNets + 11
        BY <4>2 DEF StepsLeft
      <4> QED BY <4>1, <4>2
    <3> QED BY <2>1, <3>1
  <2> QED BY <2>2, <2>3
<1> QED BY <1>1, CountAlways, PTL
=============================================================================
