------------------------------- MODULE Daemon -------------------------------
(***************************************************************************)
(* The privileged half of fortivpn-client: internal/daemon.  Every D-Bus   *)
(* call runs on a goroutine of its own and nothing in the daemon locks, so *)
(* a call is a process here and each file operation, command or reply of   *)
(* its handler is one step.  Around the calls stand the things they share: *)
(* swanctl.conf, two conf.d files per profile, and charon (strongSwan)     *)
(* with the configuration it has loaded and the SAs it keeps.              *)
(***************************************************************************)
EXTENDS Naturals, FiniteSets

CONSTANTS
  Call,      \* D-Bus calls; each is made at most once
  Conn,      \* connection names that callers may pass
  ValidConn, \* the names connNameRE accepts
  Payload,   \* profiles with credentials: [conn, ike, xauth, nets, rev]
  Requests,  \* what callers ask for: [op, conn, p]
  MaxNets,   \* largest number of networks a profile lists
  MaxPrompts, \* how often a gateway asks for credentials it rejects
  Faults,    \* what the environment may do wrong (see KnownFaults)
  Absent,    \* a file that does not exist, or nothing loaded
  Blank,     \* a file that WriteFile has truncated and not yet written
  Garbled    \* one file's text over the tail of another's

Methods == {"Status", "ApplyProfile", "Connect", "Disconnect", "RemoveProfile"}

KnownFaults ==
  {"io",      \* a read or write of a file fails
   "unlink",  \* os.Remove fails on a file that exists
   "kill",    \* systemd stops the daemon in the middle of calls
   "stop",    \* strongSwan stops; "start": it cannot be started
   "start",
   "build",   \* libcharon has no IKEv1, or xauth-generic is not loaded
   "refuse",  \* charon refuses one of the entries it is told to load
   "mention", \* swanctl.conf speaks of conf.d without including it
   "reject",  \* the gateway rejects the credentials of an IKE_SA
   "narrow",  \* the gateway refuses one CHILD_SA
   "silent",  \* the gateway never answers
   "drop"}    \* an SA that was up goes down by itself

Content == Payload \cup {Absent, Blank, Garbled}
Text    == {"admin", "include", "mention", "junk"}

ASSUME DaemonAssumption ==
  /\ ValidConn \subseteq Conn
  /\ MaxNets \in Nat \ {0} /\ MaxPrompts \in Nat \ {0}
  /\ Faults \subseteq KnownFaults
  /\ Payload \subseteq [conn : Conn, ike : {"v1", "v2"}, xauth : BOOLEAN,
                        nets : 0 .. MaxNets, rev : Nat]
  /\ Requests \subseteq [op : Methods, conn : Conn, p : Payload \cup {Absent}]
  /\ \A r \in Requests : IF r.op = "ApplyProfile"
                           THEN r.p \in Payload /\ r.p.conn = r.conn
                           ELSE r.p = Absent
  /\ Absent \notin Payload \cup {Blank, Garbled}
  /\ Blank \notin Payload \cup {Garbled}
  /\ Garbled \notin Payload

VARIABLES
  swanctlConf, \* what /etc/swanctl/swanctl.conf holds, a subset of Text
  conf,        \* conf.d/<conn>.conf
  sec,         \* conf.d/<conn>-secrets.conf
  charonUp,    \* strongSwan is active
  lconf,       \* the connection charon has loaded from each conf
  lsec,        \* the secrets charon has loaded from each secrets file
  rconf, rsec, \* what the load-all a call waits for has read of them
  ike,         \* the IKE_SA of each connection
  child,       \* the CHILD_SAs installed for it, by index
  pc,          \* where each call is
  req,         \* what it was asked
  allowed,     \* polkit has answered yes for it
  seen,        \* the swanctl.conf text it read
  held,        \* its open file is still linked, or its negotiation alive
  at, total,   \* the child it initiates, of how many
  err,         \* the children, or the files, that it failed with
  presented,   \* how often it has presented credentials in vain
  alone,       \* history: no conflicting call was active at its request
  latest,      \* history: and none came, no SA of a Connect was lost, since
  intact,      \* history: nothing has crossed its load-all (see below)
  cut          \* history: a write of swanctl.conf was read halfway or cut

files  == <<swanctlConf, conf, sec>>
loaded == <<lconf, lsec, rconf, rsec>>
tunnel == <<ike, child>>
charon == <<charonUp, loaded, tunnel>>
ask    == <<req, allowed>>
locals == <<seen, held, at, total, err, presented>>
hist   == <<alone, latest, intact, cut>>
vars   == <<files, charon, pc, ask, locals, hist>>

NoRequest == [op |-> "Status", conn |-> CHOOSE c \in Conn : TRUE, p |-> Absent]

Finished == {"ok", "failed", "lost"}
Waiting  == {"idle", "authorize"}
Working  ==
  {"readMain", "truncMain", "writeMain", "checkIke", "ensureXauth",
   "startingXauth", "truncConf", "writeConf", "truncSec", "writeSec",
   "load", "send", "rmConf", "rmSec", "start", "starting", "peek",
   "list", "initiate", "initiating", "terminate", "listSas"}

Active(k)   == pc[k] \notin {"idle"} \cup Finished
Serving(k)  == pc[k] \in Working
Op(k)       == req[k].op
ConnOf(k)   == req[k].conn

-----------------------------------------------------------------------------
(* What the daemon reads out of a file, and what charon makes of it.        *)

IsV1(x)    == x \in Payload /\ x.ike = "v1"
IsXauth(x) == x \in Payload /\ x.xauth

\* How many child blocks childNamesFromConf may find; its fallback is one.
ChildCounts(x) ==
  IF x = Garbled THEN 1 .. MaxNets
  ELSE IF IsV1(x) /\ x.nets > 0 THEN {x.nets} ELSE {1}

\* strings.Contains on the text, which a garbled file may answer either way.
MayBe(x, answer) == IF x = Garbled THEN BOOLEAN ELSE {answer}

\* charon has a configuration for the i-th child of c.
Knows(x, i)   == x \in Payload /\ \A n \in ChildCounts(x) : i <= n
MayKnow(x, i) == MayBe(x, Knows(x, i))

\* Variant: an emptied file is taken for an entry.
OnDiskBlank(f) == [c \in Conn |-> IF "include" \in swanctlConf
                                    THEN f[c] ELSE Absent]
\* What a load finds under conf.d: nothing unless swanctl.conf includes it.
OnDisk(f) == [c \in Conn |-> IF "include" \in swanctlConf /\ f[c] # Blank
                               THEN f[c] ELSE Absent]

Unparsable == \/ "junk" \in swanctlConf
              \/ \E c \in Conn : Garbled \in {OnDisk(conf)[c], OnDisk(sec)[c]}

Nothing == [c \in Conn |-> Absent]

-----------------------------------------------------------------------------
(* Bookkeeping of which calls can get in each other's way.                  *)

Writers == {"ApplyProfile", "RemoveProfile"}

Conflict(r, s) ==
  /\ r.conn = s.conn
  /\ r.op # "Status" /\ s.op # "Status"
  /\ r.op \in Writers => s.op # "Disconnect"
  /\ s.op \in Writers => r.op # "Disconnect"

Undisturbed(k) == alone[k] /\ latest[k]

\* What can keep the load-all of a call from delivering what the call wrote:
\* another one that read before it and sends after it, another call's
\* rewriting of swanctl.conf, and charon's stop.
Cross(K) == intact' = [k \in Call |-> intact[k] /\ k \notin K]

\* The conf.d files have been read for charon, and not yet sent to it.
Starting   == {"starting", "startingXauth"}
Sending(k) == pc[k] \in {"send"} \cup Starting

Goto(k, l) == pc' = [pc EXCEPT ![k] = l]

\* The calls that wait for a negotiation with c are told it has ended.
HeldAfterLoss(c) ==
  [k \in Call |-> held[k] /\ ~(pc[k] = "initiating" /\ ConnOf(k) = c)]

\* The calls that have the file opened at step l are left with a detached one.
HeldAfterUnlink(c, l) ==
  [k \in Call |-> held[k] /\ ~(pc[k] = l /\ ConnOf(k) = c)]

-----------------------------------------------------------------------------
(* A call arrives; polkit admits or refuses its sender.                     *)

\* Variant: RemoveProfile forgets validateConnName.
FirstStepAnyName(r) ==
  IF r.op = "RemoveProfile" THEN "rmConf"
  ELSE IF r.conn \notin ValidConn THEN "failed"
  ELSE CASE r.op = "Status"        -> "listSas"
         [] r.op = "ApplyProfile"  -> "readMain"
         [] r.op = "Connect"       -> "start"
         [] r.op = "Disconnect"    -> "terminate"

FirstStep(r) ==
  IF r.conn \notin ValidConn THEN "failed"
  ELSE CASE r.op = "Status"        -> "listSas"
         [] r.op = "ApplyProfile"  -> "readMain"
         [] r.op = "Connect"       -> "start"
         [] r.op = "Disconnect"    -> "terminate"
         [] r.op = "RemoveProfile" -> "rmConf"

\* Variant: Connect, which writes no file, is let in like Status.
EntryUnasked(r) ==
  IF r.op \in {"Status", "Connect"} THEN FirstStep(r) ELSE "authorize"

\* Status skips polkit; every other method asks it first.
Entry(r) == IF r.op = "Status" THEN FirstStep(r) ELSE "authorize"

Request(k, r) ==
  /\ pc[k] = "idle"
  /\ req' = [req EXCEPT ![k] = r]
  /\ Goto(k, Entry(r))
  /\ alone' = [alone EXCEPT ![k] =
                 \A j \in Call \ {k} : Active(j) => ~Conflict(req[j], r)]
  /\ latest' = [j \in Call |-> \/ j = k
                               \/ latest[j] /\ ~Conflict(req[j], r)]
  /\ intact' = [intact EXCEPT ![k] = r.op \in Writers]
  /\ UNCHANGED <<files, charon, allowed, locals, cut>>

Admit(k) ==
  /\ pc[k] = "authorize"
  /\ allowed' = [allowed EXCEPT ![k] = TRUE]
  /\ Goto(k, FirstStep(req[k]))
  /\ UNCHANGED <<files, charon, req, locals, hist>>

Deny(k) ==
  /\ pc[k] = "authorize"
  /\ Goto(k, "failed")
  /\ UNCHANGED <<files, charon, ask, locals, hist>>

-----------------------------------------------------------------------------
(* ensureConfDIncluded: read, and rewrite only when conf.d is not mentioned,
   be it in a comment.                                                      *)

AfterMain(k) == IF req[k].p.ike = "v1" THEN "checkIke" ELSE "truncConf"

MidRewrite(k) == pc[k] = "writeMain"

ReadMain(k) ==
  /\ pc[k] = "readMain"
  /\ seen' = [seen EXCEPT ![k] = swanctlConf]
  /\ Goto(k, IF {"include", "mention"} \cap swanctlConf # {}
               THEN AfterMain(k) ELSE "truncMain")
  /\ cut' = (cut \/ \E j \in Call : MidRewrite(j))
  /\ UNCHANGED <<files, charon, ask, held, at, total, err, presented,
                 alone, latest, intact>>

\* os.WriteFile truncates first: for a moment every entry is out of reach.
TruncMain(k) ==
  /\ pc[k] = "truncMain"
  /\ swanctlConf' = {}
  /\ Goto(k, "writeMain")
  /\ Cross(Call \ {k})
  /\ UNCHANGED <<conf, sec, charon, ask, locals, alone, latest, cut>>

\* The new text lands over whatever another writer has put there meanwhile.
WriteMain(k) ==
  /\ pc[k] = "writeMain"
  /\ swanctlConf' \in
       IF swanctlConf \subseteq seen[k] \cup {"include"}
         THEN {seen[k] \cup {"include"}}
         ELSE {seen[k] \cup {"include"}, seen[k] \cup {"include", "junk"}}
  /\ Goto(k, AfterMain(k))
  /\ UNCHANGED <<conf, sec, charon, ask, locals, hist>>

-----------------------------------------------------------------------------
(* requireIkev1 and ensureStrongswanRunning.                                *)

IkeChecked(k) == IF Op(k) = "Connect" THEN "list" ELSE "truncConf"

\* libcharon must have been built with IKEv1.
CheckIke(k) ==
  /\ pc[k] = "checkIke"
  /\ \/ Goto(k, IF req[k].p.xauth THEN "ensureXauth" ELSE "truncConf")
     \/ "build" \in Faults /\ Goto(k, "failed")
  /\ UNCHANGED <<files, charon, ask, locals, hist>>

\* A load-all, of a call or of the unit that starts charon, reads first ...
ReadFiles(k) == rconf' = [rconf EXCEPT ![k] = OnDisk(conf)]
             /\ rsec' = [rsec EXCEPT ![k] = OnDisk(sec)]
\* ... and sends later, secrets first; charon may refuse some entries.
SendFiles(k, bad) ==
  /\ lsec' = rsec[k]
  /\ lconf' = [c \in Conn |-> IF c \in bad THEN lconf[c] ELSE rconf[k][c]]
Forget(k) == rconf' = [rconf EXCEPT ![k] = Nothing]
          /\ rsec' = [rsec EXCEPT ![k] = Nothing]

\* systemctl start is back when the unit is; a second one waits for the first.
EnsureRunning(k, next, loading) ==
  \/ /\ charonUp /\ \A j \in Call : pc[j] \notin Starting
     /\ Goto(k, next) /\ UNCHANGED charon
  \/ /\ ~charonUp /\ charonUp' = TRUE
     /\ ReadFiles(k) /\ Goto(k, loading)
     /\ UNCHANGED <<lconf, lsec, tunnel>>
  \/ ~charonUp /\ "start" \in Faults /\ Goto(k, "failed") /\ UNCHANGED charon

\* The unit may or may not load conf.d by itself.
Started(k) ==
  /\ \/ UNCHANGED <<lconf, lsec>>
     \/ charonUp /\ SendFiles(k, {})
  /\ Forget(k)
  /\ UNCHANGED <<charonUp, tunnel>>

\* The plugin is looked for when strongSwan runs; swanctl --stats may fail.
EnsureXauth(k) ==
  /\ pc[k] = "ensureXauth"
  /\ \/ EnsureRunning(k, IkeChecked(k), "startingXauth")
     \/ "build" \in Faults /\ EnsureRunning(k, "failed", "startingXauth")
  /\ UNCHANGED <<files, ask, locals, hist>>

XauthStarted(k) ==
  /\ pc[k] = "startingXauth"
  /\ Started(k)
  /\ \/ Goto(k, IkeChecked(k))
     \/ "build" \in Faults /\ Goto(k, "failed")
  /\ UNCHANGED <<files, ask, locals, hist>>

-----------------------------------------------------------------------------
(* applyProfile: conf, then secrets, then swanctl --load-all.               *)

TruncConf(k) ==
  /\ pc[k] = "truncConf"
  /\ conf' = [conf EXCEPT ![ConnOf(k)] = Blank]
  /\ held' = [held EXCEPT ![k] = TRUE]
  /\ Goto(k, "writeConf")
  /\ UNCHANGED <<swanctlConf, sec, charon, ask, seen, at, total, err,
                 presented, hist>>

\* What a file holds once p has been written from its start.
Overlay(x, p) == IF x \in {Blank, p} THEN {p} ELSE {p, Garbled}

WriteConf(k) ==
  /\ pc[k] = "writeConf"
  /\ IF held[k]
       THEN \E x \in Overlay(conf[ConnOf(k)], req[k].p) :
              conf' = [conf EXCEPT ![ConnOf(k)] = x]
       ELSE UNCHANGED conf
  /\ Goto(k, "truncSec")
  /\ UNCHANGED <<swanctlConf, sec, charon, ask, locals, hist>>

TruncSec(k) ==
  /\ pc[k] = "truncSec"
  /\ sec' = [sec EXCEPT ![ConnOf(k)] = Blank]
  /\ held' = [held EXCEPT ![k] = TRUE]
  /\ Goto(k, "writeSec")
  /\ UNCHANGED <<swanctlConf, conf, charon, ask, seen, at, total, err,
                 presented, hist>>

\* Variant: a profile with no custom networks is not reloaded.
WriteSecOnly(k) ==
  /\ pc[k] = "writeSec"
  /\ sec' = [sec EXCEPT ![ConnOf(k)] = req[k].p]
  /\ Goto(k, IF req[k].p.nets = 0 THEN "ok" ELSE "load")
  /\ UNCHANGED <<swanctlConf, conf, charon, ask, locals, hist>>

WriteSec(k) ==
  /\ pc[k] = "writeSec"
  /\ IF held[k]
       THEN \E x \in Overlay(sec[ConnOf(k)], req[k].p) :
              sec' = [sec EXCEPT ![ConnOf(k)] = x]
       ELSE UNCHANGED sec
  /\ Goto(k, "load")
  /\ UNCHANGED <<swanctlConf, conf, charon, ask, locals, hist>>

\* swanctl --load-all: it connects to charon, reads swanctl.conf and conf.d ...
ReadAll(k) ==
  /\ pc[k] = "load"
  /\ \/ charonUp /\ ReadFiles(k) /\ Goto(k, "send")
     \/ /\ ~charonUp \/ Unparsable
        /\ Goto(k, "failed")
        /\ UNCHANGED <<rconf, rsec>>
  /\ intact' = [intact EXCEPT ![k] = @ /\ \A j \in Call \ {k} : ~Sending(j)]
  /\ UNCHANGED <<files, charonUp, lconf, lsec, tunnel, ask, locals, alone,
                 latest, cut>>

\* ... and then sends what it has read.
LoadAll(k) ==
  /\ pc[k] = "send"
  /\ \/ charonUp /\ SendFiles(k, {}) /\ Goto(k, "ok")
     \/ /\ charonUp /\ "refuse" \in Faults
        /\ \E bad \in SUBSET Conn \ {{}} : SendFiles(k, bad)
        /\ Goto(k, "failed")
     \/ ~charonUp /\ Goto(k, "failed") /\ UNCHANGED <<lconf, lsec>>
  /\ Forget(k)
  /\ UNCHANGED <<files, charonUp, tunnel, ask, locals, hist>>

-----------------------------------------------------------------------------
(* removeProfile: both errors of os.Remove are dropped; err keeps them as   *)
(* history.                                                                 *)

\* Variant: only the world-readable half is removed.
RmConfOnly(k) ==
  /\ pc[k] = "rmConf"
  /\ conf' = [conf EXCEPT ![ConnOf(k)] = Absent]
  /\ held' = HeldAfterUnlink(ConnOf(k), "writeConf")
  /\ Goto(k, "load")
  /\ UNCHANGED <<swanctlConf, sec, charon, ask, seen, at, total, err,
                 presented, hist>>

TheConf == 1
TheSec  == 2

RmConf(k) ==
  /\ pc[k] = "rmConf"
  /\ \/ /\ conf' = [conf EXCEPT ![ConnOf(k)] = Absent]
        /\ held' = HeldAfterUnlink(ConnOf(k), "writeConf")
        /\ UNCHANGED err
     \/ /\ "unlink" \in Faults
        /\ err' = [err EXCEPT ![k] = @ \cup {TheConf}]
        /\ UNCHANGED <<conf, held>>
  /\ Goto(k, "rmSec")
  /\ UNCHANGED <<swanctlConf, sec, charon, ask, seen, at, total, presented,
                 hist>>

RmSec(k) ==
  /\ pc[k] = "rmSec"
  /\ \/ /\ sec' = [sec EXCEPT ![ConnOf(k)] = Absent]
        /\ held' = HeldAfterUnlink(ConnOf(k), "writeSec")
        /\ UNCHANGED err
     \/ /\ "unlink" \in Faults
        /\ err' = [err EXCEPT ![k] = @ \cup {TheSec}]
        /\ UNCHANGED <<sec, held>>
  /\ Goto(k, "load")
  /\ UNCHANGED <<swanctlConf, conf, charon, ask, seen, at, total, presented,
                 hist>>

-----------------------------------------------------------------------------
(* connect: one swanctl --initiate per child, errors gathered.              *)

Start(k) ==
  /\ pc[k] = "start"
  /\ EnsureRunning(k, "peek", "starting")
  /\ UNCHANGED <<files, ask, locals, hist>>

ConnectStarted(k) ==
  /\ pc[k] = "starting"
  /\ Started(k)
  /\ Goto(k, "peek")
  /\ UNCHANGED <<files, ask, locals, hist>>

\* The conf is read once for the IKE version ...
Peek(k) ==
  /\ pc[k] = "peek"
  /\ \E v1 \in MayBe(conf[ConnOf(k)], IsV1(conf[ConnOf(k)])),
        xauth \in MayBe(conf[ConnOf(k)], IsXauth(conf[ConnOf(k)])) :
       \/ Goto(k, IF v1 /\ xauth THEN "ensureXauth" ELSE "list")
       \/ v1 /\ "build" \in Faults /\ Goto(k, "failed")
  /\ UNCHANGED <<files, charon, ask, locals, hist>>

\* ... and once more, later, for the names of its children.
List(k) ==
  /\ pc[k] = "list"
  /\ \E n \in ChildCounts(conf[ConnOf(k)]) : total' = [total EXCEPT ![k] = n]
  /\ at' = [at EXCEPT ![k] = 1]
  /\ Goto(k, "initiate")
  /\ UNCHANGED <<files, charon, ask, seen, held, err, presented, hist>>

\* Variants: the first failure ends the loop; a child that fails is tried
\* again.
AdvanceUntilError(k, e) ==
  /\ err' = [err EXCEPT ![k] = @ \cup e]
  /\ at' = [at EXCEPT ![k] = @ + 1]
  /\ Goto(k, IF e # {} THEN "failed"
             ELSE IF at[k] < total[k] THEN "initiate" ELSE "ok")
AdvanceRetry(k, e) ==
  /\ err' = [err EXCEPT ![k] = @ \cup e]
  /\ at' = [at EXCEPT ![k] = IF e = {} THEN @ + 1 ELSE @]
  /\ Goto(k, IF e # {} \/ at[k] < total[k] THEN "initiate" ELSE "ok")

\* The loop's next round, or the joined errors.
Advance(k, e) ==
  /\ err' = [err EXCEPT ![k] = @ \cup e]
  /\ at' = [at EXCEPT ![k] = @ + 1]
  /\ Goto(k, IF at[k] < total[k] THEN "initiate"
             ELSE IF err[k] \cup e = {} THEN "ok" ELSE "failed")

Initiate(k) ==
  LET c == ConnOf(k) IN
  /\ pc[k] = "initiate"
  /\ \/ /\ charonUp /\ TRUE \in MayKnow(lconf[c], at[k])
        /\ ike' = [ike EXCEPT ![c] = IF @ = "none" THEN "CONNECTING" ELSE @]
        /\ held' = [held EXCEPT ![k] = TRUE]
        /\ Goto(k, "initiating")
        /\ UNCHANGED <<at, err>>
     \/ /\ ~charonUp \/ FALSE \in MayKnow(lconf[c], at[k])
        /\ Advance(k, {at[k]})
        /\ UNCHANGED <<ike, held>>
  /\ UNCHANGED <<files, charonUp, loaded, child, ask, seen, total, presented,
                 hist>>

\* charon reports how the exchange that Initiate began has ended.
Initiated(k) ==
  LET c == ConnOf(k) IN
  /\ pc[k] = "initiating"
  /\ \/ /\ held[k]
        /\ ike' = [ike EXCEPT ![c] = "ESTABLISHED"]
        /\ child' = [child EXCEPT ![c] = @ \cup {at[k]}]
        /\ Advance(k, {})
        /\ UNCHANGED <<held, presented>>
     \/ /\ held[k] /\ "narrow" \in Faults
        /\ ike' = [ike EXCEPT ![c] = "ESTABLISHED"]
        /\ Advance(k, {at[k]})
        /\ UNCHANGED <<child, held, presented>>
     \/ /\ held[k] /\ ike[c] = "CONNECTING" /\ "reject" \in Faults
        /\ ike' = [ike EXCEPT ![c] = "none"]
        /\ held' = HeldAfterLoss(c)
        /\ \E n \in 1 .. MaxPrompts :
             presented' = [presented EXCEPT ![k] = @ + n]
        /\ Advance(k, {at[k]})
        /\ UNCHANGED child
     \/ /\ held[k] /\ ike[c] = "CONNECTING" /\ "silent" \in Faults
        /\ ike' = [ike EXCEPT ![c] = "none"]
        /\ held' = HeldAfterLoss(c)
        /\ Advance(k, {at[k]})
        /\ UNCHANGED <<child, presented>>
     \/ /\ ~held[k]
        /\ Advance(k, {at[k]})
        /\ UNCHANGED <<tunnel, held, presented>>
  /\ UNCHANGED <<files, charonUp, loaded, ask, seen, total, hist>>

-----------------------------------------------------------------------------
(* disconnect and status.                                                   *)

\* Variant: swanctl --terminate -c, which leaves phase 1 up.
TerminateChild(k) ==
  /\ pc[k] = "terminate"
  /\ Goto(k, IF charonUp /\ child[ConnOf(k)] # {} THEN "ok" ELSE "failed")
  /\ IF charonUp THEN child' = [child EXCEPT ![ConnOf(k)] = {}]
                 ELSE UNCHANGED child
  /\ UNCHANGED <<files, charonUp, loaded, ike, ask, locals, hist>>

\* Terminates the IKE_SA; nothing to terminate counts as success.
Terminate(k) ==
  LET c == ConnOf(k) IN
  /\ pc[k] = "terminate"
  /\ Goto(k, IF charonUp THEN "ok" ELSE "failed")
  /\ IF charonUp
       THEN /\ ike' = [ike EXCEPT ![c] = "none"]
            /\ child' = [child EXCEPT ![c] = {}]
            /\ held' = HeldAfterLoss(c)
       ELSE UNCHANGED <<tunnel, held>>
  /\ UNCHANGED <<files, charonUp, loaded, ask, seen, at, total, err,
                 presented, hist>>

ListSas(k) ==
  /\ pc[k] = "listSas"
  /\ Goto(k, IF charonUp THEN "ok" ELSE "failed")
  /\ UNCHANGED <<files, charon, ask, locals, hist>>

-----------------------------------------------------------------------------
(* What happens to the calls from outside.                                  *)

\* Variant: a swanctl.conf that cannot be read is taken for a missing one.
IOErrorAsMissing(k) ==
  /\ "io" \in Faults
  /\ \/ /\ pc[k] = "readMain"
        /\ seen' = [seen EXCEPT ![k] = {}]
        /\ Goto(k, "truncMain")
        /\ UNCHANGED cut
     \/ /\ pc[k] \in {"truncMain", "writeMain", "checkIke", "truncConf",
                       "writeConf", "truncSec", "writeSec"}
        /\ Goto(k, "failed")
        /\ cut' = (cut \/ MidRewrite(k))
        /\ UNCHANGED seen
  /\ UNCHANGED <<files, charon, ask, held, at, total, err, presented,
                 alone, latest, intact>>

\* A read or write fails, or making conf.d does (at "checkIke"), and the
\* handler returns the error.
IOError(k) ==
  /\ "io" \in Faults
  /\ pc[k] \in {"readMain", "truncMain", "writeMain", "checkIke",
                "truncConf", "writeConf", "truncSec", "writeSec"}
  /\ Goto(k, "failed")
  /\ cut' = (cut \/ MidRewrite(k))
  /\ UNCHANGED <<files, charon, ask, locals, alone, latest, intact>>

\* systemd stops the daemon and its children; callers get no reply.  A start
\* of strongSwan that has begun is not the daemon's, and may do its loading.
Kill ==
  /\ "kill" \in Faults
  /\ \E k \in Call : Active(k)
  /\ pc' = [k \in Call |-> IF Active(k) THEN "lost" ELSE pc[k]]
  /\ cut' = (cut \/ \E k \in Call : MidRewrite(k))
  /\ \/ UNCHANGED <<lconf, lsec>>
     \/ charonUp /\ \E k \in Call : pc[k] \in Starting /\ SendFiles(k, {})
  /\ rconf' = [k \in Call |-> Nothing] /\ rsec' = [k \in Call |-> Nothing]
  /\ UNCHANGED <<files, charonUp, tunnel, ask, locals, alone, latest, intact>>

CharonStop ==
  /\ "stop" \in Faults
  /\ charonUp
  /\ charonUp' = FALSE
  /\ lconf' = Nothing /\ lsec' = Nothing /\ UNCHANGED <<rconf, rsec>>
  /\ ike' = [c \in Conn |-> "none"] /\ child' = [c \in Conn |-> {}]
  /\ held' = [k \in Call |-> held[k] /\ pc[k] # "initiating"]
  /\ Cross(Call)
  /\ latest' = [k \in Call |-> latest[k] /\ Op(k) # "Connect"]
  /\ UNCHANGED <<files, pc, ask, seen, at, total, err, presented, alone, cut>>

\* The gateway, or a failed rekeying, takes a CHILD_SA or the IKE_SA away.
ChildLost(c) ==
  /\ "drop" \in Faults
  /\ \E i \in child[c] : child' = [child EXCEPT ![c] = @ \ {i}]
  /\ latest' = [k \in Call |->
                 latest[k] /\ ~(Op(k) = "Connect" /\ ConnOf(k) = c)]
  /\ UNCHANGED <<files, charonUp, loaded, ike, pc, ask, locals, alone, intact,
                 cut>>

IkeLost(c) ==
  /\ "drop" \in Faults
  /\ ike[c] = "ESTABLISHED"
  /\ ike' = [ike EXCEPT ![c] = "none"]
  /\ child' = [child EXCEPT ![c] = {}]
  /\ held' = HeldAfterLoss(c)
  /\ latest' = [k \in Call |->
                 latest[k] /\ ~(Op(k) = "Connect" /\ ConnOf(k) = c)]
  /\ UNCHANGED <<files, charonUp, loaded, pc, ask, seen, at, total, err,
                 presented, alone, intact, cut>>

\* A negotiation whose caller was killed still comes to its end.
CharonSettles(c) ==
  /\ ike[c] = "CONNECTING"
  /\ \A k \in Call : ~(pc[k] = "initiating" /\ held[k] /\ ConnOf(k) = c)
  /\ \/ /\ ike' = [ike EXCEPT ![c] = "ESTABLISHED"]
        /\ \E i \in 1 .. MaxNets : child' = [child EXCEPT ![c] = {i}]
     \/ /\ ike' = [ike EXCEPT ![c] = "none"]
        /\ UNCHANGED child
  /\ UNCHANGED <<files, charonUp, loaded, pc, ask, locals, hist>>

-----------------------------------------------------------------------------
\* Before any call: what earlier runs of the same program can have left.
Init ==
  /\ swanctlConf \in {{"admin"}, {"admin", "include"}}
                     \cup {{"admin", m} : m \in {"mention"} \cap Faults}
  /\ conf \in [Conn -> Payload \cup {Absent}]
  /\ \A c \in Conn : conf[c] \in Payload => conf[c].conn = c /\ c \in ValidConn
  /\ conf # Nothing => swanctlConf # {"admin"}
  /\ sec = conf
  /\ charonUp \in BOOLEAN
  /\ lconf \in {OnDisk(conf), Nothing} /\ lsec = lconf
  /\ rconf = [k \in Call |-> Nothing] /\ rsec = rconf
  /\ charonUp \/ lconf = Nothing
  /\ ike \in [Conn -> {"none", "ESTABLISHED"}]
  /\ \A c \in Conn : ike[c] = "ESTABLISHED" => lconf[c] \in Payload
  /\ child = [c \in Conn |-> IF ike[c] = "ESTABLISHED" THEN {1} ELSE {}]
  /\ pc = [k \in Call |-> "idle"]
  /\ req = [k \in Call |-> NoRequest]
  /\ allowed = [k \in Call |-> FALSE]
  /\ seen = [k \in Call |-> {}]
  /\ held = [k \in Call |-> FALSE]
  /\ at = [k \in Call |-> 0] /\ total = [k \in Call |-> 0]
  /\ err = [k \in Call |-> {}]
  /\ presented = [k \in Call |-> 0]
  /\ alone = [k \in Call |-> FALSE] /\ latest = [k \in Call |-> FALSE]
  /\ intact = [k \in Call |-> FALSE]
  /\ cut = FALSE

\* The steps a handler takes by itself once its caller is let in.
Step(k) ==
  \/ ReadMain(k) \/ TruncMain(k) \/ WriteMain(k)
  \/ CheckIke(k) \/ EnsureXauth(k) \/ XauthStarted(k)
  \/ TruncConf(k) \/ WriteConf(k) \/ TruncSec(k) \/ WriteSec(k)
  \/ ReadAll(k) \/ LoadAll(k) \/ RmConf(k) \/ RmSec(k)
  \/ Start(k) \/ ConnectStarted(k) \/ Peek(k) \/ List(k)
  \/ Initiate(k) \/ Initiated(k) \/ Terminate(k) \/ ListSas(k)

Next ==
  \/ \E k \in Call :
       \/ \E r \in Requests : Request(k, r)
       \/ Admit(k) \/ Deny(k) \/ IOError(k)
       \/ Step(k)
  \/ \E c \in Conn : ChildLost(c) \/ IkeLost(c) \/ CharonSettles(c)
  \/ Kill \/ CharonStop

Spec == Init /\ [][Next]_vars

\* Go schedules every goroutine, and the commands it waits for return.
FairSpec == Spec /\ \A k \in Call : WF_vars(Step(k))

-----------------------------------------------------------------------------
(* Properties.                                                              *)

\* Every variable stays in its type: files hold a profile's text, an old
\* one's, nothing, half of something or a mixture, and so on for the rest.
TypeOK ==
  /\ swanctlConf \subseteq Text
  /\ conf \in [Conn -> Content] /\ sec \in [Conn -> Content]
  /\ charonUp \in BOOLEAN
  /\ lconf \in [Conn -> Content \ {Blank}]
  /\ lsec \in [Conn -> Content \ {Blank}]
  /\ rconf \in [Call -> [Conn -> Content \ {Blank}]]
  /\ rsec \in [Call -> [Conn -> Content \ {Blank}]]
  /\ ike \in [Conn -> {"none", "CONNECTING", "ESTABLISHED"}]
  /\ child \in [Conn -> SUBSET Nat]
  /\ pc \in [Call -> Waiting \cup Working \cup Finished]
  /\ req \in [Call -> Requests \cup {NoRequest}]
  /\ allowed \in [Call -> BOOLEAN]
  /\ seen \in [Call -> SUBSET Text]
  /\ held \in [Call -> BOOLEAN]
  /\ at \in [Call -> Nat] /\ total \in [Call -> Nat]
  /\ err \in [Call -> SUBSET Nat]
  /\ presented \in [Call -> Nat]
  /\ alone \in [Call -> BOOLEAN] /\ latest \in [Call -> BOOLEAN]
  /\ intact \in [Call -> BOOLEAN]
  /\ cut \in BOOLEAN

\* ensureConfDIncluded rewrites the administrator's swanctl.conf.  However
\* many Applies run, whatever fails, the text that stood there survives,
\* but for two accidents: the write itself was cut short, or another Apply
\* read the file between the truncation and the write.
AdminTextKept ==
  "admin" \in swanctlConf \/ cut \/ \E k \in Call : MidRewrite(k)

\* swanctl.conf speaks of conf.d, which satisfies ensureConfDIncluded, and
\* does not include it, so that no load-all sees an entry.
OnlyMentioned == "mention" \in swanctlConf /\ "include" \notin swanctlConf

\* When ApplyProfile replies "applied", and no call for the same profile
\* overlapped it, both files are that profile's: whatever the calls for OTHER
\* profiles do at the same time, whether strongSwan restarts, whatever torn
\* files a killed daemon or a full disk had left.  So are both halves of what
\* charon has loaded, unless something crossed the load-all (intact) or the
\* entry is out of its reach.
AppliedIsInstalled ==
  \A k \in Call :
    pc[k] = "ok" /\ Op(k) = "ApplyProfile" /\ Undisturbed(k) =>
      /\ conf[ConnOf(k)] = req[k].p /\ sec[ConnOf(k)] = req[k].p
      /\ intact[k] /\ ~OnlyMentioned =>
           lconf[ConnOf(k)] = req[k].p /\ lsec[ConnOf(k)] = req[k].p

\* When RemoveProfile replies "profile removed", with no call for the same
\* profile in between, each of its files is gone but for one that could not be
\* unlinked: removeProfile drops the errors of os.Remove.  Even then, unless
\* something crossed the load-all, charon keeps nothing of the profile that is
\* not in the files: an entry is unloaded with its file, and no half of it is
\* left behind.
RemovedIsGone ==
  \A k \in Call :
    pc[k] = "ok" /\ Op(k) = "RemoveProfile" /\ Undisturbed(k) =>
      /\ conf[ConnOf(k)] = Absent \/ TheConf \in err[k]
      /\ sec[ConnOf(k)] = Absent \/ TheSec \in err[k]
      /\ intact[k] => /\ lconf[ConnOf(k)] \in {Absent, conf[ConnOf(k)]}
                      /\ lsec[ConnOf(k)] \in {Absent, sec[ConnOf(k)]}

\* connect gathers failures instead of stopping at the first: when it has
\* replied, undisturbed, every child of the profile is up or was tried in
\* vain, and it replied success only if all are up.
ConnectBringsAll ==
  \A k \in Call :
    pc[k] \in {"ok", "failed"} /\ Op(k) = "Connect" /\ at[k] > 0
      /\ Undisturbed(k) =>
        \A n \in ChildCounts(conf[ConnOf(k)]) :
          conf[ConnOf(k)] # Garbled =>
            1 .. n \subseteq child[ConnOf(k)]
                             \cup (IF pc[k] = "ok" THEN {} ELSE err[k])

\* disconnect terminates the IKE_SA: when it replies success, undisturbed,
\* the connection has neither phase 1 nor a child left.
DisconnectClears ==
  \A k \in Call :
    pc[k] = "ok" /\ Op(k) = "Disconnect" /\ Undisturbed(k) =>
      ike[ConnOf(k)] = "none" /\ child[ConnOf(k)] = {}

\* Every call that polkit has let in gets its reply, unless the daemon is
\* stopped under it: no loop of a handler runs for ever, none waits for
\* another call.
Answered == \A k \in Call : Serving(k) ~> pc[k] \in Finished

\* The steps a handler has left before its reply: the rest of its straight
\* part, and two for each child that Connect has not initiated yet.
StepsLeft(k) ==
  LET l == pc[k] IN
  CASE l = "initiating" -> 2 * (total[k] - at[k]) + 1
    [] l = "initiate"   -> 2 * (total[k] - at[k]) + 2
    [] l = "list"        -> 2 * MaxNets + 1
    [] l \in {"send", "terminate", "listSas"} -> 1
    [] l = "load"        -> 2
    [] l \in {"writeSec", "rmSec"} -> 3
    [] l \in {"truncSec", "rmConf"} -> 4
    [] l = "writeConf"   -> 5
    [] l = "truncConf"   -> 6
    [] l = "startingXauth" -> 2 * MaxNets + 6
    [] l = "ensureXauth" -> 2 * MaxNets + 7
    [] l \in {"checkIke", "peek"} -> 2 * MaxNets + 8
    [] l \in {"writeMain", "starting"} -> 2 * MaxNets + 9
    [] l \in {"truncMain", "start"} -> 2 * MaxNets + 10
    [] l = "readMain"    -> 2 * MaxNets + 11
    [] OTHER             -> 0

\* No handler starts over: whatever the other calls, charon, the gateway and
\* systemd do to the files and SAs it works on, a step leaves a call that is
\* being served where it is or brings it nearer its reply.
NearerReply ==
  [][\A k \in Call : Serving(k) =>
       \/ StepsLeft(k)' < StepsLeft(k)
       \/ UNCHANGED <<pc[k], at[k], total[k]>>]_vars

\* One Connect has a rejected credential presented, for each child that it
\* has come to, as often as the gateway asks for it within one IKE_SA (up to
\* three times, README.md:186) and no more: no child is initiated twice, as
\* it would be without the "keyingtries = 1" of profile/swanctl.go:47.
AttemptPerChild ==
  \A k \in Call : presented[k] > 0 =>
    presented[k] <= MaxPrompts * (at[k] - 1) /\ at[k] <= total[k] + 1

\* The refinement: a grant is a call polkit has said yes to and that has not
\* replied yet.  Every privileged change happens under one (service.go:17).
Gate == INSTANCE AuthGate WITH
  main   <- swanctlConf,
  entry  <- [c \in Conn |-> <<conf[c], sec[c]>>],
  up     <- {c \in Conn : ike[c] # "none"},
  grants <- {[op |-> Op(k), conn |-> ConnOf(k)] :
               k \in {j \in Call : Serving(j) /\ allowed[j]}}

GateSpec == Gate!Spec

-----------------------------------------------------------------------------
(* What comments and the README say, which the code does not guarantee.     *)

\* README.md:157: ApplyProfile "just loads the config into strongSwan".  Once all
\* calls have replied, a connection that was saved, and not removed, is loaded:
\* its conf and its secrets, and both of one and the same save.
AppliedIsLoaded ==
  (\A j \in Call : ~Active(j)) =>
    \A k \in Call :
      /\ pc[k] = "ok" /\ Op(k) = "ApplyProfile"
      /\ \A j \in Call : ~(Op(j) = "RemoveProfile" /\ ConnOf(j) = ConnOf(k))
      => \E j \in Call :
           /\ pc[j] = "ok" /\ Op(j) = "ApplyProfile" /\ ConnOf(j) = ConnOf(k)
           /\ lconf[ConnOf(k)] = req[j].p /\ lsec[ConnOf(k)] = req[j].p

\* daemon/swanctl.go:147: having nothing left to terminate is the state
\* Disconnect is asked to reach.  Once all calls have replied it holds,
\* unless a Connect was requested after it.
DisconnectHolds ==
  \A k \in Call :
    /\ pc[k] = "ok" /\ Op(k) = "Disconnect" /\ latest[k]
    /\ \A j \in Call : ~Active(j)
    => ike[ConnOf(k)] = "none"

\* profile/swanctl.go:47, "One attempt only": one Connect does not present
\* the same wrong credential to the gateway twice.
OneCredentialAttempt == \A k \in Call : presented[k] <= 1
=============================================================================
