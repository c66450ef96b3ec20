---------------------------- MODULE ProfilesProofs ----------------------------
(***************************************************************************)
(* Theorems about Profiles, for any number of profiles and of goroutines,  *)
(* any number of saves, and any choice of faults.                          *)
(***************************************************************************)
EXTENDS Profiles, TLAPS

-----------------------------------------------------------------------------
(* The list and its file.                                                   *)

File   == [list : Seq(Entry), whole : BOOLEAN]
Dialog == [kind : {"form", "confirm"}, id : Id, idx : Nat, isNew : BOOLEAN,
           cred : Rev \cup {None}]

LEMMA SavedSeq ==
  ASSUME NEW S, store \in Seq(S), NEW p \in S, NEW isNew
  PROVE  Saved(p, isNew) \in Seq(S) /\ Len(Saved(p, isNew)) >= Len(store)
<1>1. CASE isNew
  BY <1>1 DEF Saved
<1>2. CASE ~isNew
  <2> DEFINE s == [i \in 1 .. Len(store) |->
                     IF store[i].id = p.id THEN p ELSE store[i]]
  <2>1. s \in [1 .. Len(store) -> S]
    OBVIOUS
  <2>2. s \in Seq(S) /\ Len(s) = Len(store)
    <3> HIDE DEF s
    <3>1. s \in Seq(S) /\ DOMAIN s = 1 .. Len(store)
      BY <2>1
    <3> QED BY <3>1
  <2>3. Saved(p, isNew) = s
    BY <1>2 DEF Saved
  <2> HIDE DEF s
  <2> QED BY <2>2, <2>3
<1> QED BY <1>1, <1>2

LEMMA WithoutSeq ==
  ASSUME NEW S, NEW s \in Seq(S), NEW i \in 1 .. Len(s)
  PROVE  Without(s, i) \in Seq(S)
<1> DEFINE n == Len(s) - 1
           w == [j \in 1 .. n |-> IF j < i THEN s[j] ELSE s[j + 1]]
<1>1. n \in Nat
  OBVIOUS
<1>2. w \in [1 .. n -> S]
  <2>1. ASSUME NEW j \in 1 .. n
        PROVE  (IF j < i THEN s[j] ELSE s[j + 1]) \in S
    BY <2>1
  <2> HIDE DEF n
  <2> QED BY <2>1
<1>3. w \in Seq(S)
  <2> HIDE DEF n, w
  <2> QED BY <1>1, <1>2
<1> QED BY <1>3 DEF Without

LEMMA SaveStoreType ==
  ASSUME file \in File, NEW s \in Seq(Entry), SaveStore(s) PROVE file' \in File
<1>1. Whole(s) \in File /\ Torn(s) \in File
  BY DEF File, Whole, Torn
<1> QED BY <1>1 DEF SaveStore

-----------------------------------------------------------------------------
(* Types.                                                                   *)

\* What a dialog and a goroutine have captured, as far as they need it.
Captures ==
  /\ dialog \in Dialog \cup {None}
  /\ dialog # None => /\ dialog.kind = "form" => dialog.cred \in Rev
                      /\ dialog.kind = "confirm" => dialog.idx # 0
  /\ \A t \in Task :
       /\ Active(t) => task[t].id \in Id
       /\ pc[t] \in SavePc \cup {"begin", "login", "reapply"} =>
            task[t].cred \in Rev
       /\ pc[t] \in RemovePc => task[t].idx # 0

\* Without a window there are no dialogs and no goroutines.
Closed ==
  gui # "on" => /\ dialog = None /\ selected = 0
                /\ \A t \in Task : ~Active(t)

TypeInv ==
  /\ TypeOK /\ Captures /\ Closed
  /\ file \in File /\ edits \in Rev

LEMMA InitType == Init => TypeInv
BY ProfilesAssumption
   DEF Init, TypeInv, TypeOK, Captures, Closed, File, Whole, Rev, Blank, Capture,
       NoTask, Job, Active, Entry, SavePc, RemovePc, SamlPc

LEMMA NoTaskType == NoTask \in Capture
BY ProfilesAssumption DEF NoTask, Job, Capture, Rev

LEMMA GoneType ==
  ASSUME TypeInv, NEW how \in {"off", "panicked"}, Gone(how),
         store' \in Seq(Entry), file' \in File
  PROVE  TypeInv'
BY NoTaskType
   DEF Gone, TypeInv, TypeOK, Captures, Closed, File, Active, Typing, SavePc,
       RemovePc, SamlPc

\* A goroutine ends, and nothing it has captured is used any more.
LEMMA FinishType ==
  ASSUME TypeInv, NEW t \in Task, Finish(t), UNCHANGED dialog
  PROVE  /\ pc' \in [Task -> {"idle"} \cup SavePc \cup RemovePc \cup SamlPc]
         /\ task' \in [Task -> Capture]
         /\ Captures'
         /\ pc'[t] = "idle"
         /\ \A u \in Task \ {t} : pc'[u] = pc[u] /\ task'[u] = task[u]
<1>1. /\ pc' = [pc EXCEPT ![t] = "idle"]
      /\ task' = [task EXCEPT ![t] = NoTask]
  BY DEF Finish, Goto
<1>2. /\ pc \in [Task -> {"idle"} \cup SavePc \cup RemovePc \cup SamlPc]
      /\ task \in [Task -> Capture]
  BY DEF TypeInv, TypeOK
<1>3. /\ pc'[t] = "idle"
      /\ \A u \in Task \ {t} : pc'[u] = pc[u] /\ task'[u] = task[u]
  BY <1>1, <1>2
<1>4. Captures'
  BY <1>3 DEF TypeInv, Captures, Active, SavePc, RemovePc, Dialog, Rev
<1> QED BY <1>1, <1>2, <1>3, <1>4, NoTaskType

\* A goroutine has captured a profile, and runs while the window is on.
LEMMA ActiveType ==
  ASSUME TypeInv, NEW t \in Task, pc[t] # "idle"
  PROVE  task[t] \in Capture /\ task[t].id \in Id /\ task[t].rev \in Rev /\ gui = "on"
<1>1. task[t] \in Capture
  BY DEF TypeInv, TypeOK
<1>2. task[t].rev \in Rev
  BY <1>1 DEF Capture
<1> QED BY <1>1, <1>2 DEF TypeInv, Captures, Closed, Active

LEMMA CaptureUpdate ==
  ASSUME NEW c \in Capture, NEW b \in BOOLEAN
  PROVE  /\ [c EXCEPT !.clean = b] \in Capture
         /\ [c EXCEPT !.clean = b].id = c.id
         /\ [c EXCEPT !.clean = b].cred = c.cred
         /\ [c EXCEPT !.clean = b].idx = c.idx
         /\ [c EXCEPT !.clean = b].rev = c.rev
         /\ [c EXCEPT !.clean = b].isNew = c.isNew
         /\ [c EXCEPT !.clean = b].clean = b
<1> DEFINE d == [id |-> c.id, rev |-> c.rev, idx |-> c.idx, isNew |-> c.isNew,
                 cred |-> c.cred, clean |-> b]
<1>1. c = [id |-> c.id, rev |-> c.rev, idx |-> c.idx, isNew |-> c.isNew,
           cred |-> c.cred, clean |-> c.clean]
  BY DEF Capture
<1>2. [c EXCEPT !.clean = b] = d
  BY <1>1
<1>3. d \in Capture
  BY DEF Capture
<1> HIDE DEF d
<1>4. /\ d.id = c.id /\ d.cred = c.cred /\ d.idx = c.idx /\ d.rev = c.rev
      /\ d.isNew = c.isNew /\ d.clean = b
  BY DEF d
<1> QED BY <1>2, <1>3, <1>4

\* What Remove and ConnectSAML start a goroutine with.
LEMMA JobType ==
  ASSUME NEW i \in Id, NEW r \in Rev, NEW n \in Nat
  PROVE  /\ Job(i, r, n) \in Capture
         /\ Job(i, r, n).id = i /\ Job(i, r, n).rev = r /\ Job(i, r, n).idx = n
         /\ ~Job(i, r, n).isNew /\ ~Job(i, r, n).clean
BY DEF Job, Capture

LEMMA ZeroRev == 0 \in Rev /\ 0 \in Nat
BY ProfilesAssumption DEF Rev

LEMMA GivenType ==
  ASSUME TypeInv, NEW id \in Id, NEW r \in Rev, NEW c \in Rev
  PROVE  /\ [daemon EXCEPT ![id] = <<r, c>>] \in [Id -> (Rev \X Rev) \cup {None}]
         /\ [daemon EXCEPT ![id] = None] \in [Id -> (Rev \X Rev) \cup {None}]
<1>1. <<r, c>> \in (Rev \X Rev) \cup {None}
  OBVIOUS
<1>2. daemon \in [Id -> (Rev \X Rev) \cup {None}]
  BY DEF TypeInv, TypeOK
<1> QED BY <1>1, <1>2

\* Another goroutine keeps what it has captured, but for its clean.
Same(t) ==
  /\ task'[t] \in Capture
  /\ task'[t].id = task[t].id /\ task'[t].rev = task[t].rev
  /\ task'[t].idx = task[t].idx /\ task'[t].cred = task[t].cred
  /\ task'[t].isNew = task[t].isNew
  /\ task'[t].clean => task[t].clean

\* Only one on the given profile does, and it is no longer clean.
Soiled(t, id) == IF Active(t) /\ task[t].id = id THEN ~task'[t].clean
                                                ELSE task'[t] = task[t]

LEMMA OpenStep ==
  ASSUME TypeInv, NEW kind \in {"form", "confirm"}, Open(kind)
  PROVE  LET id == store[selected].id IN
         /\ gui = "on" /\ selected \in 1 .. Len(store)
         /\ store[selected] \in Entry /\ id \in Id
         /\ UNCHANGED <<data, gui, selected, pc, edits, minted, typed, unsaved, lost, stale>>
         /\ dialog' \in Dialog /\ dialog'.kind = kind /\ dialog'.id = id
         /\ kind = "form" => dialog'.cred \in Rev
         /\ kind = "confirm" => dialog'.idx = selected
         /\ misread' \in {misread, misread \cup {id}}
         /\ id \notin misread' =>
              /\ kind = "form" => dialog'.cred = typed[id] \/ id \in unsaved
              /\ \A t \in Task : task[t].id = id => pc[t] \notin Pending
         /\ spoilt' \in {spoilt, spoilt \cup {id}}
         /\ id \notin spoilt' => On(id) = {}
         /\ ~dialog'.isNew
         /\ task' \in [Task -> Capture]
         /\ \A t \in Task : Same(t) /\ Soiled(t, id)
<1> DEFINE id == store[selected].id
<1>1. /\ gui = "on" /\ selected \in 1 .. Len(store)
      /\ UNCHANGED <<data, gui, selected, pc, edits, minted, typed, unsaved, lost, stale>>
  BY Zenon DEF Open, Clickable
<1>2. store[selected] \in Entry /\ id \in Id
  <2>1. store \in Seq(Entry)
    BY DEF TypeInv, TypeOK
  <2>2. store[selected] \in Entry
    BY <1>1, <2>1
  <2> QED BY <2>2 DEF Entry
<1>3. LoadCredentials(id) \subseteq Rev
  BY <1>2, ProfilesAssumption DEF LoadCredentials, TypeInv, TypeOK, Rev, Blank
<1>4. PICK cred \in IF kind = "form" THEN LoadCredentials(id) ELSE {None} :
        /\ dialog' = [kind |-> kind, id |-> id, cred |-> cred, isNew |-> FALSE,
                      idx |-> IF kind = "form" THEN 0 ELSE selected]
        /\ misread' = IF \/ cred \notin {None, typed[id]} /\ id \notin unsaved
                         \/ \E t \in On(id) : pc[t] \in Pending
                        THEN misread \cup {id} ELSE misread
        /\ spoilt' = spoilt \cup (IF On(id) = {} THEN {} ELSE {id})
        /\ task' = [t \in Task |-> IF t \in On(id)
                                     THEN [task[t] EXCEPT !.clean = FALSE]
                                     ELSE task[t]]
  BY Zenon DEF Open
<1>5. /\ cred \in Rev \cup {None}
      /\ kind = "form" => cred \in Rev
      /\ selected \in Nat
  BY <1>1, <1>3, <1>4
<1>6. /\ dialog' \in Dialog /\ dialog'.kind = kind /\ dialog'.id = id
      /\ dialog'.cred = cred /\ ~dialog'.isNew
      /\ kind = "confirm" => dialog'.idx = selected
  <2>1. dialog' = [kind |-> kind, id |-> id, cred |-> cred, isNew |-> FALSE,
                   idx |-> IF kind = "form" THEN 0 ELSE selected]
    BY <1>4, Zenon
  <2> HIDE DEF id
  <2> QED BY <1>2, <1>5, <2>1 DEF Dialog
<1>7. ASSUME NEW t \in Task PROVE Same(t) /\ Soiled(t, id)
  <2>1. task[t] \in Capture
    BY DEF TypeInv, TypeOK
  <2>2. task'[t] = IF t \in On(id) THEN [task[t] EXCEPT !.clean = FALSE] ELSE task[t]
    BY <1>4, Zenon
  <2> HIDE DEF id
  <2>3. Same(t)
    BY <2>1, <2>2, CaptureUpdate, Zenon DEF Same
  <2>4. t \in On(id) => ~task'[t].clean
    BY <2>1, <2>2, CaptureUpdate, Zenon
  <2>5. t \notin On(id) => task'[t] = task[t]
    BY <2>2
  <2> QED BY <2>3, <2>4, <2>5 DEF Soiled, On
<1>8. task' \in [Task -> Capture]
  <2>1. task' = [t \in Task |-> task'[t]]
    BY <1>4, Zenon
  <2> QED BY <1>7, <2>1 DEF Same
<1>9. ASSUME id \notin misread'
      PROVE  /\ kind = "form" => dialog'.cred = typed[id] \/ id \in unsaved
             /\ \A t \in Task : task[t].id = id => pc[t] \notin Pending
  <2>1. misread' = IF \/ cred \notin {None, typed[id]} /\ id \notin unsaved
                      \/ \E t \in On(id) : pc[t] \in Pending
                       THEN misread \cup {id} ELSE misread
    BY <1>4
  <2>2. (cred \in {None, typed[id]} \/ id \in unsaved) /\ \A t \in On(id) : pc[t] \notin Pending
    BY <1>9, <2>1, Zenon
  <2>3. kind = "form" => cred # None
    BY <1>5, ProfilesAssumption DEF Rev
  <2> QED BY <1>6, <2>2, <2>3 DEF On, Active, Pending
<1>10. misread' \in {misread, misread \cup {id}} /\ spoilt' \in {spoilt, spoilt \cup {id}}
  <2>1. spoilt \cup {} = spoilt
    OBVIOUS
  <2> QED BY <1>4, <2>1, Zenon
<1>11. kind = "form" => dialog'.cred \in Rev
  BY <1>5, <1>6
<1>12. id \notin spoilt' => On(id) = {}
  BY <1>4
<1> HIDE DEF id
<1>13. /\ dialog' \in Dialog /\ dialog'.kind = kind /\ dialog'.id = id
       /\ ~dialog'.isNew
       /\ kind = "confirm" => dialog'.idx = selected
  BY <1>6
<1> QED BY <1>1, <1>2, <1>7, <1>8, <1>9, <1>10, <1>11, <1>12, <1>13, Zenon DEF id

LEMMA ConnectStep ==
  ASSUME TypeInv, NEW t \in Task, ConnectSAML(t)
  PROVE  LET id == store[selected].id IN
         /\ gui = "on" /\ selected \in 1 .. Len(store)
         /\ store[selected] \in Entry /\ id \in Id
         /\ UNCHANGED <<data, ui, edits, minted, typed, unsaved, misread, lost, stale>>
         /\ spoilt' \in {spoilt, spoilt \cup {id}}
         /\ pc' = [pc EXCEPT ![t] = "load"] /\ pc[t] = "idle"
         /\ id \notin spoilt' => On(id) = {} /\ ~(dialog # None /\ dialog.id = id)
         /\ task' \in [Task -> Capture]
         /\ task'[t].id = id /\ task'[t].rev = store[selected].rev
         /\ ~task'[t].isNew /\ ~task'[t].clean
         /\ \A u \in Task \ {t} : Same(u) /\ Soiled(u, id)
<1> DEFINE p == store[selected]
           new == Job(p.id, p.rev, 0)
<1>1. /\ gui = "on" /\ selected \in 1 .. Len(store)
      /\ pc' = [pc EXCEPT ![t] = "load"] /\ pc[t] = "idle"
      /\ UNCHANGED <<data, ui, edits, minted, typed, unsaved, misread, lost, stale>>
  BY Zenon DEF ConnectSAML, Goto, Active
<1>2. p \in Entry /\ p.id \in Id /\ p.rev \in Rev
  <2>1. store \in Seq(Entry)
    BY DEF TypeInv, TypeOK
  <2>2. p \in Entry
    BY <1>1, <2>1
  <2> HIDE DEF p
  <2> QED BY <2>2 DEF Entry
<1>3. new \in Capture /\ new.id = p.id /\ new.rev = p.rev
      /\ ~new.isNew /\ ~new.clean
  BY <1>2, JobType, ZeroRev
<1>4. /\ task' = [u \in Task |->
            IF u = t THEN new
            ELSE IF u \in On(p.id) THEN [task[u] EXCEPT !.clean = FALSE]
            ELSE task[u]]
      /\ spoilt' = spoilt \cup
           (IF On(p.id) # {} \/ (dialog # None /\ dialog.id = p.id) THEN {p.id} ELSE {})
  BY Zenon DEF ConnectSAML
<1> HIDE DEF new, p
<1>5. task'[t] = new
  BY <1>4, Zenon
<1>6. ASSUME NEW u \in Task \ {t} PROVE Same(u) /\ Soiled(u, p.id)
  <2>1. task[u] \in Capture
    BY DEF TypeInv, TypeOK
  <2>2. task'[u] = IF u \in On(p.id) THEN [task[u] EXCEPT !.clean = FALSE] ELSE task[u]
    BY <1>4, Zenon
  <2>3. Same(u)
    BY <2>1, <2>2, CaptureUpdate, Zenon DEF Same
  <2>4. u \in On(p.id) => ~task'[u].clean
    BY <2>1, <2>2, CaptureUpdate, Zenon
  <2>5. u \notin On(p.id) => task'[u] = task[u]
    BY <2>2
  <2> QED BY <2>3, <2>4, <2>5 DEF Soiled, On
<1>7. task' \in [Task -> Capture]
  <2>1. task' = [u \in Task |-> task'[u]]
    BY <1>4, Zenon
  <2> QED BY <1>3, <1>5, <1>6, <2>1 DEF Same
<1>8. /\ spoilt' \in {spoilt, spoilt \cup {p.id}}
      /\ p.id \notin spoilt' => On(p.id) = {} /\ ~(dialog # None /\ dialog.id = p.id)
  BY <1>4
<1> QED BY <1>1, <1>2, <1>3, <1>5, <1>6, <1>7, <1>8 DEF p

LEMMA NextType == TypeInv /\ [Next]_vars => TypeInv'
<1> SUFFICES ASSUME TypeInv, [Next]_vars PROVE TypeInv'
  OBVIOUS
<1> USE ProfilesAssumption
<1> USE DEF TypeInv
<1>1. ASSUME NEW i \in 1 .. Len(store), Select(i) PROVE TypeInv'
  BY <1>1 DEF Select, Clickable, TypeOK, Captures, Closed, Active, data, hist
<1>2. CASE Unselect
  BY <1>2 DEF Unselect, Clickable, TypeOK, Captures, Closed, Active, data, hist
<1>3. ASSUME NEW id \in Id, Add(id) PROVE TypeInv'
  <2>1. dialog' \in Dialog /\ dialog'.kind = "form" /\ dialog'.cred \in Rev
    BY <1>3 DEF Add, Dialog, Rev, Blank
  <2> QED BY <1>3, <2>1
       DEF Add, Clickable, TypeOK, Captures, Closed, Active, data, hist
<1>4. ASSUME NEW kind \in {"form", "confirm"}, Open(kind) PROVE TypeInv'
  <2> DEFINE id == store[selected].id
  <2>1. /\ gui = "on" /\ selected \in 1 .. Len(store) /\ id \in Id
        /\ UNCHANGED <<data, gui, selected, pc, edits, minted, typed, unsaved, lost, stale>>
        /\ dialog' \in Dialog /\ dialog'.kind = kind
        /\ kind = "form" => dialog'.cred \in Rev
        /\ kind = "confirm" => dialog'.idx = selected
        /\ misread' \in {misread, misread \cup {id}}
        /\ spoilt' \in {spoilt, spoilt \cup {id}}
        /\ task' \in [Task -> Capture] /\ \A t \in Task : Same(t)
    BY <1>4, OpenStep
  <2> HIDE DEF id
  <2>2. TypeOK'
    BY <2>1 DEF TypeOK, Dialog, data
  <2>3. Captures'
    BY <2>1 DEF Captures, Active, Same
  <2> QED BY <2>1, <2>2, <2>3 DEF Closed, data
<1>5. CASE Cancel
  BY <1>5 DEF Cancel, TypeOK, Captures, Closed, Active, data, hist
<1>6. ASSUME NEW t \in Task, Save(t) PROVE TypeInv'
  <2>1. dialog \in Dialog /\ dialog.cred \in Rev /\ edits + 1 \in Rev
    BY <1>6 DEF Save, Captures, Rev
  <2>2. PICK cred \in {dialog.cred, edits + 1} :
          /\ Confirm(t, "saveCreds",
                     [id |-> dialog.id, rev |-> edits + 1, idx |-> 0,
                      isNew |-> dialog.isNew, cred |-> cred,
                      clean |-> On(dialog.id) = {}])
          /\ typed' = IF cred = edits + 1
                        THEN [typed EXCEPT ![dialog.id] = cred] ELSE typed
    BY <1>6 DEF Save
  <2> DEFINE new == [id |-> dialog.id, rev |-> edits + 1, idx |-> 0,
                     isNew |-> dialog.isNew, cred |-> cred,
                     clean |-> On(dialog.id) = {}]
  <2>3. new \in Capture /\ new.id \in Id /\ new.cred \in Rev
    BY <2>1, <2>2 DEF Capture, Dialog
  <2>4. /\ task' = [task EXCEPT ![t] = new]
        /\ pc' = [pc EXCEPT ![t] = "saveCreds"]
        /\ gui = "on" /\ dialog' = None /\ edits' = edits + 1
        /\ UNCHANGED <<data, gui, selected, minted, unsaved, misread, spoilt>>
    BY <1>6, <2>2 DEF Save, Confirm, Goto, Answerable
  <2>5. typed' \in [Id -> Rev]
    BY <2>1, <2>2 DEF TypeOK, Dialog
  <2> HIDE DEF new
  <2> QED BY <2>1, <2>3, <2>4, <2>5
       DEF TypeOK, Captures, Closed, Active, SavePc, RemovePc, SamlPc, data
<1>7. ASSUME NEW t \in Task, Remove(t) PROVE TypeInv'
  <2> DEFINE new == Job(dialog.id, 0, dialog.idx)
  <2>1. dialog \in Dialog /\ dialog.idx # 0
    BY <1>7 DEF Remove, Captures
  <2>2. new \in Capture /\ new.id \in Id /\ new.idx # 0
    <3>1. dialog.id \in Id /\ dialog.idx \in Nat
      BY <2>1 DEF Dialog
    <3>2. new \in Capture /\ new.id = dialog.id /\ new.idx = dialog.idx
      BY <3>1, JobType, ZeroRev
    <3> HIDE DEF new
    <3> QED BY <2>1, <3>1, <3>2
  <2>3. /\ task' = [task EXCEPT ![t] = new]
        /\ pc' = [pc EXCEPT ![t] = "remove"]
        /\ gui = "on" /\ dialog' = None /\ edits' = edits
        /\ UNCHANGED <<data, gui, selected, minted, hist>>
    BY <1>7 DEF hist, Remove, Confirm, Goto, Answerable
  <2> HIDE DEF new
  <2> QED BY <2>2, <2>3
       DEF TypeOK, Captures, Closed, Active, SavePc, RemovePc, SamlPc, data, hist
<1>8. ASSUME NEW t \in Task, ConnectSAML(t) PROVE TypeInv'
  <2> DEFINE id == store[selected].id
  <2>1. /\ gui = "on" /\ id \in Id
        /\ UNCHANGED <<data, ui, edits, minted, typed, unsaved, misread, lost, stale>>
        /\ spoilt' \in {spoilt, spoilt \cup {id}}
        /\ pc' = [pc EXCEPT ![t] = "load"]
        /\ task' \in [Task -> Capture] /\ task'[t].id = id
        /\ \A u \in Task \ {t} : Same(u)
    BY <1>8, ConnectStep
  <2> HIDE DEF id
  <2> QED BY <2>1 DEF TypeOK, Captures, Closed, Active, Same, SavePc, RemovePc,
       SamlPc, data, ui
<1>9. ASSUME NEW t \in Task, SaveCreds(t) PROVE TypeInv'
  <2>1. task[t].id \in Id /\ task[t].cred \in Rev /\ gui = "on"
    BY <1>9 DEF SaveCreds, Captures, Closed, Active, SavePc
  <2>2. keyring' \in [Id -> Rev \cup {None}] /\ unsaved' \subseteq Id
    BY <1>9, <2>1 DEF SaveCreds, TypeOK
  <2>3. CASE Finish(t)
    BY <1>9, <2>1, <2>2, <2>3, FinishType DEF SaveCreds, TypeOK, Closed, ui
  <2>4. CASE Goto(t, "apply") /\ UNCHANGED task
    BY <1>9, <2>1, <2>2, <2>4
       DEF SaveCreds, Goto, TypeOK, Captures, Closed, Active, ui, SavePc, RemovePc, SamlPc
  <2> QED BY <1>9, <2>3, <2>4 DEF SaveCreds
<1>10. ASSUME NEW t \in Task, Apply(t) PROVE TypeInv'
  <2>1. task[t].id \in Id /\ task[t].cred \in Rev /\ task[t].rev \in Rev /\ gui = "on"
    BY <1>10 DEF Apply, Captures, Closed, Active, SavePc, TypeOK, Capture
  <2>2. daemon' \in [Id -> (Rev \X Rev) \cup {None}] /\ spoilt' \subseteq Id
    <3>1. daemon' \in {daemon, [daemon EXCEPT ![task[t].id] =
                                   <<task[t].rev, task[t].cred>>]}
      BY <1>10 DEF Apply
    <3>2. spoilt' \in {spoilt, spoilt \cup {task[t].id}}
      BY <1>10 DEF Apply
    <3>3. [daemon EXCEPT ![task[t].id] = <<task[t].rev, task[t].cred>>]
            \in [Id -> (Rev \X Rev) \cup {None}]
      <4> HIDE DEF TypeInv
      <4> QED BY <2>1, GivenType, Zenon
    <3> QED BY <2>1, <3>1, <3>2, <3>3 DEF TypeOK
  <2>3. CASE Finish(t)
    BY <1>10, <2>1, <2>2, <2>3, FinishType DEF Apply, TypeOK, Closed, ui
  <2>4. CASE Goto(t, "persist") /\ UNCHANGED task
    BY <1>10, <2>1, <2>2, <2>4
       DEF Apply, Goto, TypeOK, Captures, Closed, Active, ui, SavePc, RemovePc, SamlPc
  <2> QED BY <1>10, <2>3, <2>4 DEF Apply
<1>11. ASSUME NEW t \in Task, Persist(t) PROVE TypeInv'
  <2> DEFINE p == [id |-> task[t].id, rev |-> task[t].rev]
             s == Saved(p, task[t].isNew)
  <2>1. p \in Entry
    BY <1>11 DEF Persist, Captures, Active, Entry, TypeOK, Capture
  <2>2. s \in Seq(Entry) /\ Len(s) >= Len(store)
    BY <2>1, SavedSeq DEF TypeOK
  <2>3. /\ store' = s /\ SaveStore(s) /\ Finish(t) /\ gui = "on"
        /\ spoilt' \in {spoilt, spoilt \ {p.id}}
        /\ UNCHANGED <<keyring, daemon, ui, edits, minted, typed, unsaved, misread, stale>>
    BY <1>11 DEF Persist
  <2> HIDE DEF p, s
  <2>4. file' \in File
    BY <2>2, <2>3, SaveStoreType
  <2>5. selected \in 0 .. Len(store')
    BY <2>2, <2>3 DEF TypeOK
  <2> QED BY <2>2, <2>3, <2>4, <2>5, FinishType
       DEF TypeOK, Closed, ui, File
<1>12. ASSUME NEW t \in Task, RemoveProfile(t) PROVE TypeInv'
  <2>1. task[t].id \in Id /\ gui = "on"
    BY <1>12 DEF RemoveProfile, Captures, Closed, Active
  <2>2. daemon' \in [Id -> (Rev \X Rev) \cup {None}] /\ spoilt' \subseteq Id
    BY <1>12, <2>1 DEF RemoveProfile, TypeOK
  <2>3. CASE Finish(t)
    BY <1>12, <2>1, <2>2, <2>3, FinishType
       DEF RemoveProfile, TypeOK, Closed, ui
  <2>4. CASE Goto(t, "forget") /\ UNCHANGED task
    BY <1>12, <2>1, <2>2, <2>4 DEF RemoveProfile, Goto, TypeOK, Captures, Closed,
       Active, ui, SavePc, RemovePc, SamlPc
  <2> QED BY <1>12, <2>3, <2>4 DEF RemoveProfile
<1>13. ASSUME NEW t \in Task, Forget(t) PROVE TypeInv'
  <2>1. task[t].id \in Id /\ gui = "on"
    BY <1>13 DEF Forget, Captures, Closed, Active
  <2>2. /\ keyring' \in [Id -> Rev \cup {None}] /\ typed' \in [Id -> Rev]
        /\ spoilt' \subseteq Id
    <3>1. /\ keyring' \in {keyring, [keyring EXCEPT ![task[t].id] = None]}
          /\ typed' \in {typed, [typed EXCEPT ![task[t].id] = Blank]}
          /\ spoilt' \in {spoilt, spoilt \cup {task[t].id}}
      BY <1>13 DEF Forget
    <3>2. Blank \in Rev
      BY DEF Blank, Rev
    <3>3. keyring' \in [Id -> Rev \cup {None}]
      BY <2>1, <3>1 DEF TypeOK
    <3>4. typed' \in [Id -> Rev]
      BY <2>1, <3>1, <3>2 DEF TypeOK
    <3>5. spoilt' \subseteq Id
      BY <2>1, <3>1 DEF TypeOK
    <3> QED BY <3>3, <3>4, <3>5
  <2> QED BY <1>13, <2>1, <2>2 DEF Forget, Goto, TypeOK, Captures, Closed, Active,
       ui, SavePc, RemovePc, SamlPc
<1>14. ASSUME NEW t \in Task, Unlist(t) PROVE TypeInv'
  <2>1. gui = "on" /\ task[t].idx \in Nat \ {0} /\ stale' \in BOOLEAN \cup {stale'}
    BY <1>14 DEF Unlist, Captures, Closed, Active, RemovePc, TypeOK, Capture
  <2>2. CASE task[t].idx > Len(store)
    <3>1. Gone("panicked") /\ UNCHANGED <<store, file>>
      BY <1>14, <2>2 DEF Unlist
    <3> QED BY <3>1, GoneType DEF TypeOK
  <2>3. CASE ~(task[t].idx > Len(store))
    <3>1. /\ store' = Without(store, task[t].idx) /\ SaveStore(store')
          /\ selected' = 0 /\ Finish(t)
          /\ UNCHANGED <<keyring, daemon, gui, dialog, edits, minted, typed,
                         unsaved, misread, spoilt>>
      BY <1>14, <2>3 DEF Unlist
    <3>2. store' \in Seq(Entry)
      BY <2>1, <2>3, <3>1, WithoutSeq DEF TypeOK
    <3>3. file' \in File
      BY <3>1, <3>2, SaveStoreType
    <3> QED BY <2>1, <3>1, <3>2, <3>3, FinishType
         DEF TypeOK, Closed, File
  <2> QED BY <2>2, <2>3
<1>15. ASSUME NEW t \in Task, LoadCreds(t) PROVE TypeInv'
  <2>1. task[t].id \in Id /\ gui = "on"
    BY <1>15 DEF LoadCreds, Captures, Closed, Active
  <2>2. CASE Finish(t)
    BY <1>15, <2>1, <2>2, FinishType
       DEF LoadCreds, TypeOK, Closed, data, ui, hist
  <2>3. CASE /\ keyring[task[t].id] \notin {None, Blank}
             /\ Goto(t, "begin")
             /\ task' = [task EXCEPT ![t].cred = keyring[task[t].id]]
    <3>1. keyring[task[t].id] \in Rev
      BY <2>1, <2>3 DEF TypeOK
    <3>2. /\ task' \in [Task -> Capture] /\ task'[t].cred \in Rev
          /\ task'[t].id = task[t].id
          /\ \A u \in Task \ {t} : task'[u] = task[u]
      BY <2>3, <3>1 DEF TypeOK, Capture
    <3> QED BY <1>15, <2>1, <2>3, <3>2 DEF LoadCreds, Goto, TypeOK, Captures, Closed,
         Active, data, ui, hist, SavePc, RemovePc, SamlPc
  <2> QED BY <1>15, <2>2, <2>3 DEF LoadCreds
<1>16. ASSUME NEW t \in Task, Begin(t) PROVE TypeInv'
  <2>0. gui = "on"
    BY <1>16, ActiveType DEF Begin
  <2>1. CASE Finish(t)
    BY <1>16, <2>1, <2>0, FinishType
       DEF Begin, TypeOK, Closed, data, ui, hist
  <2>2. CASE Goto(t, "login") /\ UNCHANGED task
    BY <1>16, <2>2 DEF Begin, Goto, TypeOK, Captures, Closed, Active, data, ui, hist,
       SavePc, RemovePc, SamlPc
  <2> QED BY <1>16, <2>1, <2>2 DEF Begin
<1>17. ASSUME NEW t \in Task, Login(t) PROVE TypeInv'
  <2>0. gui = "on"
    BY <1>17, ActiveType DEF Login
  <2>1. CASE Finish(t)
    BY <1>17, <2>1, <2>0, FinishType
       DEF Login, TypeOK, Closed, data, ui, hist
  <2>2. CASE Goto(t, "reapply") /\ UNCHANGED task
    BY <1>17, <2>2 DEF Login, Goto, TypeOK, Captures, Closed, Active, data, ui, hist,
       SavePc, RemovePc, SamlPc
  <2> QED BY <1>17, <2>1, <2>2 DEF Login
<1>18. ASSUME NEW t \in Task, Reapply(t) PROVE TypeInv'
  <2>1. task[t].id \in Id /\ task[t].cred \in Rev /\ task[t].rev \in Rev /\ gui = "on"
    BY <1>18 DEF Reapply, Captures, Closed, Active, TypeOK, Capture
  <2>2. daemon' \in [Id -> (Rev \X Rev) \cup {None}]
    <3>1. daemon' \in {daemon, [daemon EXCEPT ![task[t].id] =
                                   <<task[t].rev, task[t].cred>>]}
      BY <1>18 DEF Reapply
    <3>2. [daemon EXCEPT ![task[t].id] = <<task[t].rev, task[t].cred>>]
            \in [Id -> (Rev \X Rev) \cup {None}]
      <4> HIDE DEF TypeInv
      <4> QED BY <2>1, GivenType, Zenon
    <3> QED BY <2>1, <3>1, <3>2 DEF TypeOK
  <2> QED BY <1>18, <2>1, <2>2, FinishType
       DEF Reapply, TypeOK, Closed, ui, hist
<1>19. ASSUME NEW t \in Task, CrashInSave(t) PROVE TypeInv'
  <2> DEFINE p == [id |-> task[t].id, rev |-> task[t].rev]
  <2>1. p \in Entry
    BY <1>19 DEF CrashInSave, Captures, Active, Entry, TypeOK, Capture
  <2>2. Saved(p, task[t].isNew) \in Seq(Entry)
    BY <2>1, SavedSeq DEF TypeOK
  <2>3. file' \in File
    BY <1>19, <2>2 DEF CrashInSave, Torn, File
  <2> QED BY <1>19, <2>3, GoneType DEF CrashInSave, TypeOK
<1>20. CASE Quit
  BY <1>20, GoneType DEF Quit, TypeOK
<1>21. CASE Start
  <2>1. file.list \in Seq(Entry)
    BY DEF File
  <2>2. store' \in Seq(Entry)
    <3>1. PICK n \in 0 .. Len(file.list) : store' = SubSeq(file.list, 1, n)
      BY <1>21, <2>1 DEF Start
    <3> QED BY <2>1, <3>1
  <2>3. selected' = 0 /\ spoilt' \subseteq Id /\ gui' = "on"
    BY <1>21 DEF Start, Closed, TypeOK
  <2> QED BY <1>21, <2>2, <2>3 DEF Start, TypeOK, Captures, Closed, Active
<1>22. CASE UNCHANGED vars
  BY <1>22 DEF TypeOK, Captures, Closed, Active, vars, data, ui, hist
<1> QED
  BY <1>1, <1>2, <1>3, <1>4, <1>5, <1>6, <1>7, <1>8, <1>9, <1>10, <1>11, <1>12,
     <1>13, <1>14, <1>15, <1>16, <1>17, <1>18, <1>19, <1>20, <1>21, <1>22
     DEF Next, EditSelected, RemoveSelected

\* Every variable stays in its type, and the selection within the list.
THEOREM TypeCorrect == Spec => []TypeOK
<1>1. TypeInv => TypeOK
  BY DEF TypeInv
<1> QED BY <1>1, InitType, NextType, PTL DEF Spec

-----------------------------------------------------------------------------
(* A removal never indexes past the list.                                   *)

\* Until a removal has shortened the list under another one, every index that
\* has been captured is one of the list.
IndexInv ==
  ~stale =>
    /\ gui # "panicked"
    /\ dialog # None => (dialog.kind = "confirm" => dialog.idx <= Len(store))
    /\ \A t \in Task : pc[t] \in RemovePc => task[t].idx <= Len(store)

\* A step that captures no index and does not shorten the list.
KeepsIndices ==
  /\ gui' = "panicked" => gui = "panicked"
  /\ stale' = stale
  /\ dialog' \in {dialog, None}
  /\ Len(store') >= Len(store)
  /\ \A t \in Task :
       pc'[t] \in RemovePc => pc[t] \in RemovePc /\ task'[t].idx = task[t].idx

LEMMA KeepIndices == TypeInv /\ TypeInv' /\ IndexInv /\ KeepsIndices => IndexInv'
<1> SUFFICES ASSUME TypeInv, TypeInv', IndexInv, KeepsIndices PROVE IndexInv'
  OBVIOUS
<1>1. Len(store) \in Nat /\ Len(store') \in Nat
  BY DEF TypeInv, TypeOK
<1>2. \A t \in Task : task[t].idx \in Nat
  BY DEF TypeInv, TypeOK, Capture
<1>3. dialog = None \/ dialog.idx \in Nat
  BY DEF TypeInv, Captures, Dialog
<1> QED BY <1>1, <1>2, <1>3 DEF IndexInv, KeepsIndices

LEMMA InitIndex == Init => IndexInv
BY DEF Init, IndexInv, RemovePc

LEMMA NextIndex == TypeInv /\ TypeInv' /\ IndexInv /\ [Next]_vars => IndexInv'
<1> SUFFICES ASSUME TypeInv, TypeInv', IndexInv, [Next]_vars PROVE IndexInv'
  OBVIOUS
<1>0. /\ store \in Seq(Entry) /\ Len(store) \in Nat
      /\ pc \in [Task -> {"idle"} \cup SavePc \cup RemovePc \cup SamlPc]
  BY DEF TypeInv, TypeOK
<1> SUFFICES KeepsIndices \/ IndexInv'
  BY KeepIndices
<1>1. ASSUME NEW i \in 1 .. Len(store), Select(i) PROVE KeepsIndices
  BY <1>0, <1>1 DEF Select, KeepsIndices, data, hist
<1>2. CASE Unselect
  BY <1>0, <1>2 DEF Unselect, KeepsIndices, data, hist
<1>3. ASSUME NEW id \in Id, Add(id) PROVE IndexInv'
  <2>1. dialog'.kind = "form"
    BY <1>3 DEF Add
  <2> QED BY <1>3, <2>1 DEF Add, IndexInv, data, hist
<1>4. ASSUME NEW kind \in {"form", "confirm"}, Open(kind) PROVE IndexInv'
  <2>1. /\ selected \in 1 .. Len(store)
        /\ UNCHANGED <<data, gui, selected, pc, edits, minted, typed, unsaved, lost, stale>>
        /\ dialog'.kind = kind /\ (kind = "confirm" => dialog'.idx = selected)
        /\ \A t \in Task : Same(t)
    BY <1>4, OpenStep
  <2> QED BY <1>0, <2>1 DEF IndexInv, Same, data
<1>5. CASE Cancel
  BY <1>0, <1>5 DEF Cancel, KeepsIndices, data, hist
<1>6. ASSUME NEW t \in Task, Save(t) PROVE KeepsIndices
  <2>1. /\ pc' = [pc EXCEPT ![t] = "saveCreds"]
        /\ \A u \in Task \ {t} : task'[u] = task[u]
        /\ dialog' = None /\ UNCHANGED <<data, gui, selected, minted, stale>>
    BY <1>6 DEF Save, Confirm, Goto, TypeInv, TypeOK
  <2> QED BY <1>0, <2>1 DEF KeepsIndices, data, RemovePc, TypeInv, TypeOK
<1>7. ASSUME NEW t \in Task, Remove(t) PROVE IndexInv'
  <2>1. /\ dialog # None /\ dialog.kind = "confirm" /\ dialog' = None
        /\ pc' = [pc EXCEPT ![t] = "remove"]
        /\ task' = [task EXCEPT ![t] =
             Job(dialog.id, 0, dialog.idx)]
        /\ UNCHANGED <<data, gui, selected, minted, stale>>
    BY <1>7, Zenon DEF Remove, Confirm, Goto
  <2>2. dialog.id \in Id /\ dialog.idx \in Nat
    BY <2>1 DEF TypeInv, Captures, Dialog
  <2>3. Job(dialog.id, 0, dialog.idx).idx = dialog.idx
    BY <2>2, JobType, ZeroRev
  <2>4. task \in [Task -> Capture]
    BY DEF TypeInv, TypeOK
  <2>5. task'[t].idx = dialog.idx /\ \A u \in Task \ {t} : task'[u] = task[u]
    BY <2>1, <2>3, <2>4, Zenon
  <2>6. \A u \in Task \ {t} : pc'[u] = pc[u]
    BY <1>0, <2>1
  <2>7. UNCHANGED <<store, stale, gui>>
    BY <2>1 DEF data, hist
  <2> QED BY <2>5, <2>6, <2>7, <2>1 DEF IndexInv
<1>8. ASSUME NEW t \in Task, ConnectSAML(t) PROVE KeepsIndices
  <2>1. /\ UNCHANGED <<data, ui, edits, minted, typed, unsaved, misread, lost, stale>>
        /\ pc' = [pc EXCEPT ![t] = "load"] /\ \A u \in Task \ {t} : Same(u)
    BY <1>8, ConnectStep
  <2> QED BY <1>0, <2>1 DEF KeepsIndices, Same, data, ui, RemovePc
\* A goroutine that ends, or goes on with what it has.
<1>9. ASSUME NEW t \in Task, NEW l, Goto(t, l), UNCHANGED <<store, ui, stale>>,
             l \in RemovePc => pc[t] \in RemovePc,
             \A u \in Task : (u # t \/ l \in RemovePc) => task'[u].idx = task[u].idx
      PROVE  KeepsIndices
  BY <1>0, <1>9 DEF Goto, KeepsIndices, ui
<1>10. ASSUME NEW t \in Task, Finish(t), UNCHANGED <<store, ui, stale>>
       PROVE  KeepsIndices
  <2>1. \A u \in Task \ {t} : task'[u] = task[u]
    BY <1>10 DEF Finish, TypeInv, TypeOK
  <2> QED BY <1>9, <1>10, <2>1 DEF Finish, RemovePc
<1>11. ASSUME NEW t \in Task, SaveCreds(t) PROVE KeepsIndices
  BY <1>9, <1>10, <1>11 DEF SaveCreds, RemovePc
<1>12. ASSUME NEW t \in Task, Apply(t) PROVE KeepsIndices
  BY <1>9, <1>10, <1>12 DEF Apply, RemovePc
<1>13. ASSUME NEW t \in Task, Persist(t) PROVE KeepsIndices
  <2> DEFINE p == [id |-> task[t].id, rev |-> task[t].rev]
  <2>1. pc[t] = "persist" /\ store' = Saved(p, task[t].isNew) /\ Finish(t)
        /\ UNCHANGED <<ui, stale>>
    BY <1>13 DEF Persist
  <2>2. p \in Entry
    <3>1. task[t].id \in Id /\ task[t].rev \in Rev
      BY <2>1, ActiveType
    <3> QED BY <3>1 DEF Entry
  <2> HIDE DEF p
  <2>3. Len(store') >= Len(store)
    BY <1>0, <2>1, <2>2, SavedSeq
  <2>4. \A u \in Task \ {t} : pc'[u] = pc[u] /\ task'[u] = task[u]
    BY <1>0, <2>1 DEF Finish, Goto, TypeInv, TypeOK
  <2>5. pc'[t] = "idle"
    BY <1>0, <2>1 DEF Finish, Goto
  <2> QED BY <2>1, <2>3, <2>4, <2>5 DEF KeepsIndices, ui, RemovePc
<1>14. ASSUME NEW t \in Task, RemoveProfile(t) PROVE KeepsIndices
  BY <1>9, <1>10, <1>14 DEF RemoveProfile, RemovePc
<1>15. ASSUME NEW t \in Task, Forget(t) PROVE KeepsIndices
  BY <1>9, <1>15 DEF Forget, RemovePc
<1>16. ASSUME NEW t \in Task, Unlist(t) PROVE IndexInv'
  <2> SUFFICES ASSUME ~stale' PROVE IndexInv'
    BY DEF IndexInv
  <2>1. ~stale /\ ~Captured(t) /\ gui = "on" /\ pc[t] = "unlist"
    BY <1>16 DEF Unlist
  <2>2. ~(task[t].idx > Len(store))
    <3>1. task[t].idx <= Len(store) /\ task[t].idx \in Nat
      BY <2>1 DEF IndexInv, RemovePc, TypeInv, TypeOK, Capture
    <3> QED BY <1>0, <3>1
  <2>3. Finish(t) /\ UNCHANGED <<gui, dialog>>
    BY <1>16, <2>2 DEF Unlist
  <2>4. /\ pc'[t] = "idle"
        /\ \A u \in Task \ {t} : pc'[u] = pc[u]
    BY <1>0, <2>3 DEF Finish, Goto
  <2> QED BY <2>1, <2>3, <2>4 DEF IndexInv, Captured, RemovePc
<1>17. ASSUME NEW t \in Task, LoadCreds(t) PROVE KeepsIndices
  <2>1. CASE Finish(t)
    BY <1>10, <1>17, <2>1 DEF LoadCreds, data, hist
  <2>2. CASE Goto(t, "begin") /\ \A u \in Task \ {t} : task'[u] = task[u]
    BY <1>9, <1>17, <2>2 DEF LoadCreds, RemovePc, data, hist
  <2>3. task' = [task EXCEPT ![t].cred = keyring[task[t].id]]
          => \A u \in Task \ {t} : task'[u] = task[u]
    BY DEF TypeInv, TypeOK
  <2> QED BY <1>17, <2>1, <2>2, <2>3 DEF LoadCreds
<1>18. ASSUME NEW t \in Task, Begin(t) PROVE KeepsIndices
  BY <1>9, <1>10, <1>18 DEF Begin, RemovePc, data, hist
<1>19. ASSUME NEW t \in Task, Login(t) PROVE KeepsIndices
  BY <1>9, <1>10, <1>19 DEF Login, RemovePc, data, hist
<1>20. ASSUME NEW t \in Task, Reapply(t) PROVE KeepsIndices
  BY <1>10, <1>20 DEF Reapply, hist
<1>21. ASSUME Gone("off"), UNCHANGED <<store, stale>> PROVE KeepsIndices
  BY <1>0, <1>21 DEF Gone, KeepsIndices, RemovePc
<1>22. ASSUME NEW t \in Task, CrashInSave(t) PROVE KeepsIndices
  BY <1>21, <1>22 DEF CrashInSave
<1>23. CASE Quit
  BY <1>21, <1>23 DEF Quit
<1>24. CASE Start
  BY <1>24 DEF Start, IndexInv, TypeInv, Closed, Active, RemovePc
<1>25. CASE UNCHANGED vars
  BY <1>0, <1>25 DEF vars, data, ui, hist, KeepsIndices
<1> QED
  BY <1>1, <1>2, <1>3, <1>4, <1>5, <1>6, <1>7, <1>8, <1>11, <1>12, <1>13,
     <1>14, <1>15, <1>16, <1>17, <1>18, <1>19, <1>20, <1>22, <1>23, <1>24, <1>25
     DEF Next, EditSelected, RemoveSelected

\* However many removals there are, the closure of one indexes past the list
\* only after another has shortened it since the index was captured.
THEOREM RemovalInBounds == Spec => []NoPanic
<1>1. IndexInv => NoPanic
  BY DEF IndexInv, NoPanic
<1> QED BY <1>1, InitType, NextType, InitIndex, NextIndex, PTL DEF Spec

-----------------------------------------------------------------------------
(* What was typed last is what gets into the keyring, and stays there.      *)

Known == [id : minted, rev : Rev]

\* Whatever is listed, open or under way has an ID that has been handed out;
\* of the others nobody has typed anything.
MintInv ==
  /\ store \in Seq(Known) /\ file.list \in Seq(Known)
  /\ dialog # None => dialog.id \in minted
  /\ \A t \in Task : Active(t) => task[t].id \in minted
  /\ \A id \in Id \ minted : typed[id] = Blank

\* A profile whose form has always shown the newest credentials has one dialog
\* or one goroutine, at most, that is still to change the keyring, ...
OneWriter(id) ==
  /\ \A t, u \in Task :
       /\ pc[t] \in Pending /\ task[t].id = id
       /\ pc[u] \in Pending /\ task[u].id = id
       => t = u
  /\ dialog # None => (dialog.id = id =>
       \A t \in Task : pc[t] \in Pending => task[t].id # id)

\* ... and that one writes what has been typed last, or is there already.
WritesNewest(id) ==
  /\ dialog # None => (dialog.kind = "form" /\ dialog.id = id =>
                         dialog.cred = typed[id] \/ id \in unsaved)
  /\ \A t \in Task : pc[t] = "saveCreds" /\ task[t].id = id =>
       \/ task[t].cred = typed[id]
       \/ ~Typing(t) /\ id \in unsaved

HoldsNewest(id) ==
  id \notin unsaved /\ (\A t \in Task : Typing(t) => task[t].id # id) =>
    keyring[id] \in {None, typed[id]}

NewestInv ==
  \A id \in Id \ misread : OneWriter(id) /\ WritesNewest(id) /\ HoldsNewest(id)

\* A step that changes neither list, file nor history, and adds no work.
KeepsMinted ==
  /\ store' \in Seq(Known) /\ file'.list \in Seq(Known)
  /\ minted' = minted /\ typed' = typed
  /\ dialog' \in {dialog, None}
  /\ \A t \in Task : pc'[t] # "idle" => pc[t] # "idle" /\ task'[t].id = task[t].id

LEMMA KeepMinted == MintInv /\ KeepsMinted => MintInv'
BY DEF MintInv, KeepsMinted, Known, Active

\* A step that leaves the keyring alone, and no new writer.
KeepsNewest ==
  /\ UNCHANGED <<typed, unsaved, keyring, misread>>
  /\ dialog' \in {dialog, None}
  /\ \A t \in Task : pc'[t] \in Pending =>
       /\ pc[t] \in Pending /\ (pc'[t] = "saveCreds" => pc[t] = "saveCreds")
       /\ task'[t].id = task[t].id /\ task'[t].rev = task[t].rev
       /\ task'[t].cred = task[t].cred
  /\ \A t \in Task : Typing(t) => Typing(t)' /\ task'[t].id = task[t].id

LEMMA KeepNewest == NewestInv /\ KeepsNewest => NewestInv'
<1> SUFFICES ASSUME NewestInv, KeepsNewest, NEW id \in Id, id \notin misread
             PROVE (OneWriter(id) /\ WritesNewest(id) /\ HoldsNewest(id))'
  BY DEF NewestInv, KeepsNewest
<1>1. OneWriter(id) /\ WritesNewest(id) /\ HoldsNewest(id)
  BY DEF NewestInv
<1>2. OneWriter(id)'
  BY <1>1 DEF OneWriter, KeepsNewest
<1>3. WritesNewest(id)'
  BY <1>1 DEF WritesNewest, KeepsNewest, Pending, Typing
<1>4. HoldsNewest(id)'
  BY <1>1 DEF HoldsNewest, KeepsNewest
<1> QED BY <1>2, <1>3, <1>4

LEMMA InitNewest == Init => MintInv /\ NewestInv
<1> SUFFICES ASSUME Init PROVE MintInv /\ NewestInv
  OBVIOUS
<1>1. MintInv
  BY DEF Init, MintInv, Whole, Active
<1>2. NewestInv
  BY DEF Init, NewestInv, OneWriter, WritesNewest, HoldsNewest, Pending
<1> QED BY <1>1, <1>2

LEMMA NextMint == TypeInv /\ TypeInv' /\ MintInv /\ [Next]_vars => MintInv'
<1> SUFFICES ASSUME TypeInv, TypeInv', MintInv, [Next]_vars PROVE MintInv'
  OBVIOUS
<1>0. /\ store \in Seq(Known) /\ file.list \in Seq(Known)
      /\ pc \in [Task -> {"idle"} \cup SavePc \cup RemovePc \cup SamlPc]
      /\ task \in [Task -> Capture]
  BY DEF TypeInv, TypeOK, MintInv
<1> SUFFICES KeepsMinted \/ MintInv'
  BY KeepMinted
<1>1. ASSUME NEW i \in 1 .. Len(store), Select(i) PROVE KeepsMinted
  BY <1>0, <1>1 DEF Select, KeepsMinted, data, hist
<1>2. CASE Unselect
  BY <1>0, <1>2 DEF Unselect, KeepsMinted, data, hist
<1>3. ASSUME NEW id \in Id, Add(id) PROVE MintInv'
  <2>1. minted' = minted \cup {id} /\ dialog'.id = id
        /\ UNCHANGED <<data, gui, selected, pc, task, edits, hist>>
    BY <1>3 DEF Add
  <2>2. Known \subseteq Known'
    BY <2>1 DEF Known
  <2>3. Seq(Known) \subseteq Seq(Known')
    <3>1. ASSUME NEW s \in Seq(Known) PROVE s \in Seq(Known')
      <4> HIDE DEF Known
      <4>1. Len(s) \in Nat /\ s \in [1 .. Len(s) -> Known]
        OBVIOUS
      <4>2. s \in [1 .. Len(s) -> Known']
        BY <2>2, <4>1
      <4> QED BY <4>1, <4>2
    <3> QED BY <3>1
  <2>4. (store \in Seq(Known))' /\ (file.list \in Seq(Known))'
    BY <1>0, <2>1, <2>3 DEF data
  <2>5. (\A t \in Task : Active(t) => task[t].id \in minted)'
    BY <2>1 DEF MintInv, Active
  <2>6. \A x \in Id \ minted' : typed'[x] = Blank
    BY <2>1 DEF MintInv, hist
  <2> QED BY <2>1, <2>4, <2>5, <2>6 DEF MintInv
<1>4. ASSUME NEW kind \in {"form", "confirm"}, Open(kind) PROVE MintInv'
  <2> DEFINE id == store[selected].id
  <2>1. /\ selected \in 1 .. Len(store)
        /\ UNCHANGED <<data, gui, selected, pc, edits, minted, typed, unsaved, lost, stale>>
        /\ dialog'.id = id /\ \A t \in Task : Same(t)
    BY <1>4, OpenStep
  <2>2. id \in minted
    <3>1. store[selected] \in Known
      BY <1>0, <2>1
    <3> QED BY <3>1 DEF Known
  <2> HIDE DEF id
  <2> QED BY <2>1, <2>2 DEF MintInv, Active, Same, Known, data
<1>5. CASE Cancel
  BY <1>0, <1>5 DEF Cancel, KeepsMinted, data, hist
<1>6. ASSUME NEW t \in Task, NEW l, NEW c,
             dialog # None, Confirm(t, l, c), c.id = dialog.id,
             \A id \in Id \ {dialog.id} : typed'[id] = typed[id]
      PROVE  MintInv'
  <2>1. /\ dialog' = None /\ UNCHANGED <<data, minted>>
        /\ \A u \in Task \ {t} : pc'[u] = pc[u] /\ task'[u] = task[u]
        /\ task'[t] = c
    BY <1>0, <1>6 DEF Confirm, Goto
  <2>2. \A u \in Task : Active(u)' => task'[u].id \in minted
    BY <1>6, <2>1 DEF MintInv, Active
  <2> QED BY <1>6, <2>1, <2>2 DEF MintInv, Known, data
<1>7. ASSUME NEW t \in Task, Save(t) PROVE MintInv'
  <2>1. PICK cred \in {dialog.cred, edits + 1} :
          /\ dialog # None
          /\ Confirm(t, "saveCreds",
                     [id |-> dialog.id, rev |-> edits + 1, idx |-> 0,
                      isNew |-> dialog.isNew, cred |-> cred,
                      clean |-> On(dialog.id) = {}])
          /\ typed' = IF cred = edits + 1
                        THEN [typed EXCEPT ![dialog.id] = cred] ELSE typed
    BY <1>7 DEF Save
  <2>2. \A id \in Id \ {dialog.id} : typed'[id] = typed[id]
    BY <2>1 DEF TypeInv, TypeOK
  <2> QED BY <1>6, <2>1, <2>2
<1>8. ASSUME NEW t \in Task, Remove(t) PROVE MintInv'
  <2>1. dialog # None /\ Confirm(t, "remove",
          Job(dialog.id, 0, dialog.idx))
    BY <1>8, Zenon DEF Remove
  <2>2. dialog.id \in Id /\ dialog.idx \in Nat
    BY <2>1 DEF TypeInv, Captures, Dialog
  <2>3. Job(dialog.id, 0, dialog.idx).id = dialog.id
    BY <2>2, JobType, ZeroRev
  <2>4. typed' = typed
    BY <1>8 DEF Remove
  <2> QED BY <1>6, <2>1, <2>3, <2>4, Zenon
<1>9. ASSUME NEW t \in Task, ConnectSAML(t) PROVE MintInv'
  <2> DEFINE id == store[selected].id
  <2>1. /\ selected \in 1 .. Len(store)
        /\ UNCHANGED <<data, ui, edits, minted, typed, unsaved, misread, lost, stale>>
        /\ pc' = [pc EXCEPT ![t] = "load"] /\ task'[t].id = id
        /\ \A u \in Task \ {t} : Same(u)
    BY <1>9, ConnectStep
  <2>2. id \in minted
    <3>1. store[selected] \in Known
      BY <1>0, <2>1
    <3> QED BY <3>1 DEF Known
  <2> HIDE DEF id
  <2> QED BY <1>0, <2>1, <2>2 DEF MintInv, Active, Same, Known, data, ui
\* A goroutine that ends, or goes on with what it has.
<1>10. ASSUME NEW t \in Task, NEW l, Goto(t, l), pc[t] # "idle",
              UNCHANGED <<store, file, dialog, minted, typed>>,
              \A u \in Task : (u # t \/ l # "idle") => task'[u].id = task[u].id
       PROVE  KeepsMinted
  BY <1>0, <1>10 DEF Goto, KeepsMinted
<1>11. ASSUME NEW t \in Task, Finish(t), pc[t] # "idle",
              UNCHANGED <<store, file, dialog, minted, typed>>
       PROVE  KeepsMinted
  <2>1. \A u \in Task \ {t} : task'[u] = task[u]
    BY <1>0, <1>11 DEF Finish
  <2> QED BY <1>10, <1>11, <2>1 DEF Finish
<1>12. ASSUME NEW t \in Task, SaveCreds(t) PROVE KeepsMinted
  BY <1>10, <1>11, <1>12 DEF SaveCreds, ui
<1>13. ASSUME NEW t \in Task, Apply(t) PROVE KeepsMinted
  BY <1>10, <1>11, <1>13 DEF Apply, ui
<1>14. ASSUME NEW t \in Task, Persist(t) PROVE MintInv'
  <2> DEFINE p == [id |-> task[t].id, rev |-> task[t].rev]
             s == Saved(p, task[t].isNew)
  <2>1. /\ pc[t] = "persist" /\ store' = s /\ SaveStore(s) /\ Finish(t)
        /\ UNCHANGED <<ui, minted, typed>>
    BY <1>14 DEF Persist
  <2>2. p \in Known
    <3>1. task[t].id \in minted /\ task[t].rev \in Rev
      BY <2>1, ActiveType DEF MintInv, Active
    <3> QED BY <3>1 DEF Known
  <2>3. s \in Seq(Known)
    <3> HIDE DEF p
    <3> QED BY <1>0, <2>2, SavedSeq
  <2> HIDE DEF p, s
  <2>4. file'.list \in Seq(Known)
    BY <1>0, <2>1, <2>3 DEF SaveStore, Whole, Torn
  <2>5. \A u \in Task : pc'[u] # "idle" =>
          pc[u] # "idle" /\ task'[u].id = task[u].id
    BY <1>0, <2>1 DEF Goto, Finish
  <2>6. KeepsMinted
    BY <2>1, <2>3, <2>4, <2>5 DEF KeepsMinted, ui
  <2> QED BY <2>6, KeepMinted
<1>15. ASSUME NEW t \in Task, RemoveProfile(t) PROVE KeepsMinted
  BY <1>10, <1>11, <1>15 DEF RemoveProfile, ui
<1>16. ASSUME NEW t \in Task, Forget(t) PROVE MintInv'
  <2>1. /\ UNCHANGED <<store, file, dialog, minted, task>>
        /\ Goto(t, "unlist") /\ pc[t] = "forget"
        /\ typed' \in {typed, [typed EXCEPT ![task[t].id] = Blank]}
    BY <1>16 DEF Forget, ui
  <2>2. \A id \in Id \ minted : typed'[id] = Blank
    BY <2>1 DEF MintInv, TypeInv, TypeOK
  <2>3. \A u \in Task : pc'[u] # "idle" => pc[u] # "idle"
    BY <1>0, <2>1 DEF Goto
  <2> QED BY <1>0, <2>1, <2>2, <2>3 DEF MintInv, Active, Known
<1>17. ASSUME NEW t \in Task, Unlist(t) PROVE KeepsMinted
  <2>1. pc[t] = "unlist" /\ task[t].idx \in Nat \ {0}
    BY <1>0, <1>17 DEF Unlist, TypeInv, Captures, RemovePc, Capture
  <2>2. CASE task[t].idx > Len(store)
    BY <1>0, <1>17, <2>2 DEF Unlist, Gone, KeepsMinted
  <2>3. CASE ~(task[t].idx > Len(store))
    <3>1. /\ store' = Without(store, task[t].idx) /\ SaveStore(store')
          /\ Finish(t) /\ UNCHANGED <<dialog, minted, typed>>
      BY <1>17, <2>3 DEF Unlist
    <3>2. store' \in Seq(Known)
      BY <1>0, <2>1, <2>3, <3>1, WithoutSeq
    <3>3. file'.list \in Seq(Known)
      BY <1>0, <3>1, <3>2 DEF SaveStore, Whole, Torn
    <3>4. \A u \in Task : pc'[u] # "idle" =>
            pc[u] # "idle" /\ task'[u].id = task[u].id
      BY <1>0, <3>1 DEF Goto, Finish
    <3> QED BY <3>1, <3>2, <3>3, <3>4 DEF KeepsMinted
  <2> QED BY <2>2, <2>3
<1>18. ASSUME NEW t \in Task, LoadCreds(t) PROVE KeepsMinted
  <2>1. CASE Finish(t)
    BY <1>11, <1>18, <2>1 DEF LoadCreds, data, ui, hist
  <2>2. CASE /\ Goto(t, "begin")
             /\ task' = [task EXCEPT ![t].cred = keyring[task[t].id]]
    <3>1. \A u \in Task : task'[u].id = task[u].id
      BY <1>0, <2>2 DEF Capture
    <3> QED BY <1>10, <1>18, <2>2, <3>1 DEF LoadCreds, data, ui, hist
  <2> QED BY <1>18, <2>1, <2>2 DEF LoadCreds
<1>19. ASSUME NEW t \in Task, Begin(t) PROVE KeepsMinted
  BY <1>10, <1>11, <1>19 DEF Begin, data, ui, hist
<1>20. ASSUME NEW t \in Task, Login(t) PROVE KeepsMinted
  BY <1>10, <1>11, <1>20 DEF Login, data, ui, hist
<1>21. ASSUME NEW t \in Task, Reapply(t) PROVE KeepsMinted
  BY <1>11, <1>21 DEF Reapply, ui, hist
<1>22. ASSUME NEW t \in Task, CrashInSave(t) PROVE KeepsMinted
  <2> DEFINE p == [id |-> task[t].id, rev |-> task[t].rev]
             s == Saved(p, task[t].isNew)
  <2>1. pc[t] = "persist" /\ file' = Torn(s) /\ Gone("off") /\ UNCHANGED store
    BY <1>22 DEF CrashInSave
  <2>2. p \in Known
    <3>1. task[t].id \in minted /\ task[t].rev \in Rev
      BY <2>1, ActiveType DEF MintInv, Active
    <3> QED BY <3>1 DEF Known
  <2>3. s \in Seq(Known)
    <3> HIDE DEF p
    <3> QED BY <1>0, <2>2, SavedSeq
  <2> HIDE DEF p, s
  <2> QED BY <1>0, <2>1, <2>3 DEF Gone, Torn, KeepsMinted
<1>23. CASE Quit
  BY <1>0, <1>23 DEF Quit, Gone, KeepsMinted
<1>24. CASE Start
  <2>1. store' \in Seq(Known)
    <3>1. PICK n \in 0 .. Len(file.list) : store' = SubSeq(file.list, 1, n)
      BY <1>0, <1>24 DEF Start
    <3> HIDE DEF Known
    <3> QED BY <1>0, <3>1
  <2> QED BY <1>0, <1>24, <2>1 DEF Start, KeepsMinted
<1>25. CASE UNCHANGED vars
  BY <1>0, <1>25 DEF vars, data, ui, hist, KeepsMinted
<1> QED
  BY <1>1, <1>2, <1>3, <1>4, <1>5, <1>7, <1>8, <1>9, <1>12, <1>13,
     <1>14, <1>15, <1>16, <1>17, <1>18, <1>19, <1>20, <1>21, <1>22, <1>23, <1>24,
     <1>25 DEF Next, EditSelected, RemoveSelected

\* The goroutine that was to change the keyring was the only one: it leaves
\* there what has been typed last, or its Save has ended before it could.
LEMMA WriteNewest ==
  ASSUME TypeInv, NewestInv, NEW t \in Task,
         pc[t] \in Pending, pc'[t] \notin Pending,
         \A u \in Task \ {t} : pc'[u] = pc[u] /\ task'[u] = task[u],
         UNCHANGED <<dialog, misread>>,
         \A id \in Id \ {task[t].id} : /\ keyring'[id] = keyring[id]
                                       /\ typed'[id] = typed[id]
                                       /\ id \in unsaved' <=> id \in unsaved,
         \/ task[t].id \in misread \cup unsaved'
         \/ keyring'[task[t].id] \in {None, typed'[task[t].id]}
  PROVE  NewestInv'
<1> SUFFICES ASSUME NEW id \in Id, id \notin misread
             PROVE (OneWriter(id) /\ WritesNewest(id) /\ HoldsNewest(id))'
  BY DEF NewestInv
<1>1. OneWriter(id) /\ WritesNewest(id) /\ HoldsNewest(id)
  BY DEF NewestInv
<1>2. \A u \in Task : pc'[u] \in Pending =>
        u # t /\ pc[u] \in Pending /\ pc'[u] = pc[u] /\ task'[u] = task[u]
  OBVIOUS
<1>3. OneWriter(id)'
  BY <1>1, <1>2 DEF OneWriter
<1>4. CASE id = task[t].id
  <2>1. dialog' # None => dialog'.id # id
    BY <1>1, <1>4 DEF OneWriter
  <2>2. \A u \in Task : pc'[u] = "saveCreds" => task'[u].id # id
    BY <1>1, <1>2, <1>4 DEF OneWriter, Pending
  <2>3. WritesNewest(id)'
    BY <2>1, <2>2 DEF WritesNewest
  <2>4. HoldsNewest(id)'
    BY <1>4 DEF HoldsNewest
  <2> QED BY <1>3, <2>3, <2>4
<1>5. CASE id # task[t].id
  <2>1. /\ keyring'[id] = keyring[id] /\ typed'[id] = typed[id]
        /\ id \in unsaved' <=> id \in unsaved
    BY <1>5
  <2>2. WritesNewest(id)'
    BY <1>1, <1>2, <2>1 DEF WritesNewest, Pending, Typing
  <2>3. \A u \in Task : Typing(u) /\ task[u].id = id =>
          Typing(u)' /\ task'[u].id = id
    BY <1>5 DEF Typing
  <2>4. HoldsNewest(id)'
    BY <1>1, <2>1, <2>3 DEF HoldsNewest
  <2> QED BY <1>3, <2>2, <2>4
<1> QED BY <1>4, <1>5

LEMMA NextNewest ==
  TypeInv /\ MintInv /\ NewestInv /\ [Next]_vars => NewestInv'
<1> SUFFICES ASSUME TypeInv, MintInv, NewestInv, [Next]_vars PROVE NewestInv'
  OBVIOUS
<1>0. /\ pc \in [Task -> {"idle"} \cup SavePc \cup RemovePc \cup SamlPc]
      /\ task \in [Task -> Capture]
      /\ keyring \in [Id -> Rev \cup {None}] /\ typed \in [Id -> Rev]
  BY DEF TypeInv, TypeOK
<1> SUFFICES KeepsNewest \/ NewestInv'
  BY KeepNewest
<1>1. ASSUME NEW i \in 1 .. Len(store), Select(i) PROVE KeepsNewest
  BY <1>1 DEF Select, KeepsNewest, Typing, data, hist
<1>2. CASE Unselect
  BY <1>2 DEF Unselect, KeepsNewest, Typing, data, hist
<1>3. ASSUME NEW new \in Id, Add(new) PROVE NewestInv'
  <2>1. /\ dialog'.id = new /\ dialog'.cred = Blank /\ new \notin minted
        /\ UNCHANGED <<data, pc, task, hist>>
    BY <1>3 DEF Add
  <2> SUFFICES ASSUME NEW id \in Id, id \notin misread
               PROVE (OneWriter(id) /\ WritesNewest(id) /\ HoldsNewest(id))'
    BY <2>1 DEF NewestInv, hist
  <2>2. OneWriter(id) /\ WritesNewest(id) /\ HoldsNewest(id)
    BY DEF NewestInv
  <2>3. \A t \in Task : pc[t] \in Pending => task[t].id # new
    BY <2>1 DEF MintInv, Active, Pending
  <2>4. typed[new] = Blank
    BY <2>1 DEF MintInv
  <2>5. OneWriter(id)'
    BY <2>1, <2>2, <2>3 DEF OneWriter
  <2>6. WritesNewest(id)' /\ HoldsNewest(id)'
    BY <2>1, <2>2, <2>4 DEF WritesNewest, HoldsNewest, Typing, hist, data
  <2> QED BY <2>5, <2>6
<1>4. ASSUME NEW kind \in {"form", "confirm"}, Open(kind) PROVE NewestInv'
  <2> DEFINE x == store[selected].id
  <2>1. /\ UNCHANGED <<data, pc, typed, unsaved>>
        /\ dialog' \in Dialog /\ dialog'.kind = kind /\ dialog'.id = x
        /\ misread' \in {misread, misread \cup {x}}
        /\ x \notin misread' =>
             /\ kind = "form" => dialog'.cred = typed[x] \/ x \in unsaved
             /\ \A t \in Task : task[t].id = x => pc[t] \notin Pending
        /\ \A t \in Task : Same(t)
    BY <1>4, OpenStep
  <2> HIDE DEF x
  <2> SUFFICES ASSUME NEW id \in Id, id \notin misread'
               PROVE (OneWriter(id) /\ WritesNewest(id) /\ HoldsNewest(id))'
    BY DEF NewestInv
  <2>2. OneWriter(id) /\ WritesNewest(id) /\ HoldsNewest(id)
    BY <2>1 DEF NewestInv
  <2>3. OneWriter(id)'
    BY <2>1, <2>2 DEF OneWriter, Same
  <2>4. WritesNewest(id)'
    BY <2>1, <2>2 DEF WritesNewest, Typing, Same
  <2>5. HoldsNewest(id)'
    BY <2>1, <2>2 DEF HoldsNewest, Typing, Same, data
  <2> QED BY <2>3, <2>4, <2>5
<1>5. CASE Cancel
  BY <1>5 DEF Cancel, KeepsNewest, Typing, data, hist
\* The dialog's place as the one writer goes to the goroutine.
<1>6. ASSUME NEW t \in Task, NEW l, NEW c, dialog # None,
             Confirm(t, l, c), c.id = dialog.id,
             \A id \in Id \ {dialog.id} : typed'[id] = typed[id],
             IF l = "saveCreds" /\ c.cred = c.rev
               THEN typed'[dialog.id] = c.cred ELSE typed' = typed,
             l = "saveCreds" =>
               dialog.kind = "form" /\ c.cred \in {c.rev, dialog.cred}
      PROVE  NewestInv'
  <2>1. /\ dialog' = None /\ UNCHANGED <<data, unsaved, misread>> /\ pc[t] = "idle"
        /\ \A u \in Task \ {t} : pc'[u] = pc[u] /\ task'[u] = task[u]
        /\ task'[t] = c /\ pc'[t] = l
    BY <1>0, <1>6 DEF Confirm, Goto, Active
  <2> SUFFICES ASSUME NEW id \in Id, id \notin misread
               PROVE (OneWriter(id) /\ WritesNewest(id) /\ HoldsNewest(id))'
    BY <2>1 DEF NewestInv
  <2>2. OneWriter(id) /\ WritesNewest(id) /\ HoldsNewest(id)
    BY DEF NewestInv
  <2>3. OneWriter(id)'
    BY <1>6, <2>1, <2>2 DEF OneWriter
  <2>4. Typing(t)' <=> l = "saveCreds" /\ c.cred = c.rev
    BY <2>1 DEF Typing
  <2>5. \A u \in Task \ {t} : Typing(u)' <=> Typing(u)
    BY <2>1 DEF Typing
  <2>6. CASE id = dialog.id
    <3>1. \A u \in Task : pc[u] \in Pending => task[u].id # id
      BY <1>6, <2>2, <2>6 DEF OneWriter
    <3>2. \A u \in Task : pc'[u] = "saveCreds" /\ task'[u].id = id => u = t
      BY <2>1, <3>1 DEF Pending
    <3>3. WritesNewest(id)'
      BY <1>6, <2>1, <2>2, <2>4, <2>6, <3>2 DEF WritesNewest
    <3>4. \A u \in Task : Typing(u) => task[u].id # id
      BY <3>1 DEF Typing, Pending
    <3>5. HoldsNewest(id)'
      <4>1. CASE Typing(t)'
        BY <1>6, <2>1, <2>6, <4>1 DEF HoldsNewest
      <4>2. CASE ~Typing(t)'
        BY <1>6, <2>1, <2>2, <2>4, <3>4, <4>2 DEF HoldsNewest, data
      <4> QED BY <4>1, <4>2
    <3> QED BY <2>3, <3>3, <3>5
  <2>7. CASE id # dialog.id
    <3>1. typed'[id] = typed[id] /\ task'[t].id # id
      BY <1>6, <2>1, <2>7
    <3>2. WritesNewest(id)'
      BY <2>1, <2>2, <2>5, <3>1 DEF WritesNewest
    <3>3. HoldsNewest(id)'
      BY <2>1, <2>2, <2>5, <3>1 DEF HoldsNewest, Typing, data
    <3> QED BY <2>3, <3>2, <3>3
  <2> QED BY <2>6, <2>7
<1>7. ASSUME NEW t \in Task, Save(t) PROVE NewestInv'
  <2>1. /\ dialog # None /\ dialog.kind = "form"
        /\ \E cred \in {dialog.cred, edits + 1}, clean \in BOOLEAN :
             /\ Confirm(t, "saveCreds",
                        [id |-> dialog.id, rev |-> edits + 1, idx |-> 0,
                         isNew |-> dialog.isNew, cred |-> cred, clean |-> clean])
             /\ typed' = IF cred = edits + 1
                           THEN [typed EXCEPT ![dialog.id] = cred] ELSE typed
    BY <1>7 DEF Save
  <2>2. PICK cred \in {dialog.cred, edits + 1}, clean \in BOOLEAN :
          /\ Confirm(t, "saveCreds",
                     [id |-> dialog.id, rev |-> edits + 1, idx |-> 0,
                      isNew |-> dialog.isNew, cred |-> cred, clean |-> clean])
          /\ typed' = IF cred = edits + 1
                        THEN [typed EXCEPT ![dialog.id] = cred] ELSE typed
    BY <2>1
  <2> DEFINE c == [id |-> dialog.id, rev |-> edits + 1, idx |-> 0,
                   isNew |-> dialog.isNew, cred |-> cred, clean |-> clean]
  <2>3. c.id = dialog.id /\ c.rev = edits + 1 /\ c.cred = cred
    OBVIOUS
  <2>4. Confirm(t, "saveCreds", c)
    BY <2>2
  <2> HIDE DEF c
  <2>5. dialog.id \in Id
    BY <2>1 DEF TypeInv, TypeOK
  <2>6. \A id \in Id \ {dialog.id} : typed'[id] = typed[id]
    BY <1>0, <2>2
  <2>7. IF c.cred = c.rev THEN typed'[dialog.id] = c.cred ELSE typed' = typed
    BY <1>0, <2>2, <2>3, <2>5
  <2> QED BY <1>6, <2>1, <2>2, <2>3, <2>4, <2>6, <2>7
<1>8. ASSUME NEW t \in Task, Remove(t) PROVE NewestInv'
  <2>1. dialog # None /\ Confirm(t, "remove",
          Job(dialog.id, 0, dialog.idx))
    BY <1>8, Zenon DEF Remove
  <2>2. dialog.id \in Id /\ dialog.idx \in Nat
    BY <2>1 DEF TypeInv, Captures, Dialog
  <2>3. Job(dialog.id, 0, dialog.idx).id = dialog.id
    BY <2>2, JobType, ZeroRev
  <2>4. "remove" # "saveCreds" /\ typed' = typed
    BY <1>8 DEF Remove
  <2> QED BY <1>6, <2>1, <2>3, <2>4, Zenon
<1>9. ASSUME NEW t \in Task, ConnectSAML(t) PROVE KeepsNewest
  <2>1. /\ UNCHANGED <<data, ui, typed, unsaved, misread>>
        /\ pc' = [pc EXCEPT ![t] = "load"] /\ pc[t] = "idle"
        /\ \A u \in Task \ {t} : Same(u)
    BY <1>9, ConnectStep
  <2> QED BY <1>0, <2>1 DEF KeepsNewest, Typing, Same, Pending, data, ui
\* A goroutine that ends, or goes on to what does not change the keyring.
<1>10. ASSUME NEW t \in Task, NEW l, Goto(t, l), l \notin Pending,
              pc[t] # "saveCreds",
              UNCHANGED <<keyring, dialog, typed, unsaved, misread>>,
              \A u \in Task \ {t} : task'[u] = task[u]
       PROVE  KeepsNewest
  BY <1>0, <1>10 DEF Goto, KeepsNewest, Typing
<1>11. ASSUME NEW t \in Task, Finish(t), pc[t] # "saveCreds",
              UNCHANGED <<keyring, dialog, typed, unsaved, misread>>
       PROVE  KeepsNewest
  <2>1. \A u \in Task \ {t} : task'[u] = task[u]
    BY <1>0, <1>11 DEF Finish
  <2> QED BY <1>10, <1>11, <2>1 DEF Finish, Pending
<1>12. ASSUME NEW t \in Task, SaveCreds(t) PROVE NewestInv'
  <2> DEFINE x == task[t].id
  <2>1. /\ x \in Id /\ pc[t] = "saveCreds" /\ UNCHANGED <<dialog, typed, misread>>
        /\ pc'[t] \in {"apply", "idle"}
        /\ \A u \in Task \ {t} : pc'[u] = pc[u] /\ task'[u] = task[u]
    BY <1>0, <1>12, ActiveType DEF SaveCreds, Goto, Finish, ui
  <2>2. \A id \in Id \ {x} : /\ keyring'[id] = keyring[id]
                             /\ id \in unsaved' <=> id \in unsaved
    BY <1>0, <1>12, <2>1 DEF SaveCreds
  <2>3. x \in misread \/ (OneWriter(x) /\ WritesNewest(x) /\ HoldsNewest(x))
    BY <2>1 DEF NewestInv
  <2>4. CASE /\ keyring' = [keyring EXCEPT ![x] = task[t].cred]
             /\ unsaved' = unsaved \ (IF Typing(t) THEN {x} ELSE {})
    <3>1. keyring'[x] = task[t].cred
      BY <1>0, <2>1, <2>4
    <3>2. \/ x \in misread \/ task[t].cred = typed[x]
          \/ ~Typing(t) /\ x \in unsaved
      BY <2>1, <2>3 DEF WritesNewest
    <3>3. x \in misread \cup unsaved' \/ keyring'[x] \in {None, typed'[x]}
      BY <2>1, <2>4, <3>1, <3>2
    <3> QED BY <2>1, <2>2, <3>3, WriteNewest DEF Pending
  <2>5. CASE /\ keyring' = keyring
             /\ unsaved' = unsaved \cup (IF Typing(t) THEN {x} ELSE {})
    <3>1. ASSUME x \notin misread, ~Typing(t)
          PROVE  x \in unsaved \/ keyring[x] \in {None, typed[x]}
      <4>1. \A u \in Task : Typing(u) => task[u].id # x
        BY <2>1, <2>3, <3>1 DEF OneWriter, Typing, Pending
      <4> QED BY <2>3, <3>1, <4>1 DEF HoldsNewest
    <3>2. x \in misread \cup unsaved' \/ keyring'[x] \in {None, typed'[x]}
      BY <2>1, <2>5, <3>1
    <3> QED BY <2>1, <2>2, <3>2, WriteNewest DEF Pending
  <2> QED BY <1>12, <2>4, <2>5 DEF SaveCreds
<1>13. ASSUME NEW t \in Task, Apply(t) PROVE KeepsNewest
  BY <1>10, <1>11, <1>13 DEF Apply, Pending, ui
<1>14. ASSUME NEW t \in Task, Persist(t) PROVE KeepsNewest
  BY <1>11, <1>14 DEF Persist, ui
<1>15. ASSUME NEW t \in Task, RemoveProfile(t) PROVE KeepsNewest
  <2>1. CASE Goto(t, "forget") /\ UNCHANGED task
    <3>1. UNCHANGED <<keyring, dialog, typed, unsaved, misread>> /\ pc[t] = "remove"
      BY <1>15 DEF RemoveProfile, ui
    <3> QED BY <1>0, <2>1, <3>1 DEF Goto, KeepsNewest, Typing, Pending
  <2>2. CASE Finish(t)
    BY <1>11, <1>15, <2>2 DEF RemoveProfile, ui
  <2> QED BY <1>15, <2>1, <2>2 DEF RemoveProfile
<1>16. ASSUME NEW t \in Task, Forget(t) PROVE KeepsNewest \/ NewestInv'
  <2> DEFINE x == task[t].id
  <2>1. /\ pc[t] = "forget" /\ Goto(t, "unlist")
        /\ UNCHANGED <<task, dialog, unsaved, misread>>
    BY <1>16 DEF Forget, ui
  <2>2. CASE UNCHANGED <<keyring, typed>>
    BY <1>10, <2>1, <2>2 DEF Pending
  <2>3. CASE /\ keyring' = [keyring EXCEPT ![x] = None]
             /\ typed' = [typed EXCEPT ![x] = Blank]
    <3>1. x \in Id
      BY <2>1, ActiveType
    <3>2. keyring'[x] = None
      BY <1>0, <2>3, <3>1
    <3>3. \A id \in Id \ {x} : keyring'[id] = keyring[id] /\ typed'[id] = typed[id]
      BY <1>0, <2>3
    <3>4. pc'[t] = "unlist" /\ \A u \in Task \ {t} : pc'[u] = pc[u]
      BY <1>0, <2>1 DEF Goto
    <3> QED BY <2>1, <3>2, <3>3, <3>4, WriteNewest DEF Pending
  <2> QED BY <1>16, <2>2, <2>3 DEF Forget
\* Whoever was still to write does not.
<1>17. ASSUME Gone("off") \/ Gone("panicked") PROVE NewestInv'
  <2>1. /\ dialog' = None /\ \A t \in Task : pc'[t] = "idle"
        /\ unsaved' = unsaved \cup {task[t].id : t \in {u \in Task : Typing(u)}}
        /\ UNCHANGED <<keyring, typed, misread>>
    BY <1>17 DEF Gone
  <2> SUFFICES ASSUME NEW id \in Id, id \notin misread
               PROVE (OneWriter(id) /\ WritesNewest(id) /\ HoldsNewest(id))'
    BY <2>1 DEF NewestInv
  <2>2. OneWriter(id)' /\ WritesNewest(id)'
    BY <2>1 DEF OneWriter, WritesNewest, Pending
  <2>3. HoldsNewest(id)
    BY DEF NewestInv
  <2>4. HoldsNewest(id)'
    BY <2>1, <2>3 DEF HoldsNewest
  <2> QED BY <2>2, <2>4
<1>18. ASSUME NEW t \in Task, Unlist(t) PROVE KeepsNewest \/ NewestInv'
  <2>1. CASE task[t].idx > Len(store)
    BY <1>17, <1>18, <2>1 DEF Unlist
  <2>2. CASE ~(task[t].idx > Len(store))
    BY <1>11, <1>18, <2>2 DEF Unlist
  <2> QED BY <2>1, <2>2
<1>19. ASSUME NEW t \in Task, LoadCreds(t) PROVE KeepsNewest
  <2>1. CASE Finish(t)
    BY <1>11, <1>19, <2>1 DEF LoadCreds, data, ui, hist
  <2>2. CASE /\ Goto(t, "begin")
             /\ task' = [task EXCEPT ![t].cred = keyring[task[t].id]]
    <3>1. \A u \in Task \ {t} : task'[u] = task[u]
      BY <1>0, <2>2
    <3> QED BY <1>10, <1>19, <2>2, <3>1 DEF LoadCreds, Pending, data, ui, hist
  <2> QED BY <1>19, <2>1, <2>2 DEF LoadCreds
<1>20. ASSUME NEW t \in Task, Begin(t) PROVE KeepsNewest
  BY <1>10, <1>11, <1>20 DEF Begin, Pending, data, ui, hist
<1>21. ASSUME NEW t \in Task, Login(t) PROVE KeepsNewest
  BY <1>10, <1>11, <1>21 DEF Login, Pending, data, ui, hist
<1>22. ASSUME NEW t \in Task, Reapply(t) PROVE KeepsNewest
  BY <1>11, <1>22 DEF Reapply, ui, hist
<1>23. ASSUME NEW t \in Task, CrashInSave(t) PROVE NewestInv'
  BY <1>17, <1>23 DEF CrashInSave
<1>24. CASE Quit
  BY <1>17, <1>24 DEF Quit
<1>25. CASE Start
  BY <1>25 DEF Start, KeepsNewest, Typing
<1>26. CASE UNCHANGED vars
  BY <1>26 DEF vars, data, ui, hist, KeepsNewest, Typing
<1> QED
  BY <1>1, <1>2, <1>3, <1>4, <1>5, <1>7, <1>8, <1>9, <1>12, <1>13,
     <1>14, <1>15, <1>16, <1>18, <1>19, <1>20, <1>21, <1>22, <1>23, <1>24,
     <1>25, <1>26 DEF Next, EditSelected, RemoveSelected

\* However many saves, removals, logins, crashes and restarts there are, and
\* in whatever order: what the user typed last is what the keyring holds as soon
\* as its Save is past the write, unless that Save ended without it; and it
\* stays, for every profile whose forms have all shown what had been typed.
THEOREM NewestCredentials == Spec => []NewestKept
<1>1. NewestInv => NewestKept
  BY DEF NewestInv, NewestKept, HoldsNewest, Typing, On, Active
<1> QED BY <1>1, InitType, NextType, InitNewest, NextMint, NextNewest, PTL DEF Spec

-----------------------------------------------------------------------------
(* The list names a profile once, and a removal the entry it is about.      *)

Distinct(s)   == \A i, j \in 1 .. Len(s) : s[i].id = s[j].id => i = j
Busy(id)      == \E t \in Task : Active(t) /\ task[t].id = id
Asked(id)     == dialog # None /\ dialog.id = id

\* Nobody else is at work on the goroutine's profile.
Alone(t) ==
  /\ ~Asked(task[t].id)
  /\ \A u \in Task : Active(u) /\ task[u].id = task[t].id => u = t

FreshDialog ==
  /\ dialog.kind = "form"
  /\ dialog.id \notin Listed(store) /\ ~Busy(dialog.id)

\* A new profile is not listed until it is appended.
ListInv ==
  /\ Distinct(store) /\ Distinct(file.list)
  /\ dialog # None => (dialog.isNew => FreshDialog)
  /\ \A t \in Task : Active(t) /\ task[t].isNew =>
       pc[t] \in SavePc /\ task[t].id \notin Listed(store) /\ Alone(t)

\* The index that a removal has captured is that of its profile.
PlaceInv ==
  ~stale =>
    /\ dialog # None =>
         (dialog.kind = "confirm" => store[dialog.idx].id = dialog.id)
    /\ \A t \in Task : pc[t] \in RemovePc =>
         store[task[t].idx].id = task[t].id

-----------------------------------------------------------------------------
(* The four places agree.                                                   *)

\* How far a Save has come that nobody has interfered with.
CleanAt(id) ==
  \A t \in Task : Active(t) /\ task[t].id = id /\ task[t].clean =>
    /\ pc[t] \in SavePc /\ Alone(t)
    /\ pc[t] \in {"apply", "persist"} => keyring[id] = task[t].cred
    /\ pc[t] = "persist" => daemon[id] = <<task[t].rev, task[t].cred>>

Agreed(id) ==
  IF RevsOf(store, id) = {} THEN daemon[id] = None /\ keyring[id] = None
  ELSE /\ keyring[id] # None
       /\ \A r \in RevsOf(store, id) : daemon[id] = <<r, keyring[id]>>

\* How far the one goroutine has come that is at work on a profile.
Reached(t, id) ==
  /\ Alone(t)
  /\ task[t].isNew \/ RevsOf(store, id) # {}
  /\ pc[t] \in SavePc => task[t].clean
  /\ pc[t] \in {"saveCreds", "remove"} \cup SamlPc => Agreed(id)
  /\ pc[t] \in SamlPc => RevsOf(store, id) = {task[t].rev}
  /\ pc[t] \in {"begin", "login", "reapply"} => task[t].cred = keyring[id]
  /\ pc[t] \in {"forget", "unlist"} => daemon[id] = None
  /\ pc[t] = "unlist" => keyring[id] = None

Even(id) ==
  /\ ~Busy(id) => Agreed(id)
  /\ Asked(id) => ~Busy(id) /\ (dialog.isNew \/ RevsOf(store, id) # {})
  /\ \A t \in Task : Active(t) /\ task[t].id = id => Reached(t, id)

Fine(id) == CleanAt(id) /\ (~stale /\ id \notin spoilt => Even(id))
FineInv  == \A id \in Id : Fine(id)

LEMMA PrefixList ==
  ASSUME NEW S, NEW s \in Seq(S), NEW n \in 0 .. Len(s), Distinct(s)
  PROVE  /\ Distinct(SubSeq(s, 1, n))
         /\ n = Len(s) => SubSeq(s, 1, n) = s
BY DEF Distinct

\* What a Save makes of the list: its profile is there with the revision saved.
SavedIn(s, p) ==
  /\ s \in Seq(Entry) /\ Distinct(s)
  /\ \A i \in 1 .. Len(store) : s[i].id = store[i].id
  /\ \A id \in Id \ {p.id} : /\ RevsOf(s, id) = RevsOf(store, id)
                             /\ id \in Listed(s) => id \in Listed(store)

LEMMA AppendedList ==
  ASSUME store \in Seq(Entry), Distinct(store), NEW p \in Entry,
         p.id \notin Listed(store)
  PROVE  SavedIn(Saved(p, TRUE), p) /\ RevsOf(Saved(p, TRUE), p.id) = {p.rev}
<1> DEFINE s == Append(store, p)
<1>1. /\ s \in Seq(Entry) /\ Len(s) = Len(store) + 1
      /\ s[Len(store) + 1] = p /\ \A i \in 1 .. Len(store) : s[i] = store[i]
  OBVIOUS
<1> HIDE DEF s
<1>2. \A i \in 1 .. Len(store) : store[i].id # p.id
  BY DEF Listed
<1>3. \A i \in 1 .. Len(s) : i \in 1 .. Len(store) \/ i = Len(store) + 1
  BY <1>1
<1>4. Distinct(s)
  BY <1>1, <1>2, <1>3 DEF Distinct
<1>5. ASSUME NEW id \in Id \ {p.id}
      PROVE  RevsOf(s, id) = RevsOf(store, id) /\ (id \in Listed(s) => id \in Listed(store))
  BY <1>1, <1>3 DEF RevsOf, Listed
<1>6. RevsOf(s, p.id) = {p.rev}
  BY <1>1, <1>2, <1>3 DEF RevsOf
<1>7. SavedIn(s, p)
  BY <1>1, <1>4, <1>5 DEF SavedIn
<1>8. Saved(p, TRUE) = s
  BY DEF Saved, s
<1> QED BY <1>6, <1>7, <1>8

LEMMA ReplacedList ==
  ASSUME store \in Seq(Entry), Distinct(store), NEW p \in Entry
  PROVE  /\ SavedIn(Saved(p, FALSE), p)
         /\ RevsOf(Saved(p, FALSE), p.id) =
              IF RevsOf(store, p.id) = {} THEN {} ELSE {p.rev}
<1> DEFINE s == Saved(p, FALSE)
<1>1. s = [i \in 1 .. Len(store) |-> IF store[i].id = p.id THEN p ELSE store[i]]
  BY DEF Saved
<1>2. s \in Seq(Entry)
  BY SavedSeq
<1> HIDE DEF s
<1>3. /\ Len(s) = Len(store)
      /\ \A i \in 1 .. Len(store) : s[i] = IF store[i].id = p.id THEN p ELSE store[i]
  <2>1. DOMAIN s = 1 .. Len(store) /\ Len(store) \in Nat
    BY <1>1
  <2> QED BY <1>1, <1>2, <2>1
<1>4. \A i \in 1 .. Len(store) : s[i].id = store[i].id
  BY <1>3
<1>5. Distinct(s)
  BY <1>3, <1>4 DEF Distinct
<1>6. ASSUME NEW id \in Id \ {p.id}
      PROVE  RevsOf(s, id) = RevsOf(store, id) /\ (id \in Listed(s) => id \in Listed(store))
  BY <1>3, <1>4 DEF RevsOf, Listed
<1>7. SavedIn(s, p)
  BY <1>2, <1>4, <1>5, <1>6 DEF SavedIn
<1>8. CASE \E i \in 1 .. Len(store) : store[i].id = p.id
  <2>1. RevsOf(store, p.id) # {}
    BY <1>8 DEF RevsOf
  <2>2. RevsOf(s, p.id) = {p.rev}
    BY <1>3, <1>4, <1>8 DEF RevsOf
  <2> QED BY <1>7, <2>1, <2>2 DEF s
<1>9. CASE ~\E i \in 1 .. Len(store) : store[i].id = p.id
  <2>1. RevsOf(store, p.id) = {} /\ RevsOf(s, p.id) = {}
    BY <1>3, <1>4, <1>9 DEF RevsOf
  <2> QED BY <1>7, <2>1 DEF s
<1> QED BY <1>8, <1>9

\* What a removal makes of the list: the profile at the index is gone.
LEMMA WithoutList ==
  ASSUME store \in Seq(Entry), Distinct(store), NEW k \in 1 .. Len(store),
         NEW s, s = Without(store, k)
  PROVE  /\ Distinct(s)
         /\ \A id : id \in Listed(s) => id \in Listed(store)
         /\ RevsOf(s, store[k].id) = {}
         /\ \A id \in Id \ {store[k].id} : RevsOf(s, id) = RevsOf(store, id)
<1>1. s \in Seq(Entry)
  BY WithoutSeq
<1>2. DOMAIN s = 1 .. Len(store) - 1 /\ Len(store) - 1 \in Nat
  BY DEF Without
<1>3. Len(s) = Len(store) - 1
  BY <1>1, <1>2
<1>4. \A j \in 1 .. Len(s) : s[j] = IF j < k THEN store[j] ELSE store[j + 1]
  BY <1>3 DEF Without
<1>5. Distinct(s)
  BY <1>3, <1>4 DEF Distinct
<1>6. ASSUME NEW id, id \in Listed(s) PROVE id \in Listed(store)
  <2>1. PICK j \in 1 .. Len(s) : s[j].id = id
    BY <1>6 DEF Listed
  <2>2. \E i \in 1 .. Len(store) : s[j] = store[i]
    BY <1>3, <1>4, <2>1
  <2> QED BY <2>1, <2>2 DEF Listed
<1>7. RevsOf(s, store[k].id) = {}
  BY <1>3, <1>4 DEF RevsOf, Distinct
<1>8. ASSUME NEW id \in Id \ {store[k].id} PROVE RevsOf(s, id) = RevsOf(store, id)
  <2>1. RevsOf(s, id) \subseteq RevsOf(store, id)
    BY <1>3, <1>4 DEF RevsOf
  <2>2. ASSUME NEW i \in 1 .. Len(store), store[i].id = id
        PROVE  store[i].rev \in RevsOf(s, id)
    <3>1. i # k
      BY <2>2
    <3>2. CASE i < k
      <4>1. i \in 1 .. Len(s) /\ s[i] = store[i]
        BY <1>3, <1>4, <3>2
      <4> QED BY <2>2, <4>1 DEF RevsOf
    <3>3. CASE i > k
      <4>1. i - 1 \in 1 .. Len(s) /\ s[i - 1] = store[i]
        BY <1>3, <1>4, <3>3
      <4> QED BY <2>2, <4>1 DEF RevsOf
    <3> QED BY <3>1, <3>2, <3>3
  <2>3. RevsOf(store, id) \subseteq RevsOf(s, id)
    BY <2>2 DEF RevsOf
  <2> QED BY <2>1, <2>3
<1> QED BY <1>5, <1>6, <1>7, <1>8

-----------------------------------------------------------------------------
(* The list stays in order.                                                 *)

\* A step that neither adds to the list nor moves what is in it, and adds no
\* work.
KeepsList ==
  /\ stale' = stale
  /\ Distinct(store') /\ Distinct(file'.list)
  /\ \A i \in 1 .. Len(store) : store'[i].id = store[i].id
  /\ \A id \in Id : id \in Listed(store') => id \in Listed(store)
  /\ dialog' \in {dialog, None}
  /\ \A t \in Task : pc'[t] # "idle" =>
       /\ pc[t] # "idle"
       /\ pc[t] \in SavePc => pc'[t] \in SavePc
       /\ pc'[t] \in RemovePc => pc[t] \in RemovePc
       /\ task'[t].id = task[t].id /\ task'[t].idx = task[t].idx
       /\ task'[t].isNew = task[t].isNew

\* The index that is captured is one of the list.
LEMMA CapturedIndex ==
  ASSUME TypeInv, IndexInv, ~stale
  PROVE  /\ dialog # None => (dialog.kind = "confirm" => dialog.idx \in 1 .. Len(store))
         /\ \A t \in Task : pc[t] \in RemovePc => task[t].idx \in 1 .. Len(store)
<1>1. Len(store) \in Nat
  BY DEF TypeInv, TypeOK
<1>2. dialog # None => (dialog.kind = "confirm" => dialog.idx \in 1 .. Len(store))
  BY <1>1 DEF IndexInv, TypeInv, Captures, Dialog
<1>3. ASSUME NEW t \in Task, pc[t] \in RemovePc PROVE task[t].idx \in 1 .. Len(store)
  BY <1>1, <1>3 DEF IndexInv, TypeInv, TypeOK, Captures, Capture
<1> QED BY <1>2, <1>3

LEMMA KeepList ==
  ASSUME TypeInv, IndexInv, ListInv, PlaceInv, KeepsList PROVE ListInv' /\ PlaceInv'
<1>1. PlaceInv'
  BY CapturedIndex DEF PlaceInv, KeepsList, RemovePc
<1>2. \A t \in Task : Active(t)' => Active(t) /\ task[t].id \in Id
  BY DEF KeepsList, Active, TypeInv, Captures
<1>3. ASSUME NEW t \in Task, Active(t)', Alone(t) PROVE Alone(t)'
  BY <1>2, <1>3 DEF KeepsList, Active, Alone, Asked
<1>4. ASSUME NEW t \in Task, Active(t)', task'[t].isNew
      PROVE  pc'[t] \in SavePc /\ task'[t].id \notin Listed(store') /\ Alone(t)'
  <2>1. Active(t) /\ task[t].isNew /\ task[t].id \in Id /\ task'[t].id = task[t].id
    BY <1>2, <1>4 DEF KeepsList, Active
  <2>2. pc[t] \in SavePc /\ task[t].id \notin Listed(store) /\ Alone(t)
    BY <2>1 DEF ListInv
  <2> QED BY <1>3, <1>4, <2>1, <2>2 DEF KeepsList, Active
<1>5. (dialog # None => (dialog.isNew => FreshDialog))'
  <2>1. dialog # None => dialog.id \in Id
    BY DEF TypeInv, TypeOK
  <2> QED BY <1>2, <2>1 DEF ListInv, FreshDialog, KeepsList, Busy, Active
<1> QED BY <1>1, <1>4, <1>5 DEF ListInv, KeepsList, Active

LEMMA InitList == Init => ListInv /\ PlaceInv
BY DEF Init, ListInv, PlaceInv, Distinct, Whole, Active, RemovePc

\* A dialog that is confirmed hands its profile on to the goroutine.
LEMMA ConfirmList ==
  ASSUME TypeInv, ListInv, PlaceInv, NEW t \in Task, NEW l,
         l \in {"saveCreds", "remove"},
         dialog # None, NEW c \in Capture, Confirm(t, l, c),
         c.id = dialog.id, c.isNew = dialog.isNew,
         l = "remove" => dialog.kind = "confirm" /\ c.idx = dialog.idx /\ ~c.isNew
  PROVE  ListInv' /\ PlaceInv'
<1>1. /\ dialog' = None /\ pc[t] = "idle" /\ pc'[t] = l /\ task'[t] = c
      /\ \A u \in Task \ {t} : pc'[u] = pc[u] /\ task'[u] = task[u]
      /\ UNCHANGED <<store, file, stale>>
  BY DEF Confirm, Goto, Active, TypeInv, TypeOK, data, hist
<1>2. PlaceInv'
  BY <1>1 DEF PlaceInv, RemovePc
<1>3. c.isNew => c.id \notin Listed(store) /\ ~Busy(c.id) /\ l \in SavePc
  BY DEF ListInv, FreshDialog, SavePc
<1>4. ASSUME NEW u \in Task, Active(u)', task'[u].isNew
      PROVE  pc'[u] \in SavePc /\ task'[u].id \notin Listed(store') /\ Alone(u)'
  <2>1. CASE u = t
    BY <1>1, <1>3, <1>4, <2>1 DEF Alone, Asked, Busy, Active
  <2>2. CASE u # t
    <3>1. Active(u) /\ task[u].isNew /\ pc'[u] = pc[u] /\ task'[u] = task[u]
      BY <1>1, <1>4, <2>2 DEF Active
    <3>2. pc[u] \in SavePc /\ task[u].id \notin Listed(store) /\ Alone(u)
      BY <3>1 DEF ListInv
    <3>3. Alone(u)'
      BY <1>1, <3>1, <3>2 DEF Alone, Asked, Active
    <3> QED BY <1>1, <3>1, <3>2, <3>3
  <2> QED BY <2>1, <2>2
<1> QED BY <1>1, <1>2, <1>4 DEF ListInv

\* What Save and Remove start.
LEMMA SaveStep ==
  ASSUME TypeInv, NEW t \in Task, Save(t)
  PROVE  /\ dialog # None /\ dialog.kind = "form" /\ dialog \in Dialog
         /\ edits' = edits + 1 /\ edits + 1 \in Rev
         /\ Confirm(t, "saveCreds", task'[t]) /\ task'[t] \in Capture
         /\ task'[t].id = dialog.id /\ task'[t].isNew = dialog.isNew
         /\ task'[t].clean = (On(dialog.id) = {})
<1>1. /\ dialog # None /\ dialog.kind = "form" /\ dialog \in Dialog
      /\ dialog.cred \in Rev /\ edits' = edits + 1 /\ edits + 1 \in Rev
  BY ProfilesAssumption DEF Save, TypeInv, Captures, Rev
<1>2. PICK cred \in {dialog.cred, edits + 1} :
        Confirm(t, "saveCreds",
                [id |-> dialog.id, rev |-> edits + 1, idx |-> 0,
                 isNew |-> dialog.isNew, cred |-> cred, clean |-> On(dialog.id) = {}])
  BY DEF Save
<1> DEFINE c == [id |-> dialog.id, rev |-> edits + 1, idx |-> 0,
                 isNew |-> dialog.isNew, cred |-> cred, clean |-> On(dialog.id) = {}]
<1>3. c \in Capture /\ c.id = dialog.id /\ c.isNew = dialog.isNew
      /\ c.clean = (On(dialog.id) = {})
  BY <1>1, <1>2 DEF Capture, Dialog
<1>4. Confirm(t, "saveCreds", c)
  BY <1>2
<1> HIDE DEF c
<1>5. task'[t] = c
  BY <1>4 DEF Confirm, TypeInv, TypeOK
<1> QED BY <1>1, <1>3, <1>4, <1>5

LEMMA RemoveStep ==
  ASSUME TypeInv, NEW t \in Task, Remove(t)
  PROVE  /\ dialog # None /\ dialog.kind = "confirm" /\ dialog \in Dialog
         /\ Confirm(t, "remove", task'[t]) /\ task'[t] \in Capture
         /\ task'[t].id = dialog.id /\ task'[t].idx = dialog.idx
         /\ ~task'[t].isNew /\ ~task'[t].clean
<1> DEFINE c == Job(dialog.id, 0, dialog.idx)
<1>1. /\ dialog # None /\ dialog.kind = "confirm" /\ dialog \in Dialog
      /\ Confirm(t, "remove", c)
  BY DEF Remove, TypeInv, Captures
<1>2. c \in Capture /\ c.id = dialog.id /\ c.idx = dialog.idx /\ ~c.isNew /\ ~c.clean
  BY <1>1, JobType, ZeroRev DEF Dialog
<1> HIDE DEF c
<1>3. task'[t] = c
  BY <1>1 DEF Confirm, TypeInv, TypeOK
<1> QED BY <1>1, <1>2, <1>3

\* What is saved fits the list: a new profile is not there yet.
LEMMA PersistList ==
  ASSUME TypeInv, ListInv, NEW t \in Task, pc[t] = "persist",
         NEW p, p = [id |-> task[t].id, rev |-> task[t].rev]
  PROVE  /\ SavedIn(Saved(p, task[t].isNew), p)
         /\ RevsOf(Saved(p, task[t].isNew), p.id) =
              IF task[t].isNew \/ RevsOf(store, p.id) # {} THEN {p.rev} ELSE {}
<1>1. p \in Entry
  <2>1. task[t].id \in Id /\ task[t].rev \in Rev
    BY ActiveType
  <2> QED BY <2>1 DEF Entry
<1>2. store \in Seq(Entry) /\ Distinct(store)
  BY DEF TypeInv, TypeOK, ListInv
<1>3. CASE task[t].isNew = TRUE
  <2>1. p.id \notin Listed(store)
    BY <1>3 DEF ListInv, Active
  <2> QED BY <1>1, <1>2, <1>3, <2>1, AppendedList
<1>4. CASE task[t].isNew = FALSE
  BY <1>1, <1>2, <1>4, ReplacedList
<1>5. task[t].isNew \in BOOLEAN
  BY ActiveType DEF Capture
<1> QED BY <1>3, <1>4, <1>5

LEMMA NextList ==
  TypeInv /\ TypeInv' /\ MintInv /\ IndexInv /\ ListInv /\ PlaceInv /\ [Next]_vars
    => ListInv' /\ PlaceInv'
<1> SUFFICES ASSUME TypeInv, TypeInv', MintInv, IndexInv, ListInv, PlaceInv, [Next]_vars
             PROVE  ListInv' /\ PlaceInv'
  OBVIOUS
<1>0. /\ pc \in [Task -> {"idle"} \cup SavePc \cup RemovePc \cup SamlPc]
      /\ task \in [Task -> Capture]
      /\ store \in Seq(Entry) /\ Distinct(store) /\ Distinct(file.list)
  BY DEF TypeInv, TypeOK, ListInv
<1> DEFINE Goal == KeepsList \/ (ListInv' /\ PlaceInv')
<1> SUFFICES Goal
  BY KeepList
<1>1. ASSUME NEW i \in 1 .. Len(store), Select(i) PROVE Goal
  BY <1>0, <1>1 DEF Select, KeepsList, data, hist
<1>2. CASE Unselect
  BY <1>0, <1>2 DEF Unselect, KeepsList, data, hist
<1>3. ASSUME NEW new \in Id, Add(new) PROVE Goal
  <2>1. /\ dialog'.id = new /\ dialog'.kind = "form" /\ new \notin minted
        /\ UNCHANGED <<data, pc, task, hist>>
    BY <1>3 DEF Add
  <2>2. new \notin Listed(store)
    <3>1. \A i \in 1 .. Len(store) : store[i] \in Known
      BY DEF MintInv
    <3> QED BY <2>1, <3>1 DEF Known, Listed
  <2>3. ~Busy(new)
    BY <2>1 DEF MintInv, Busy
  <2>4. PlaceInv'
    BY <2>1 DEF PlaceInv, data, hist
  <2>5. \A t \in Task : Active(t) /\ Alone(t) => Alone(t)'
    BY <2>1, <2>3 DEF Alone, Asked, Busy, Active
  <2>6. ListInv'
    BY <2>1, <2>2, <2>3, <2>5 DEF ListInv, FreshDialog, Busy, Active, data
  <2> QED BY <2>4, <2>6
<1>4. ASSUME NEW kind \in {"form", "confirm"}, Open(kind) PROVE Goal
  <2> DEFINE x == store[selected].id
  <2>1. /\ UNCHANGED <<data, pc, stale>> /\ selected \in 1 .. Len(store)
        /\ dialog'.kind = kind /\ dialog'.id = x /\ ~dialog'.isNew
        /\ kind = "confirm" => dialog'.idx = selected
        /\ \A t \in Task : Same(t)
    BY <1>4, OpenStep
  <2>2. x \in Listed(store)
    BY <2>1 DEF Listed
  <2>3. PlaceInv'
    BY <2>1 DEF PlaceInv, Same, data
  <2> HIDE DEF x
  <2>4. ASSUME NEW t \in Task, Active(t)', task'[t].isNew
        PROVE  pc'[t] \in SavePc /\ task'[t].id \notin Listed(store') /\ Alone(t)'
    <3>1. Active(t) /\ task[t].isNew /\ task'[t].id = task[t].id
      BY <2>1, <2>4 DEF Same, Active
    <3>2. pc[t] \in SavePc /\ task[t].id \notin Listed(store) /\ Alone(t)
      BY <3>1 DEF ListInv
    <3>3. task[t].id # x
      BY <2>2, <3>2
    <3>4. Alone(t)'
      BY <2>1, <3>2, <3>3 DEF Alone, Asked, Active, Same
    <3> QED BY <2>1, <3>1, <3>2, <3>4 DEF data
  <2>5. ListInv'
    BY <1>0, <2>1, <2>4 DEF ListInv, data
  <2> QED BY <2>3, <2>5
<1>5. CASE Cancel
  BY <1>0, <1>5 DEF Cancel, KeepsList, data, hist
<1>6. ASSUME NEW t \in Task, Save(t) PROVE Goal
  <2>1. ListInv' /\ PlaceInv'
    BY <1>6, SaveStep, ConfirmList
  <2> QED BY <2>1
<1>7. ASSUME NEW t \in Task, Remove(t) PROVE Goal
  <2>1. ~dialog.isNew
    BY <1>7, RemoveStep DEF ListInv, FreshDialog
  <2>2. /\ dialog # None /\ dialog.kind = "confirm"
        /\ Confirm(t, "remove", task'[t]) /\ task'[t] \in Capture
        /\ task'[t].id = dialog.id /\ task'[t].idx = dialog.idx
        /\ task'[t].isNew = dialog.isNew /\ ~task'[t].isNew
    <3>1. dialog.isNew \in BOOLEAN /\ task'[t].isNew \in BOOLEAN
      BY <1>7, RemoveStep DEF Dialog, Capture
    <3> QED BY <1>7, <2>1, <3>1, RemoveStep
  <2>3. ListInv' /\ PlaceInv'
    BY <2>2, ConfirmList
  <2> QED BY <2>3
<1>8. ASSUME NEW t \in Task, ConnectSAML(t) PROVE Goal
  <2> DEFINE x == store[selected].id
  <2>1. /\ UNCHANGED <<data, ui, stale>> /\ selected \in 1 .. Len(store)
        /\ pc' = [pc EXCEPT ![t] = "load"]
        /\ task'[t].id = x /\ ~task'[t].isNew
        /\ \A u \in Task \ {t} : Same(u)
    BY <1>8, ConnectStep
  <2>2. x \in Listed(store)
    BY <2>1 DEF Listed
  <2> HIDE DEF x
  <2>3. PlaceInv'
    BY <1>0, <2>1 DEF PlaceInv, RemovePc, Same, data, ui
  <2>4. ASSUME NEW u \in Task, Active(u)', task'[u].isNew
        PROVE  pc'[u] \in SavePc /\ task'[u].id \notin Listed(store') /\ Alone(u)'
    <3>1. u # t
      BY <2>1, <2>4
    <3>2. /\ Active(u) /\ task[u].isNew /\ task'[u].id = task[u].id
          /\ pc'[u] = pc[u]
      BY <1>0, <2>1, <2>4, <3>1 DEF Same, Active
    <3>3. pc[u] \in SavePc /\ task[u].id \notin Listed(store) /\ Alone(u)
      BY <3>2 DEF ListInv
    <3>4. task[u].id # x
      BY <2>2, <3>3
    <3>5. Alone(u)'
      BY <1>0, <2>1, <3>2, <3>3, <3>4 DEF Alone, Asked, Active, Same, ui
    <3> QED BY <2>1, <3>2, <3>3, <3>5 DEF data
  <2>5. (dialog # None => (dialog.isNew => FreshDialog))'
    BY <1>0, <2>1, <2>2 DEF ListInv, FreshDialog, Busy, Active, Same, data, ui
  <2>6. ListInv'
    BY <1>0, <2>1, <2>4, <2>5 DEF ListInv, data
  <2> QED BY <2>3, <2>6
\* A goroutine that ends, or goes on with what it has.
<1>9. ASSUME NEW t \in Task, NEW l, Goto(t, l), pc[t] # "idle",
             pc[t] \in SavePc => l \in SavePc \cup {"idle"},
             l \in RemovePc => pc[t] \in RemovePc,
             UNCHANGED <<store, file, dialog, stale>>,
             \A u \in Task : (u # t \/ l # "idle") =>
               /\ task'[u].id = task[u].id /\ task'[u].idx = task[u].idx
               /\ task'[u].isNew = task[u].isNew
      PROVE  KeepsList
  BY <1>0, <1>9 DEF Goto, KeepsList
<1>10. ASSUME NEW t \in Task, Finish(t), pc[t] # "idle"
       PROVE  \A u \in Task : pc'[u] # "idle" =>
                u # t /\ pc'[u] = pc[u] /\ task'[u] = task[u]
  BY <1>0, <1>10 DEF Finish, Goto
<1>11. ASSUME NEW t \in Task, Finish(t), pc[t] # "idle",
              UNCHANGED <<store, file, dialog, stale>>
       PROVE  KeepsList
  BY <1>0, <1>10, <1>11 DEF KeepsList
<1>12. ASSUME NEW t \in Task, SaveCreds(t) PROVE KeepsList
  BY <1>9, <1>11, <1>12 DEF SaveCreds, SavePc, RemovePc, ui
<1>13. ASSUME NEW t \in Task, Apply(t) PROVE KeepsList
  BY <1>9, <1>11, <1>13 DEF Apply, SavePc, RemovePc, ui
<1>14. ASSUME NEW t \in Task, Persist(t) PROVE Goal
  <2> DEFINE p == [id |-> task[t].id, rev |-> task[t].rev]
             s == Saved(p, task[t].isNew)
  <2>1. /\ pc[t] = "persist" /\ store' = s /\ SaveStore(s) /\ Finish(t)
        /\ UNCHANGED <<ui, stale>>
    BY <1>14 DEF Persist
  <2>2. p.id = task[t].id /\ p.id \in Id
    BY <2>1, ActiveType
  <2> HIDE DEF p, s
  <2>3. /\ Distinct(s)
        /\ \A i \in 1 .. Len(store) : s[i].id = store[i].id
        /\ \A id \in Id \ {p.id} : id \in Listed(s) => id \in Listed(store)
    <3>1. SavedIn(s, p)
      BY <2>1, PersistList DEF p, s
    <3> QED BY <3>1 DEF SavedIn
  <2>4. \A u \in Task : pc'[u] # "idle" =>
          u # t /\ pc'[u] = pc[u] /\ task'[u] = task[u]
    BY <1>10, <2>1
  <2>5. Distinct(file'.list)
    BY <1>0, <2>1, <2>3 DEF SaveStore, Whole, Torn
  <2>6. PlaceInv'
    BY <2>1, <2>3, <2>4, CapturedIndex DEF PlaceInv, RemovePc, ui
  <2>7. ASSUME NEW u \in Task, Active(u)', task'[u].isNew
        PROVE  pc'[u] \in SavePc /\ task'[u].id \notin Listed(store') /\ Alone(u)'
    <3>1. /\ u # t /\ pc'[u] = pc[u] /\ task'[u] = task[u] /\ Active(u)
          /\ task[u].id \in Id
      BY <2>4, <2>7, ActiveType DEF Active
    <3>2. pc[u] \in SavePc /\ task[u].id \notin Listed(store) /\ Alone(u)
      BY <2>7, <3>1 DEF ListInv
    <3>3. task[u].id # p.id
      BY <2>1, <2>2, <3>1, <3>2 DEF Alone, Active
    <3>4. Alone(u)'
      BY <2>1, <2>4, <3>1, <3>2 DEF Alone, Asked, Active, ui
    <3> QED BY <2>1, <2>3, <3>1, <3>2, <3>3, <3>4
  <2>8. (dialog # None => (dialog.isNew => FreshDialog))'
    <3> SUFFICES ASSUME dialog # None, dialog.isNew
                 PROVE  FreshDialog'
      BY <2>1 DEF ui
    <3>1. FreshDialog /\ dialog.id \in Id
      BY DEF ListInv, TypeInv, TypeOK
    <3>2. dialog.id # p.id
      BY <2>1, <2>2, <3>1 DEF FreshDialog, Busy, Active
    <3> QED BY <2>1, <2>3, <2>4, <3>1, <3>2 DEF FreshDialog, Busy, Active, ui
  <2>9. ListInv'
    BY <2>1, <2>3, <2>5, <2>7, <2>8 DEF ListInv
  <2> QED BY <2>6, <2>9
<1>15. ASSUME NEW t \in Task, RemoveProfile(t) PROVE KeepsList
  BY <1>9, <1>11, <1>15 DEF RemoveProfile, SavePc, RemovePc, ui
<1>16. ASSUME NEW t \in Task, Forget(t) PROVE KeepsList
  BY <1>9, <1>16 DEF Forget, SavePc, RemovePc, ui
<1>17. ASSUME Gone("off") \/ Gone("panicked"), Distinct(store'), Distinct(file'.list)
       PROVE  ListInv' /\ PlaceInv'
  BY <1>17 DEF Gone, ListInv, PlaceInv, Active, RemovePc
<1>18. ASSUME NEW t \in Task, Unlist(t) PROVE Goal
  <2>1. CASE task[t].idx > Len(store)
    BY <1>0, <1>17, <1>18, <2>1 DEF Unlist
  <2>2. CASE ~(task[t].idx > Len(store))
    <3>1. /\ pc[t] = "unlist" /\ store' = Without(store, task[t].idx)
          /\ SaveStore(store') /\ Finish(t) /\ UNCHANGED dialog
          /\ stale' = (stale \/ Captured(t))
      BY <1>18, <2>2 DEF Unlist
    <3>2. task[t].idx \in 1 .. Len(store)
      BY <1>0, <2>2, <3>1 DEF TypeInv, Captures, RemovePc, Capture
    <3>3. /\ Distinct(store')
          /\ \A id : id \in Listed(store') => id \in Listed(store)
      BY <1>0, <3>1, <3>2, WithoutList
    <3>4. Distinct(file'.list)
      BY <1>0, <3>1, <3>3 DEF SaveStore, Whole, Torn
    <3>5. \A u \in Task : pc'[u] # "idle" =>
            u # t /\ pc'[u] = pc[u] /\ task'[u] = task[u]
      BY <1>10, <3>1
    <3>6. PlaceInv'
      BY <3>1, <3>5 DEF PlaceInv, Captured, RemovePc
    <3>7. \A u \in Task : Active(u)' => Active(u) /\ (Alone(u) => Alone(u)')
      BY <3>1, <3>5 DEF Alone, Asked, Active
    <3>8. (dialog # None => (dialog.isNew => FreshDialog))'
      BY <3>1, <3>3, <3>5 DEF ListInv, FreshDialog, Busy, Active
    <3>9. ListInv'
      BY <3>3, <3>4, <3>5, <3>7, <3>8 DEF ListInv, Active
    <3> QED BY <3>6, <3>9
  <2> QED BY <2>1, <2>2
<1>19. ASSUME NEW t \in Task, LoadCreds(t) PROVE KeepsList
  <2>1. CASE Finish(t)
    BY <1>11, <1>19, <2>1 DEF LoadCreds, data, ui, hist
  <2>2. CASE /\ Goto(t, "begin")
             /\ task' = [task EXCEPT ![t].cred = keyring[task[t].id]]
    <3>1. \A u \in Task : /\ task'[u].id = task[u].id /\ task'[u].idx = task[u].idx
                          /\ task'[u].isNew = task[u].isNew
      BY <1>0, <2>2 DEF Capture
    <3> QED BY <1>9, <1>19, <2>2, <3>1 DEF LoadCreds, SavePc, RemovePc, data, ui, hist
  <2> QED BY <1>19, <2>1, <2>2 DEF LoadCreds
<1>20. ASSUME NEW t \in Task, Begin(t) PROVE KeepsList
  BY <1>9, <1>11, <1>20 DEF Begin, SavePc, RemovePc, data, ui, hist
<1>21. ASSUME NEW t \in Task, Login(t) PROVE KeepsList
  BY <1>9, <1>11, <1>21 DEF Login, SavePc, RemovePc, data, ui, hist
<1>22. ASSUME NEW t \in Task, Reapply(t) PROVE KeepsList
  BY <1>11, <1>22 DEF Reapply, ui, hist
<1>23. ASSUME NEW t \in Task, CrashInSave(t) PROVE Goal
  <2> DEFINE p == [id |-> task[t].id, rev |-> task[t].rev]
             s == Saved(p, task[t].isNew)
  <2>1. pc[t] = "persist" /\ file' = Torn(s) /\ Gone("off") /\ UNCHANGED store
    BY <1>23 DEF CrashInSave
  <2>2. Distinct(s)
    BY <2>1, PersistList DEF SavedIn
  <2> HIDE DEF p, s
  <2> QED BY <1>0, <1>17, <2>1, <2>2 DEF Torn
<1>24. CASE Quit
  BY <1>0, <1>17, <1>24 DEF Quit
<1>25. CASE Start
  <2>1. /\ UNCHANGED <<file, dialog, pc, task>> /\ dialog = None
        /\ \A t \in Task : pc[t] = "idle"
    BY <1>25 DEF Start, TypeInv, Closed, Active
  <2>2. PICK n \in 0 .. Len(file.list) : store' = SubSeq(file.list, 1, n)
    BY <1>0, <1>25 DEF Start, TypeInv, TypeOK
  <2>3. Distinct(store')
    BY <1>0, <2>2, PrefixList DEF TypeInv, TypeOK
  <2> QED BY <1>0, <2>1, <2>3 DEF ListInv, PlaceInv, Active, RemovePc
<1>26. CASE UNCHANGED vars
  BY <1>0, <1>26 DEF vars, data, ui, hist, KeepsList
<1> HIDE DEF Goal
<1>27. KeepsList => Goal
  BY DEF Goal
<1> QED
  BY <1>1, <1>2, <1>3, <1>4, <1>5, <1>6, <1>7, <1>8, <1>12, <1>13, <1>14, <1>15,
     <1>16, <1>18, <1>19, <1>20, <1>21, <1>22, <1>23, <1>24, <1>25, <1>26, <1>27
     DEF Next, EditSelected, RemoveSelected

\* A step that does not concern a profile.
Keeps(id) ==
  /\ ~stale' => ~stale /\ RevsOf(store', id) = RevsOf(store, id)
  /\ id \in spoilt => id \in spoilt'
  /\ keyring'[id] = keyring[id] /\ daemon'[id] = daemon[id]
  /\ Asked(id)' => Asked(id) /\ dialog' = dialog
  /\ \A t \in Task :
       /\ Active(t) /\ task[t].id = id => pc'[t] = pc[t] /\ task'[t] = task[t]
       /\ Active(t)' /\ task'[t].id = id => Active(t) /\ task[t].id = id

LEMMA KeepFine == ASSUME NEW id, Fine(id), Keeps(id) PROVE Fine(id)'
<1>1. \A t \in Task : Active(t)' /\ task'[t].id = id =>
        /\ Active(t) /\ task[t].id = id
        /\ pc'[t] = pc[t] /\ task'[t] = task[t]
        /\ Alone(t) => Alone(t)'
  BY DEF Keeps, Alone, Active, Asked
<1>2. Busy(id)' <=> Busy(id)
  BY <1>1 DEF Keeps, Busy, Active
<1>3. CleanAt(id)'
  <2>1. CleanAt(id)
    BY DEF Fine
  <2> QED BY <1>1, <2>1 DEF CleanAt, Keeps
<1>4. ASSUME ~stale', id \notin spoilt' PROVE Even(id)'
  <2>1. Even(id) /\ RevsOf(store', id) = RevsOf(store, id)
    BY <1>4 DEF Fine, Keeps
  <2>2. Agreed(id)' <=> Agreed(id)
    BY <2>1 DEF Agreed, Keeps
  <2>3. Asked(id)' => ~Busy(id)' /\ (dialog'.isNew \/ RevsOf(store', id) # {})
    BY <1>2, <2>1 DEF Even, Keeps
  <2>4. ASSUME NEW t \in Task, Active(t)', task'[t].id = id PROVE Reached(t, id)'
    <3>1. Reached(t, id) /\ Alone(t)' /\ pc'[t] = pc[t] /\ task'[t] = task[t]
      BY <1>1, <2>1, <2>4 DEF Even, Reached
    <3> QED BY <2>1, <2>2, <3>1 DEF Reached, Keeps
  <2> QED BY <1>2, <2>1, <2>2, <2>3, <2>4 DEF Even
<1> QED BY <1>3, <1>4 DEF Fine

\* What a goroutine does to its profile does not concern the others.
LEMMA OthersFine ==
  ASSUME TypeInv, FineInv, NEW t \in Task, NEW x \in Id,
         Active(t) => task[t].id = x, pc'[t] # "idle" => task'[t].id = x,
         \A u \in Task \ {t} : /\ pc'[u] = pc[u] /\ task'[u].id = task[u].id
                               /\ Active(u) /\ task[u].id # x => task'[u] = task[u],
         dialog' \in {dialog, None}, spoilt \subseteq spoilt' \cup {x},
         ~stale' => ~stale,
         \A id \in Id \ {x} : /\ keyring'[id] = keyring[id] /\ daemon'[id] = daemon[id]
                              /\ ~stale' => RevsOf(store', id) = RevsOf(store, id)
  PROVE  \A id \in Id \ {x} : Fine(id)'
<1> SUFFICES ASSUME NEW id \in Id \ {x} PROVE Fine(id)'
  OBVIOUS
<1>1. Keeps(id)
  BY DEF Keeps, Active, Asked
<1> QED BY <1>1, KeepFine DEF FineInv

\* A goroutine goes on: what is to be shown of its own profile.
LEMMA GoFine ==
  ASSUME TypeInv, FineInv, NEW t \in Task, NEW x \in Id,
         Active(t), task[t].id = x, Active(t)', task'[t].id = x, UNCHANGED dialog,
         \A u \in Task \ {t} : pc'[u] = pc[u] /\ task'[u] = task[u],
         task'[t].clean =>
           /\ task[t].clean /\ pc'[t] \in SavePc
           /\ pc'[t] \in {"apply", "persist"} => keyring'[x] = task'[t].cred
           /\ pc'[t] = "persist" => daemon'[x] = <<task'[t].rev, task'[t].cred>>,
         ~stale' /\ x \notin spoilt' => Reached(t, x)'
  PROVE  Fine(x)'
<1>1. CleanAt(x)
  BY DEF FineInv, Fine
<1>2. \A u \in Task : Active(u)' => Active(u) /\ task'[u].id = task[u].id
  BY DEF Active
<1>3. CleanAt(x)'
  <2> SUFFICES ASSUME NEW u \in Task, Active(u)', task'[u].id = x, task'[u].clean
               PROVE  /\ pc'[u] \in SavePc /\ Alone(u)'
                      /\ pc'[u] \in {"apply", "persist"} => keyring'[x] = task'[u].cred
                      /\ pc'[u] = "persist" => daemon'[x] = <<task'[u].rev, task'[u].cred>>
    BY DEF CleanAt
  <2>1. u = t
    <3>1. ASSUME u # t PROVE FALSE
      <4>1. Active(u) /\ task[u].id = x /\ task[u].clean
        BY <1>2, <3>1
      <4>2. Alone(u)
        BY <1>1, <4>1 DEF CleanAt
      <4> QED BY <3>1, <4>1, <4>2 DEF Alone
    <3> QED BY <3>1
  <2>2. Alone(t)
    BY <1>1, <2>1 DEF CleanAt
  <2>3. Alone(t)'
    BY <1>2, <2>2 DEF Alone, Asked
  <2> QED BY <2>1, <2>3
<1>4. ASSUME ~stale', x \notin spoilt' PROVE Even(x)'
  <2>1. Reached(t, x)'
    BY <1>4
  <2>2. ~Asked(x)' /\ \A u \in Task : Active(u)' /\ task'[u].id = x => u = t
    BY <2>1 DEF Reached, Alone, Asked
  <2>3. Busy(x)'
    BY DEF Busy
  <2> QED BY <2>1, <2>2, <2>3 DEF Even
<1> QED BY <1>3, <1>4 DEF Fine

\* A goroutine ends.
LEMMA EndFine ==
  ASSUME TypeInv, FineInv, NEW t \in Task, NEW x \in Id,
         Active(t), task[t].id = x, ~Active(t)', UNCHANGED dialog,
         \A u \in Task \ {t} : pc'[u] = pc[u] /\ task'[u] = task[u],
         ~stale' /\ x \notin spoilt' => Alone(t) /\ Agreed(x)'
  PROVE  Fine(x)'
<1>1. CleanAt(x)
  BY DEF FineInv, Fine
<1>2. \A u \in Task : Active(u)' => u # t /\ Active(u) /\ task'[u] = task[u]
  BY DEF Active
<1>3. CleanAt(x)'
  <2>1. ASSUME NEW u \in Task, Active(u)', task'[u].id = x, task'[u].clean
        PROVE  FALSE
    <3>1. u # t /\ Active(u) /\ task[u].id = x /\ task[u].clean
      BY <1>2, <2>1
    <3> QED BY <1>1, <3>1 DEF CleanAt, Alone
  <2> QED BY <2>1 DEF CleanAt
<1>4. ASSUME ~stale', x \notin spoilt' PROVE Even(x)'
  <2>1. Alone(t) /\ Agreed(x)'
    BY <1>4
  <2>2. ~Asked(x)' /\ \A u \in Task : ~(Active(u)' /\ task'[u].id = x)
    BY <1>2, <2>1 DEF Alone, Asked
  <2> QED BY <2>1, <2>2 DEF Even
<1> QED BY <1>3, <1>4 DEF Fine

LEMMA InitFine == Init => FineInv
<1> SUFFICES ASSUME Init PROVE FineInv
  OBVIOUS
<1>1. /\ store = <<>> /\ dialog = None /\ \A t \in Task : ~Active(t)
      /\ \A id \in Id : keyring[id] = None /\ daemon[id] = None
  BY DEF Init, Active
<1>2. ASSUME NEW id \in Id PROVE RevsOf(store, id) = {}
  <2>1. {j \in 1 .. Len(store) : store[j].id = id} = {}
    BY <1>1
  <2> QED BY <2>1 DEF RevsOf
<1> QED BY <1>1, <1>2 DEF FineInv, Fine, CleanAt, Even, Busy, Asked, Agreed

\* The window closes, and all work on what is not spoilt had been done.
LEMMA GoneFine ==
  ASSUME FineInv, NEW how, Gone(how),
         ~stale' => ~stale /\ store' = store
  PROVE  FineInv'
<1> SUFFICES ASSUME NEW id \in Id PROVE Fine(id)'
  BY DEF FineInv
<1>1. /\ \A t \in Task : ~Active(t)' /\ ~Asked(id)'
      /\ UNCHANGED <<keyring, daemon>>
      /\ spoilt' = spoilt \cup {task[t].id : t \in {u \in Task : Active(u)}}
  BY DEF Gone, Active, Asked
<1>2. CleanAt(id)'
  BY <1>1 DEF CleanAt
<1>3. ASSUME ~stale', id \notin spoilt' PROVE Even(id)'
  <2>1. Even(id) /\ ~Busy(id)
    BY <1>1, <1>3 DEF FineInv, Fine, Busy
  <2>2. Agreed(id)'
    BY <1>1, <1>3, <2>1 DEF Even, Agreed
  <2> QED BY <1>1, <2>2, Gone(how) DEF Even, Busy, Asked, Gone
<1> QED BY <1>2, <1>3 DEF Fine

\* A dialog opens, which spoils a profile that is being worked on.
LEMMA OpenFine ==
  ASSUME TypeInv, FineInv, NEW kind \in {"form", "confirm"}, Open(kind)
  PROVE  FineInv'
<1>0. PICK x \in Id : x = store[selected].id
  BY OpenStep
<1>1. /\ selected \in 1 .. Len(store)
      /\ UNCHANGED <<data, pc, stale>>
      /\ dialog'.id = x
      /\ spoilt' \in {spoilt, spoilt \cup {x}}
      /\ x \notin spoilt' => On(x) = {}
      /\ \A t \in Task : Same(t) /\ Soiled(t, x)
  BY <1>0, OpenStep
<1>2. RevsOf(store, x) # {}
  <2>1. store[selected].rev \in RevsOf(store, x)
    BY <1>0, <1>1 DEF RevsOf
  <2> QED BY <2>1
<1>3. ASSUME NEW id \in Id \ {x} PROVE Fine(id)'
  <2>1. Keeps(id)
    BY <1>1 DEF Keeps, Asked, Active, Same, Soiled, data
  <2> QED BY <2>1, KeepFine DEF FineInv
<1>4. CleanAt(x)'
  BY <1>1 DEF CleanAt, Active, Same, Soiled
<1>5. ASSUME ~stale', x \notin spoilt' PROVE Even(x)'
  <2>1. ~Busy(x) /\ Even(x)
    BY <1>1, <1>5 DEF Busy, On, FineInv, Fine
  <2>2. ~Busy(x)' /\ RevsOf(store, x)' # {}
    BY <1>1, <1>2, <2>1 DEF Busy, Active, Same, data
  <2>3. Agreed(x)'
    BY <1>1, <2>1 DEF Even, Agreed, data
  <2> QED BY <2>2, <2>3 DEF Even, Busy
<1> QED BY <1>1, <1>3, <1>4, <1>5 DEF FineInv, Fine

\* What a confirmed dialog starts has the profile to itself, or it is spoilt.
LEMMA ConfirmFine ==
  ASSUME TypeInv, ListInv, FineInv, NEW t \in Task, NEW l \in {"saveCreds", "remove"},
         dialog # None, NEW c \in Capture, Confirm(t, l, c), c.id = dialog.id,
         IF l = "saveCreds" THEN c.isNew = dialog.isNew /\ c.clean = (On(c.id) = {})
                            ELSE ~dialog.isNew /\ ~c.isNew /\ ~c.clean
  PROVE  FineInv'
<1>0. PICK x \in Id : x = dialog.id
  BY DEF TypeInv, TypeOK
<1>1. /\ dialog' = None /\ pc[t] = "idle" /\ pc'[t] = l /\ task'[t] = c
      /\ \A u \in Task \ {t} : pc'[u] = pc[u] /\ task'[u] = task[u]
      /\ UNCHANGED <<data, spoilt, stale>> /\ x = c.id /\ Asked(x)
  BY <1>0 DEF Confirm, Goto, Active, Asked, TypeInv, TypeOK
<1>2. \A id \in Id \ {x} : Fine(id)'
  <2>1. ~Active(t) /\ (Active(t)' => task'[t].id = x)
    BY <1>1 DEF Active
  <2>2. UNCHANGED <<store, keyring, daemon, spoilt, stale>>
    BY <1>1 DEF data, hist
  <2> QED BY <1>1, <2>1, <2>2, OthersFine
<1>3. CleanAt(x)'
  <2> SUFFICES ASSUME NEW u \in Task, Active(u)', task'[u].id = x, task'[u].clean
               PROVE  u = t /\ l = "saveCreds" /\ Alone(u)'
    BY <1>1 DEF CleanAt, SavePc
  <2>1. u = t
    <3>1. ASSUME u # t PROVE FALSE
      <4>1. Active(u) /\ task[u].id = x /\ task[u].clean
        BY <1>1, <3>1 DEF Active
      <4> QED BY <1>1, <4>1 DEF FineInv, Fine, CleanAt, Alone
    <3> QED BY <3>1
  <2>2. l = "saveCreds" /\ On(x) = {}
    BY <1>1, <2>1
  <2>3. Alone(t)'
    BY <1>1, <2>2 DEF Alone, Asked, On, Active
  <2> QED BY <2>1, <2>2, <2>3
<1>4. ASSUME ~stale', x \notin spoilt' PROVE Even(x)'
  <2>1. ~Busy(x) /\ Agreed(x) /\ (dialog.isNew \/ RevsOf(store, x) # {})
    BY <1>1, <1>4 DEF FineInv, Fine, Even, hist
  <2>2. Agreed(x)' /\ RevsOf(store', x) = RevsOf(store, x)
    BY <1>1, <2>1 DEF Agreed, data
  <2>3. Alone(t)' /\ \A u \in Task : Active(u)' /\ task'[u].id = x => u = t
    BY <1>1, <2>1 DEF Alone, Asked, Busy, Active
  <2>4. l = "saveCreds" => c.clean
    BY <1>1, <2>1 DEF Busy, On
  <2>5. Reached(t, x)'
    BY <1>1, <2>1, <2>2, <2>3, <2>4 DEF Reached, SavePc, SamlPc
  <2>6. Busy(x)' /\ ~Asked(x)'
    BY <1>1 DEF Busy, Active, Asked
  <2> QED BY <2>3, <2>5, <2>6 DEF Even
<1> QED BY <1>2, <1>3, <1>4 DEF FineInv, Fine

\* So has a SAML connect.
LEMMA ConnectFine ==
  ASSUME TypeInv, ListInv, FineInv, NEW t \in Task, ConnectSAML(t)
  PROVE  FineInv'
<1>0. PICK x \in Id : x = store[selected].id
  BY ConnectStep
<1>1. /\ selected \in 1 .. Len(store)
      /\ UNCHANGED <<data, ui, stale>>
      /\ spoilt' \in {spoilt, spoilt \cup {x}}
      /\ x \notin spoilt' => On(x) = {} /\ ~Asked(x)
      /\ pc' = [pc EXCEPT ![t] = "load"] /\ pc[t] = "idle"
      /\ task'[t].id = x /\ task'[t].rev = store[selected].rev
      /\ ~task'[t].isNew /\ ~task'[t].clean
      /\ \A u \in Task \ {t} : Same(u) /\ Soiled(u, x)
  BY <1>0, ConnectStep DEF Asked
<1>2. RevsOf(store, x) = {task'[t].rev}
  BY <1>0, <1>1 DEF RevsOf, ListInv, Distinct
<1>3. pc'[t] = "load" /\ \A u \in Task \ {t} : pc'[u] = pc[u]
  BY <1>1 DEF TypeInv, TypeOK
<1>4. \A id \in Id \ {x} : Fine(id)'
  <2>1. ~Active(t)
    BY <1>1 DEF Active
  <2>2. UNCHANGED <<store, keyring, daemon, dialog, stale>>
    BY <1>1 DEF data, ui
  <2>3. \A u \in Task \ {t} : /\ task'[u].id = task[u].id
                              /\ Active(u) /\ task[u].id # x => task'[u] = task[u]
    BY <1>1 DEF Same, Soiled
  <2> QED BY <1>1, <1>3, <2>1, <2>2, <2>3, OthersFine
<1>5. CleanAt(x)'
  BY <1>1, <1>3 DEF CleanAt, Active, Same, Soiled
<1>6. ASSUME ~stale', x \notin spoilt' PROVE Even(x)'
  <2>1. ~Busy(x) /\ ~Asked(x) /\ Agreed(x)
    BY <1>1, <1>6 DEF FineInv, Fine, Even, Busy, On
  <2>2. Agreed(x)' /\ RevsOf(store', x) = RevsOf(store, x) /\ ~Asked(x)'
    BY <1>1, <2>1 DEF Agreed, Asked, data, ui
  <2>3. Alone(t)' /\ \A u \in Task : Active(u)' /\ task'[u].id = x => u = t
    BY <1>1, <1>3, <2>1, <2>2 DEF Alone, Asked, Busy, Active, Same
  <2>4. Reached(t, x)'
    BY <1>1, <1>2, <1>3, <2>2, <2>3 DEF Reached, SavePc, SamlPc
  <2>5. Busy(x)'
    BY <1>1, <1>3 DEF Busy, Active
  <2> QED BY <2>2, <2>3, <2>4, <2>5 DEF Even
<1> QED BY <1>4, <1>5, <1>6 DEF FineInv, Fine

LEMMA NextFine ==
  /\ TypeInv /\ TypeInv' /\ MintInv /\ IndexInv /\ ListInv /\ PlaceInv /\ FineInv
  /\ [Next]_vars
  => FineInv'
<1> SUFFICES ASSUME TypeInv, TypeInv', MintInv, IndexInv, ListInv, PlaceInv, FineInv,
                    [Next]_vars
             PROVE  FineInv'
  OBVIOUS
<1>0. /\ pc \in [Task -> {"idle"} \cup SavePc \cup RemovePc \cup SamlPc]
      /\ task \in [Task -> Capture]
      /\ keyring \in [Id -> Rev \cup {None}]
      /\ daemon \in [Id -> (Rev \X Rev) \cup {None}]
      /\ store \in Seq(Entry) /\ Distinct(store)
      /\ None \notin Rev
  BY ProfilesAssumption DEF TypeInv, TypeOK, ListInv, Rev
<1>1. ASSUME UNCHANGED <<data, pc, task, spoilt, stale>>, dialog' \in {dialog, None}
      PROVE  FineInv'
  <2> SUFFICES ASSUME NEW id \in Id PROVE Fine(id)'
    BY DEF FineInv
  <2>1. Keeps(id)
    BY <1>1 DEF Keeps, Asked, Active, data
  <2> QED BY <2>1, KeepFine DEF FineInv
<1>2. ASSUME NEW new \in Id, Add(new) PROVE FineInv'
  <2>1. /\ dialog'.id = new /\ dialog'.isNew /\ new \notin minted
        /\ UNCHANGED <<data, pc, task, hist>>
    BY <1>2 DEF Add
  <2>2. ~Busy(new)
    BY <2>1 DEF MintInv, Busy
  <2>3. ASSUME NEW id \in Id \ {new} PROVE Fine(id)'
    <3>1. Keeps(id)
      BY <2>1 DEF Keeps, Asked, Active, data, hist
    <3> QED BY <3>1, KeepFine DEF FineInv
  <2>4. CleanAt(new)' /\ ~Busy(new)'
    BY <2>1, <2>2 DEF CleanAt, Busy, Active
  <2>5. ASSUME ~stale', new \notin spoilt' PROVE Even(new)'
    <3>1. Agreed(new)
      BY <2>1, <2>2, <2>5 DEF FineInv, Fine, Even, hist
    <3>2. Agreed(new)'
      BY <2>1, <3>1 DEF Agreed, data
    <3> QED BY <2>1, <2>4, <3>2 DEF Even, Busy
  <2> QED BY <2>3, <2>4, <2>5 DEF FineInv, Fine
<1>3. ASSUME NEW t \in Task, Save(t) PROVE FineInv'
  <2>1. /\ dialog # None /\ Confirm(t, "saveCreds", task'[t]) /\ task'[t] \in Capture
        /\ task'[t].id = dialog.id /\ task'[t].isNew = dialog.isNew
        /\ task'[t].clean = (On(task'[t].id) = {})
    BY <1>3, SaveStep
  <2> QED BY <2>1, ConfirmFine
<1>4. ASSUME NEW t \in Task, Remove(t) PROVE FineInv'
  <2>1. /\ dialog # None /\ Confirm(t, "remove", task'[t]) /\ task'[t] \in Capture
        /\ task'[t].id = dialog.id /\ ~dialog.isNew
        /\ ~task'[t].isNew /\ ~task'[t].clean
    BY <1>4, RemoveStep DEF ListInv, FreshDialog
  <2> QED BY <2>1, ConfirmFine
\* A goroutine that changes nothing outside of its profile.
<1>5. ASSUME NEW t \in Task, NEW x \in Id, pc[t] # "idle", task[t].id = x, NEW l, Goto(t, l),
             l # "idle" => task'[t].id = x,
             \A u \in Task \ {t} : task'[u] = task[u], UNCHANGED dialog,
             spoilt \subseteq spoilt' \cup {x}, ~stale' => ~stale,
             \A id \in Id \ {x} : /\ keyring'[id] = keyring[id] /\ daemon'[id] = daemon[id]
                                  /\ ~stale' => RevsOf(store', id) = RevsOf(store, id),
             Fine(x)'
      PROVE  FineInv'
  <2>1. pc'[t] = l /\ \A u \in Task \ {t} : pc'[u] = pc[u]
    BY <1>0, <1>5 DEF Goto
  <2>2. \A id \in Id \ {x} : Fine(id)'
    BY <1>5, <2>1, OthersFine
  <2> QED BY <1>5, <2>2 DEF FineInv
\* It goes on, ...
<1>6. ASSUME NEW t \in Task, NEW x \in Id, pc[t] # "idle", task[t].id = x,
             NEW l, l # "idle", Goto(t, l), UNCHANGED <<store, dialog, spoilt, stale>>,
             task'[t].id = x, task'[t].clean = task[t].clean,
             \A u \in Task \ {t} : task'[u] = task[u],
             \A id \in Id \ {x} : keyring'[id] = keyring[id] /\ daemon'[id] = daemon[id],
             CleanAt(x) /\ task[t].clean =>
               /\ l \in SavePc
               /\ l \in {"apply", "persist"} => keyring'[x] = task'[t].cred
               /\ l = "persist" => daemon'[x] = <<task'[t].rev, task'[t].cred>>,
             Reached(t, x) => Reached(t, x)'
      PROVE  FineInv'
  <2>1. Active(t) /\ pc'[t] = l /\ Active(t)' /\ \A u \in Task \ {t} : pc'[u] = pc[u]
    BY <1>0, <1>6 DEF Goto, Active
  <2>2. CleanAt(x) /\ (~stale' /\ x \notin spoilt' => Reached(t, x)')
    BY <1>6, <2>1 DEF FineInv, Fine, Even
  <2>3. Fine(x)'
    BY <1>6, <2>1, <2>2, GoFine
  <2> QED BY <1>5, <1>6, <2>3
\* ... or ends.
<1>7. ASSUME NEW t \in Task, NEW x \in Id, pc[t] # "idle", task[t].id = x,
             Finish(t), UNCHANGED dialog,
             spoilt \subseteq spoilt' \cup {x}, ~stale' => ~stale,
             \A id \in Id \ {x} : /\ keyring'[id] = keyring[id] /\ daemon'[id] = daemon[id]
                                  /\ ~stale' => RevsOf(store', id) = RevsOf(store, id),
             ~stale' /\ x \notin spoilt' => Alone(t) /\ Agreed(x)'
      PROVE  FineInv'
  <2>1. /\ Active(t) /\ pc'[t] = "idle" /\ ~Active(t)'
        /\ \A u \in Task \ {t} : pc'[u] = pc[u] /\ task'[u] = task[u]
    BY <1>0, <1>7 DEF Finish, Goto, Active
  <2>2. Fine(x)'
    BY <1>7, <2>1, EndFine
  <2> QED BY <1>5, <1>7, <2>1, <2>2 DEF Finish
\* A goroutine that ends where the four places agree.
<1>8. ASSUME NEW t \in Task, Finish(t), pc[t] \in {"saveCreds"} \cup SamlPc,
             UNCHANGED <<store, keyring, daemon, dialog, spoilt, stale>>
      PROVE  FineInv'
  <2>1. task[t].id \in Id /\ pc[t] # "idle"
    BY <1>8, ActiveType DEF SamlPc
  <2>2. PICK x \in Id : x = task[t].id
    BY <2>1
  <2>3. ASSUME ~stale', x \notin spoilt' PROVE Alone(t) /\ Agreed(x)'
    <3>1. Reached(t, x)
      BY <1>8, <2>1, <2>2, <2>3 DEF FineInv, Fine, Even, Active
    <3>2. Alone(t) /\ Agreed(x)
      BY <1>8, <3>1 DEF Reached
    <3> QED BY <1>8, <3>2 DEF Agreed
  <2> QED BY <1>7, <1>8, <2>1, <2>2, <2>3
<1>9. ASSUME NEW t \in Task, SaveCreds(t) PROVE FineInv'
  <2>1. pc[t] = "saveCreds" /\ UNCHANGED <<store, daemon, dialog, spoilt, stale>>
    BY <1>9 DEF SaveCreds, ui
  <2>2. CASE Finish(t) /\ UNCHANGED keyring
    BY <1>8, <2>1, <2>2
  <2>3. CASE Goto(t, "apply") /\ UNCHANGED task
             /\ keyring' = [keyring EXCEPT ![task[t].id] = task[t].cred]
    <3>1. PICK x \in Id : x = task[t].id
      BY <2>1, ActiveType
    <3>2. /\ keyring'[x] = task[t].cred
          /\ \A id \in Id \ {x} : keyring'[id] = keyring[id]
      BY <1>0, <2>3, <3>1
    <3>3. pc'[t] = "apply"
      BY <1>0, <2>3 DEF Goto
    <3>4. Reached(t, x) => Reached(t, x)'
      <4>1. Alone(t) => Alone(t)'
        BY <1>0, <2>1, <2>3 DEF Alone, Asked, Active, Goto
      <4> QED BY <2>1, <2>3, <3>3, <4>1 DEF Reached, SavePc, SamlPc
    <3> QED BY <1>6, <2>1, <2>3, <3>1, <3>2, <3>4 DEF SavePc
  <2> QED BY <1>9, <2>2, <2>3 DEF SaveCreds
<1>10. ASSUME NEW t \in Task, Apply(t) PROVE FineInv'
  <2>1. pc[t] = "apply" /\ UNCHANGED <<store, keyring, dialog, stale>>
    BY <1>10 DEF Apply, ui
  <2>2. PICK x \in Id : x = task[t].id
    BY <2>1, ActiveType
  <2>3. /\ \A id \in Id \ {x} : daemon'[id] = daemon[id]
        /\ daemon'[x] # daemon[x] => daemon'[x] = <<task[t].rev, task[t].cred>>
    BY <1>0, <1>10, <2>2 DEF Apply
  <2>4. CASE Finish(t) /\ spoilt' = spoilt \cup {x}
    BY <1>7, <2>1, <2>2, <2>3, <2>4
  <2>5. CASE Goto(t, "persist") /\ UNCHANGED <<task, spoilt>>
             /\ daemon' = [daemon EXCEPT ![x] = <<task[t].rev, task[t].cred>>]
    <3>1. daemon'[x] = <<task[t].rev, task[t].cred>>
      BY <1>0, <2>5
    <3>2. pc'[t] = "persist"
      BY <1>0, <2>5 DEF Goto
    <3>3. Reached(t, x) => Reached(t, x)'
      <4>1. Alone(t) => Alone(t)'
        BY <1>0, <2>1, <2>5 DEF Alone, Asked, Active, Goto
      <4> QED BY <2>1, <2>5, <3>2, <4>1 DEF Reached, SavePc, SamlPc
    <3>4. CleanAt(x) /\ task[t].clean => keyring'[x] = task'[t].cred
      BY <2>1, <2>2, <2>5 DEF CleanAt, Active
    <3> QED BY <1>6, <2>1, <2>2, <2>3, <2>5, <3>1, <3>3, <3>4 DEF SavePc
  <2> QED BY <1>10, <2>2, <2>4, <2>5 DEF Apply
<1>11. ASSUME NEW t \in Task, Persist(t) PROVE FineInv'
  <2>1. /\ pc[t] = "persist" /\ Finish(t) /\ UNCHANGED <<keyring, daemon, dialog, stale>>
        /\ store' = Saved([id |-> task[t].id, rev |-> task[t].rev], task[t].isNew)
        /\ spoilt' = IF /\ task[t].clean /\ On(task[t].id) = {t}
                        /\ task[t].id \in Listed(store')
                       THEN spoilt \ {task[t].id} ELSE spoilt
    BY <1>11 DEF Persist, ui
  <2>2. PICK x \in Id : x = task[t].id
    BY <2>1, ActiveType
  <2>3. PICK p : p = [id |-> task[t].id, rev |-> task[t].rev]
    OBVIOUS
  <2>4. /\ \A id \in Id \ {x} : RevsOf(store', id) = RevsOf(store, id)
        /\ RevsOf(store', x) =
             IF task[t].isNew \/ RevsOf(store, x) # {} THEN {task[t].rev} ELSE {}
    <3>1. /\ SavedIn(Saved(p, task[t].isNew), p)
          /\ RevsOf(Saved(p, task[t].isNew), p.id) =
               IF task[t].isNew \/ RevsOf(store, p.id) # {} THEN {p.rev} ELSE {}
      BY <2>1, <2>3, PersistList
    <3>2. p.id = x /\ p.rev = task[t].rev
      BY <2>2, <2>3
    <3>3. store' = Saved(p, task[t].isNew)
      BY <2>1, <2>3, Zenon
    <3>4. SavedIn(store', p)
      BY <3>1, <3>3, Zenon
    <3>5. RevsOf(store', p.id) =
            IF task[t].isNew \/ RevsOf(store, p.id) # {} THEN {p.rev} ELSE {}
      BY <3>1, <3>3, Zenon
    <3> QED BY <3>2, <3>4, <3>5 DEF SavedIn
  <2>5. ASSUME ~stale', x \notin spoilt' PROVE Alone(t) /\ Agreed(x)'
    <3>1. CleanAt(x) /\ (x \notin spoilt => Reached(t, x))
      BY <2>1, <2>2, <2>5 DEF FineInv, Fine, Even, Active
    <3>2. task[t].clean /\ RevsOf(store', x) = {task[t].rev}
      <4>1. CASE x \notin spoilt
        BY <2>1, <2>4, <3>1, <4>1 DEF Reached, SavePc
      <4>2. CASE x \in spoilt
        <5>1. task[t].clean /\ x \in Listed(store')
          BY <2>1, <2>2, <2>5, <4>2
        <5>2. RevsOf(store', x) # {}
          BY <5>1 DEF Listed, RevsOf
        <5> QED BY <2>4, <5>1, <5>2
      <4> QED BY <4>1, <4>2
    <3>3. Alone(t) /\ keyring[x] = task[t].cred /\ daemon[x] = <<task[t].rev, task[t].cred>>
      BY <2>1, <2>2, <3>1, <3>2 DEF CleanAt, Active
    <3>4. task[t].cred \in Rev
      BY <2>1 DEF TypeInv, Captures, SavePc
    <3> QED BY <1>0, <2>1, <3>2, <3>3, <3>4 DEF Agreed
  <2>6. spoilt \subseteq spoilt' \cup {x}
    BY <2>1, <2>2
  <2> QED BY <1>7, <2>1, <2>2, <2>4, <2>5, <2>6
<1>12. ASSUME NEW t \in Task, RemoveProfile(t) PROVE FineInv'
  <2>1. pc[t] = "remove" /\ UNCHANGED <<store, keyring, dialog, stale>>
    BY <1>12 DEF RemoveProfile, ui
  <2>2. PICK x \in Id : x = task[t].id
    BY <2>1, ActiveType
  <2>3. \A id \in Id \ {x} : daemon'[id] = daemon[id]
    BY <1>0, <1>12, <2>2 DEF RemoveProfile
  <2>4. CASE Finish(t) /\ spoilt' = spoilt \cup {x}
    BY <1>7, <2>1, <2>2, <2>3, <2>4
  <2>5. CASE Goto(t, "forget") /\ UNCHANGED <<task, spoilt>>
             /\ daemon' = [daemon EXCEPT ![x] = None]
    <3>1. daemon'[x] = None /\ pc'[t] = "forget"
      BY <1>0, <2>5 DEF Goto
    <3>2. Reached(t, x) => Reached(t, x)'
      <4>1. Alone(t) => Alone(t)'
        BY <1>0, <2>1, <2>5 DEF Alone, Asked, Active, Goto
      <4> QED BY <2>1, <2>5, <3>1, <4>1 DEF Reached, SavePc, SamlPc
    <3>3. ~(CleanAt(x) /\ task[t].clean)
      BY <2>1, <2>2 DEF CleanAt, Active, SavePc
    <3> QED BY <1>6, <2>1, <2>2, <2>3, <2>5, <3>2, <3>3
  <2> QED BY <1>12, <2>2, <2>4, <2>5 DEF RemoveProfile
<1>13. ASSUME NEW t \in Task, Forget(t) PROVE FineInv'
  <2>1. /\ pc[t] = "forget" /\ Goto(t, "unlist")
        /\ UNCHANGED <<store, daemon, task, dialog, stale>>
    BY <1>13 DEF Forget, ui
  <2>2. PICK x \in Id : x = task[t].id
    BY <2>1, ActiveType
  <2>3. pc'[t] = "unlist" /\ \A id \in Id \ {x} : keyring'[id] = keyring[id]
    BY <1>0, <1>13, <2>1, <2>2 DEF Forget, Goto
  <2>4. ~(CleanAt(x) /\ task[t].clean)
    BY <2>1, <2>2 DEF CleanAt, Active, SavePc
  <2>5. CASE keyring' = [keyring EXCEPT ![x] = None] /\ UNCHANGED spoilt
    <3>1. keyring'[x] = None
      BY <1>0, <2>5
    <3>2. Reached(t, x) => Reached(t, x)'
      <4>1. Alone(t) => Alone(t)'
        BY <1>0, <2>1 DEF Alone, Asked, Active, Goto
      <4> QED BY <2>1, <2>3, <2>5, <3>1, <4>1 DEF Reached, SavePc, SamlPc
    <3> QED BY <1>6, <2>1, <2>2, <2>3, <2>4, <2>5, <3>2
  <2>6. CASE spoilt' = spoilt \cup {x}
    <3>1. Active(t) /\ Active(t)' /\ \A u \in Task \ {t} : pc'[u] = pc[u]
      BY <1>0, <2>1 DEF Goto, Active
    <3>2. ~task'[t].clean
      BY <2>1, <2>2, <2>4 DEF FineInv, Fine
    <3>3. Fine(x)'
      BY <2>1, <2>2, <2>6, <3>1, <3>2, GoFine
    <3> QED BY <1>5, <2>1, <2>2, <2>3, <2>6, <3>3
  <2> QED BY <1>13, <2>2, <2>5, <2>6 DEF Forget
<1>14. ASSUME NEW t \in Task, Unlist(t) PROVE FineInv'
  <2>1. pc[t] = "unlist" /\ stale' = (stale \/ Captured(t))
    BY <1>14 DEF Unlist
  <2>2. CASE task[t].idx > Len(store)
    <3>1. Gone("panicked")
      BY <1>14, <2>2 DEF Unlist
    <3>2. stale
      <4>1. ~stale => task[t].idx \in 1 .. Len(store)
        BY <2>1, CapturedIndex DEF RemovePc
      <4> QED BY <1>0, <2>2, <4>1
    <3> QED BY <2>1, <3>1, <3>2, GoneFine
  <2>3. CASE ~(task[t].idx > Len(store))
    <3>1. /\ store' = Without(store, task[t].idx) /\ Finish(t)
          /\ UNCHANGED <<keyring, daemon, dialog, spoilt>>
      BY <1>14, <2>3 DEF Unlist
    <3>2. PICK x \in Id : x = task[t].id
      BY <2>1, ActiveType
    <3>3. ASSUME ~stale'
          PROVE  /\ ~stale /\ RevsOf(store', x) = {}
                 /\ \A id \in Id \ {x} : RevsOf(store', id) = RevsOf(store, id)
      <4>1. ~stale
        BY <2>1, <3>3
      <4>2. task[t].idx \in 1 .. Len(store) /\ store[task[t].idx].id = x
        BY <2>1, <3>2, <4>1, CapturedIndex DEF PlaceInv, RemovePc
      <4>3. PICK k \in 1 .. Len(store) : k = task[t].idx
        BY <4>2
      <4>4. store' = Without(store, k) /\ store[k].id = x
        BY <3>1, <4>2, <4>3
      <4>5. /\ RevsOf(store', store[k].id) = {}
            /\ \A id \in Id \ {store[k].id} : RevsOf(store', id) = RevsOf(store, id)
        BY <1>0, <4>4, WithoutList
      <4> QED BY <4>1, <4>4, <4>5
    <3>4. ASSUME ~stale', x \notin spoilt' PROVE Alone(t) /\ Agreed(x)'
      <4>1. Reached(t, x)
        BY <2>1, <3>1, <3>2, <3>3, <3>4 DEF FineInv, Fine, Even, Active
      <4> QED BY <2>1, <3>1, <3>3, <3>4, <4>1 DEF Reached, Agreed
    <3> QED BY <1>7, <2>1, <3>1, <3>2, <3>3, <3>4
  <2> QED BY <2>2, <2>3
<1>15. ASSUME NEW t \in Task, LoadCreds(t) PROVE FineInv'
  <2>1. /\ pc[t] = "load"
        /\ UNCHANGED <<store, keyring, daemon, dialog, spoilt, stale>>
    BY <1>15 DEF LoadCreds, data, ui, hist
  <2>2. CASE Finish(t)
    BY <1>8, <2>1, <2>2 DEF SamlPc
  <2>3. CASE /\ Goto(t, "begin")
             /\ task' = [task EXCEPT ![t].cred = keyring[task[t].id]]
    <3>1. PICK x \in Id : x = task[t].id
      BY <2>1, ActiveType
    <3>2. /\ task'[t].id = x /\ task'[t].cred = keyring[x] /\ task'[t].rev = task[t].rev
          /\ task'[t].clean = task[t].clean /\ task'[t].isNew = task[t].isNew
          /\ \A u \in Task \ {t} : task'[u] = task[u]
      BY <1>0, <2>3, <3>1 DEF Capture
    <3>3. pc'[t] = "begin" /\ \A u \in Task \ {t} : pc'[u] = pc[u]
      BY <1>0, <2>3 DEF Goto
    <3>4. Reached(t, x) => Reached(t, x)'
      <4>1. Alone(t) => Alone(t)'
        BY <2>1, <3>1, <3>2, <3>3 DEF Alone, Asked, Active
      <4>2. Agreed(x) => Agreed(x)'
        BY <2>1 DEF Agreed
      <4> QED BY <2>1, <3>2, <3>3, <4>1, <4>2 DEF Reached, SavePc, SamlPc
    <3>5. ~(CleanAt(x) /\ task[t].clean)
      BY <2>1, <3>1 DEF CleanAt, Active, SavePc
    <3> QED BY <1>6, <2>1, <2>3, <3>1, <3>2, <3>4, <3>5
  <2> QED BY <1>15, <2>2, <2>3 DEF LoadCreds
\* The gateway is asked and the browser comes back: nothing has changed.
<1>16. ASSUME NEW t \in Task, NEW l \in {"login", "reapply"}, Goto(t, l), UNCHANGED task,
              pc[t] \in {"begin", "login"},
              UNCHANGED <<store, keyring, daemon, dialog, spoilt, stale>>
       PROVE  FineInv'
  <2>1. PICK x \in Id : x = task[t].id
    BY <1>16, ActiveType
  <2>2. pc'[t] = l /\ \A u \in Task \ {t} : pc'[u] = pc[u]
    BY <1>0, <1>16 DEF Goto
  <2>3. Reached(t, x) => Reached(t, x)'
    <3>1. Alone(t) => Alone(t)'
      BY <1>16, <2>2 DEF Alone, Asked, Active
    <3>2. Agreed(x) => Agreed(x)'
      BY <1>16 DEF Agreed
    <3> QED BY <1>16, <2>2, <3>1, <3>2 DEF Reached, SavePc, SamlPc
  <2>4. ~(CleanAt(x) /\ task[t].clean)
    BY <1>16, <2>1 DEF CleanAt, Active, SavePc
  <2> QED BY <1>6, <1>16, <2>1, <2>3, <2>4
<1>17. ASSUME NEW t \in Task, Begin(t) PROVE FineInv'
  BY <1>8, <1>16, <1>17 DEF Begin, SamlPc, data, ui, hist
<1>18. ASSUME NEW t \in Task, Login(t) PROVE FineInv'
  BY <1>8, <1>16, <1>18 DEF Login, SamlPc, data, ui, hist
<1>19. ASSUME NEW t \in Task, Reapply(t) PROVE FineInv'
  <2>1. /\ pc[t] = "reapply" /\ Finish(t)
        /\ UNCHANGED <<store, keyring, dialog, spoilt, stale>>
        /\ daemon' \in {daemon, [daemon EXCEPT ![task[t].id] = <<task[t].rev, task[t].cred>>]}
    BY <1>19 DEF Reapply, ui, hist
  <2>2. PICK x \in Id : x = task[t].id
    BY <2>1, ActiveType
  <2>3. /\ daemon'[x] \in {daemon[x], <<task[t].rev, task[t].cred>>}
        /\ \A id \in Id \ {x} : daemon'[id] = daemon[id]
    BY <1>0, <2>1, <2>2
  <2>4. ASSUME ~stale', x \notin spoilt' PROVE Alone(t) /\ Agreed(x)'
    <3>1. Reached(t, x)
      BY <2>1, <2>2, <2>4 DEF FineInv, Fine, Even, Active
    <3>2. /\ Alone(t) /\ Agreed(x) /\ RevsOf(store, x) = {task[t].rev}
          /\ task[t].cred = keyring[x]
      BY <2>1, <3>1 DEF Reached, SamlPc
    <3> QED BY <2>1, <2>3, <3>2 DEF Agreed
  <2> QED BY <1>7, <2>1, <2>2, <2>3, <2>4
<1>20. ASSUME NEW t \in Task, CrashInSave(t) PROVE FineInv'
  BY <1>20, GoneFine DEF CrashInSave
<1>21. CASE Quit
  BY <1>21, GoneFine DEF Quit
<1>22. CASE Start
  <2>1. /\ UNCHANGED <<keyring, daemon, dialog, pc, task, stale>> /\ dialog = None
        /\ \A t \in Task : pc[t] = "idle"
    BY <1>22 DEF Start, TypeInv, Closed, Active
  <2> SUFFICES ASSUME NEW id \in Id PROVE Fine(id)'
    BY DEF FineInv
  <2>2. CASE file.whole /\ file.list = store
    <3>1. store' = SubSeq(store, 1, Len(store)) /\ UNCHANGED spoilt
      BY <1>22, <2>2 DEF Start
    <3>2. store' = store
      BY <1>0, <3>1
    <3>3. Keeps(id)
      BY <2>1, <3>1, <3>2 DEF Keeps, Asked, Active
    <3> QED BY <3>3, KeepFine DEF FineInv
  <2>3. CASE ~(file.whole /\ file.list = store)
    <3>1. spoilt' = Id
      BY <1>22, <2>3 DEF Start
    <3> QED BY <2>1, <3>1 DEF Fine, CleanAt, Active
  <2> QED BY <2>2, <2>3
<1>23. ASSUME NEW i \in 1 .. Len(store), Select(i) PROVE FineInv'
  BY <1>1, <1>23 DEF Select, hist
<1>24. CASE Unselect \/ Cancel
  BY <1>1, <1>24 DEF Unselect, Cancel, hist
<1>25. CASE UNCHANGED vars
  BY <1>1, <1>25 DEF vars, ui, hist
<1> QED
  BY <1>2, <1>3, <1>4, <1>9, <1>10, <1>11, <1>12, <1>13, <1>14, <1>15, <1>17, <1>18,
     <1>19, <1>20, <1>21, <1>22, <1>23, <1>24, <1>25, OpenFine, ConnectFine
     DEF Next, EditSelected, RemoveSelected

\* The file is the list, unless the last write of it has failed.
FileInv == gui = "on" /\ ~lost => file = Whole(store)

LEMMA InitFile == Init => FileInv
BY DEF Init, FileInv

LEMMA NextFile == TypeInv /\ FileInv /\ [Next]_vars => FileInv'
<1> SUFFICES ASSUME TypeInv, FileInv, [Next]_vars PROVE FileInv'
  OBVIOUS
<1>1. ASSUME UNCHANGED <<gui, store, file, lost>> PROVE FileInv'
  BY <1>1 DEF FileInv
<1>2. ASSUME NEW how, how # "on", Gone(how) PROVE FileInv'
  BY <1>2 DEF Gone, FileInv
<1>3. ASSUME NEW s, store' = s, SaveStore(s) PROVE FileInv'
  BY <1>3 DEF SaveStore, FileInv
<1>4. ASSUME NEW i \in 1 .. Len(store), Select(i) PROVE FileInv'
  BY <1>1, <1>4 DEF Select, data, hist
<1>5. CASE Unselect \/ Cancel
  BY <1>1, <1>5 DEF Unselect, Cancel, data, hist
<1>6. ASSUME NEW id \in Id, Add(id) PROVE FileInv'
  BY <1>1, <1>6 DEF Add, data, hist
<1>7. ASSUME NEW kind \in {"form", "confirm"}, Open(kind) PROVE FileInv'
  BY <1>1, <1>7, Zenon DEF Open, data
<1>8. ASSUME NEW t \in Task, NEW l, NEW c, Confirm(t, l, c) PROVE FileInv'
  BY <1>1, <1>8 DEF Confirm, data
<1>9. ASSUME NEW t \in Task, Save(t) PROVE FileInv'
  BY <1>8, <1>9, Zenon DEF Save
<1>10. ASSUME NEW t \in Task, Remove(t) PROVE FileInv'
  BY <1>8, <1>10, Zenon DEF Remove
<1>11. ASSUME NEW t \in Task, ConnectSAML(t) PROVE FileInv'
  BY <1>1, <1>11, Zenon DEF ConnectSAML, data, ui
<1>12. ASSUME NEW t \in Task,
              SaveCreds(t) \/ Apply(t) \/ RemoveProfile(t) \/ Forget(t)
       PROVE  FileInv'
  BY <1>1, <1>12 DEF SaveCreds, Apply, RemoveProfile, Forget, ui
<1>13. ASSUME NEW t \in Task, Persist(t) PROVE FileInv'
  BY <1>3, <1>13, Zenon DEF Persist
<1>14. ASSUME NEW t \in Task, Unlist(t) PROVE FileInv'
  <2>1. CASE task[t].idx > Len(store)
    BY <1>2, <1>14, <2>1 DEF Unlist
  <2>2. CASE ~(task[t].idx > Len(store))
    BY <1>3, <1>14, <2>2 DEF Unlist
  <2> QED BY <2>1, <2>2
<1>15. ASSUME NEW t \in Task,
              LoadCreds(t) \/ Begin(t) \/ Login(t) \/ Reapply(t)
       PROVE  FileInv'
  BY <1>1, <1>15 DEF LoadCreds, Begin, Login, Reapply, data, ui, hist
<1>16. ASSUME NEW t \in Task, CrashInSave(t) PROVE FileInv'
  BY <1>2, <1>16 DEF CrashInSave
<1>17. CASE Quit
  BY <1>2, <1>17 DEF Quit
<1>18. CASE Start
  <2> SUFFICES ASSUME file.whole PROVE file' = Whole(store')
    BY <1>18 DEF Start, FileInv
  <2>1. file.list \in Seq(Entry) /\ file = [list |-> file.list, whole |-> TRUE]
    BY DEF TypeInv, File
  <2>2. store' = SubSeq(file.list, 1, Len(file.list)) /\ file' = file
    BY <1>18 DEF Start
  <2>3. SubSeq(file.list, 1, Len(file.list)) = file.list
    BY <2>1
  <2> QED BY <2>1, <2>2, <2>3 DEF Whole
<1>19. CASE UNCHANGED vars
  BY <1>1, <1>19 DEF vars, data, ui, hist
<1> QED
  BY <1>4, <1>5, <1>6, <1>7, <1>9, <1>10, <1>11, <1>12, <1>13, <1>14, <1>15,
     <1>16, <1>17, <1>18, <1>19 DEF Next, EditSelected, RemoveSelected

\* The file is the list, from the next write of it on if one has failed; and
\* every profile that no failure and no overlap has left uneven is, between two
\* calls, the same in the list, the keyring and the daemon, or in none of them.
THEOREM PlacesAgree == Spec => []Agreement
<1>1. ASSUME TypeInv, ListInv, FineInv, FileInv PROVE Agreement
  <2> SUFFICES ASSUME NEW id \in Id \ spoilt, gui = "on", On(id) = {}, ~stale
               PROVE  LET at == {i \in 1 .. Len(store) : store[i].id = id} IN
                      \/ at = {} /\ daemon[id] = None /\ keyring[id] = None
                      \/ \E i \in at : /\ at = {i}
                                       /\ keyring[id] # None
                                       /\ daemon[id] = <<store[i].rev, keyring[id]>>
    BY <1>1 DEF Agreement, FileInv
  <2> DEFINE at == {i \in 1 .. Len(store) : store[i].id = id}
  <2>1. Agreed(id)
    BY <1>1 DEF FineInv, Fine, Even, Busy, On
  <2>2. RevsOf(store, id) = {store[i].rev : i \in at}
    BY DEF RevsOf
  <2>3. CASE at = {}
    <3>1. RevsOf(store, id) = {}
      BY <2>2, <2>3
    <3> QED BY <2>1, <2>3, <3>1 DEF Agreed
  <2>4. CASE at # {}
    <3>1. PICK i \in at : TRUE
      BY <2>4
    <3>2. at = {i}
      BY <1>1, <3>1 DEF ListInv, Distinct
    <3>3. store[i].rev \in RevsOf(store, id)
      BY <2>2, <3>1
    <3>4. keyring[id] # None /\ daemon[id] = <<store[i].rev, keyring[id]>>
      BY <2>1, <3>3 DEF Agreed
    <3> QED BY <3>1, <3>2, <3>4
  <2> QED BY <2>3, <2>4
<1> QED BY <1>1, InitType, NextType, InitNewest, NextMint, InitIndex, NextIndex,
           InitList, NextList, InitFine, NextFine, InitFile, NextFile, PTL DEF Spec

-----------------------------------------------------------------------------
(* The list keeps its profiles apart.                                       *)

LEMMA ListAlways ==
  Spec => [](TypeInv /\ IndexInv /\ ListInv /\ PlaceInv)
BY InitType, NextType, InitIndex, NextIndex, InitNewest, NextMint, InitList, NextList,
   PTL DEF Spec

\* However many goroutines save and remove, crash, and are started again from
\* what is left of the file: no profile is in the list twice.
THEOREM NoDuplicates == Spec => []ListedOnce
<1>1. ListInv => ListedOnce
  BY DEF ListInv, Distinct, ListedOnce
<1> QED BY <1>1, ListAlways, PTL

\* The list changes by a closure alone, which touches the entry it is about.
LEMMA OwnEntryStep ==
  ASSUME TypeInv, IndexInv, ListInv, PlaceInv, [Next]_vars,
         gui = "on", gui' = "on", ~stale, store' # store,
         NEW id \in Id, RevsOf(store', id) # RevsOf(store, id)
  PROVE  \E t \in Task : /\ pc[t] \in {"persist", "unlist"} /\ pc'[t] = "idle"
                        /\ task[t].id = id
<1>0. /\ store \in Seq(Entry) /\ Len(store) \in Nat /\ Distinct(store)
      /\ pc \in [Task -> {"idle"} \cup SavePc \cup RemovePc \cup SamlPc]
  BY DEF TypeInv, TypeOK, ListInv
<1>1. ASSUME NEW t \in Task, Persist(t)
      PROVE  pc[t] = "persist" /\ pc'[t] = "idle" /\ task[t].id = id
  <2> DEFINE p == [id |-> task[t].id, rev |-> task[t].rev]
  <2>1. pc[t] = "persist" /\ store' = Saved(p, task[t].isNew) /\ Finish(t)
    BY <1>1 DEF Persist
  <2>2. p.id = task[t].id
    OBVIOUS
  <2>3. SavedIn(store', p)
    BY <2>1, PersistList
  <2> HIDE DEF p
  <2>4. \A other \in Id \ {p.id} : RevsOf(store', other) = RevsOf(store, other)
    BY <2>3 DEF SavedIn
  <2> QED BY <1>0, <2>1, <2>2, <2>4 DEF Finish, Goto
<1>2. ASSUME NEW t \in Task, Unlist(t)
      PROVE  pc[t] = "unlist" /\ pc'[t] = "idle" /\ task[t].id = id
  <2>1. pc[t] = "unlist" /\ task[t].idx \in 1 .. Len(store)
    BY <1>2, CapturedIndex DEF Unlist, RemovePc
  <2>2. store' = Without(store, task[t].idx) /\ Finish(t)
    BY <1>0, <1>2, <2>1 DEF Unlist
  <2>3. store[task[t].idx].id = task[t].id
    BY <2>1 DEF PlaceInv, RemovePc
  <2>4. \A other \in Id \ {task[t].id} : RevsOf(store', other) = RevsOf(store, other)
    BY <1>0, <2>1, <2>2, <2>3, WithoutList
  <2> QED BY <1>0, <2>1, <2>2, <2>4 DEF Finish, Goto
<1>3. (\E t \in Task : Persist(t)) \/ (\E t \in Task : Unlist(t))
  <2> USE DEF Next, EditSelected, RemoveSelected, data
  <2>1. CASE \/ \E i \in 1 .. Len(store) : Select(i)
             \/ Unselect \/ (\E new \in Id : Add(new))
             \/ EditSelected \/ RemoveSelected \/ Cancel
    BY <2>1 DEF Select, Unselect, Add, Open, Cancel
  <2>2. CASE \E t \in Task : \/ Save(t) \/ Remove(t) \/ ConnectSAML(t)
                           \/ SaveCreds(t) \/ Apply(t)
    BY <2>2 DEF Save, Remove, Confirm, ConnectSAML, SaveCreds, Apply
  <2>3. CASE \E t \in Task : \/ RemoveProfile(t) \/ Forget(t) \/ LoadCreds(t)
                           \/ Begin(t) \/ Login(t) \/ Reapply(t)
    BY <2>3 DEF RemoveProfile, Forget, LoadCreds, Begin, Login, Reapply
  <2>4. CASE Quit \/ Start \/ \E t \in Task : CrashInSave(t)
    BY <2>4 DEF Quit, Start, CrashInSave, Gone
  <2>5. CASE UNCHANGED vars
    BY <2>5 DEF vars
  <2> QED BY <2>1, <2>2, <2>3, <2>4, <2>5
<1> QED BY <1>1, <1>2, <1>3

\* Whatever finishes meanwhile, a Save or a removal adds, changes or takes away
\* the entry of its own profile and no other one's.
THEOREM EntriesKeptApart == Spec => OwnEntryOnly
<1>1. TypeInv /\ IndexInv /\ ListInv /\ PlaceInv /\ [Next]_vars => [OwnEntry]_vars
  BY OwnEntryStep DEF OwnEntry
<1> QED BY <1>1, ListAlways, PTL DEF Spec, OwnEntryOnly
=============================================================================
