------------------------------ MODULE Profiles ------------------------------
(***************************************************************************)
(* Where the GUI keeps a profile: the list in memory, profiles.toml, the   *)
(* keyring, and the daemon.  Saving, removing and SAML connecting run on   *)
(* goroutines that call the daemon and come back to the UI thread with     *)
(* what they captured when they were started; meanwhile the user clicks    *)
(* on, and may quit.                                                       *)
(***************************************************************************)
EXTENDS Naturals, Sequences

CONSTANTS
  Id,     \* the IDs that NewID can mint
  Task,   \* goroutines that can run at once
  MaxRev, \* bound: how often profiles are saved
  Faults, \* subset of {"daemon", "keyring", "disk", "quit", "crash"}
  None

ASSUME ProfilesAssumption ==
  /\ MaxRev \in Nat
  /\ Faults \subseteq {"daemon", "keyring", "disk", "quit", "crash"}
  /\ None \notin Id \cup Nat

VARIABLES
  gui,      \* "on", "off", or "panicked"
  store,    \* App.store: the profiles, [id, rev], in the order of the list
  file,     \* profiles.toml: what SaveStore was last given, and if all is there
  keyring,  \* the revision of each profile's saved credentials, or Blank
  daemon,   \* what it was last given: <<profile's, credentials' revision>>
  selected, \* App.selected + 1: position in the list, 0 if none
  dialog,   \* the form or the confirmation that is open
  pc, task, \* the goroutines: where each is, and what it has captured
  edits,    \* how many revisions have been saved
  minted,   \* IDs handed out by NewID
  typed,    \* history: the revision of the credentials the user typed last
  unsaved,  \* history: profiles whose Save ended before those were written
  misread,  \* history: profiles whose form showed other credentials than those
  spoilt,   \* history: profiles some failure or overlap has left uneven
  lost,     \* history: the last SaveStore failed, or Start found a torn file
  stale     \* history: an index was captured, then the list got shorter

data == <<store, file, keyring, daemon>>
ui   == <<gui, selected, dialog>>
hist == <<typed, unsaved, misread, spoilt, lost, stale>>
vars == <<data, ui, pc, task, edits, minted, hist>>

SavePc   == {"saveCreds", "apply", "persist"}
RemovePc == {"remove", "forget", "unlist"}
Pending  == {"saveCreds", "remove", "forget"}
SamlPc   == {"load", "begin", "login", "reapply"}

Active(t)    == pc[t] # "idle"
Listed(s)    == {s[i].id : i \in 1 .. Len(s)}
On(id)       == {t \in Task : Active(t) /\ task[t].id = id}
Job(id, rev, idx) == [id |-> id, rev |-> rev, idx |-> idx, isNew |-> FALSE,
                      cred |-> None, clean |-> FALSE]
NoTask       == Job(None, 0, 0)
Blank        == 0 \* no credentials
\* Newly typed credentials are on their way to the keyring.
Typing(t)    == pc[t] = "saveCreds" /\ task[t].cred = task[t].rev
Goto(t, l)   == pc' = [pc EXCEPT ![t] = l]
Finish(t)    == Goto(t, "idle") /\ task' = [task EXCEPT ![t] = NoTask]

\* The window takes clicks: nothing modal covers it.
Clickable == gui = "on" /\ dialog = None /\ \A t \in Task : pc[t] # "login"

-----------------------------------------------------------------------------
(* The list, the buttons and the dialogs.                                   *)

Select(i) ==
  /\ Clickable
  /\ i \in 1 .. Len(store)
  /\ selected' = i
  /\ UNCHANGED <<data, gui, dialog, pc, task, edits, minted, hist>>

Unselect ==
  /\ Clickable
  /\ selected' = 0
  /\ UNCHANGED <<data, gui, dialog, pc, task, edits, minted, hist>>

\* showProfileForm(nil)
Add(id) ==
  /\ Clickable
  /\ id \notin minted
  /\ minted' = minted \cup {id}
  /\ dialog' = [kind |-> "form", id |-> id, idx |-> 0, isNew |-> TRUE,
                cred |-> Blank]
  /\ UNCHANGED <<data, gui, selected, pc, task, edits, hist>>

\* What LoadCredentials finds; the form stays blank if that is an error.
LoadCredentials(id) ==
  IF keyring[id] = None THEN {Blank}
  ELSE {keyring[id]} \cup (IF "keyring" \in Faults THEN {Blank} ELSE {})

\* A dialog captures the selected profile, a form also the credentials in the
\* keyring, and the confirmation of a removal the index.
Open(kind) ==
  /\ Clickable
  /\ selected \in 1 .. Len(store)
  /\ LET p == store[selected] IN
     \E cred \in IF kind = "form" THEN LoadCredentials(p.id) ELSE {None} :
       /\ dialog' = [kind |-> kind, id |-> p.id, cred |-> cred, isNew |-> FALSE,
                     idx |-> IF kind = "form" THEN 0 ELSE selected]
       /\ misread' = IF \/ cred \notin {None, typed[p.id]} /\ p.id \notin unsaved
                        \/ \E t \in On(p.id) : pc[t] \in Pending
                       THEN misread \cup {p.id} ELSE misread
       /\ spoilt' = spoilt \cup (IF On(p.id) = {} THEN {} ELSE {p.id})
       /\ task' = [t \in Task |-> IF t \in On(p.id)
                                    THEN [task[t] EXCEPT !.clean = FALSE]
                                    ELSE task[t]]
  /\ UNCHANGED <<data, gui, selected, pc, edits, minted, typed, unsaved, lost,
                 stale>>

EditSelected   == Open("form")
RemoveSelected == Open("confirm")

Answerable == gui = "on" /\ dialog # None /\ \A t \in Task : pc[t] # "login"

Cancel ==
  /\ Answerable
  /\ dialog' = None
  /\ UNCHANGED <<data, gui, selected, pc, task, edits, minted, hist>>

\* Variant: the dialog stays open until the goroutine has answered.
ConfirmOpen(t, l, captured) ==
  /\ Answerable
  /\ ~Active(t)
  /\ Goto(t, l)
  /\ task' = [task EXCEPT ![t] = captured]
  /\ UNCHANGED <<data, gui, selected, dialog, minted, unsaved, misread, spoilt,
                 lost, stale>>

\* The dialog is confirmed: a goroutine takes what it has captured.
Confirm(t, l, captured) ==
  /\ Answerable
  /\ ~Active(t)
  /\ Goto(t, l)
  /\ task' = [task EXCEPT ![t] = captured]
  /\ dialog' = None
  /\ UNCHANGED <<data, gui, selected, minted, unsaved, misread, spoilt, lost,
                 stale>>

\* The credentials are those that the form showed, or typed anew.
Save(t) ==
  /\ dialog # None /\ dialog.kind = "form"
  /\ edits < MaxRev
  /\ edits' = edits + 1
  /\ \E cred \in {dialog.cred, edits + 1} :
       /\ Confirm(t, "saveCreds",
                  [id |-> dialog.id, rev |-> edits + 1, idx |-> 0,
                   isNew |-> dialog.isNew, cred |-> cred,
                   clean |-> On(dialog.id) = {}])
       /\ typed' = IF cred = edits + 1
                     THEN [typed EXCEPT ![dialog.id] = cred] ELSE typed

Remove(t) ==
  /\ dialog # None /\ dialog.kind = "confirm"
  /\ Confirm(t, "remove", Job(dialog.id, 0, dialog.idx))
  /\ UNCHANGED <<edits, typed>>

\* connectSelected, also from the tray, which no dialog covers.
ConnectSAML(t) ==
  /\ gui = "on" /\ ~Active(t)
  /\ selected \in 1 .. Len(store)
  /\ LET p     == store[selected]
         other == On(p.id) # {} \/ (dialog # None /\ dialog.id = p.id)
     IN /\ task' = [u \in Task |->
              IF u = t THEN Job(p.id, p.rev, 0)
              ELSE IF u \in On(p.id) THEN [task[u] EXCEPT !.clean = FALSE]
              ELSE task[u]]
        /\ spoilt' = spoilt \cup (IF other THEN {p.id} ELSE {})
  /\ Goto(t, "load")
  /\ UNCHANGED <<data, ui, edits, minted, typed, unsaved, misread, lost, stale>>

-----------------------------------------------------------------------------
(* saveProfile's goroutine.                                                 *)

\* Variant: the keyring's error is not looked at.
SaveCredsUnseen(t) ==
  LET id   == task[t].id
      mine == IF Typing(t) THEN {id} ELSE {}
  IN
  /\ pc[t] = "saveCreds"
  /\ \/ /\ keyring' = [keyring EXCEPT ![id] = task[t].cred]
        /\ unsaved' = unsaved \ mine
     \/ "keyring" \in Faults /\ UNCHANGED <<keyring, unsaved>>
  /\ Goto(t, "apply")
  /\ UNCHANGED <<store, file, daemon, ui, task, edits, minted, typed, misread,
                 spoilt, lost, stale>>

\* A keyring that refuses is reported, and ends the Save.
SaveCreds(t) ==
  LET id   == task[t].id
      mine == IF Typing(t) THEN {id} ELSE {}
  IN
  /\ pc[t] = "saveCreds"
  /\ \/ /\ keyring' = [keyring EXCEPT ![id] = task[t].cred]
        /\ unsaved' = unsaved \ mine
        /\ Goto(t, "apply")
        /\ UNCHANGED task
     \/ /\ "keyring" \in Faults
        /\ unsaved' = unsaved \cup mine
        /\ Finish(t)
        /\ UNCHANGED keyring
  /\ UNCHANGED <<store, file, daemon, ui, edits, minted, typed, misread, spoilt,
                 lost, stale>>

\* Variant: the closure is queued whether or not the daemon has refused.
ApplyAnyway(t) ==
  /\ pc[t] = "apply"
  /\ \/ daemon' = [daemon EXCEPT ![task[t].id] = <<task[t].rev, task[t].cred>>]
     \/ "daemon" \in Faults /\ UNCHANGED daemon
  /\ Goto(t, "persist")
  /\ UNCHANGED <<store, file, keyring, ui, task, edits, minted, hist>>

\* ApplyProfile.  When it fails, it may have done its work nevertheless.
Apply(t) ==
  LET id == task[t].id
      given == [daemon EXCEPT ![id] = <<task[t].rev, task[t].cred>>]
  IN
  /\ pc[t] = "apply"
  /\ \/ /\ daemon' = given
        /\ Goto(t, "persist")
        /\ UNCHANGED <<task, spoilt>>
     \/ /\ "daemon" \in Faults
        /\ daemon' \in {daemon, given}
        /\ Finish(t)
        /\ spoilt' = spoilt \cup {id}
  /\ UNCHANGED <<store, file, keyring, ui, edits, minted, typed, unsaved,
                 misread, lost, stale>>

\* The store once p has been saved: appended if new, else replaced by ID.
Saved(p, isNew) ==
  IF isNew THEN Append(store, p)
  ELSE [i \in 1 .. Len(store) |-> IF store[i].id = p.id THEN p ELSE store[i]]

\* SaveStore writes the list in place, which a full disk or a crash cuts.
Whole(s) == [list |-> s, whole |-> TRUE]
Torn(s)  == [list |-> s, whole |-> FALSE]

SaveStore(s) ==
  \/ file' = Whole(s) /\ lost' = FALSE
  \/ "disk" \in Faults /\ file' \in {file, Torn(s)} /\ lost' = TRUE

Persist(t) ==
  LET p == [id |-> task[t].id, rev |-> task[t].rev]
      s == Saved(p, task[t].isNew)
  IN
  /\ gui = "on" /\ pc[t] = "persist"
  /\ store' = s
  /\ SaveStore(s)
  /\ spoilt' = IF task[t].clean /\ On(p.id) = {t} /\ p.id \in Listed(s)
                 THEN spoilt \ {p.id} ELSE spoilt
  /\ Finish(t)
  /\ UNCHANGED <<keyring, daemon, ui, edits, minted, typed, unsaved, misread,
                 stale>>

-----------------------------------------------------------------------------
(* removeSelected's goroutine.                                              *)

RemoveProfile(t) ==
  LET id == task[t].id IN
  /\ pc[t] = "remove"
  /\ \/ /\ daemon' = [daemon EXCEPT ![id] = None]
        /\ Goto(t, "forget")
        /\ UNCHANGED <<task, spoilt>>
     \/ /\ "daemon" \in Faults
        /\ daemon' \in {daemon, [daemon EXCEPT ![id] = None]}
        /\ Finish(t)
        /\ spoilt' = spoilt \cup {id}
  /\ UNCHANGED <<store, file, keyring, ui, edits, minted, typed, unsaved,
                 misread, lost, stale>>

\* The error of DeleteCredentials is dropped.
Forget(t) ==
  LET id == task[t].id IN
  /\ pc[t] = "forget"
  /\ \/ /\ keyring' = [keyring EXCEPT ![id] = None]
        /\ typed' = [typed EXCEPT ![id] = Blank]
        /\ UNCHANGED spoilt
     \/ /\ "keyring" \in Faults
        /\ spoilt' = spoilt \cup {id}
        /\ UNCHANGED <<keyring, typed>>
  /\ Goto(t, "unlist")
  /\ UNCHANGED <<store, file, daemon, ui, task, edits, minted, unsaved, misread,
                 lost, stale>>

\* The process ends, and the goroutines with it.
Gone(how) ==
  /\ gui' = how
  /\ selected' = 0 /\ dialog' = None
  /\ pc' = [t \in Task |-> "idle"] /\ task' = [t \in Task |-> NoTask]
  /\ spoilt' = spoilt \cup {task[t].id : t \in {u \in Task : Active(u)}}
  /\ unsaved' = unsaved \cup {task[t].id : t \in {u \in Task : Typing(u)}}
  /\ UNCHANGED <<keyring, daemon, edits, minted, typed, misread>>

Without(s, i) == [j \in 1 .. Len(s) - 1 |-> IF j < i THEN s[j] ELSE s[j + 1]]

\* Indices captured by others, which this removal makes stale.
Captured(t) ==
  \/ dialog # None /\ dialog.kind = "confirm"
  \/ \E u \in Task \ {t} : pc[u] \in RemovePc

\* Variant: the closure takes the index that is selected when it runs.
UnlistSelected(t) ==
  /\ gui = "on" /\ pc[t] = "unlist"
  /\ IF selected = 0
       THEN Gone("panicked") /\ UNCHANGED <<store, file, lost>>
       ELSE /\ store' = Without(store, selected)
            /\ SaveStore(store')
            /\ selected' = 0
            /\ Finish(t)
            /\ UNCHANGED <<keyring, daemon, gui, dialog, edits, minted, typed,
                          unsaved, misread, spoilt>>
  /\ UNCHANGED stale

\* Variant: the selection stays where it was.
UnlistKeepSelection(t) ==
  /\ gui = "on" /\ pc[t] = "unlist"
  /\ task[t].idx <= Len(store)
  /\ store' = Without(store, task[t].idx)
  /\ SaveStore(store')
  /\ Finish(t)
  /\ stale' = (stale \/ Captured(t))
  /\ UNCHANGED <<keyring, daemon, ui, edits, minted, typed, unsaved, misread,
                 spoilt>>

\* The closure removes by the index captured when the dialog was opened.
Unlist(t) ==
  /\ gui = "on" /\ pc[t] = "unlist"
  /\ IF task[t].idx > Len(store)
       THEN Gone("panicked") /\ UNCHANGED <<store, file, lost>>
       ELSE /\ store' = Without(store, task[t].idx)
            /\ SaveStore(store')
            /\ selected' = 0
            /\ Finish(t)
            /\ UNCHANGED <<keyring, daemon, gui, dialog, edits, minted, typed,
                          unsaved, misread, spoilt>>
  /\ stale' = (stale \/ Captured(t))

-----------------------------------------------------------------------------
(* connectSAML's goroutine.                                                 *)

\* Without a pre-shared key in the keyring there is nothing to connect with.
LoadCreds(t) ==
  /\ pc[t] = "load"
  /\ \/ Finish(t)
     \/ /\ keyring[task[t].id] \notin {None, Blank}
        /\ Goto(t, "begin")
        /\ task' = [task EXCEPT ![t].cred = keyring[task[t].id]]
  /\ UNCHANGED <<data, ui, edits, minted, hist>>

\* Only one login at a time gets port 8020; the gateway may be unreachable.
Begin(t) ==
  /\ pc[t] = "begin"
  /\ \/ /\ \A u \in Task : pc[u] # "login"
        /\ Goto(t, "login")
        /\ UNCHANGED task
     \/ Finish(t)
  /\ UNCHANGED <<data, ui, edits, minted, hist>>

\* The browser comes back, or the login is cancelled or times out.
Login(t) ==
  /\ pc[t] = "login"
  /\ \/ Goto(t, "reapply") /\ UNCHANGED task
     \/ Finish(t)
  /\ UNCHANGED <<data, ui, edits, minted, hist>>

\* ApplyProfile with the profile, and the PSK, of when Connect was pressed.
Reapply(t) ==
  LET id == task[t].id
      given == [daemon EXCEPT ![id] = <<task[t].rev, task[t].cred>>]
  IN
  /\ pc[t] = "reapply"
  /\ daemon' \in {given} \cup (IF "daemon" \in Faults THEN {daemon} ELSE {})
  /\ Finish(t)
  /\ UNCHANGED <<store, file, keyring, ui, edits, minted, hist>>

-----------------------------------------------------------------------------
(* Quitting, from the tray or by a crash, and starting again.               *)

Quit ==
  /\ "quit" \in Faults
  /\ gui = "on"
  /\ Gone("off")
  /\ UNCHANGED <<store, file, lost, stale>>

\* The process is killed while SaveStore writes the file.
CrashInSave(t) ==
  /\ "crash" \in Faults
  /\ gui = "on" /\ pc[t] = "persist"
  /\ file' = Torn(Saved([id |-> task[t].id, rev |-> task[t].rev], task[t].isNew))
  /\ Gone("off")
  /\ UNCHANGED <<store, lost, stale>>

\* What is left of a torn file may parse as a shorter list, or not at all.
Start ==
  /\ gui # "on"
  /\ gui' = "on"
  /\ \E n \in IF file.whole THEN {Len(file.list)} ELSE 0 .. Len(file.list) :
       store' = SubSeq(file.list, 1, n)
  /\ spoilt' = IF file.whole /\ file.list = store THEN spoilt ELSE Id
  /\ lost' = ~file.whole
  /\ UNCHANGED <<file, keyring, daemon, selected, dialog, pc, task, edits,
                 minted, typed, unsaved, misread, stale>>

-----------------------------------------------------------------------------
Init ==
  /\ gui = "on"
  /\ store = <<>> /\ file = Whole(<<>>)
  /\ keyring = [id \in Id |-> None] /\ daemon = [id \in Id |-> None]
  /\ selected = 0 /\ dialog = None
  /\ pc = [t \in Task |-> "idle"] /\ task = [t \in Task |-> NoTask]
  /\ edits = 0 /\ minted = {}
  /\ typed = [id \in Id |-> Blank] /\ unsaved = {} /\ misread = {}
  /\ spoilt = {} /\ lost = FALSE /\ stale = FALSE

Next ==
  \/ \E i \in 1 .. Len(store) : Select(i)
  \/ Unselect
  \/ \E id \in Id : Add(id)
  \/ EditSelected \/ RemoveSelected \/ Cancel
  \/ \E t \in Task :
       \/ Save(t) \/ Remove(t) \/ ConnectSAML(t)
       \/ SaveCreds(t) \/ Apply(t) \/ Persist(t)
       \/ RemoveProfile(t) \/ Forget(t) \/ Unlist(t)
       \/ LoadCreds(t) \/ Begin(t) \/ Login(t) \/ Reapply(t)
       \/ CrashInSave(t)
  \/ Quit \/ Start

Spec == Init /\ [][Next]_vars

-----------------------------------------------------------------------------
(* Properties.                                                              *)

Rev     == 0 .. MaxRev
Entry   == [id : Id, rev : Rev]
Capture == [id : Id \cup {None}, rev : Rev, idx : Nat, isNew : BOOLEAN,
            cred : Rev \cup {None}, clean : BOOLEAN]

\* Every variable stays in its type; the selection stays within the list.
TypeOK ==
  /\ gui \in {"on", "off", "panicked"}
  /\ store \in Seq(Entry) /\ file.list \in Seq(Entry)
  /\ keyring \in [Id -> Rev \cup {None}]
  /\ daemon \in [Id -> (Rev \X Rev) \cup {None}]
  /\ selected \in 0 .. Len(store)
  /\ dialog = None \/ dialog.id \in Id
  /\ pc \in [Task -> {"idle"} \cup SavePc \cup RemovePc \cup SamlPc]
  /\ task \in [Task -> Capture]
  /\ typed \in [Id -> Rev]
  /\ unsaved \subseteq Id /\ misread \subseteq Id /\ spoilt \subseteq Id

\* The four places agree.  While the window is on, profiles.toml is the list,
\* from the next write of it on if one has failed.  Between two calls, a
\* profile no goroutine is busy with is either in the list once, with the
\* daemon holding that revision of it and the credentials in the keyring, or
\* gone from all of them.  The latter holds for every profile but those a
\* failure, a quit or an overlap has left uneven, and again for those once a
\* Save of theirs succeeds, as long as no removal shortened the list under
\* another that had captured an index.
Agreement ==
  /\ gui = "on" /\ ~lost => file = Whole(store)
  /\ \A id \in Id \ spoilt :
       gui = "on" /\ On(id) = {} /\ ~stale =>
         LET at == {i \in 1 .. Len(store) : store[i].id = id} IN
         \/ at = {} /\ daemon[id] = None /\ keyring[id] = None
         \/ \E i \in at : /\ at = {i}
                          /\ keyring[id] # None
                          /\ daemon[id] = <<store[i].rev, keyring[id]>>

\* What the user types is what the keyring holds, from the moment the Save it
\* was typed for has written it, although every Save writes back what its form
\* read when it was opened, and a SAML login carries a copy for minutes.  Only
\* a Save that ends before it has written, by an error that it reports or with
\* the GUI, leaves the older ones there.  A profile is exempt once a form of it
\* showed something else than the user typed and the keyring holds: because
\* the keyring could not be read, or because a Save or a removal that was still
\* to change it was under way.
NewestKept ==
  \A id \in Id \ (misread \cup unsaved) :
    (\A t \in On(id) : ~Typing(t)) => keyring[id] \in {None, typed[id]}

\* The closure of a removal never indexes past the list, which would panic
\* and end the GUI, unless another removal has shortened it meanwhile.
NoPanic == gui = "panicked" => stale

\* However fast Save is clicked, and whatever a crash leaves of the file, the
\* list names a profile once: an entry is appended for a new profile only.
ListedOnce ==
  \A i, j \in 1 .. Len(store) : store[i].id = store[j].id => i = j

RevsOf(s, id) == {s[i].rev : i \in {j \in 1 .. Len(s) : s[j].id = id}}

\* A change of the list is the end of the task whose profile it changes.
OwnEntry ==
  gui = "on" /\ gui' = "on" /\ ~stale /\ store' # store =>
    \A id \in Id : RevsOf(store', id) # RevsOf(store, id) =>
      \E t \in Task : /\ pc[t] \in {"persist", "unlist"} /\ pc'[t] = "idle"
                     /\ task[t].id = id

\* While the window is on, a profile's entry appears, changes or vanishes only
\* by the closure of a Save or a removal of that very profile, however many
\* others finish meanwhile, unless an index that was captured has gone stale.
OwnEntryOnly == [][OwnEntry]_vars

\* app.go:300 says that a Save persists the credentials only after ApplyProfile
\* has succeeded.  Then, between two calls, the daemon has those in the keyring.
PersistedAreApplied ==
  \A id \in Id : On(id) = {} /\ keyring[id] # None =>
    daemon[id] # None /\ daemon[id][2] = keyring[id]

\* app.go:301 says that profiles.toml never references a profile the daemon
\* does not know about.  That is, when no goroutine is at work.
KnownProfiles ==
  (\A t \in Task : ~Active(t)) =>
    \A id \in Listed(file.list) : daemon[id] # None
=============================================================================
