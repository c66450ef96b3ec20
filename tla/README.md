# fortivpn-client: specifications

TLA+ models of `fortivpn-client`, an IPsec client for FortiGate gateways: an
unprivileged Fyne GUI, a root daemon it calls over D-Bus, and strongSwan's
charon, which the daemon drives through files and the `swanctl` command. TLC
checks every model on small instances; TLAPS proves all safety properties of the
passing runs for every value of the constants.

    tlc -config DaemonFaults.cfg MCDaemon     # a run: <name>.cfg with its MC module
    tlapm DaemonProofs.tla                    # the proofs, some minutes;
    tlapm ProfilesProofs.tla                  # the other proof modules take less

## The system

| part | code | state it keeps | operations |
|---|---|---|---|
| daemon | `internal/daemon` | `/etc/swanctl/swanctl.conf`, two files per profile under `conf.d`; no memory of its own | `Status`, `ApplyProfile`, `Connect`, `Disconnect`, `RemoveProfile` |
| polkit check | `internal/daemon/polkit.go` | none | one question per mutating call |
| rendering | `internal/profile/swanctl.go` | none | `RenderConf`, `RenderSecrets` |
| profile and store | `internal/profile/profile.go`, `store.go` | `profiles.toml` | `LoadStore`, `SaveStore`, `NewID`, `ConnName` |
| status parser | `internal/profile/status.go` | none | `ParseListSAS` |
| GUI | `internal/guiapp/app.go`, `proplist.go`, `tray.go` | list, selection, state of the primary button | add, edit, remove, connect, disconnect, quit |
| form | `internal/guiapp/profileform.go`, `internal/profile/dhgroups.go` | the fields, the proposal pickers | open, choose a version, save, cancel |
| status polling | `internal/guiapp/statuspoll.go` | the primary button, the state dots, the card | the ticker, `pollSelected`, `pollOthers` |
| credentials | `internal/guiapp/credentials.go` | the keyring | save, load, delete |
| SAML login | `internal/saml` | the listener on port 8020, a result channel | `Begin`, the handler, `Wait`, `Close` |
| strongSwan, gateway, browser, DNS, polkit | not in the repository | loaded configuration, SAs, tabs, addresses | external; modelled from their use |

How they interact. The GUI starts a goroutine for every save, removal or SAML
connect; it makes blocking D-Bus calls and returns to the UI thread with `fyne.Do`.
A ticker polls the daemon every two seconds, and so does every click on the list,
each on a goroutine of its own. The D-Bus library runs each incoming call on a
goroutine, and the daemon has no lock: calls share the files and charon.
`ApplyProfile` rewrites `swanctl.conf` if it does not mention `conf.d`, writes a
conf and a secrets file, and runs `swanctl --load-all`. `Connect` reads the conf
back to learn its children and runs one `swanctl --initiate` for each. A SAML login
puts a one-time token into the secrets with a second `ApplyProfile`, then connects.

What is hard here: the interleaving of calls that share files and charon;
`os.WriteFile`, which truncates, then writes; errors that are dropped (`os.Remove`,
`DeleteCredentials`) or joined (the children of a Connect); a daemon killed in the
middle; charon and the gateway, which may stop, refuse, narrow, or never answer;
values captured before a daemon call of any length and used after it (an index, a
profile, a pre-shared key); status answers that are late or overtake each other, on
their way to a button that connects or disconnects by what it shows; a form that
works its choices out again from the strings it saved; one port for many logins; a
DNS answer at save time, used at connect time. `PROJECT.json` lists each of these hazards at
its line with the properties that watch it, or the reason why none does.

## The modules

| module | what it is |
|---|---|
| `Daemon` | the five methods, one step per file operation, command or reply |
| `AuthGate` | what the polkit check promises; `Daemon` implements it |
| `DaemonProofs` | the theorems about `Daemon` |
| `ProfileForm` | the form as functions: what it shows of a profile and what Save makes of it |
| `ProfileFormProofs` | theorem and lemmas about the form: proposals are complete, and a saved profile keeps them |
| `SwanctlConf` | extends `ProfileForm`: a profile from the form through rendering to a tunnel |
| `SwanctlConfProofs` | the theorems about `SwanctlConf` |
| `Profiles` | where the GUI keeps a profile, and the goroutines that change it |
| `ProfilesProofs` | the theorems about `Profiles` |
| `SamlLogin` | logins through the browser |
| `LoginDesk` | what such a login promises; `SamlLogin` implements it |
| `SamlLoginProofs` | the theorems about `SamlLogin` |
| `StatusView` | status polling, `ParseListSAS`, and what the window shows |
| `StatusViewProofs` | the theorems about `StatusView` |
| `MCDaemon`, `MCSwanctlConf`, `MCProfiles`, `MCSamlLogin`, `MCStatusView` | their instances for TLC |

Operators introduced by a comment "Variant:" are not part of any model: each is
a plausible mistake in the definition that follows it, used to show that a
property can fail.

### Daemon

A call is a process. `pc[k]` is `idle`, `authorize` (polkit has been asked), one
of the `Working` steps, or one of `ok`, `failed` (the two D-Bus replies) and
`lost` (the daemon was killed).

| handler | steps |
|---|---|
| entry, `authorize`, `validateConnName` | `Request`, `Admit`, `Deny` |
| `applyProfile` | `ReadMain`, `TruncMain`, `WriteMain` (`ensureConfDIncluded`), `CheckIke`, `EnsureXauth` (`requireIkev1`), `TruncConf`, `WriteConf`, `TruncSec`, `WriteSec`, `ReadAll`, `LoadAll` |
| `removeProfile` | `RmConf`, `RmSec`, `ReadAll`, `LoadAll` |
| `connect` | `Start`, `ConnectStarted` (`ensureStrongswanRunning`), `Peek`, `EnsureXauth`, `XauthStarted`, `List`, then `Initiate`, `Initiated` for each child |
| `disconnect`, `status` | `Terminate`, `ListSas` |

A file holds a profile's text (`Payload`), nothing (`Absent`), what `WriteFile`
leaves between truncation and write (`Blank`), or one text over the tail of another
(`Garbled`). `held[k]` says that the file a call has open is still the one in the
directory. charon keeps its own copy of conf and secrets (`lconf`, `lsec`), with
`ike` and `child` for the SAs. `swanctl --load-all` is a program of its own that
reads the files and then sends them: `ReadAll` fills `rconf` and `rsec` of the call
that waits for it, `LoadAll` hands them to charon, and anything may happen in
between, another call's load-all included. So does the unit that starts charon,
which may load `conf.d` itself (`EnsureRunning`, then `ConnectStarted` or
`XauthStarted`); a second start waits until the first is done. The reading is one
step and so is the sending. A load-all that reads one file before and another after
a write is, when the writer reads for its own, done, and overridden by it, or still
to send, and then counts as crossing it (`intact`). `swanctl.conf` may speak of
`conf.d` without including it (`mention`), which satisfies `ensureConfDIncluded`. Of
a profile only what the daemon's control depends on is kept: IKE version, XAuth,
number of children.

`Faults` chooses what the environment may do wrong: fail a read, write or unlink,
kill the daemon, stop strongSwan or keep it from starting, lack a plugin, refuse an
entry, have `swanctl.conf` mention `conf.d` only; reject credentials, refuse a
child, stay silent, drop an SA. `Init` is what earlier runs of the daemon can have
left. A mode of failure that is left out: a `swanctl` command that never returns.

`alone` and `latest` record whether a call ran without a conflicting one: both
calls concern one connection, neither is a Status, and they are not a Disconnect with a
save or removal. The promises of a reply are stated for undisturbed calls;
calls for *other* connections may do whatever they like meanwhile. What charon
has loaded is the exception, since every load-all loads everything: `intact`
records that nothing crossed the load-all of a call: none that read before it
was still to send, nobody truncated `swanctl.conf`, and charon did not stop.
`err` holds the children that a Connect has failed with and, as history, the
files that a removal could not unlink. `presented` counts how often a Connect has
had credentials presented in vain: each IKE_SA that is rejected adds up to
`MaxPrompts`, as the gateway asks again (the repository's `README.md:186`).

### AuthGate

State: `swanctl.conf`, the entries, the connections that are up, and the grants
in force. Files and tunnels change only under a grant for that connection and
method. `Gate` in `Daemon` maps a grant to a call that polkit has admitted and
that has not replied.

### ProfileForm

No state: `Forms` is everything the form can be made to say, `Refused` what its
Save button refuses, `Saved` the profile it makes, `Shown` the form that is
opened for a profile, and `ChooseVersion` the reaction to another IKE version.
A checklist of the proposal pickers is the sequence of what is ticked.
`BuildProposals` is `buildProposals` (the nested loops are one sequence over
index arithmetic, `appendUnique` keeps first occurrences) and `Seed` is
`seedProposalPickers`. `Ciphers` and `Integrities` are the parts a proposal can
have; of `DHGroups` only what the code uses is assumed: labels and keywords are
unique.

### SwanctlConf

One profile, in sequence: `Save` enumerates what the form can produce, `Edit` opens
the form on what was saved and saves it again, as it is or with the other IKE
version, `Apply` renders it, `Connect` reads the child names back out of the
rendered blocks, `Phase1` looks up PSK and user secret as charon does, and
`Initiate` has the gateway narrow an IKEv1 child to one pair of selectors. DNS
answers change between the steps. Texts are abstracted to fields, except the block
headers with their indentation, which `childNamesFromConf` depends on.

### Profiles

`store` (the list), `file` (`profiles.toml`), `keyring` and `daemon` (what the
daemon was last given), with revision numbers for the contents. A form captures
the credentials `LoadCredentials` finds, none if it fails, and Save writes back
those or new ones. History: `typed` is what the user typed last, set when Save is
pressed; `unsaved` are the profiles whose Save ended, by an error or with the
GUI, before that was in the keyring; `misread` those whose form showed something
else; `lost` says that the last write of `profiles.toml` failed, or that a torn one was
found. `pc` and `task`
are the goroutines of `saveProfile`, `removeSelected` and `connectSAML` with
what they captured; the closures they queue on the UI thread (`Persist`,
`Unlist`) are steps. `dialog` is the open form or confirmation. A failed daemon
call may or may not have done its work; `SaveStore` overwrites in place and may
be cut; `Quit` and `CrashInSave` end all goroutines, and `Start` reads back what
is left.

### SamlLogin

A session per login: `Listen` takes the port, `Post` asks the gateway for its
page, `Show` opens dialog and tab, `Callback` is the handler (a channel of one
place), `Wait` is the select between result and context, `Close` gives the port
back, then `Apply` and `Connect`. `Cancel` and `Expire` end the context. A tab
that has logged in can come back any number of times, to whichever login
listens then. `SaveProfile` is the form's `ApplyProfile`, or a removal, of any
profile at any time: it takes the token away, also between `Apply` and
`Connect`. That the form can turn the profile into one without SAML is not seen.

### LoginDesk

Of a login only its phase (`out`, `queue`, `port`, `token`, `given`, `over`), the
one login at the port, the token each has heard, and what the daemon was given and
has presented (whatever one Connect does with it; how often it is presented per
child is `AttemptPerChild`'s matter). A login comes to the port once and alone,
hears at most one token there, and only with one goes on to the daemon, after it has
left the port. A save may take the token back. `Desk` in `SamlLogin` maps the places
of `connectSAML` to phases (`PhaseOf`) and what `Wait` has returned to the token;
pages, tabs, dialogs, contexts and the channel are not seen.

### StatusView

`poll[k]` is a goroutine that runs `pollSelected` (`ask`, `call`, `show`) or a
SAML login that is under way (`login`); `others` is `pollOthers`, which the
ticker runs every `Every`-th tick. `Choose` and `Show` are the closures on the UI
thread, `Answer` is the daemon's `Status` with `ParseListSAS` behind it. An
output of `--list-sas` is the sequence of its header lines, each with whether
an INSTALLED child follows; `Charon` replaces it by any other, or by `Down`.
`Display` sets the button, the card and the dot together, for the profile that
was asked about, even if another one is selected by then; `ConnectSelected`
sets button and card ahead of charon; `LoginEnds` may reset the button for
whatever is selected.

### How the models fit together

The GUI reaches the daemon through calls only, so `Profiles` takes each call as
one step that stores what it was given, or fails and may have stored it
nevertheless. What lies behind is `Daemon`: `AppliedIsInstalled` and
`RemovedIsGone`, both proved, say that a call that is answered "ok", and that no
other call for its connection disturbed, has done just that to the files, and to
charon if nothing crossed its load-all. Where calls for
one profile do overlap, `Profiles` marks it `spoilt` and promises nothing of it
either. `StatusView` takes tunnels as an environment that may do anything, which
covers whatever `Daemon` does to them. `SamlLogin` and `Profiles` both have
`connectSAML`: one with the port, the browser and the token, the other with what
it captured of the profile.

## The runs

| run | result | bounds | what it shows |
|---|---|---|---|
| `DaemonFaults` | pass | 2 calls, 2 profiles and an invalid name, all faults of files, daemon and start-up | `TypeOK`, `AppliedIsInstalled`, `RemovedIsGone`, `AdminTextKept`, `GateSpec` |
| `DaemonTunnels` | pass | 2 calls of any method on one connection, 2 networks, 2 prompts, all faults of the tunnel, a missing plugin, a kill and a stop | `ConnectBringsAll`, `DisconnectClears`, `AttemptPerChild`, `Answered`, `NearerReply`, `GateSpec` |
| `ConfTunnel` | pass | 2 networks, 2 addresses, a host, 2 ciphers, 2 integrities, 2 groups, 3 ways to tick the pickers, 3 SAML endpoints, every combination of the rest of the form | `TypeOK`, `AllNetworksRouted`, `PskBound`, `UserSecretFound`, `RoundTrip` |
| `ProfilesSaved` | pass | 2 profiles, 2 goroutines, 2 saves, all faults | `TypeOK`, `Agreement`, `NewestKept`, `NoPanic`, `ListedOnce`, `OwnEntryOnly` |
| `SamlLogin` | pass | 2 logins, 2 profiles | `TypeOK`, `FreshToken`, `PortFreed`, `Ended`, `DeskSpec` |
| `StatusView` | pass | 2 profiles, the ticker and a click, others every 2nd tick, 2 outputs and a stopped strongSwan | `TypeOK`, `OwnState`, `Settles`, `DotsSettle`, `NoFlicker` |
| `DaemonOverlap` | violation | 2 calls: saves of one profile, a removal of another, no faults | `AppliedIsLoaded` |
| `DaemonCancel` | violation | 2 calls | `DisconnectHolds` |
| `DaemonLockout` | violation | 1 call, rejected credentials | `OneCredentialAttempt` |
| `ProfilesKnown` | violation | as `ProfilesSaved`, no faults | `KnownProfiles` |
| `ProfilesApplied` | violation | 1 profile, 1 goroutine, failing daemon calls | `PersistedAreApplied` |
| `SamlStray` | violation | as `SamlLogin` | `OneTimeToken` |

Why the bounds are enough to be of interest. The daemon's hazards are between two
calls, for one profile or for two: two suffice to interleave any pair of handlers,
and the proofs cover three and more, a load-all that falls between the steps of two
others among them. Two networks make a split tunnel with a first and a later child.
Two goroutines and two profiles are what a stale index needs; two saves give a
profile an old and a new revision. Two logins make an old tab. Three ways to tick
give a cross product with several groups, one with none, and one that is refused.
Two pollers let an older answer overtake a newer one, and the two outputs hold every
state, an SA that is going next to one that is up, and blocks of both connections in
one output. With one click at a time nobody selects a row while a login is under
way: that a login fails when another row is selected is in the module, and in the
proofs, but not in the run. The bounds do not matter to the proofs, which are for
any number of calls, connections, profiles, networks, logins and polls, and any
output. Calls, profiles and goroutines are interchangeable where the configurations
declare symmetry; runs with temporal properties declare none, and neither does
`DaemonFaults`.

Deadlock is not checked for `Daemon` (the calls of an instance run out) or for
`Profiles` (a panicked or closed GUI need not start again, and the bound on
saves ends the rest). `SamlLogin` has an explicit step of rest.

Fairness. `Daemon!FairSpec`: weak fairness of each call's own steps. Go schedules
every goroutine, and a `swanctl` or `systemctl` command returns; in particular a
start of strongSwan that a second call waits for, and `--initiate`, which ends
because `keyingtries = 1` and charon's retransmission limit end a negotiation with a
silent gateway. There is none for polkit (an unanswered prompt may stay) or for
requests. `SamlLogin!FairSpec`: the goroutine between its prompts, the UI thread and
the five-minute timer; none for the browser or the user, and none for `Load`,
`Apply` and `Connect` (`Prompting`), which may wait at a question of the keyring or
of polkit that nobody answers and that no timeout of the login ends. `Ended`
promises an end or such a wait, with the dialog closed. `StatusView!FairSpec`:
goroutines, the ticker and the UI thread run, and `--list-sas` returns; none for
users, logins and tunnels, so `Settles` and `DotsSettle` promise agreement unless
the world keeps changing. The other modules have safety properties only.

### What the violated properties show

* `DaemonOverlap`. A load-all that a removal of one profile began can send what it
  read after another profile's save has loaded its entry, and unload that again. The
  same loads a removed entry again; `AppliedIsInstalled` and `RemovedIsGone` promise
  of charon only what holds without such a crossing (`intact`). Two overlapping
  saves of one profile break `AppliedIsLoaded` too: one's conf with the other's
  secrets, or with none.
* `DaemonCancel`. A Disconnect between two `--initiate` commands of a Connect says
  it succeeded, and the connection comes up again.
* `DaemonLockout`. Rejected credentials are presented once per network of an IKEv1
  split tunnel, where `keyingtries = 1` was set to present them once. What is left
  of that is `AttemptPerChild`, which is proved: one `--initiate` per network, and
  for each as many presentations as the gateway asks for within one IKE_SA (the
  repository's `README.md:186` says up to three).
* `ProfilesKnown`. A removal deletes by the index of when its dialog was opened.
  With another removal in between it unlists the wrong profile, or panics.
* `ProfilesApplied`. `saveProfile`'s comment says that credentials are persisted
  only after `ApplyProfile` succeeds; the code saves them first, and they stay when
  the call fails.
* `SamlStray`. A tab of an earlier login that comes back to port 8020 gives its
  token to the login that listens there now, under that one's UID. Where no tab goes
  astray, a second login of one profile can still put its token into the secrets
  between the Apply and the Connect of the first. `FreshToken`, which is proved,
  says that these two are the only ways.

Other disagreements and oddities, which the modules have and which have no run of
their own:

* Saving fails at its load-all while strongSwan is stopped, with both files written,
  unless the profile uses IKEv1 with XAuth (the repository's `README.md:157` says
  that it should succeed before connecting).
* A comment in `swanctl.conf` that names `conf.d` keeps `ensureConfDIncluded` from
  including it, and what is applied is never loaded (`OnlyMentioned`).
* `RemoveProfile` replies "profile removed" even if a file could not be unlinked
  (`TheConf`, `TheSec`).
* An EAP-MSCHAPv2 profile does not present its Local ID (`LocalRounds`), although
  `profile.go:80` says that it is the identity this client presents.
* A Quit between the daemon's reply to a removal and the closure that updates the
  list leaves the removed profile in `profiles.toml`, which is against
  `KnownProfiles` as well.
* The conf of an unrelated profile is out of charon's reach for a load-all that
  falls into another call's rewriting of `swanctl.conf`; the history variable
  `intact` counts that as a crossing.
* Selecting another row leaves button and card at the state of the previous one
  until a poll answers, and a failed SAML login resets the button of whatever is
  selected. A click in between acts on the old state. `Settles` shows that it
  passes, not that no click falls into it.
* The primary button reads Cancel as soon as a SAML login has begun, but what it
  does is `disconnectSelected`, which does not end the login.
* Removing a connected profile unloads it and leaves its SAs up; no profile is left
  to disconnect them by.
* When `LoadCredentials` fails, the form opens with blank credentials, and Save
  overwrites the pre-shared key with nothing. `NewestKept` names this as an
  exception.
* A form that was open while its profile was removed re-creates the daemon's files
  and the keyring entry on Save, and the list has no entry for them.
* `seedProposalPickers` ticks a group once per proposal (it collects the groups
  without `appendUnique`). Saving unchanged is harmless, which is `RoundTrip`; what
  unticking such a group does is up to the toolkit's checklist.

## The proofs

`DaemonProofs` proves, for every `Call`, `Conn`, `Payload`, `Requests`,
`MaxNets` and `Faults` that satisfy `DaemonAssumption`:

| theorem | property | inductive invariant |
|---|---|---|
| `TypeCorrect` | `TypeOK` | `TypeInv`: the types, and where a call of each method can be (`Placed`) |
| `AdminTextSafe` | `AdminTextKept` | `AdminInv`: what a call that is rewriting has read still has the administrator's text (`HasRead`) |
| `ApplyInstalls` | `AppliedIsInstalled` | `WriterInv`, `MainInv` |
| `RemoveErases` | `RemovedIsGone` | `WriterInv`, `MainInv` |
| `DisconnectTearsDown` | `DisconnectClears` | `TunnelInv` |
| `ConnectTriesAll` | `ConnectBringsAll` | `TunnelInv` |
| `GateHolds` | `GateSpec` (the refinement of `AuthGate`) | `AllowedInv`, `LiveInv` |
| `OneAttemptPerChild` | `AttemptPerChild` | `CountInv` |
| `CallsDrawNearer` | `NearerReply` | `CountInv` |
| `WayIsBounded` | (of `StepsLeft`) | `CountInv` |

The argument. None of the properties is inductive: they speak of a call that has
replied, and say nothing of the steps that lead there. `TypeInv` therefore adds, for
each call, that its place fits its method. `SoloInv` says that as long as two calls
conflict and both are at work, neither is undisturbed; so whoever is undisturbed
owns its connection (`OthersStep`: no other call's step touches that connection's
files). `WriterInv` adds, place by place, what an undisturbed save or removal has
achieved: after `WriteConf` the conf is its profile's, and so on until the load. For
charon it follows what has been read (`Loads`): as long as the call is `intact`, its
own load-all has read what it wrote, and every load-all that is still to send by the
time it has replied has read that as well (`Fresh`), so that none brings back what
it replaced. That the entry was there to be read rests on `MainInv`: only a
`swanctl.conf` that does not mention `conf.d` is rewritten, and a rewritten one
includes it. `TunnelInv` does the same for Connect (every child below `at` is up or
in `err`) and for Disconnect, on top of `PhaseInv`: no child without its IKE_SA. The
refinement needs that a call past `authorize` has polkit's yes unless it is a
Status, and a valid name (both in `Placed`); `AllowedInv`, that a call not yet made
has no yes; and `LiveInv`, that a negotiation a call waits for is one charon has not
given up, so that a Connect whose wait ends raises nothing that was down.

`NearerReply` is the part of `Answered` that is safety. `StepsLeft` counts the steps
a call has left; `Onward` lists where each place of a handler can lead, `MovesStep`
shows that the steps of any actor move a call only so, and `CountInv` that a Connect
in its loop has children to come (`at` within `total`, `total` at most `MaxNets`).
Then every step shortens the way of a call that is served or leaves that call alone
(`CallsDrawNearer`), and the way is never longer than `2 * MaxNets + 11`
(`WayIsBounded`). What is left to TLC of `Answered` is that a step is always
possible and that fairness has it taken. `CountInv` also counts the presentations
(`Counted`, `Within`): none for a child the loop has not come to, and `MaxPrompts`
at most for each it has left behind.

The assumptions are those of `DaemonAssumption`: the shape of the constants,
that a payload is saved under its own connection, and that the markers
`Absent`, `Blank` and `Garbled` are no profiles.

`StatusViewProofs`, under `StatusAssumption`:

| theorem | property | inductive invariant |
|---|---|---|
| `TypeCorrect` | `TypeOK` | `TypeInv`: with `PollInv`, that a poll on its way has a profile, and an answer once it has been given one |
| `OwnStateShown` | `OwnState` | `OwnInv`: `DotsOwn`, `CardOwn`, and `AnswerInv`, the same of every answer on its way |
| `NothingFlickers` | `NoFlicker` | `TypeInv` |
| `ParseSound` | (of `ParseListSAS`) | none |
| `OrderIrrelevant` | (of `ParseListSAS`) | none |

`OwnState` is not inductive because the answers that will be shown are in flight:
`AnswerInv` says of each that some output justifies it *for the profile the
poll asked about*. That it holds of a new answer is `ParseSound`: for every output, of
any length and order, the parser's answer is true of the connection asked for. Its
one difficulty is the last telling header, which exists because the distances
from the end of the output are well-founded (`LastOf`). `OrderIrrelevant` follows:
but for a connection with one SA established and another being negotiated, where
two answers are right, the connection's own SAs determine the answer.

`NoFlicker` is the safety half of `Settles`: once the window agrees with the tunnel
it goes on agreeing, until the user connects or selects, or the tunnel changes.
`Agrees` alone is not kept, since a stale answer or a failed login that is on its
way may still undo it; `Quiet` says that there is none. It is kept because polls ask
about the selected profile again, are answered truthfully (`StatusSound`) and show
the answer on button, card and dot at once (`ShowAgrees`), and because a round of
the other dots brings back nothing else about the selected one (`OthersStayQuiet`).

`SamlLoginProofs`, under `SamlAssumption`:

| theorem | property | inductive invariant |
|---|---|---|
| `TypeCorrect` | `TypeOK` | `TypeInv`: with `Placed`, that a login past Wait has a token and one that has begun a profile |
| `FreshTokens` | `FreshToken` | `FreshInv` |
| `KeepsToDesk` | `DeskSpec` (the refinement of `LoginDesk`) | `HeardInv` |

`FreshInv` follows the token: what came back for a login that no other tab came to
is its own (`OwnToken`), what it applied stays until it connects, or is taken away
by a save of the profile, unless another login of it overwrites it (`Kept`), so what
it presents is its own, if it presents anything (`Presented`).

`KeepsToDesk` takes the steps one by one (`DeskStep`). A step of `connectSAML`
either stays in its phase (`StaysPut`) or is the move of that one login (`Moves`);
the dialog, the tabs and the clock are not seen. What it needs beyond `TypeInv`,
which says who has the port, is `HeardInv`: before `Wait` there is no token, so a
login whose request fails leaves the port without one.

`SwanctlConfProofs`, under `ConfAssumption`:

| theorem | property | inductive invariant |
|---|---|---|
| `SecretForUser` | `UserSecretFound` | `ConfInv` |
| `PskForGateway` | `PskBound` | `ConfInv` |
| `NetworksRouted` | `AllNetworksRouted` | `ConfInv`, `TunnelInv` |
| `ProfileKept` | `RoundTrip` | `ProfileInv` |
| `TypeCorrect` | `TypeOK` | `ProfileInv`, `TunnelInv`, `RestOK` |

The first two speak of what happens after the entry has been rendered, so `ConfInv` adds
that the profile being connected is one the form can make (`ShapeInv`: it has a
gateway and one of five modes of authentication, which `SavedShape` and
`EditedShape` show of every form, new or opened again), and that nothing is
connected that was not applied (`PhaseInv`). The rest is `LocalRoundsShape`, that
the rounds of the entry ask for the secrets that `RenderSecrets` writes, and
`PskMissing`, that the identities bound to the PSK leave out no address but one that
the DNS has given since.

For `NetworksRouted`, `TunnelInv` says of a Connect under way that `todo` holds
the names of the children from some place on, and that what is routed is what
those before it route. `NamesRead` gives it its start: what `childNamesFromConf`
finds in the rendered blocks is exactly the names of the children, in order.
`AllRouted` gives it its end: all the children together route what the profile
lists, in either version of IKE.

`ProfileKept` rests on `ProfileFormProofs`, which is arithmetic. Proposals are
listed by nested loops, so the number of a proposal has the places of its
cipher, integrity and group as its digits (`Apart`, `Together`). `UniqueRounds`
says that a list gone through in rounds is found again when what repeats is left
out, which gives the ciphers and the integrities back (`SeedHeads`). The groups
come back once per proposal (`SeedGroups`), the next Save lists every proposal
that often, and `UniqueAgain` says that leaving out what repeats gives the old
list (`SameProposals`). `SavedAgain` adds the other fields. `SavedChanged` shows
that saving with the other version gives nothing a fresh form could not have given;
so the profile is always one of a form (`ProfileInv`), however often it has been edited.

`ProposalsComplete`, in `ProfileFormProofs` under `FormAssumption`, says what is in
the list: each combination of a ticked cipher, integrity and group is there, once.
The digits of a number give its combination, and the digits put together its number.

`ProfilesProofs`, under `ProfilesAssumption`:

| theorem | property | inductive invariant |
|---|---|---|
| `TypeCorrect` | `TypeOK` | `TypeInv`: with `Captures` and `Closed` |
| `RemovalInBounds` | `NoPanic` | `IndexInv` |
| `NewestCredentials` | `NewestKept` | `MintInv`, `NewestInv` |
| `PlacesAgree` | `Agreement` | `ListInv`, `PlaceInv`, `FineInv`, `FileInv` |
| `NoDuplicates` | `ListedOnce` | `ListInv` |
| `EntriesKeptApart` | `OwnEntryOnly` | `ListInv`, `PlaceInv` |

`Captures` says what a dialog and a goroutine in each place have captured, `Closed`
that none of them outlives the window. `NoPanic` speaks of the moment after the
index was used; `IndexInv` says that as long as `stale` is not set every captured
index, in a dialog or a goroutine, is within the list. `NewestKept` is about the
keyring alone, which many goroutines write, and `typed`, which changes when Save is
pressed and not when the keyring does. What makes it inductive is that of a profile
not in `misread` at most one dialog or goroutine is still to change the keyring
(`OneWriter`), and that this one carries what is there or what has just been typed
(`WritesNewest`). A Save that ends with what was typed unwritten puts its profile
into `unsaved`, and the next one that writes takes it out. A new profile keeps to
this because nobody is at work on an ID that has not been handed out (`MintInv`).

`Agreement` speaks only of the moments between calls, so its invariant says of every
moment what is to come. The list names a profile once, and a new one not before the
save that adds it (`ListInv`); and as long as it has not been changed under a
captured index (`stale`), an index still points at the profile it was captured for
(`PlaceInv`). A profile that is not in `spoilt` has one goroutine at most, which has
reached what its place says (`Reached`: a removal at `unlist`, say, has only the
list left), and when there is none the three places agree (`Agreed`). A failure puts
the profile into `spoilt`, and only a Save that nothing disturbed takes it out:
`CleanAt` says how far such a Save has come, whatever was there before it.
`NextFine` takes the steps one by one and rests on what each can do to one profile
(`KeepFine`, `GoFine`, `EndFine`, `GoneFine`). That `profiles.toml` is the list is
`FileInv`, which the writes alone can disturb: every change of the list ends in a
`SaveStore`, and `lost` is set by one that fails until one succeeds.

Those two invariants are results of their own. `ListedOnce` holds even with a stale
index and after any crash, as a start reads back a part of a list without
repetitions. `OwnEntryOnly` is where `PlaceInv` is used: the entry that a removal
takes out is that of the profile it was asked to remove.

Only model-checked: the liveness properties (`Answered`, `PortFreed`, `Ended`,
`Settles`, `DotsSettle`), which are out of TLAPS's reach with these backends:
they need fairness and ENABLED. `NearerReply` and `NoFlicker` are the parts of
`Answered` and `Settles` that do not. Every safety and action property of a
passing run is proved.

## Not modelled

Of the form: the profile's name and the DPD delay, which are passed on as typed.
Of the status: the virtual address and the detail line. Widgets, theme and assets
(colours, layout), `sdnotify.go`, the mains, packaging and the install scripts
keep no state that the rest depends on. TOML, JSON and `swanctl.conf` syntax are
abstracted, and so are quoting and timing. The keyring and the daemon as the GUI
sees them are single steps in `Profiles`.

## Plan

Done: every module above, with the proofs listed.

Left: a `swanctl` command that never returns, and a `Status` call that does not
either, against the two-second ticker.
