# Verification of the Envisalink field programmer

TLA+ models, model-checking runs and machine-checked proofs for the Home
Assistant integration in `src/custom_components/envisalink_field_programmer`.
Paths below are relative to that directory unless they start with `src/`.

The integration talks to an EyezOn Envisalink module over TCP (its "TPI"
protocol). The module admits **one** client, answers commands with frames that
name only the command's code, pushes the panel's keypad updates, and types keys
on the alarm panel's keypad. Nothing can read the panel's programming back. Most
of what can go wrong follows from these four facts, and from the code being
`asyncio` coroutines that give way to each other at every `await`.

## 1. The system

| Part | Code | State it keeps | Operations |
|---|---|---|---|
| TPI client | `client.py` | the socket (`_writer`), the read loop, `_command_lock`, `_pending_ack`, the receive buffer | `connect`, `connect_with_retry`, `disconnect`, `_read_loop`, `_send` (poll, dump, keypress), `send_keystrokes` |
| Session lifecycle | `coordinator.py` | `_reconnect_task`, `_periodic_task`, `_session_released`, `_shutting_down`, back-off, failure count, repair issue, `data.system.connected` | `async_setup`, `_reconnect_loop`, `_handle_disconnect`, `async_release_session`, `async_resume_session`, `async_shutdown`, `_periodic_loop` |
| Flows | `config_flow.py` | the connection being tried, the stored data, MAC and options of an entry | first setup, DHCP discovery, reauth, reconfigure (borrows the session for a login test), options |
| Entry | `__init__.py` | the loaded coordinator, the entities registered | setup with its outcomes, unload, reload on update, removal |
| Panel state | `client.py`, `state_machine.py`, `models.py` | the receive buffer, zones, partitions, bypass flags, arming users, installer's mode | `_consume_buffer`, `apply_event` |
| Bypass | `switch.py`, `coordinator.py`, `programming.py` | the optimistic `bypassed` flag | switch on/off, `toggle_zone_bypass` action |
| Programming form | `field_programming.py`, `button.py`, `number.py`, `select.py`, `switch.py` | `ProgrammingForm`, `last_programming_result` | setting an entity, pressing a button |
| Guided operations | `field_programming.py`, `field_programming_services.py`, `panels/` | none | `classify_zone`, the keystroke builders, the program-mode wrapper, the guards |
| Keystroke guard | `programming.py` | none | `validate_keystrokes`, `async_send_guarded_keystrokes` |
| State entities, diagnostics | `alarm_control_panel.py`, `binary_sensor.py`, `sensor.py`, `diagnostics.py` | none | views of the coordinator's data |

**How they interact.** The client calls the coordinator back twice: for every
event (`_handle_event`) and when its read loop ends (`_handle_disconnect`, also
when `disconnect()` cancelled it). The coordinator's tasks, the flows and Home
Assistant's unload and stop all call `connect()` and `disconnect()` on one
client. The flows reach into the loaded coordinator to release and resume its
session. Entities share the coordinator's `VistaState` and `ProgrammingForm`;
every write ends in `EnvisalinkClient.send_keystrokes`.

**What is hard.**

- *Interleaving.* Reconnect loop, resume, setup, probe, release and shutdown may
  each be between two awaits. Two sockets towards a one-client module lock the
  integration out of its own panel.
- *Cancellation.* Release and shutdown cancel a task and must wait until it has
  really ended (`_cancel_and_wait`); a cancelled read loop calls back as its last act.
- *Unreliable peers.* Sessions end by FIN, by reset, silently, or stay up while
  the module answers nothing; a login may be turned away, a password rejected.
- *Answers without identity.* An acknowledgement names a code only.
- *Partial failure.* A sequence may stop after any key; a press may be refused,
  rejected, cancelled or lose its socket, and must spend its authorization.
- *Stale state.* A flag read before an `await` and written after it; an option
  that described the panel before the integration reprogrammed it; settings
  checked before a login probe and stored after it; a coordinator made from
  settings that have changed since.
- *A stream without frames.* TCP hands over any part of a frame, noise of the
  keybus comes before it, and what one session left half-read is not the next one's.

**What correctness means, part by part.**

- Session: never two sockets; never forgotten; lent only to the flow that asked;
  the connected flag and the repair issue tell the truth; everything that waits ends.
- Channel: one command in flight; each key delivered once and in order; every
  submitted command ends and leaves the lock to the next.
- Entries and flows: what is stored takes effect, at whatever point of a setup
  or reload it was stored; no entity outlives a lowered zone count; an entry moves only to
  a module that is known to be its own or has accepted its password; a lease loses no module.
- Feed: once read, the status, the zones, the trouble sensor and the users are the panel's,
  but for the one user shown once a partition has been armed again.
- Bypass: switches show what the panel has, and a call leaves its zone as asked.
- Form: one attempt per authorization; the result shown is the last attempt's.
- Guided sequences: each entry meets the prompt it was built for.

## 2. The modules

| Module | Role |
|---|---|
| `TpiSession` | the client's connection, the coordinator's lifecycle, the reconfigure flow, the module's one slot |
| `TpiSessionInv` | its inductive invariant `IInv`, in named parts |
| `TpiSessionSafety` | proofs: types; the invariant and what follows from it |
| `SessionLoan`, `SessionRefinement` | abstract loan protocol; the mapping under which `TpiSession` implements it |
| `TpiSessionService` | proofs: what the session promises the rest of the entry; the refinement of `SessionLoan` |
| `EntryLifecycle` | config entries: all flows, leases, setup, reload, unload, removal, restarts |
| `EntryLifecycleProofs` | proofs of its invariants and action properties |
| `CommandChannel` | the command lock, acknowledgements, timeouts, overrun retries |
| `KeyDelivery`, `DeliveryRefinement` | abstract ordered delivery; the mapping for `CommandChannel` |
| `CommandChannelProofs` | proofs: types, the lock and its queue, one command in flight, the refinement of `KeyDelivery` |
| `PanelFeed` | from the socket to the entities: frames, `apply_event`, what entities show |
| `PanelFeedProofs` | proofs: types; once read, the entities show what the panel has |
| `PanelView` | bypass flags, bypass icon, bypass calls |
| `PanelViewProofs` | proofs: types, switches and panel agree, nothing is left over |
| `ProgrammingForm` | the form, its entities, presses with all guards, the recorded result |
| `Authorization` | abstract: one attempt per authorization |
| `ProgrammingFormProofs` | proofs: types; `ProgrammingForm` implements `Authorization` |
| `ZoneMenu` | the guided keystroke sequences against the panel's prompts |
| `ZoneMenuProofs` | proofs: types; each entry meets its prompt, what was sent was done, what was refused should be |
| `MC_*` | instances for TLC |

The composition is by assumption and guarantee. `CommandChannel` opens and loses
sessions freely, relying only on `NoReaderDropped`, which `TpiSession` checks and
`TpiSessionSafety` proves. `PanelView` and `ProgrammingForm` treat a sequence as
one send that succeeds or fails, which is what `CommandChannel` refines to
`KeyDelivery`. `ZoneMenu` relies on keys arriving in order and on a failed key
stopping the sequence, again `KeyDelivery`. `EntryLifecycle` takes a login as one
answer and a setup as one attempt, which is what `TpiSession` does step by step;
`TpiSession` in turn has one generation of one coordinator, and `EntryLifecycle`
strings the generations together. `PanelFeed` starts where `TpiSession` has a read loop.

### TpiSession

A step is what a coroutine does between two awaits. An await that may complete
without suspending is still a step: that only adds interleavings.

- `dial[x]` is the progress of `connect()` for each of its callers (reconnect
  tasks, flows' probe or resume, setup): `opening`, `admitted`, `turned_away`,
  `closing`. The probe uses a client of its own; so do the sockets of a cancelled dial.
- `sess`/`reader` are `_writer` and `_read_task`. `sess` also records how the
  socket is: up, ended by the peer (`eof`), reset, `silent` (peer gone), `hung`
  (TCP alive, no answers).
- `task`, `rtask` are the reconnect tasks and which one `_reconnect_task` names;
  `tear[p]`/`victim[p]` are a release or shutdown's progress through "cancel the
  periodic task, cancel the reconnect task and wait, cancel the reader and wait,
  close the socket", and the task it took.
- `slot` is the module's: it stays `stale` after a socket closed until the
  module notices (`ModuleNotices`), which is why a prompt redial is turned away.

`Init` is an entry about to be set up, with the module in any state. Faults are a
parameter: `eof`, `reset`, `silent`, `hang`, `auth`.

Abstractions: the read task is taken as started by `connect()`; busy and
connection errors are one (`conn`), the rejected password another; back-off is
a number that doubles up to a maximum and is never waited for; `failed` saturates
one above the threshold; the probe's settling pause is part of its closing; the
forwarding of platforms is part of `SetupDumped`; Home Assistant's stop is
`ShutdownStarts` under a loaded entry. One coordinator is modelled: a reload ends
its life, the next one starts again at `Init`. Flows are reconfigure submissions
that find the entry loaded.

### EntryLifecycle

`data`, `mac` and `options` are what Home Assistant stores of an entry. `state` is
`entry.state`; `using` and `usingCode` are what the coordinator was made with,
`registry` the zones that have an entity, `reload` a reload that waits for the
entry's setup lock. `flow[f]` is a dialog of the user, discovery or reconfigure
flow at one of its screens (`user`, `busy`, `panel`, `reconfigure`) or in the one
await it has, its login (`login`, `probe`); `reauth[e]` is the reauth dialog, of
which Home Assistant keeps one per entry. `at` says which module answers at which
address, and `Lease` changes it.

`StoreSettings` is the pair the flows always make: `async_update_entry`, which
calls the update listener if something changed, and
`_reload_unless_the_entry_reloads_itself`, which reloads only an entry that has
no listener. Flows read the entry again after their await, as the code does, so
`ReauthAnswered` stores a password into whatever settings there are then.
`LeaseMoves`, `LeaseTeaches`, `LeaseOffers` are the exits of the discovery step's
loop over the entries, in its order.

Home Assistant is external: setups and reloads of an entry one at a time, update
listeners, retries, one unique id per flow in progress, and the removal of an
entry whose unique id a new one takes.

Abstractions: a host stands for host and port, and so for the unique id made of
both; the zone count stands for all panel settings, the installer code for all
options. Unloading the platforms is taken to succeed: the path on which it does not
and the coordinator is not shut down (`__init__.py:149-152`) is left out. A login is `accepted`, `refused`, or `failed`, and may always fail. An
entry keeps other clients out from the end of its setup; that the borrowing
entry's own coordinator may still hold the session when its probe dials is
`TpiSession`'s subject and left out here, as `Admits` says.

### PanelFeed

`wire` and `buffer` are sequences of tokens: the body of a frame, a terminator, or
noise. `Read(n)` takes any number of tokens off the wire and folds the frames they
complete into `state` in one step, as `_consume_buffer` does without an await. `Consumed`
goes through the tokens one by one: a terminator has the frame before it stripped, parsed
and applied, and what follows the last terminator stays in `buffer`. The code splits
a chunk first and then goes through the frames, which comes to the same.
The panel reports in three ways that fail differently: a keypad update says
everything about a partition and is repeated; a CID event (armed, disarmed,
Program Mode) is sent once, and lost in an outage; the zone timer dump comes only
when asked for, with the low byte of each timer first. `told`, `toldZones` and `missed`
record what the properties may rely on: what has been put on the wire since the
last change, and whether a CID event was lost. `log` is the panel's own: who armed and who
disarmed each partition last, and which came last; `last_user` is
what the user sensor shows of the two attributes. `Budgets` gives the bounds of a behaviour
together, `acts` for users, `changes` for the rest of the panel and `faults`.

Faults are noise before a frame, an icon field or a timer that is not hex, and a
lost session. A byte has `Base` values. The low battery icon goes with `trouble`
(`ails`); icons that are copied and shown one for one (ready, chime, fire) are left out.

### CommandChannel

`at[c]` is where each caller of `_send` is; `lock`/`queue` are the FIFO
`asyncio.Lock`; `pending` is `_pending_ack`; `outbound`, `inbound`, `owed`,
`busy`, `taken` are the wire and the module. `Acknowledged`, `BacksOff`,
`CommandFails` are the three outcomes in `_send`; `AckTimesOut` the timeout;
`Abandons` a cancelled caller. The lock is held through an overrun's back-off and
released between the keys of a sequence, as in the code.

Abstractions: `drain()` does not suspend; `%` events are left out; each caller
sends one sequence; a timeout fires only when no answer can come, unless the
module is allowed to be `late`; the module's clocking (`busy`) goes on across sessions.

### PanelView

`panel` and `reported` belong to the panel, `feed` is the wire, `bypassed` and
`active` are `ZoneState.bypassed` and `PartitionState.bypass_active`, `turn` the
switch platform's `PARALLEL_UPDATES = 1`. `Flips` is the assignment after the
await in `async_toggle_zone_bypass`. A call is made (`Call`) and waits; it starts as
soon as the turn is free (`Starts`) and decides by the flag as it is then, whether or
not the panel has reported what the call before it did.

The faults relax what the environment is otherwise assumed to do: `early` (a keypad
update is processed before the acknowledged coroutine runs), `hasty` (a call is made
while a change that is no call's is unreported, or somebody disarms while calls wait
or run), `fail`, `outage`, `refuse`. The faults of a behaviour (`faults`) are none,
only `fail` and `hasty`, or all of the constant's (`FaultSets`), so one run shows what
holds on a prompt and reliable wire, what holds whatever fails and whenever, and
that types hold on any. There is one partition, and one frame per sequence.

### ProgrammingForm

Each value of the form is reduced to what a guard tells apart (a zone on the
board, on an expander, refused; a type that is life safety or not; a timing value
in range or not). A press passes its guards in one step, since nothing there
suspends, and is `sending` until its keystrokes are through. `sequence` is what
the sequence being sent rests on. `Faults` are a socket that breaks under a write
(`reset`, an `OSError` that is no `TPIError`) and a cancelled call. Values and
confirmations can be edited at any time, as the entities allow. Not an
administrator: only the check of a press is modelled, setters are by administrators.

### ZoneMenu

An entry is the keys up to the next prompt, tagged with the prompt its builder
means it for (the comments in `build_zone_program_keystrokes`). The panel is
external: its prompts (`NextPrompt`, `AfterReport`) are written from README.md's
table of what the panel asks and from its *actual* doubling, the builders from
the source and the *stated* one, and neither uses the other's definitions.

The option may say anything at any time, and the panel may still be in Program Mode
when the next operation comes, as in the code, which checks neither. `ready` records
whether an operation found what its builder has to suppose (`AsSupposed`): the panel
out of Program Mode and, for zones 9 to 16 of a 21iP only, an option that is true.
`EntriesMeetTheirPrompts` and `DoneAsAsked` are about those operations, so they also say
that a false option harms no other one: stating On and then wiring the first
doubled zone (`field_programming.py:414-417`) is an operation like any other.
`subject` is the zone, data field or key the panel is programming, and `stored`
each setting it has written since the operation began, with its subject and value:
`DoneAsAsked` compares it with the settings the panel has for what was asked.
A failed sequence may leave part of it written, and the panel anywhere in its menu.

## 3. The runs

Passing runs:

| Run | Instance | Shows |
|---|---|---|
| `session_safety` | 2 reconnect tasks, 1 flow, all faults, threshold 2, back-off 1..2 | `IInv`, `OneSocket`, `NeverForgotten`, `LoanIsOwned`, `ConnectedMeansWatched`, `IssueIsHonest`, `NoDialAfterShutdown`, `NoReaderDropped`, `ImplementsLoan` |
| `session_liveness` | the same with `eof`, `reset`, `silent` | `Recovers`, `SilenceIsNoticed`, `FlowsFinish`, `ShutdownFinishes` |
| `entry_flows` | 2 entries, 1 dialog besides the reauths, 2 hosts, 1 module, a right and a wrong password, 2 zones, 2 codes, 2 acts from outside | `SettingsTakeEffect`, `NoOrphans`, `MovesAreProved`, `SomeEntryFollows`, and that everything `Settles` |
| `channel_safety` | 2 sequences of 2 keys and a poll, 2 attempts, 2 sessions; losses, refusals, callers that give up while backing off | `OneCommandInFlight`, `ImplementsDelivery` |
| `channel_liveness` | a sequence of 2 keys and two polls, 1 attempt, 2 sessions; every fault, late answers and cancelled callers included | `CommandsFinish` |
| `panel_feed` | a panel with 2 partitions and 2 zones of which 1 each is configured, 2 users, bytes of 4 values, 4 tokens on the wire; 2 acts of users or 2 changes of the panel with 1 fault, 1 of each, or 4 acts without a fault | `StatusIsTrue`, `ZonesAreTrue`, `TroubleIsTrue`, `UsersAreTrue`, `ZonesCatchUp` |
| `bypass_calls` | 2 zones, 3 switch calls, 1 action call, each of the three fault sets | on the calm wire and without the action, `SwitchesAgree` and `CallsGetTheirWay`; with failing sends, the action and hasty calls and disarms, `NoneIsLeftOver` |
| `form_presses` | 3 presses, all three operations, verified model, both faults | `ImplementsAuthorization` |
| `menu_sequences` | all models, 13 zone numbers, all connections, wirings none, EOL, doubled and out of range, two operations; the option true, false or changed in between | `EntriesMeetTheirPrompts` (also when the first changes doubling), `DoneAsAsked`, `RefusedAsDocumented` |

The passing runs but the two for liveness alone also check their module's `TypeOK`.

Why the bounds are enough. *Two reconnect tasks*: a task identity is reused when
its task is over, and `IInv` (proved for any number) shows one live task at most
besides those that are closing. *One flow* is what the safety properties are
about; `find_two_flows` shows that two break them. *Threshold 2, back-off up to
2*: below, at and above the threshold, doubling and saturation all occur.
*Two entries* and two hosts are enough for one entry to hold the address another
is to move to, and for a lease to find the wrong one first; `entry_flows` starts
in every way up to two entries can be stored (zones and code apart, which change later), so its *two
acts* (a submission that may store something, a lease, a deletion, a restart) have any history behind
them, and two are what it takes for one to come between another's check and its
store. In `panel_feed` the timers 3 and 4 lie on both sides of the threshold and
differ in the byte that carries them; two tokens are a frame, so the wire
holds two frames, and any cut of either; one fault is one loss of
synchronization, after which *two acts or changes* leave one to be misread; and *four acts* of
*two users* have a partition armed and disarmed twice, so who did it last is told from who ever did. *Two keys* have a first and a last, two typists and a poll share one lock, and
*two sessions* have one replacing another. *Three switch calls* on two zones
include two for the same zone with one for the other between. *Three presses*
include one waiting behind a sending one and a third afterwards; the commercial
models, whose writes need a second confirmation, are covered by the theorem.
*Thirteen zone numbers* lie on both sides of every bound in the three layouts. *MaxRequests*
bounds the operations of a behaviour in `ZoneMenu`: the first may change the wiring
the second's prompts depend on, or fail and leave the panel in its menu, and no, one or
two zones are doubled at first.
Calls and presses are interchangeable in `bypass_calls` and `form_presses`, and so
are the zones of the former: those runs use symmetry (they check no liveness).

`CHECK_DEADLOCK FALSE` everywhere: a stopped entry, finished commands, and
exhausted calls are legitimate ends.

**Fairness.** `TpiSession` and `CommandChannel` state weak fairness for what the
event loop, timers, kernel and a responsive module do by themselves: a runnable
coroutine runs, a timeout expires, a cancelled task ends, TCP gives up on
unacknowledged bytes, the module notices a closed socket. No fairness for users,
other clients, faults, or a dead module answering. Strong fairness is not needed
there: the steps concerned stay enabled until taken.

`EntryLifecycle` states weak fairness for what Home Assistant goes on with (setups,
reloads, unloads, retries, the end of a probe) and strong fairness for a setup
being answered, `SetupSucceeds` and `SetupRefused`: each attempt may fail because
another client is in, but a module that is free again and again is not busy every time.
`PanelFeed` states weak fairness for the periodic loop, the reconnect and reading
what is on the socket (`WF_wire(ReadAll)`), and strong fairness for the answer to
a dump, which a session lost or a wire full in between may put off. Nobody is
obliged to submit or close a dialog, and faults and changes are finite by their bounds.

### Findings

Each has a run that TLC ends with a counterexample.

| Run | What happens |
|---|---|
| `find_two_flows` | with two reconfigure flows open, one flow's resume takes the session back under the other's probe. `coordinator.py:132-134`. |
| `find_late_ack` | an answer later than its command's timeout acknowledges the next command of that code. `field_programming.py:647`. |
| `find_options` | options saved while the entry is being set up reload nothing: the listener is registered (`__init__.py:141`) after the options were read (`:116`), and `config_flow.py:552` relies on it. `src/README.md:72`. |

Further disagreements between the code and its documents, and behaviours a
reader should know of, were met while modelling. They need no exploration of
interleavings, or are variants of the above, and have no run.

Session and channel:

- `async_resume_session` tests `_shutting_down` before awaiting `connect()`; a stop
  of Home Assistant in between returns, and the resume still opens a session
  (`src/README.md:114`). `OneSocket` and its proof set this aside explicitly.
- A resume does not reset the failure count, and the issue is raised at equality
  only: a later outage can pass it unreported (`coordinator.py:333`, `src/README.md:155`).
- The reconnect loop retries a rejected password (`coordinator.py:328`,
  `src/README.md:153`); only setup starts a reauthentication.
- A module that answers TCP but no command is polled for ever
  (`coordinator.py:311`, against `coordinator.py:8-9`).
- The command lock is taken per key, so two platforms' sequences mix on the keypad
  (`client.py:413`, `src/CHANGELOG.md:157`).
- A command sent after the read loop ended waits its full timeout (`client.py:415`).

Entries and flows:

- The discovery loop stops at the first entry that claims a lease: one made by hand at
  the leased address, listed before the entry that has the MAC, learns that MAC,
  and the other is left behind (`config_flow.py:335`, against `src/README.md:80`).
  `SomeEntryFollows` is what does hold.
- Reconfigure checks that no other entry has the address before its probe's await,
  and not after it (`config_flow.py:396`); the panel step likewise relies on the check of the
  login step. Home Assistant then has two entries with one unique id and logs it,
  or replaces the entry that moved there (`config_flow.py:241`).
- A reauth stores the password into the settings of an entry that may have moved
  during its probe (`config_flow.py:366`); the next setup asks again.

Feed:

- An icon field that is not hex clears every flag, AC power included, until the
  next update (`state_machine.py:62`). A user who leaves Program Mode during an outage leaves
  the trouble sensor on until the next time (`state_machine.py:131`), which is why
  `TroubleIsTrue` supposes that no CID event was lost.
- `last_user` is called the "last user to arm or disarm" (`src/README.md:140`) and
  "Most recent of" the two attributes (`models.py:76`), but prefers the disarming one
  whenever that was (`models.py:77`): a partition that has been disarmed once never
  shows who armed it. `UsersAreTrue` states what it does show.

Programming and bypass:

- A `turn_off` whose "icon off" update is read before the coroutine resumes negates
  a flag that is already clear (`coordinator.py:428`, `src/README.md:244`).
- The `toggle_zone_bypass` action never sets the flag (`programming.py:231`, `src/README.md:244`).
- A socket that breaks under a write records nothing (`button.py:130`,
  `field_programming.py:654`), and a press without confirmation is refused and
  not recorded (`button.py:115`, `field_programming.py:650`).
- A 15P's zones 33 and 34 cannot be entered on the device page: the maximum is a
  count (`number.py:52`, `src/PROGRAMMING.md:27`).
- Programming the last doubled board zone to another wiring leaves the doubling
  option On (`field_programming.py:414`), and a sequence for one of the zones 9 to 16
  then meets other prompts than it was built for. Nothing tells the code, so no property
  can rule it out; `EntriesMeetTheirPrompts` confines it to those zones.

The properties that hold are stated for the behaviours these findings do not
touch, and say so in their formulas: `OneSocket` sets aside a stop under a loaded
entry, the inductive invariant is about one flow, `SwitchesAgree` is about a wire
without faults, `OneCommandInFlight` about answers that come while they are waited for.

## 4. The proofs

TLAPS proves, for every value of the constants that meets the named assumptions:

| Module | Theorems | From |
|---|---|---|
| `TpiSessionSafety` | `TypeCorrect`, `PhasesStayApart` (`IInv`), `OneSocketAlways`, `ALoneFlowIsRespected`, `ShutdownIsFinal`, `ReadersAreNotDropped` | `IdentitiesAssumption`, `NumbersAssumption`; all but the first also `SingleFlow` |
| `TpiSessionService` | `LoansAreOwned`, `ConnectedIsWatched`, `SessionsAreNeverForgotten`, `IssuesAreHonest`, `TheLoanIsKept` (`Spec => ImplementsLoan`) | the same; the last three also `SingleFlow` |
| `EntryLifecycleProofs` | `EntriesAreWellFormed` (its `IInv`), `TypesHold`, `SettingsAlwaysTakeEffect`, `NoEntityIsOrphaned`, `EveryMoveIsProved`, `AModuleIsFollowed` | `EntryConstants` |
| `CommandChannelProofs` | `ChannelIsTyped`, `TheLockIsHeld`, `TheQueueWaits`, `AnAnswerHasOneTaker`, `KeysAreDelivered` (`Spec => ImplementsDelivery`), `PromptSuccessMeansEveryKey` | `CallersAssumption`, `BoundsAssumption`; the last three also `Prompt` |
| `PanelFeedProofs` | `FeedIsTyped`, `PanelsShowTheStatus`, `SensorsShowTheZones`, `TheSensorShowsTrouble`, `UsersAreThoseWhoDid` | `FeedConstants` |
| `PanelViewProofs` | `ViewIsTyped`, `SwitchesAlwaysAgree`, `CallsAlwaysGetTheirWay`, `NoneStaysOn` | `CallsAssumption` |
| `ProgrammingFormProofs` | `FormIsTyped`, `OneAttemptPerAuthorization` (`Spec => ImplementsAuthorization`) | `ConstantsAssumption` |
| `ZoneMenuProofs` | `MenuIsTyped`, `EveryEntryMeetsItsPrompt`, `SentIsDoneAsAsked`, `RefusalsAreDocumented` | `MenuAssumption` |

`SingleFlow` says that one reconfigure flow is open at most; `find_two_flows` shows
that it cannot be dropped: `LoanIsRespected` fails there with two flows, and
`ALoneFlowIsRespected` says that it holds with one. `OneSocket`, `NeverForgotten`,
`IssueIsHonest`, `NoDialAfterShutdown`, `NoReaderDropped` and `ImplementsLoan` fail
with two flows as well, TLC finds; they are one disagreement, and one finding.

`Prompt` says that no answer comes after its command timed out and no command in flight
is cancelled; `find_late_ack` shows what happens otherwise, to `SuccessMeansEveryKey`, which holds where answers are prompt.

**The session argument.** `OneSocket` is not inductive. That two dials never
overlap needs `DialsHaveCallers` (a dial belongs to a coroutine in `connect()`),
`OneRunner` (one reconnect task at most is live, and it exists only once the
session is gone), `ReleaseWaits`, `ProbeAlone` and `ResumeAlone` (when a probe or a
resume dials, what was live before is over: the release awaited what it
cancelled). `OneRunner` in turn needs `TearsAreFlagged` (a read loop that ends
during a release sees the flag and starts nothing) and `ReaderWait` (nobody
connects while a `disconnect()` waits, so the writer it closes is the one it
found). `SetupFirst` covers the time before there is a coordinator in use,
`ShutdownSilences` what a shutdown leaves behind. `NoReaderDropped` says of the step in
which `connect()` replaces reader and writer (`Establish`) that the read loop it finds is
over and its session lost or closed: whoever establishes has dialled, and
`IInv` has nobody dial beside a live session. There is one lemma per group
of actions, and in it one step per part of `IInv` the action can disturb.

**What the session promises.** Whose the loan is and what the connected flag says hold
however many flows are open; `EInv` makes them inductive with `FlagIsBacked` (whoever reads
the flag as true finds a read loop, at any time and not only after setup) and
`SetupLendsNothing`. With one flow, `SInv` adds `IssueIsHonest` and what
makes `NeverForgotten` inductive on top of `IInv`. `CancelledAreTaken`
says whose a cancelled dial is: without it a task cancelled
by nobody could end and leave the session to no one. `Attended` is
`NeverForgotten` extended to the part of setup in which the session is already up.

**The loan.** Under the mapping of `SessionRefinement` a step of the session dials,
lends, hands back, stops, closes the owner's socket, or stutters, and each group
of actions has a lemma that says which. The further invariant is `LentIsQuiet`:
while the session is lent, every live task of the entry is closing its dial and
no flow resumes. `StoppingIsFinal` lets the refinement ignore what comes after a
stop under a loaded entry.

**The entry argument.** `SettingsTakeEffect` is inductive together with types,
`OnlyStoredOnesRun` (what is deleted runs nothing), `DialogsAreFilled` (what a
probe will store is a setting, and its entry still exists) and `RegistryFollows`
(a setup in progress has cut the registry to the count it read; a loaded entry
fills it). `NoOrphans` follows. `EveryMoveIsProved` goes through the actions
that change an address: a lease of the entry's MAC, or an accepted probe.

**The channel argument.** `LockIsHeld`: the one that waits for an answer or backs
off has the lock, and an acknowledgement is pending only while it waits.
`SessionIsRead`: a session that is up is read, or being closed. With both, a
command is written only when nothing of an earlier one is under way, which is
`OneCommandInFlight`.

**The delivery.** Under the mapping of `DeliveryRefinement` the one step that
types a key is the panel taking a keypress off the wire, and everything else ends a
sequence or stutters. That it is the *next* key
of its caller is `InOrder`: the module has taken all of a caller's frames but the one
it is at, or that one too (`FramesCount`); a frame on the wire is the one its caller is
at, and not taken yet (`FramesAreDue`); an answer on its way tells the truth about the frame of
the caller that has the lock (`RepliesAreTrue`). An overrun therefore is tried again only when
the key was not typed.

**The feed argument.** What is shown is about a wire that has been read, so the
invariant is about what *will* have been seen: `Sees` is the state once `Consumed` has
taken the wire too. Reading changes it in nothing, because reading in two pieces is
reading at once (`Composed`); sending folds in exactly one event, after noise
or not (`SendingRead`), provided the wire ends between frames (`Sessions`). So each part of
the invariant says of `Sees` what the property says of `state`, and the two
meet when the wire is empty. For the user shown, `Logged` adds that a partition last
disarmed has somebody who did it. A lost session cuts the wire: what is dropped is counted as
`missed` if it had a CID event, and `told` is withdrawn. `Consumed`
is a recursive function, whose unfolding is a lemma; the inductions over its argument go by the
least number that fails (`UpTo`).

**The menu argument.** `MInv` says, while a sequence is being typed, that for some
place `k` in it the keys left are those from the `k`th on, the prompt is the one that
entry is for, the panel is programming what was asked for, and it has written the settings
among the first `k - 1` entries; a whole sequence's settings are all that the panel has for the
zone, field or key (`AllIsAsked`). The entries and the prompts are
written from different sources; that a step moves `k` by one is where they are brought
together, case by case (a zone report with or without a wiring prompt, wireless or
wired, the end of a report, the other operation).
`RefusedAsDocumented` compares the guards with the documents for each layout of the zone numbers.

**The bypass argument.** As long as a behaviour has no faults and no action call,
`Between` says how panel, flags and feed relate when nobody has the turn, and
`During` how they do while a call is under way: they differ in its zone from the
moment the panel took the keys until the flag is flipped. A call that waits for
another starts from `Known`: the flags are the panel's although its icon may not
have been reported, or read. All of it needs the platform's turn to be with
the call under way (`TurnIsHeld`).

With failures `GoesOut` is enough: every "off" on the wire is read after an "on"
(`OnBefore`), so it is the edge that clears the flags, and a flag that is up has a bypass
at the panel, a change not reported, or an "off" to come. It holds because a change is reported
only after the call that made it has flipped its flag, which is what `early` would break.

**The form argument.** `FInv` adds to `TypeOK` that the platform's turn is with
exactly the press that sends (`SenderHasTurn`). Under it every edit of the form
is a `Give` or `Withdraw`, `Sends` is a `Begin` (its guards are
`Risks(op) \subseteq Granted`), the refusals and `Ends` are `Spend`, and the
rest stutter.

Every invariant and every action property of a passing run has its theorem, and so
have the three refinements. Model-checked only is liveness, with anything about `ENABLED`,
which is out of the prover's reach: `Recovers`, `SilenceIsNoticed`, `FlowsFinish`,
`ShutdownFinishes`, `CommandsFinish`, `Settles`, `ZonesCatchUp`. `OptionsTakeEffect`
is violated, and `LoanIsRespected` and `SuccessMeansEveryKey` are without
their assumptions. No module uses a `RECURSIVE` operator.

## 5. Not modelled

- Arm, disarm and panic calls: one sequence each, no state of their own.
- The fields of a frame and the login's lines (`parse_frame`, `build_event` beyond what the
  properties tell apart), logging, redaction, diagnostics, translation lookups.
- The keypad flags that copy one icon bit each.
- The coordinators of successive setups together with the socket: `TpiSession` has
  one generation, `EntryLifecycle` has the generations and no socket. A reload
  awaits the shutdown of the old coordinator (`UnloadEnds`), which ends with its
  socket closed (`ShutdownFinishes`).
- The guard's Program Mode detector on free text, the commercial timing builder,
  the constant tables of zone types and models. DSC drives no guided operation.
- `tools/validate_local.py`, a developer's script around the test suite.
- Hazards without a property, because the protocol cannot tell: a `turn_off`
  decided just after a disarm that is not reported yet, a toggle whose
  acknowledgement is lost, a bypass cleared during an outage.

## 6. Plan

Order: the session first, since everything else needs it; then the channel; then
what is written through it; then the entries and the feed. All of section 2 is
done. What is left, in order:

1. `OneSocket` across the coordinators of one entry: `TpiSession` with a second
   generation, whose setup may find the module's slot `stale`.
2. The guard's Program Mode detector as an operator on abstract keys, against
   the prompts of `ZoneMenu`; the commercial timing builder.

## Running

```
tlc -config session_safety.cfg MC_TpiSession
tlapm PanelFeedProofs.tla
```
