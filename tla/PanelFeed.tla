------------------------------ MODULE PanelFeed ------------------------------
(***************************************************************************)
(* From the socket to the entities: client.py cuts what the module sends   *)
(* into frames, state_machine.py folds each frame into the VistaState, and *)
(* the alarm control panel, the zone and trouble sensors and the users of  *)
(* a partition show it.                                                    *)
(*                                                                         *)
(* The panel and the module are external: they report in keypad updates,   *)
(* which carry everything about a partition, in one-shot CID events and in *)
(* the zone timer dump, which is only sent when it is asked for.  A frame  *)
(* is a body, from its sentinel on, and a terminator here; noise of the    *)
(* keybus may come before it, and TCP may hand over any part at a time.    *)
(* Login and reconnects are TpiSession's, acknowledgements those of        *)
(* CommandChannel, the bypass icon and the bypassed zones PanelView's.     *)
(***************************************************************************)
EXTENDS Integers, SequencesExt

CONSTANTS
    Partitions,       \* the partitions configured
    PanelPartitions,  \* those the panel has
    Zones,            \* the zones configured
    PanelZones,       \* those in the dump
    Users,
    None,
    Base,             \* how many values a byte of a timer has
    Timers,           \* the timers a zone may get, in ticks since its fault
    Budgets,          \* bounds: how often users act, the panel changes and
                      \* noise, a spoilt frame or a lost session comes
    MaxWire           \* bound on tokens under way

Top == Base * Base - 1              \* 0xFFFF
OpenTicks == 3

ASSUME FeedConstants ==
    /\ 1 \in Partitions /\ Partitions \subseteq PanelPartitions
    /\ PanelPartitions \subseteq Nat \ {0}
    /\ Zones \subseteq PanelZones
    /\ Timers \subseteq 0..Top /\ Base \in Nat \ {0, 1}
    /\ None \notin Users
    /\ Budgets \subseteq [acts : Nat, changes : Nat, faults : Nat]
    /\ MaxWire \in Nat

VARIABLES
    \* -- the panel
    panel,        \* what each partition does
    timer,        \* ticks since the last fault of each zone
    programming,  \* Program Mode is open
    log,          \* who armed and disarmed each partition last, and which of
                  \* the two came last
    \* -- the wire
    up,           \* the session is there
    wire,         \* tokens sent and not yet read
    buffer,       \* client._buffer
    asked,        \* the dump has been asked for
    \* -- the entry
    state,        \* coordinator.data
    \* -- what has been reported
    told,         \* partitions whose last update says what they do now
    toldZones,    \* zones whose timer now was in the last dump
    missed,       \* a CID event was lost
    acts, changes, faults   \* how many may still come

panelVars == <<panel, timer, programming, log>>
wireVars  == <<up, wire, buffer, asked>>
toldVars  == <<told, toldZones, missed>>
leftVars  == <<acts, changes>>
vars == <<panelVars, wireVars, state, toldVars, leftVars, faults>>

(* ------------------------------ the panel ------------------------------ *)

Modes == {"disarmed", "away", "stay", "night"}
Quiet == [mode |-> "disarmed", exiting |-> FALSE, alarm |-> FALSE,
          ails |-> "nothing"]
Nobody == [armed |-> None, disarmed |-> None, last |-> "armed"]

ModeIcons ==
    [disarmed |-> {}, away |-> {"armed_away"}, stay |-> {"armed_stay"},
     night |-> {"armed_stay", "armed_zero_entry_delay"}]
IconsOf(p) ==
    ModeIcons[p.mode]
    \cup (IF p.alarm THEN {"alarm"} ELSE {})
    \cup (IF p.ails = "ac" THEN {} ELSE {"ac_present"})
    \cup (IF p.ails = "trouble" THEN {"system_trouble"} ELSE {})

(* ------------------------------- the wire ------------------------------ *)

Keypad(p, icons, exit) ==
    [code |-> "keypad", partition |-> p, icons |-> icons, exit |-> exit]
Cid(event, qualifier, p, user) ==
    [code |-> "cid", event |-> event, qualifier |-> qualifier,
     partition |-> p, user |-> user]
Dump(timers) == [code |-> "timers", timers |-> timers]

\* The timer counts down from the top, low byte first.
Chunk(ticks) == <<(Top - ticks) % Base, (Top - ticks) \div Base>>

Token(tok, of) == [tok |-> tok, of |-> of]
Noise == Token("noise", None)
End == Token("end", None)
Frame(e) == <<Token("body", e), End>>

Sentinels(frame) == {i \in DOMAIN frame : frame[i].tok = "body"}

\* strip_leading_garbage: from the first sentinel on; without one, all of it.
Strip(frame) ==
    IF Sentinels(frame) = {} THEN frame
    ELSE SubSeq(frame, Min(Sentinels(frame)), Len(frame))

\* parse_frame drops a frame without a code.
WellFormed(frame) == frame # <<>> /\ frame[1].tok = "body"

(* ------------------------- folding in one event ------------------------ *)

NewPartition ==
    [armed |-> FALSE, armState |-> "disarmed", alarm |-> FALSE,
     exitDelay |-> FALSE, acPresent |-> TRUE, trouble |-> FALSE,
     lastArmed |-> None, lastDisarmed |-> None]
NewZone == [open |-> FALSE, seconds |-> None]

\* VistaState.partition makes a partition that is not there.
PartitionIn(st, p) ==
    IF p \in DOMAIN st.partitions THEN st.partitions[p] ELSE NewPartition
WithPartition(st, p, partition) ==
    [st EXCEPT !.partitions =
        [q \in DOMAIN @ \cup {p} |-> IF q = p THEN partition ELSE @[q]]]

ArmState(icons) ==
    IF {"armed_stay", "armed_zero_entry_delay"} \subseteq icons
      THEN "armed_night"
    ELSE IF "armed_away" \in icons THEN "armed_away"
    ELSE IF "armed_stay" \in icons THEN "armed_home"
    ELSE "disarmed"

\* Every flag is set from the update.
ApplyKeypad(st, e) ==
    WithPartition(st, e.partition,
        [PartitionIn(st, e.partition) EXCEPT
            !.alarm = "alarm" \in e.icons,
            !.acPresent = "ac_present" \in e.icons,
            !.trouble = "system_trouble" \in e.icons,
            !.exitDelay = e.exit,
            !.armed = e.icons \cap {"armed_away", "armed_stay"} # {},
            !.armState = ArmState(e.icons)])

\* Mutant: partition 00 is a partition of its own.
CidPartitionAsSent(e) == e.partition

\* A panel with one partition may call it 00.
CidPartition(e) == IF e.partition = 0 THEN 1 ELSE e.partition

\* Mutant: leaving Program Mode is not told apart from arming.
ApplyCidArming(st, e) ==
    LET p == CidPartition(e)
        old == PartitionIn(st, p)
    IN IF e.event = "program" THEN [st EXCEPT !.installersMode = TRUE]
       ELSE IF e.qualifier = "opening"
         THEN WithPartition(st, p, [old EXCEPT !.lastDisarmed = e.user])
       ELSE WithPartition(st, p, [old EXCEPT !.lastArmed = e.user])

\* Mutant: a user who has been noted stays.
ApplyCidOnce(st, e) ==
    LET p == CidPartition(e)
        old == PartitionIn(st, p)
        Noted(user) == IF user = None THEN e.user ELSE user
    IN IF e.event = "program" THEN [st EXCEPT !.installersMode = TRUE]
       ELSE IF e.event = "leave" THEN [st EXCEPT !.installersMode = FALSE]
       ELSE IF e.qualifier = "opening"
         THEN WithPartition(st, p, [old EXCEPT !.lastDisarmed = Noted(@)])
       ELSE WithPartition(st, p, [old EXCEPT !.lastArmed = Noted(@)])

\* 627 and 628 open and leave Program Mode; the others arm and disarm.
ApplyCid(st, e) ==
    LET p == CidPartition(e)
        old == PartitionIn(st, p)
    IN IF e.event = "program" THEN [st EXCEPT !.installersMode = TRUE]
       ELSE IF e.event = "leave" THEN [st EXCEPT !.installersMode = FALSE]
       ELSE IF e.qualifier = "opening"
         THEN WithPartition(st, p, [old EXCEPT !.lastDisarmed = e.user])
       ELSE WithPartition(st, p, [old EXCEPT !.lastArmed = e.user])

\* Mutant: the bytes are not swapped.
TicksBigEndian(chunk) == Top - (chunk[1] * Base + chunk[2])

Ticks(chunk) == Top - (chunk[2] * Base + chunk[1])

\* A zone with no chunk, or one that is not hex, keeps what it had.
ApplyDump(st, e) ==
    [st EXCEPT !.zones =
        [z \in DOMAIN @ |->
            IF e.timers[z] = <<>> THEN @[z]
            ELSE [open |-> Ticks(e.timers[z]) <= OpenTicks,
                  seconds |-> 5 * Ticks(e.timers[z])]]]

apply_event(st, e) ==
    CASE e.code = "keypad" -> ApplyKeypad(st, e)
      [] e.code = "cid"    -> ApplyCid(st, e)
      [] e.code = "timers" -> ApplyDump(st, e)

Dispatch(st, frame) ==
    IF WellFormed(frame) THEN apply_event(st, frame[1].of) ELSE st

\* A terminator ends a frame; what follows the last one stays in the buffer.
Took(read, token) ==
    IF token.tok = "end"
      THEN [state |-> Dispatch(read.state, Strip(read.buffer)), buffer |-> <<>>]
      ELSE [read EXCEPT !.buffer = Append(@, token)]

\* The state and the buffer once the tokens are read, frame by frame.
Consumed(read, tokens) ==
    LET taken[k \in 0..Len(tokens)] ==
            IF k = 0 THEN read ELSE Took(taken[k - 1], tokens[k])
    IN taken[Len(tokens)]

(* ------------------------- what entities show -------------------------- *)

AlarmState(p) ==
    IF p.alarm THEN "triggered"
    ELSE IF p.exitDelay THEN "arming"
    ELSE IF p.armed THEN p.armState
    ELSE "disarmed"

\* Who disarmed comes first, whenever that was.
last_user(p) == IF p.lastDisarmed # None THEN p.lastDisarmed ELSE p.lastArmed

SystemTrouble ==
    \/ state.installersMode
    \/ \E p \in DOMAIN state.partitions :
         state.partitions[p].trouble \/ ~state.partitions[p].acPresent

(* ------------------------------- behaviour ----------------------------- *)

PartitionStates ==
    [armed : BOOLEAN, alarm : BOOLEAN, exitDelay : BOOLEAN,
     acPresent : BOOLEAN, trouble : BOOLEAN,
     armState : {"disarmed", "armed_away", "armed_home", "armed_night"},
     lastArmed : Users \cup {None}, lastDisarmed : Users \cup {None}]
ZoneStates == [open : BOOLEAN, seconds : 0..(5 * Top) \cup {None}]

\* The partitions configured, and maybe others the panel has.
StateOK(st) ==
    \E known \in SUBSET PanelPartitions :
        /\ Partitions \subseteq known
        /\ st \in [partitions : [known -> PartitionStates],
                  zones : [Zones -> ZoneStates], installersMode : BOOLEAN]

TypeOK ==
    /\ panel \in [PanelPartitions ->
                    [mode : Modes, exiting : BOOLEAN, alarm : BOOLEAN,
                     ails : {"nothing", "ac", "trouble"}]]
    /\ timer \in [PanelZones -> Timers \cup {Top}]
    /\ log \in [PanelPartitions -> [armed : Users \cup {None},
                                    disarmed : Users \cup {None},
                                    last : {"armed", "disarmed"}]]
    /\ programming \in BOOLEAN /\ up \in BOOLEAN /\ asked \in BOOLEAN
    /\ Len(wire) <= MaxWire
    /\ \A i \in DOMAIN buffer : buffer[i].tok # "end"
    /\ StateOK(state)
    /\ told \subseteq PanelPartitions /\ toldZones \subseteq PanelZones
    /\ missed \in BOOLEAN
    /\ acts \in Nat /\ changes \in Nat /\ faults \in Nat

Init ==
    /\ panel = [p \in PanelPartitions |-> Quiet]
    /\ timer = [z \in PanelZones |-> Top]
    /\ programming = FALSE
    /\ log = [p \in PanelPartitions |-> Nobody]
    /\ up = TRUE /\ wire = <<>> /\ buffer = <<>> /\ asked = TRUE
    /\ state = [partitions |-> [p \in Partitions |-> NewPartition],
                zones |-> [z \in Zones |-> NewZone],
                installersMode |-> FALSE]
    /\ told = {} /\ toldZones = {} /\ missed = FALSE
    /\ \E b \in Budgets :
          acts = b.acts /\ changes = b.changes /\ faults = b.faults

Fault == faults > 0 /\ faults' = faults - 1

\* The module sends the event, maybe after noise.
Put(tokens) ==
    Len(wire \o tokens) <= MaxWire /\ wire' = wire \o tokens
SendAfterNoise(e) ==
    Fault /\ (Put(<<Noise>> \o Frame(e)) \/ Put(<<Noise, End>> \o Frame(e)))
Send(e) ==
    \/ Put(Frame(e)) /\ UNCHANGED faults
    \/ SendAfterNoise(e)

\* A CID event is sent at once or never.
Report(e) ==
    IF up THEN Send(e) /\ UNCHANGED missed
    ELSE UNCHANGED <<wire, faults>> /\ missed' = TRUE

Act == acts > 0 /\ acts' = acts - 1 /\ UNCHANGED changes
Change == changes > 0 /\ changes' = changes - 1 /\ UNCHANGED acts
Called(p) == IF p = 1 THEN {0, 1} ELSE {p}

Arm(p, mode, user) ==
    /\ Act
    /\ panel[p].mode = "disarmed"
    /\ panel' = [panel EXCEPT ![p].mode = mode, ![p].exiting = TRUE]
    /\ log' = [log EXCEPT ![p].armed = user, ![p].last = "armed"]
    /\ \E q \in Called(p) : Report(Cid("arming", "closing", q, user))
    /\ told' = told \ {p}
    /\ UNCHANGED <<timer, programming, up, buffer, asked, state, toldZones>>

Disarm(p, user) ==
    /\ Act
    /\ panel[p].mode # "disarmed" \/ panel[p].alarm
    /\ panel' = [panel EXCEPT ![p] = [Quiet EXCEPT !.ails = panel[p].ails]]
    /\ log' = [log EXCEPT ![p].disarmed = user, ![p].last = "disarmed"]
    /\ \E q \in Called(p) : Report(Cid("arming", "opening", q, user))
    /\ told' = told \ {p}
    /\ UNCHANGED <<timer, programming, up, buffer, asked, state, toldZones>>

\* The exit delay ends, an alarm goes off, the mains fail or come back.
Turn(p) ==
    /\ Change
    /\ \/ /\ panel[p].exiting
          /\ panel' = [panel EXCEPT ![p].exiting = FALSE]
       \/ /\ ~panel[p].alarm
          /\ panel' = [panel EXCEPT ![p].alarm = TRUE]
       \/ \E ails \in {"nothing", "ac", "trouble"} :
             panel' = [panel EXCEPT ![p].ails = ails]
    /\ told' = told \ {p}
    /\ UNCHANGED <<timer, programming, log, wireVars, state, toldZones,
                   missed, faults>>

Program ==
    /\ Change
    /\ programming' = ~programming
    /\ Report(Cid(IF programming THEN "leave" ELSE "program", "opening", 1,
                  None))
    /\ UNCHANGED <<panel, timer, log, up, buffer, asked, state, told,
                   toldZones>>

\* A zone is faulted, or its timer runs on.
ZoneTimer(z, t) ==
    /\ Change
    /\ timer' = [timer EXCEPT ![z] = t]
    /\ toldZones' = toldZones \ {z}
    /\ UNCHANGED <<panel, programming, log, wireVars, state, told, missed,
                   faults>>

\* An update, unless it would only repeat the last one.  The keybus may have
\* spoilt the icon field: no flag is read then.
KeypadUpdate(p) ==
    /\ up /\ p \notin told
    /\ \/ /\ Send(Keypad(p, IconsOf(panel[p]), panel[p].exiting))
          /\ told' = told \cup {p}
       \/ /\ Fault
          /\ Put(Frame(Keypad(p, {}, panel[p].exiting)))
          /\ told' = told \ {p}
    /\ UNCHANGED <<panelVars, up, buffer, asked, state, toldZones, missed,
                   leftVars>>

\* Mutant: the dump is only asked for when the session starts.
AskOnlyOnce == FALSE /\ UNCHANGED vars

\* The periodic loop asks for the dump again and again.
AskTimers ==
    /\ up /\ ~asked
    /\ asked' = TRUE
    /\ UNCHANGED <<panelVars, up, wire, buffer, state, toldVars, leftVars,
                   faults>>

\* The dump; a chunk may be spoilt.
AnswerTimers ==
    /\ up /\ asked
    /\ asked' = FALSE
    /\ LET dump == [z \in PanelZones |-> Chunk(timer[z])]
       IN \/ Send(Dump(dump)) /\ toldZones' = PanelZones
          \/ \E z \in PanelZones :
                /\ Fault
                /\ Put(Frame(Dump([dump EXCEPT ![z] = <<>>])))
                /\ toldZones' = (toldZones \cup PanelZones) \ {z}
    /\ UNCHANGED <<panelVars, up, buffer, state, told, missed, leftVars>>

\* The read loop gets the first n tokens, and folds in every complete frame
\* before it lets anything else run.
Read(n) ==
    /\ up /\ n <= Len(wire)
    /\ wire' = SubSeq(wire, n + 1, Len(wire))
    /\ LET read == Consumed([state |-> state, buffer |-> buffer],
                            SubSeq(wire, 1, n))
       IN state' = read.state /\ buffer' = read.buffer
    /\ UNCHANGED <<panelVars, up, asked, toldVars, leftVars, faults>>

\* What the module had sent and the entry had not read is lost.
Lost ==
    /\ Fault
    /\ up /\ up' = FALSE
    /\ wire' = <<>> /\ asked' = FALSE
    /\ told' = {} /\ toldZones' = {}
    /\ LET unread == buffer \o wire
       IN missed' = (missed \/ \E i \in DOMAIN unread :
                        unread[i].tok = "body" /\ unread[i].of.code = "cid")
    /\ UNCHANGED <<panelVars, buffer, state, leftVars>>

\* Mutant: what was left of the last session is read on.
ReconnectedWithBuffer ==
    /\ ~up
    /\ up' = TRUE /\ asked' = TRUE
    /\ UNCHANGED <<panelVars, wire, buffer, state, toldVars, leftVars, faults>>

\* A new session starts with an empty buffer and asks for the dump.
Reconnected ==
    /\ ~up
    /\ up' = TRUE /\ asked' = TRUE /\ buffer' = <<>>
    /\ UNCHANGED <<panelVars, wire, state, toldVars, leftVars, faults>>

Next ==
    \/ \E p \in PanelPartitions :
         \/ \E mode \in Modes \ {"disarmed"}, user \in Users : Arm(p, mode, user)
         \/ \E user \in Users : Disarm(p, user)
         \/ Turn(p) \/ KeypadUpdate(p)
    \/ Program
    \/ \E z \in PanelZones, t \in Timers : ZoneTimer(z, t)
    \/ AskTimers \/ AnswerTimers \/ Lost \/ Reconnected
    \/ \E n \in 1..MaxWire : Read(n)

Spec == Init /\ [][Next]_vars

\* The steps of Read that read all there is.
ReadAll == up /\ up' = TRUE /\ wire # <<>> /\ wire' = <<>>

\* The coordinator's loops run, the socket is read, and the module answers
\* whenever it is not busy with something else for ever.
Fairness ==
    /\ WF_vars(AskTimers) /\ WF_vars(Reconnected)
    /\ WF_wire(ReadAll)
    /\ SF_vars(AnswerTimers)

FairSpec == Spec /\ Fairness

(* ------------------------------ properties ----------------------------- *)

\* Once a keypad update that says what a partition does has been read, its
\* alarm control panel shows that, whatever chunks it came in, whatever noise
\* was before it and whatever a lost session left in the buffer (client.py's
\* _consume_buffer, state_machine.py's _apply_keypad_update).
Status(p) ==
    IF p.alarm THEN "triggered"
    ELSE IF p.exiting THEN "arming"
    ELSE [disarmed |-> "disarmed", away |-> "armed_away",
          stay |-> "armed_home", night |-> "armed_night"][p.mode]
StatusIsTrue ==
    up /\ wire = <<>> =>
        \A p \in told : /\ p \in DOMAIN state.partitions
                        /\ AlarmState(state.partitions[p]) = Status(panel[p])

\* Once a dump has been read, each configured zone in it is open if it was
\* faulted at most three ticks ago, and knows how long ago that was; a zone
\* beyond those configured is not added (_apply_zone_timer_dump).
ZonesAreTrue ==
    up /\ wire = <<>> =>
        \A z \in toldZones \cap Zones :
            /\ state.zones[z].open <=> timer[z] <= OpenTicks
            /\ state.zones[z].seconds = 5 * timer[z]

\* The trouble sensor, across all partitions, is on exactly if a partition
\* it has heard of ails or Program Mode is open, as long as no CID event was
\* lost (binary_sensor.py's VistaTroubleSensor): 628 turns off what 627
\* turned on, and no keypad update does.
TroubleIsTrue ==
    LET known == DOMAIN state.partitions
    IN up /\ wire = <<>> /\ ~missed /\ known \subseteq told =>
           (SystemTrouble <=>
              programming \/ \E p \in known : panel[p].ails # "nothing")

\* As long as no CID event was lost, the users of a partition are those who
\* armed and disarmed it last, also when the panel calls it 00
\* (_apply_realtime_cid_event).  The user its sensor shows (models.py's
\* last_user) is the last one to have done either, but only until it is armed
\* again after a disarm: from then on it is who disarmed it last.
UsersAreTrue ==
    up /\ wire = <<>> /\ ~missed =>
        \A p \in DOMAIN state.partitions :
            LET known == state.partitions[p]
                rearmed == log[p].last = "armed" /\ log[p].disarmed # None
            IN /\ known.lastArmed = log[p].armed
               /\ known.lastDisarmed = log[p].disarmed
               /\ last_user(known) =
                     IF rearmed THEN log[p].disarmed ELSE log[p][log[p].last]

\* When the panel and the network settle down, the zone sensors end up
\* showing which zones are open: a dump that was lost with a session or had
\* a spoilt chunk is asked for again (coordinator.py's _periodic_loop).
ZonesCatchUp ==
    <>[](\A z \in Zones : state.zones[z].open <=> timer[z] <= OpenTicks)
=============================================================================
