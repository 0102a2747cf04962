------------------------------ MODULE PanelView ------------------------------
(***************************************************************************)
(* What an entry believes of its panel's bypassed zones (state_machine.py, *)
(* models.py), and the bypass switches and the toggle_zone_bypass action   *)
(* that change it (switch.py, coordinator.py, programming.py).             *)
(*                                                                         *)
(* The panel is external.  It knows which zones are bypassed; the wire     *)
(* only tells whether any is, by the icon in a keypad update, and only     *)
(* offers a toggle.  A sequence is one frame here, acknowledged once:      *)
(* CommandChannel models its keys and how they may fail.                   *)
(* There is one partition: zone.partition is 1 and is never refined.       *)
(***************************************************************************)
EXTENDS Naturals, Sequences, FiniteSets

CONSTANTS
    Zones,
    SwitchCalls,   \* turn_on and turn_off calls on the bypass switches
    ActionCalls,   \* calls of the toggle_zone_bypass action
    None,          \* nobody
    Faults         \* what may make the wire less than prompt and reliable

ASSUME CallsAssumption ==
    /\ SwitchCalls \cap ActionCalls = {}
    /\ None \notin SwitchCalls
    /\ Faults \subseteq {"early", "hasty", "fail", "outage", "refuse"}

Calls == SwitchCalls \cup ActionCalls

VARIABLES
    faults,        \* of Faults, those of this behaviour
    panel,         \* the zones bypassed at the panel
    reported,      \* the bypass icon in the panel's last keypad update
    feed,          \* frames on their way to the entry
    bypassed,      \* the zones with ZoneState.bypassed
    active,        \* PartitionState.bypass_active
    at, zone, want,  \* where each call is, and what it is for
    turn           \* who holds the switch platform's PARALLEL_UPDATES

panelVars == <<panel, reported>>
viewVars == <<bypassed, active>>
callVars == <<at, zone, want>>
vars == <<faults, panelVars, feed, viewVars, callVars, turn>>

\* A wire that is prompt and reliable; one on which sends may fail, and calls
\* come at any time; and one with everything.
FaultSets == {{}, Faults \cap {"fail", "hasty"}, Faults}

Icon == IF panel = {} THEN "off" ELSE "on"
UnderWay(c) == at[c] \in {"sending", "acking", "acked"}

TypeOK ==
    /\ faults \in FaultSets
    /\ panel \subseteq Zones /\ bypassed \subseteq Zones
    /\ reported \in {"on", "off", "unknown"}
    /\ feed \in Seq({"ack", "on", "off"})
    /\ active \in BOOLEAN
    /\ at \in [Calls -> {"idle", "queued", "sending", "acking", "acked", "done",
                         "failed"}]
    /\ zone \in [Calls -> Zones]
    /\ want \in [Calls -> BOOLEAN]
    /\ turn \in SwitchCalls \cup {None}

Init ==
    /\ faults \in FaultSets
    /\ panel = {} /\ reported = "off"
    /\ feed = <<>>
    /\ bypassed = {} /\ active = FALSE
    /\ at = [c \in Calls |-> "idle"]
    /\ zone \in [Calls -> Zones]
    /\ want \in [Calls -> BOOLEAN]
    /\ turn = None

-----------------------------------------------------------------------------
(* The calls.                                                              *)

Toggled(set, z) == IF z \in set THEN set \ {z} ELSE set \cup {z}

ViewIsCurrent == reported = Icon /\ feed = <<>>

\* Unless it is "hasty", a call is made when the panel's last change is known,
\* or is being made by a call.
Call(c) ==
    /\ at[c] = "idle"
    /\ ViewIsCurrent \/ (\E d \in Calls : UnderWay(d)) \/ "hasty" \in faults
    /\ at' = [at EXCEPT ![c] = "queued"]
    /\ UNCHANGED <<faults, panelVars, feed, viewVars, zone, want, turn>>

\* Mutant: two switch calls of the platform may run at once.
MayRunUnlimited(c) == TRUE

\* Home Assistant runs one call of the switch platform at a time.
MayRun(c) == c \in SwitchCalls => turn = None

\* Mutant: the action takes the switch platform's turn as well.
TakeTurnAlways(c) == c

TakeTurn(c) == IF c \in SwitchCalls THEN c ELSE turn

Release(c) == IF turn = c THEN None ELSE turn

\* A call that has waited starts when the one before it is through, whatever
\* of that is still to be reported, and decides by the flag as it is then.
Starts(c) ==
    /\ at[c] = "queued" /\ MayRun(c)
    /\ IF c \in SwitchCalls /\ want[c] = (zone[c] \in bypassed)
         THEN /\ at' = [at EXCEPT ![c] = "done"]
              /\ UNCHANGED turn
         ELSE /\ at' = [at EXCEPT ![c] = "sending"]
              /\ turn' = TakeTurn(c)
    /\ UNCHANGED <<faults, panelVars, feed, viewVars, zone, want>>

\* Only the switch records what it has toggled; the action does not.
AfterToggle(c) ==
    IF c \in SwitchCalls THEN Toggled(bypassed, zone[c]) ELSE bypassed

Flips(c) ==
    /\ at[c] = "acked"
    /\ at' = [at EXCEPT ![c] = "done"]
    /\ bypassed' = AfterToggle(c)
    /\ turn' = Release(c)
    /\ UNCHANGED <<faults, panelVars, feed, active, zone, want>>

\* The send raised, whatever the panel made of it; no answer to it is left.
Fails(c) ==
    /\ "fail" \in faults /\ at[c] \in {"sending", "acking"}
    /\ at' = [at EXCEPT ![c] = "failed"]
    /\ \/ at[c] = "sending" /\ UNCHANGED feed
       \/ at[c] = "acking" /\ \E i \in DOMAIN feed :
             /\ feed[i] = "ack"
             /\ feed' = SubSeq(feed, 1, i - 1) \o SubSeq(feed, i + 1, Len(feed))
    /\ turn' = Release(c)
    /\ UNCHANGED <<faults, panelVars, viewVars, zone, want>>

-----------------------------------------------------------------------------
(* apply_event.                                                            *)

ReceiveAck(c) ==
    /\ at[c] = "acking" /\ feed # <<>> /\ Head(feed) = "ack"
    /\ feed' = Tail(feed)
    /\ at' = [at EXCEPT ![c] = "acked"]
    /\ UNCHANGED <<faults, panelVars, viewVars, zone, want, turn>>

\* Mutant: the zones' flags survive the icon's going out.
KeepFlags(icon) == bypassed

\* The icon going out clears every zone's flag; its staying out does not.
FlagsAfter(icon) == IF active /\ ~icon THEN {} ELSE bypassed

ReceiveKeypadUpdate ==
    /\ feed # <<>> /\ Head(feed) # "ack"
    /\ LET icon == Head(feed) = "on" IN
         /\ active' = icon
         /\ bypassed' = FlagsAfter(icon)
    /\ feed' = Tail(feed)
    /\ UNCHANGED <<faults, panelVars, callVars, turn>>

-----------------------------------------------------------------------------
(* The panel.                                                              *)

\* Unless it is "early", a change of the panel reaches the entry after the
\* coroutine waiting for an acknowledgement has run.
Prompt == "early" \in faults \/ \A c \in Calls : at[c] \notin {"acking", "acked"}

\* The sequence's last key; a panel may also "refuse" to bypass.
PanelTakes(c) ==
    /\ at[c] = "sending" /\ reported = Icon
    /\ \A d \in Calls : at[d] # "acking"
    /\ at' = [at EXCEPT ![c] = "acking"]
    /\ feed' = Append(feed, "ack")
    /\ \/ panel' = Toggled(panel, zone[c])
       \/ "refuse" \in faults /\ UNCHANGED panel
    /\ UNCHANGED <<faults, reported, viewVars, zone, want, turn>>

PanelReports ==
    /\ reported # Icon /\ Prompt
    /\ reported' = Icon
    /\ feed' = Append(feed, Icon)
    /\ UNCHANGED <<faults, panel, viewVars, callVars, turn>>

\* Disarming clears every bypass.  Unless somebody is "hasty", nobody disarms
\* while calls wait or are under way.
PanelDisarms ==
    /\ panel # {} /\ reported = Icon
    /\ "hasty" \in faults \/ \A c \in Calls : at[c] \in {"idle", "done", "failed"}
    /\ panel' = {}
    /\ UNCHANGED <<faults, reported, feed, viewVars, callVars, turn>>

\* The session is lost and comes back; VistaState outlives it, and the panel
\* repeats its keypad update.
Outage ==
    /\ "outage" \in faults
    /\ feed' = <<>>
    /\ reported' = "unknown"
    /\ at' = [c \in Calls |->
                IF at[c] \in {"sending", "acking"} THEN "failed" ELSE at[c]]
    /\ turn' = IF turn # None /\ at'[turn] = "failed" THEN None ELSE turn
    /\ UNCHANGED <<faults, panel, viewVars, zone, want>>

-----------------------------------------------------------------------------
Next ==
    \/ \E c \in Calls : \/ Call(c) \/ Starts(c) \/ Flips(c) \/ Fails(c)
                        \/ ReceiveAck(c) \/ PanelTakes(c)
    \/ ReceiveKeypadUpdate
    \/ PanelReports \/ PanelDisarms \/ Outage

Spec == Init /\ [][Next]_vars

-----------------------------------------------------------------------------
Settled == ViewIsCurrent /\ \A c \in Calls : ~UnderWay(c)

\* The wire is prompt and reliable, and nobody bypasses but by the switches.
Undisturbed == faults = {} /\ \A c \in ActionCalls : at[c] = "idle"

\* Undisturbed, the switches show what the panel has, although the panel never
\* says which zones that is: local flips, the icon's going out and the order in
\* which the platform runs its calls, one right after another before the panel
\* has reported the first, add up to it.
SwitchesAgree == Undisturbed /\ Settled => bypassed = panel

\* Whatever sends fail, however far the panel got with them, whoever else
\* toggles and whenever: once the panel has no bypass left and has said so, no
\* switch shows one.  It takes that updates are prompt, the session stays and
\* the panel does not refuse; a flag that is wrong the other way stays wrong.
NoneIsLeftOver ==
    faults \subseteq {"fail", "hasty"} /\ Settled /\ panel = {} => bypassed = {}

\* Undisturbed, a switch call leaves its zone the way it was asked to, whether it
\* had to send the toggle or not; a second call for the zone that decided
\* before the first was through would undo it.
CallsGetTheirWay ==
    [][\A c \in SwitchCalls :
         Undisturbed /\ at[c] # "done" /\ at'[c] = "done"
            => (zone[c] \in panel') = want[c]]_vars
=============================================================================
