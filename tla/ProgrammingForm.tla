--------------------------- MODULE ProgrammingForm ---------------------------
(***************************************************************************)
(* The device page's programming form and its buttons (field_programming,  *)
(* button, number, select and switch.py), with the guards of the guided    *)
(* operations (field_programming_services.py).  Every value of the form is *)
(* abstracted to what the guards tell apart.                               *)
(*                                                                         *)
(* Setting an entity writes to the form at once.  A press waits for the    *)
(* button platform's turn, passes its guards in one step, and is then away *)
(* at the client until its keystrokes are through (CommandChannel): only   *)
(* there do others get to run.                                             *)
(***************************************************************************)
CONSTANTS
    Presses,      \* calls of the buttons' press action
    None,         \* no press
    Supported,    \* the dialect's supported_guided_ops
    Verified,     \* the panel model is VERIFIED
    HasCode,      \* an installer code is configured
    Faults        \* "reset": the socket breaks under a frame being written;
                  \* "cancel": the press is cancelled while it sends

Ops == {"zone", "timing", "key"}

ASSUME ConstantsAssumption ==
    /\ None \notin Presses
    /\ Supported \subseteq Ops
    /\ Verified \in BOOLEAN /\ HasCode \in BOOLEAN
    /\ ~Verified => Supported \subseteq {"timing"}
    /\ Faults \subseteq {"reset", "cancel"}

VARIABLES
    number,       \* the zone's number: one whose menu is known, or refused
    type,         \* the zone's type
    connection,   \* how an expansion zone is stated to be connected
    timing,       \* the timing field's value
    key,          \* the function key's letter, action and partition are set
    switches,     \* the confirmations that are on
    at, op,       \* where each press is, and of which button
    turn,         \* who holds the button platform's PARALLEL_UPDATES
    sequence,     \* what the sequence being sent rests on; {} if none is
    result        \* last_programming_result

valueVars == <<number, type, timing, key>>
grantVars == <<connection, switches>>
pressVars == <<at, op, turn>>
vars == <<valueVars, grantVars, pressVars, sequence, result>>

Switches == {"confirm", "life_safety", "unverified"}
Outcomes == {"success", "refused", "failed"}

\* Between presses nothing is being sent.
TypeOK ==
    /\ number \in {"unset", "board", "expansion", "refused"}
    /\ type \in {"unset", "ordinary", "life_safety"}
    /\ connection \in {"unset", "wired", "wireless"}
    /\ timing \in {"unset", "good", "bad"}
    /\ key \in BOOLEAN
    /\ switches \subseteq Switches
    /\ at \in [Presses -> {"idle", "waiting", "sending", "done"}]
    /\ op \in [Presses -> Ops]
    /\ turn \in Presses \cup {None}
    /\ sequence \subseteq Switches \cup {"wired"}
    /\ turn = None <=> sequence = {}
    /\ result \in Outcomes \cup {"none"}

Init ==
    /\ number = "unset" /\ type = "unset" /\ connection = "unset"
    /\ timing = "unset" /\ key = FALSE
    /\ switches = {}
    /\ at = [p \in Presses |-> "idle"]
    /\ op \in [Presses -> Supported]
    /\ turn = None
    /\ sequence = {}
    /\ result = "none"

-----------------------------------------------------------------------------
(* The form's entities, set by an administrator.                           *)

SetZone ==
    /\ "zone" \in Supported
    /\ \/ number' \in {"board", "expansion", "refused"} /\ UNCHANGED type
       \/ type' \in {"ordinary", "life_safety"} /\ UNCHANGED number
    /\ UNCHANGED <<timing, key, grantVars, pressVars, sequence, result>>

SetTiming ==
    /\ "timing" \in Supported
    /\ timing' \in {"good", "bad"}
    /\ UNCHANGED <<number, type, key, grantVars, pressVars, sequence,
                   result>>

SetKey ==
    /\ "key" \in Supported
    /\ key' = TRUE
    /\ UNCHANGED <<number, type, timing, grantVars, pressVars, sequence,
                   result>>

StateConnection ==
    /\ "zone" \in Supported
    /\ connection' \in {"wired", "wireless"}
    /\ UNCHANGED <<valueVars, switches, pressVars, sequence, result>>

\* The confirm switches that the device page has.
Offered ==
    {s \in Switches : /\ s = "confirm" => Supported # {}
                      /\ s = "life_safety" => "zone" \in Supported
                      /\ s = "unverified" => Supported # {} /\ ~Verified}

SetSwitch(s) ==
    /\ s \in Offered
    /\ switches' \in {switches \cup {s}, switches \ {s}}
    /\ UNCHANGED <<valueVars, connection, pressVars, sequence, result>>

-----------------------------------------------------------------------------
(* The guards of the guided operations.                                    *)

Complete(o) ==
    \/ o = "zone" /\ number # "unset" /\ type # "unset"
    \/ o = "timing" /\ timing # "unset"
    \/ o = "key" /\ key

\* What a sequence that o would send now rests on.
Risks(o) ==
    {"confirm"}
        \cup (IF o = "zone" /\ type = "life_safety" THEN {"life_safety"} ELSE {})
        \cup (IF o = "zone" /\ number = "expansion" THEN {"wired"} ELSE {})
        \cup (IF Verified THEN {} ELSE {"unverified"})

\* The confirmations, and the statement that counts as one.
Granted == switches \cup (IF connection = "wired" THEN {"wired"} ELSE {})

Passes(o) ==
    /\ Complete(o)
    /\ Risks(o) \subseteq Granted
    /\ o = "zone" => number # "refused"
    /\ o = "timing" => timing # "bad"
    /\ HasCode

-----------------------------------------------------------------------------
(* async_press.                                                            *)

Press(p) ==
    /\ at[p] = "idle"
    /\ op[p] \in Supported
    /\ at' = [at EXCEPT ![p] = "waiting"]
    /\ UNCHANGED <<valueVars, grantVars, op, turn, sequence, result>>

Spend == switches' = {} /\ connection' = "unset"

\* Mutant: the presses of different buttons do not wait for each other.
HasTurnUnlimited(p) == at[p] = "waiting"

HasTurn(p) == at[p] = "waiting" /\ turn = None

\* The call is cancelled before its turn.
Cancelled(p) ==
    /\ "cancel" \in Faults /\ at[p] = "waiting"
    /\ at' = [at EXCEPT ![p] = "done"]
    /\ UNCHANGED <<valueVars, grantVars, op, turn, sequence, result>>

\* Not an administrator: raised before anything is looked at.
Unauthorized(p) ==
    /\ HasTurn(p)
    /\ at' = [at EXCEPT ![p] = "done"]
    /\ UNCHANGED <<valueVars, grantVars, op, turn, sequence, result>>

\* The confirm switch is off: raised before the attempt, and not recorded.
Unconfirmed(p) ==
    /\ HasTurn(p) /\ "confirm" \notin switches
    /\ at' = [at EXCEPT ![p] = "done"]
    /\ UNCHANGED <<valueVars, grantVars, op, turn, sequence, result>>

Refused(p) ==
    /\ HasTurn(p) /\ "confirm" \in switches /\ ~Passes(op[p])
    /\ at' = [at EXCEPT ![p] = "done"]
    /\ Spend
    /\ result' = "refused"
    /\ UNCHANGED <<valueVars, op, turn, sequence>>

Sends(p) ==
    /\ HasTurn(p) /\ "confirm" \in switches /\ Passes(op[p])
    /\ at' = [at EXCEPT ![p] = "sending"]
    /\ turn' = p
    /\ sequence' = Risks(op[p])
    /\ UNCHANGED <<valueVars, grantVars, op, result>>

Record(how) == result' = how

\* Acknowledged key by key, or a TPIError in its HomeAssistantError.  A broken
\* socket's OSError and a cancellation pass every handler but the last.
Ending ==
    \/ Record("success") \/ Record("failed")
    \/ Faults # {} /\ UNCHANGED result

\* Mutant: the turn is over before the sequence is.
EndsEarly(p) ==
    /\ at[p] = "sending"
    /\ at' = [at EXCEPT ![p] = "done"]
    /\ turn' = None
    /\ Spend
    /\ Ending
    /\ UNCHANGED <<valueVars, op, sequence>>

Ends(p) ==
    /\ at[p] = "sending"
    /\ at' = [at EXCEPT ![p] = "done"]
    /\ turn' = None
    /\ sequence' = {}
    /\ Spend
    /\ Ending
    /\ UNCHANGED <<valueVars, op>>

-----------------------------------------------------------------------------
PressStep(p) ==
    \/ Press(p) \/ Cancelled(p) \/ Unauthorized(p) \/ Unconfirmed(p)
    \/ Refused(p) \/ Sends(p) \/ Ends(p)

Next ==
    \/ SetZone \/ SetTiming \/ SetKey \/ StateConnection
    \/ \E s \in Switches : SetSwitch(s)
    \/ \E p \in Presses : PressStep(p)

Spec == Init /\ [][Next]_vars

-----------------------------------------------------------------------------
Promise == INSTANCE Authorization
             WITH Grants <- Switches \cup {"wired"}, Consent <- "confirm",
                  granted <- Granted, attempt <- sequence

\* "An authorization is spent on exactly one write attempt": presses that wait
\* for each other, a form that is edited while one of them sends, and however
\* it ends, an attempt rests on what was given since the last one was over.
ImplementsAuthorization == Promise!Spec
=============================================================================
