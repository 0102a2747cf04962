------------------------------- MODULE ZoneMenu -------------------------------
(***************************************************************************)
(* The guided operations' keystrokes (field_programming.py, panels/vista.py *)
(* and the guard in programming.py) against the panel that is to take them. *)
(* Nothing reads the panel's menu back, so what is typed is decided before  *)
(* the first key: here entry by entry, an entry being the keys up to the    *)
(* next prompt, and tagged with the prompt its builder means it for.  The   *)
(* panel, external, has prompts of its own and looks only at the value.     *)
(*                                                                         *)
(* Models are the residential ones; the 20P has the 21iP's menu.           *)
(***************************************************************************)
EXTENDS Integers, Sequences, FiniteSets

CONSTANTS
    Models,        \* the models to look at
    Zones,         \* the zone numbers to ask for, of 1..64
    HardwireTypes, \* the wirings to ask for, of 0..4
    MaxRequests    \* operations asked for

ASSUME MenuAssumption ==
    /\ Models \subseteq {"21iP", "15P", "10P"}
    /\ Zones \subseteq 1..64
    /\ HardwireTypes \subseteq 0..4
    /\ MaxRequests \in Nat

VARIABLES
    model,
    stated,        \* the entry's zone doubling option
    doubled,       \* panel: the board zones that are wired for doubling
    count,         \* operations asked for so far
    request,       \* the last of them
    keys,          \* the entries still to be typed
    outcome,
    prompt,        \* panel: what the keypad asks for
    subject,       \* panel: the zone, data field or key being programmed
    stored,        \* panel: what it has written since the last operation began
    ready          \* that operation found the panel as its builder supposes

menuVars == <<model, stated>>
panelVars == <<doubled, prompt, subject, stored>>
vars == <<menuVars, panelVars, count, request, keys, outcome, ready>>

ZoneDoublingType == 3
DoubledZones == 10..16
DoublingAffectedZones == 9..16

ZoneRequests ==
    [op : {"zone"}, zone : Zones, type : {16}, partition : {3},
     report : {1}, hardwire : HardwireTypes, response : {2},
     connection : {"unset", "wired", "wireless"}]
TimingRequests == [op : {"timing"}, field : {34, 35, 84}, value : {0, 3, 97, 98}]
KeyRequests == [op : {"key"}, letter : {1, 4}, partition : {2}, action : {0, 8}]
Requests == ZoneRequests \cup TimingRequests \cup KeyRequests

-----------------------------------------------------------------------------
(* The zone layouts.                                                       *)

Residential(board, hardwire, types, expansion, aux, button, multi) ==
    [board |-> board, hardwirePrompt |-> hardwire, types |-> types,
     expansion |-> expansion, auxWired |-> aux, button |-> button,
     partitionPrompt |-> multi, doubling |-> multi]

Layout ==
    [m \in {"21iP", "15P", "10P"} |->
        CASE m = "21iP" -> Residential(1..8, 2..8, 0..4, 9..48, TRUE, 49..64, TRUE)
          [] m = "15P" -> Residential(1..6, 2..6, 0..2, 9..34, TRUE, 49..56, FALSE)
          [] m = "10P" -> Residential(1..6, 1..6, 0..2, 9..24, FALSE, 49..56, FALSE)]

-----------------------------------------------------------------------------
(* classify_zone and the builders.                                         *)

Doubled(r) ==
    Layout[model].doubling /\ stated = "on" /\ r.zone \in DoubledZones

DoublingUnclear(r) ==
    /\ Layout[model].doubling /\ r.zone \in DoublingAffectedZones
    /\ stated = "on" => ~Doubled(r)
    /\ stated # "off"

\* Mutant: a doubled board zone is accepted before the option says so.
AnyWiring(r) == r.hardwire \in Layout[model].types

WiringKnown(r) ==
    /\ r.hardwire \in Layout[model].types
    /\ r.hardwire = ZoneDoublingType => stated = "on"

\* Which prompts follow REPORT CODE, or that the zone is refused.
KindOf(r) ==
    CASE r.zone \in Layout[model].button \/ DoublingUnclear(r) -> "refused"
      [] Doubled(r) -> "doubled"
      [] r.zone \in Layout[model].board /\ ~Doubled(r) ->
            IF r.zone \in Layout[model].hardwirePrompt => WiringKnown(r)
              THEN "board" ELSE "refused"
      [] OTHER ->
            IF /\ r.zone \in Layout[model].expansion
               /\ Layout[model].auxWired /\ r.connection = "wired"
              THEN "aux_wired" ELSE "refused"

E(for, is) == [for |-> for, is |-> is]
When(condition, for, is) == IF condition THEN <<E(for, is)>> ELSE <<>>

\* Mutant: HARDWIRE TYPE is answered for zone 1 and doubled zones as well.
AlwaysWired(r) ==
    When(KindOf(r) # "aux_wired", "hardwire", r.hardwire)
        \o When(KindOf(r) = "board", "response", r.response)
        \o When(KindOf(r) = "aux_wired", "input", 2)

Wiring(r) ==
    When(KindOf(r) = "board" /\ r.zone \in Layout[model].hardwirePrompt,
         "hardwire", r.hardwire)
        \o When(KindOf(r) = "board", "response", r.response)
        \o When(KindOf(r) = "aux_wired", "input", 2)

ZoneKeys(r) ==
    <<E("field", 56), E("confirm", 0), E("zone", r.zone), E("summary", 0),
      E("type", r.type)>>
        \o When(Layout[model].partitionPrompt, "partition", r.partition)
        \o <<E("report", r.report)>>
        \o Wiring(r)
        \o <<E("alpha", 0), E("zone", 0)>>

TimingIsValid(r) ==
    CASE r.field = 84 -> r.value \in 0..3
      [] r.field = 34 -> r.value \in 0..97
      [] OTHER -> r.value \in 0..99

\* Mutant: entry delay 1 is written to the exit delay's field.
OneDelay(r) ==
    <<E("field", IF r.field = 35 THEN 34 ELSE r.field), E("value", r.value)>>

TimingKeys(r) == <<E("field", r.field), E("value", r.value)>>

FunctionKeyKeys(r) ==
    <<E("field", 57), E("key", r.letter), E("key_partition", r.partition),
      E("key_function", r.action), E("key", 0)>>

Wrapped(sequence) == <<E("normal", 800)>> \o sequence \o <<E("field", 99)>>

Built(r) ==
    Wrapped(CASE r.op = "zone" -> ZoneKeys(r)
              [] r.op = "timing" -> TimingKeys(r)
              [] r.op = "key" -> FunctionKeyKeys(r))

\* One A-D letter, directly after *57, where Program Mode has been opened.
GuardPasses(r) ==
    LET built == Built(r)
        letters == {i \in DOMAIN built :
                        built[i].for = "key" /\ built[i].is # 0}
    IN \/ letters = {}
       \/ /\ r.op = "key" /\ Cardinality(letters) = 1
          /\ \A i \in letters : /\ built[i - 1] = E("field", 57)
                                /\ \E j \in 1..(i - 1) :
                                       built[j] = E("normal", 800)

Refuses(r) ==
    \/ r.op = "zone" /\ KindOf(r) = "refused"
    \/ r.op = "timing" /\ ~TimingIsValid(r)
    \/ ~GuardPasses(r)

-----------------------------------------------------------------------------
(* The panel.                                                              *)

Truth == IF doubled = {} THEN "off" ELSE "on"
Board == IF model = "21iP" THEN 1..8 ELSE 1..6
AsksWiring == IF model = "10P" THEN 1..6 ELSE Board \ {1}
AsksPartition == model = "21iP"

AfterReport(zone) ==
    CASE zone \in AsksWiring -> "hardwire"
      [] zone \in Board \ AsksWiring -> "response"
      [] zone \notin Board /\ Truth = "on" /\ zone \in 10..16 -> "alpha"
      [] OTHER -> "input"

Settings == {"type", "partition", "report", "hardwire", "response", "input",
             "value", "key_partition", "key_function"}
Prompts == Settings \cup {"normal", "field", "confirm", "zone", "summary",
                          "key", "alpha"}

NextPrompt(is) ==
    CASE prompt = "normal" -> IF is = 800 THEN "field" ELSE "normal"
      [] prompt = "field" -> (CASE is = 56 -> "confirm"
                                [] is = 57 -> "key"
                                [] is = 99 -> "normal"
                                [] is \in {34, 35, 84} -> "value"
                                [] OTHER -> "field")
      [] prompt = "confirm" -> "zone"
      [] prompt = "zone" -> IF is = 0 THEN "field" ELSE "summary"
      [] prompt = "summary" -> "type"
      [] prompt = "type" -> IF AsksPartition THEN "partition" ELSE "report"
      [] prompt = "partition" -> "report"
      [] prompt = "report" -> AfterReport(subject)
      [] prompt = "hardwire" -> "response"
      [] prompt \in {"response", "input"} -> "alpha"
      [] prompt = "alpha" -> "zone"
      [] prompt = "value" -> "field"
      [] prompt = "key" -> IF is = 0 THEN "field" ELSE "key_partition"
      [] prompt = "key_partition" -> "key_function"
      [] prompt = "key_function" -> "key"

\* An entry that says what the settings after it are for.
Names(is) ==
    \/ prompt \in {"zone", "key"} /\ is # 0
    \/ prompt = "field" /\ is # 99

PanelTakes(is) ==
    /\ prompt' = NextPrompt(is)
    /\ subject' = IF prompt' = "normal" THEN 0
                  ELSE IF Names(is) THEN is ELSE subject
    /\ stored' = IF prompt \in Settings
                   THEN stored \cup {<<subject, prompt, is>>} ELSE stored
    /\ doubled' = IF prompt # "hardwire" \/ model # "21iP" THEN doubled
                  ELSE IF is = ZoneDoublingType THEN doubled \cup {subject}
                                                ELSE doubled \ {subject}

-----------------------------------------------------------------------------
Statements == {"not_stated", "off", "on"}

Init ==
    /\ model \in Models
    /\ doubled \in IF model = "21iP" THEN {{}, {2}, {2, 8}} ELSE {{}}
    /\ stated \in IF model = "21iP" THEN Statements ELSE {"not_stated"}
    /\ count = 0 /\ request = <<>> /\ keys = <<>> /\ outcome = "none"
    /\ prompt = "normal" /\ subject = 0 /\ stored = {} /\ ready = FALSE

\* The options flow takes whatever is stated, true or not.  (Bound: while an
\* operation is still to come.)
SetOption ==
    /\ model = "21iP" /\ keys = <<>> /\ count < MaxRequests
    /\ stated' \in Statements
    /\ UNCHANGED <<model, count, request, keys, outcome, ready, panelVars>>

\* What a builder has to take on trust: that the panel is out of Program Mode,
\* and for a zone that doubling makes or unmakes, what the option says of it.
\* A board zone's sequence does not rest on the option: stating On and then
\* wiring the first doubled zone is the documented way to begin.
AsSupposed(r) ==
    /\ prompt = "normal"
    /\ model = "21iP" /\ r.op = "zone" /\ r.zone \in DoublingAffectedZones =>
         stated = Truth

Submit(r) ==
    /\ keys = <<>>
    /\ count < MaxRequests /\ count' = count + 1
    /\ request' = r
    /\ ready' = AsSupposed(r)
    /\ stored' = {}
    /\ IF Refuses(r)
         THEN outcome' = "refused" /\ keys' = <<>>
         ELSE outcome' = "sending" /\ keys' = Built(r)
    /\ UNCHANGED <<menuVars, doubled, prompt, subject>>

TypesEntry ==
    /\ keys # <<>>
    /\ PanelTakes(Head(keys).is)
    /\ keys' = Tail(keys)
    /\ outcome' = IF keys' = <<>> THEN "sent" ELSE outcome
    /\ UNCHANGED <<menuVars, count, request, ready>>

\* Mutant: a failed key does not keep the rest of the sequence back.
FailsAndSkips ==
    /\ keys # <<>>
    /\ keys' = Tail(keys)
    /\ outcome' = "failed"
    /\ UNCHANGED <<menuVars, count, request, ready, panelVars>>

\* A key is rejected, or not acknowledged: the rest is not sent.
Fails ==
    /\ keys # <<>>
    /\ keys' = <<>> /\ outcome' = "failed"
    /\ UNCHANGED <<menuVars, count, request, ready, panelVars>>

\* After a failure somebody leaves Program Mode at the keypad, or nobody does
\* and the next operation finds the panel in it.  (Bound: as for SetOption.)
LeavesByHand ==
    /\ keys = <<>> /\ prompt # "normal" /\ count < MaxRequests
    /\ prompt' = "normal" /\ subject' = 0
    /\ UNCHANGED <<menuVars, count, request, keys, outcome, ready, doubled,
                   stored>>

Next ==
    \/ SetOption \/ TypesEntry \/ Fails \/ LeavesByHand
    \/ \E r \in Requests : Submit(r)

Spec == Init /\ [][Next]_vars

-----------------------------------------------------------------------------
TypeOK ==
    /\ model \in Models
    /\ stated \in Statements
    /\ doubled \subseteq 2..8
    /\ count \in 0..MaxRequests
    /\ request \in Requests \cup {<<>>}
    /\ outcome \in {"none", "refused", "sending", "sent", "failed"}
    /\ outcome = "sending" <=> keys # <<>>
    /\ prompt \in Prompts
    /\ ready \in BOOLEAN

\* Whatever the model, the zone and its wiring, each entry of a sequence is
\* typed at the prompt it was built for: one too many or too few, and all that
\* follow would answer the wrong question.  Only for zones 9 to 16 does that
\* rest on the option's being true: with a false one the board zones, timings
\* and function keys still meet their prompts.  (classify_zone, the builders.)
EntriesMeetTheirPrompts == keys # <<>> /\ ready => Head(keys).for = prompt

\* The settings a panel asks for, by its own menu and not by the builders.
ZoneSettings(zone) ==
    {"type", "report"}
        \cup (IF AsksPartition THEN {"partition"} ELSE {})
        \cup (IF zone \in AsksWiring THEN {"hardwire"} ELSE {})
        \cup (IF zone \in Board THEN {"response"} ELSE {})
        \cup (IF AfterReport(zone) = "input" THEN {"input"} ELSE {})

AskedZone(r) ==
    [type |-> r.type, partition |-> r.partition, report |-> r.report,
     hardwire |-> r.hardwire, response |-> r.response, input |-> 2]

Asked(r) ==
    CASE r.op = "zone" ->
            {<<r.zone, p, AskedZone(r)[p]>> : p \in ZoneSettings(r.zone)}
      [] r.op = "timing" -> {<<r.field, "value", r.value>>}
      [] r.op = "key" -> {<<r.letter, "key_partition", r.partition>>,
                          <<r.letter, "key_function", r.action>>}

\* When a sequence is through, the panel has written every setting it asks for
\* of the zone, field or key that was asked for, with the value asked for, and
\* no other setting of anything; and it is out of Program Mode, where it does
\* not disarm.
DoneAsAsked ==
    outcome = "sent" /\ ready => prompt = "normal" /\ stored = Asked(request)

\* What README.md's table for program_zone lists as refused before anything
\* is sent, and nothing else; the guard that reads the finished sequence adds
\* no refusal to those of the operation that built it.
DocumentedZoneRefusal(r) ==
    \/ r.zone >= 49
    \/ r.zone \in 7..8 /\ model # "21iP"
    \/ model = "15P" /\ r.zone > 34
    \/ model = "21iP" /\ stated = "not_stated" /\ r.zone \in 9..16
    \/ model = "21iP" /\ stated = "on" /\ r.zone = 9
    \/ /\ r.zone >= 9
       /\ model = "10P" \/ r.connection # "wired"
       /\ ~(model = "21iP" /\ stated = "on" /\ r.zone \in 10..16)
    \/ /\ r.zone \in AsksWiring
       /\ \/ r.hardwire = 3 /\ stated # "on"
          \/ r.hardwire > 2 /\ model # "21iP"

DocumentedRefusal(r) ==
    \/ r.op = "zone" /\ DocumentedZoneRefusal(r)
    \/ r.op = "timing" /\ \/ r.field = 84 /\ r.value > 3
                          \/ r.field = 34 /\ r.value > 97

\* Every request is sent or refused as README.md's table says.
RefusedAsDocumented ==
    [][count' # count => (outcome' = "refused" <=> DocumentedRefusal(request'))]_vars
=============================================================================
