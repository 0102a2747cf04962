--------------------------- MODULE PanelViewProofs ---------------------------
(***************************************************************************)
(* Proofs about PanelView, for any number of zones and calls: on a prompt  *)
(* and reliable wire the switches show what the panel has, and each call   *)
(* leaves its zone as asked; and also when sends fail, no switch shows a   *)
(* bypass once the panel has none.                                         *)
(***************************************************************************)
EXTENDS PanelView, SequenceTheorems, TLAPS

\* What the entry has read and is about to read of the bypass icon ends in
\* what the panel reported last.
IconArrives ==
    \/ reported = "on" /\ \/ feed = <<>> /\ active
                          \/ feed = <<"on">>
    \/ reported = "off" /\ \/ feed = <<>> /\ ~active
                           \/ feed = <<"off">> /\ active
                           \/ feed = <<"on", "off">>

\* Between two calls: a panel with bypassed zones has just those shown, and
\* one without shows none, unless the icon's going out is still to be read.
Between ==
    /\ IconArrives
    /\ panel # {} => bypassed = panel /\ feed \in {<<>>, <<"on">>}
    /\ panel = {} => bypassed = {} \/ reported = "on" \/ feed # <<>>

\* What a call finds that has waited for another: the flags are the panel's,
\* though the icon may not have been reported, or read, yet.
Known ==
    /\ bypassed = panel
    /\ \/ feed = <<>> /\ (active <=> reported = "on") /\ reported \in {"on", "off"}
       \/ feed = <<"on">> /\ reported = "on" /\ panel # {}
       \/ feed = <<"off">> /\ reported = "off" /\ panel = {}

Waiting == \E c \in SwitchCalls : at[c] = "queued"

\* While c is under way at most one update is still to be read, before its
\* acknowledgement, and it clears nothing; panel and view differ in c's zone
\* from the moment the panel took it.
During(c) ==
    /\ want[c] # (zone[c] \in bypassed)
    /\ at[c] = "sending" => Known
    /\ at[c] = "acking" =>
         \/ feed = <<"ack">> /\ (active <=> reported = "on")
         \/ feed = <<"on", "ack">> /\ reported = "on"
         \/ feed = <<"off", "ack">> /\ reported = "off" /\ bypassed = {}
    /\ at[c] = "acked" => feed = <<>> /\ (active <=> reported = "on")
    /\ at[c] \in {"acking", "acked"} =>
         reported \in {"on", "off"} /\ panel = Toggled(bypassed, zone[c])

Agreement ==
    /\ turn = None => Between /\ (Waiting => Known)
    /\ \A c \in SwitchCalls : turn = c => During(c)

\* The platform's turn is with exactly the switch call that is sending.
TurnIsHeld == \A c \in SwitchCalls : UnderWay(c) <=> turn = c

TInv == TypeOK /\ TurnIsHeld
VInv == TInv /\ (Undisturbed => Agreement)

-----------------------------------------------------------------------------
LEMMA SwitchesAreCalls ==
  SwitchCalls \subseteq Calls /\ ActionCalls \subseteq Calls /\ None \notin SwitchCalls
BY CallsAssumption DEF Calls

LEMMA EmptyIsASeq == ASSUME NEW S PROVE <<>> \in Seq(S)
OBVIOUS

LEMMA AppendIsASeq ==
  ASSUME NEW S, NEW s \in Seq(S), NEW e \in S
  PROVE  Append(s, e) \in Seq(S)
OBVIOUS

LEMMA LeavingOneOutIsASeq ==
  ASSUME NEW S, NEW s \in Seq(S), NEW i \in DOMAIN s
  PROVE  SubSeq(s, 1, i - 1) \o SubSeq(s, i + 1, Len(s)) \in Seq(S)
OBVIOUS

LEMMA ShortSequences ==
  /\ <<"on">> # <<>> /\ <<"off">> # <<>> /\ <<"on", "off">> # <<>>
  /\ <<"on">> # <<"off">> /\ <<"on", "off">> \notin {<<"on">>, <<"off">>}
OBVIOUS

LEMMA TailsOfTwo ==
  /\ Head(<<"on", "ack">>) = "on" /\ Tail(<<"on", "ack">>) = <<"ack">>
  /\ Head(<<"off", "ack">>) = "off" /\ Tail(<<"off", "ack">>) = <<"ack">>
  /\ Head(<<"ack">>) = "ack" /\ Tail(<<"ack">>) = <<>>
<1>1. ASSUME NEW S, NEW a \in S, NEW b \in S
      PROVE  /\ Head(<<a>>) = a /\ Tail(<<a>>) = <<>>
             /\ Head(<<a, b>>) = a /\ Tail(<<a, b>>) = <<b>>
  OBVIOUS
<1> QED
  BY <1>1

LEMMA HeadsAndTails ==
  /\ Head(<<"on">>) = "on" /\ Tail(<<"on">>) = <<>>
  /\ Head(<<"off">>) = "off" /\ Tail(<<"off">>) = <<>>
  /\ Head(<<"on", "off">>) = "on" /\ Tail(<<"on", "off">>) = <<"off">>
<1>1. ASSUME NEW S, NEW a \in S, NEW b \in S
      PROVE  /\ Head(<<a>>) = a /\ Tail(<<a>>) = <<>>
             /\ Head(<<a, b>>) = a /\ Tail(<<a, b>>) = <<b>>
  OBVIOUS
<1> QED
  BY <1>1

LEMMA AppendToOne ==
  ASSUME NEW S, NEW a \in S, NEW b \in S
  PROVE  Append(<<a>>, b) = <<a, b>>
<1>1. <<a>> \in Seq(S) /\ <<a, b>> \in Seq(S)
  OBVIOUS
<1>2. Append(<<a>>, b) \in Seq(S) /\ Len(Append(<<a>>, b)) = 2
  BY <1>1
<1>3. Append(<<a>>, b)[1] = a /\ Append(<<a>>, b)[2] = b
  BY <1>1
<1>4. Len(<<a, b>>) = 2 /\ <<a, b>>[1] = a /\ <<a, b>>[2] = b
  OBVIOUS
<1>5. \A i \in 1 .. Len(<<a, b>>) : i = 1 \/ i = 2
  OBVIOUS
<1> QED
  BY <1>1, <1>2, <1>3, <1>4, <1>5, SeqEqual

LEMMA OffAfterOn == Append(<<"on">>, "off") = <<"on", "off">>
<1>1. ASSUME NEW a \in {"on", "off"}, NEW b \in {"on", "off"}
      PROVE  Append(<<a>>, b) = <<a, b>>
  BY AppendToOne
<1> QED
  BY <1>1

LEMMA AckAfterIcon ==
  /\ Append(<<"on">>, "ack") = <<"on", "ack">>
  /\ Append(<<"off">>, "ack") = <<"off", "ack">>
  /\ Append(<<>>, "ack") = <<"ack">>
<1>1. ASSUME NEW a \in {"on", "off", "ack"}, NEW b \in {"on", "off", "ack"}
      PROVE  Append(<<a>>, b) = <<a, b>>
  BY AppendToOne
<1>2. Append(<<>>, "ack") = <<"ack">>
  OBVIOUS
<1> QED
  BY <1>1, <1>2

LEMMA ZonesStayZones ==
  ASSUME NEW set \in SUBSET Zones, NEW z \in Zones
  PROVE  Toggled(set, z) \in SUBSET Zones
BY DEF Toggled

LEMMA IconIsOnOrOff == Icon \in {"on", "off"}
BY DEF Icon

LEMMA InitIsTyped == Init => TInv
<1> SUFFICES ASSUME Init PROVE TInv
  OBVIOUS
<1>1. feed \in Seq({"ack", "on", "off"})
  BY EmptyIsASeq DEF Init
<1> QED
  BY <1>1, SwitchesAreCalls DEF Init, TInv, TypeOK, TurnIsHeld, UnderWay

\* The calls keep the types and the turn.
LEMMA CallsKeepTheTurn ==
  ASSUME TInv, NEW c \in Calls,
         \/ Call(c) \/ Starts(c) \/ Flips(c) \/ Fails(c)
         \/ ReceiveAck(c) \/ PanelTakes(c)
  PROVE  TInv'
<1> USE SwitchesAreCalls DEF TInv, TypeOK, panelVars, viewVars
<1>1. CASE Call(c)
  BY <1>1 DEF Call, TurnIsHeld, UnderWay
<1>2. CASE Starts(c)
  BY <1>2 DEF Starts, MayRun, TakeTurn, TurnIsHeld, UnderWay
<1>3. CASE Flips(c)
  <2>1. bypassed' \in SUBSET Zones
    BY <1>3, ZonesStayZones DEF Flips, AfterToggle
  <2> QED
    BY <1>3, <2>1 DEF Flips, Release, TurnIsHeld, UnderWay
<1>4. CASE Fails(c)
  <2>1. feed' \in Seq({"ack", "on", "off"})
    <3>1. CASE at[c] = "sending"
      BY <1>4, <3>1 DEF Fails
    <3>2. CASE at[c] = "acking"
      <4>1. PICK i \in DOMAIN feed :
              feed' = SubSeq(feed, 1, i - 1) \o SubSeq(feed, i + 1, Len(feed))
        BY <1>4, <3>2 DEF Fails
      <4> QED
        BY <4>1, LeavingOneOutIsASeq
    <3> QED
      BY <1>4, <3>1, <3>2 DEF Fails
  <2> QED
    BY <1>4, <2>1 DEF Fails, Release, TurnIsHeld, UnderWay
<1>5. CASE ReceiveAck(c)
  BY <1>5 DEF ReceiveAck, TurnIsHeld, UnderWay
<1>6. CASE PanelTakes(c)
  <2>1. panel' \in SUBSET Zones
    BY <1>6, ZonesStayZones DEF PanelTakes
  <2>2. feed' \in Seq({"ack", "on", "off"})
    BY <1>6, AppendIsASeq DEF PanelTakes
  <2> QED
    BY <1>6, <2>1, <2>2 DEF PanelTakes, TurnIsHeld, UnderWay
<1> QED
  BY <1>1, <1>2, <1>3, <1>4, <1>5, <1>6

\* The wire, the panel and outages keep them.
LEMMA TheWireKeepsTheTurn ==
  ASSUME TInv, ReceiveKeypadUpdate \/ PanelReports \/ PanelDisarms \/ Outage
  PROVE  TInv'
<1> USE SwitchesAreCalls DEF TInv, TypeOK, panelVars, viewVars, callVars
<1>1. CASE ReceiveKeypadUpdate
  BY <1>1 DEF ReceiveKeypadUpdate, FlagsAfter, TurnIsHeld, UnderWay
<1>2. CASE PanelReports
  <2>1. feed' \in Seq({"ack", "on", "off"})
    BY <1>2, AppendIsASeq, IconIsOnOrOff DEF PanelReports
  <2> QED
    BY <1>2, <2>1, IconIsOnOrOff DEF PanelReports, TurnIsHeld, UnderWay
<1>3. CASE PanelDisarms
  BY <1>3 DEF PanelDisarms, TurnIsHeld, UnderWay
<1>4. CASE Outage
  <2>1. feed' \in Seq({"ack", "on", "off"})
    BY <1>4, EmptyIsASeq DEF Outage
  <2> QED
    BY <1>4, <2>1 DEF Outage, TurnIsHeld, UnderWay
<1> QED
  BY <1>1, <1>2, <1>3, <1>4

LEMMA TInvIsInductive == TInv /\ [Next]_vars => TInv'
<1> SUFFICES ASSUME TInv, [Next]_vars PROVE TInv'
  OBVIOUS
<1>1. CASE Next
  BY <1>1, CallsKeepTheTurn, TheWireKeepsTheTurn DEF Next
<1>2. CASE UNCHANGED vars
  BY <1>2 DEF vars, panelVars, viewVars, callVars, TInv, TypeOK, TurnIsHeld,
              UnderWay
<1> QED
  BY <1>1, <1>2

\* Type correctness of the view, the wire and the calls, under every fault.
THEOREM ViewIsTyped == Spec => []TypeOK
<1>1. TInv => TypeOK
  BY DEF TInv
<1> QED
  BY InitIsTyped, TInvIsInductive, <1>1, PTL DEF Spec

-----------------------------------------------------------------------------
(* A prompt and reliable wire.                                             *)

LEMMA InitAgrees == Init => VInv
<1> SUFFICES ASSUME Init PROVE VInv
  OBVIOUS
<1>1. TInv
  BY InitIsTyped
<1>2. Between
  BY DEF Init, Between, IconArrives
<1>3. \A c \in SwitchCalls : turn # c /\ at[c] # "queued"
  BY SwitchesAreCalls DEF Init
<1> QED
  BY <1>1, <1>2, <1>3 DEF VInv, Agreement, Waiting

\* Undisturbed behaviours were undisturbed before.
LEMMA UndisturbedBefore ==
  ASSUME TInv, [Next]_vars, Undisturbed'
  PROVE  Undisturbed /\ faults' = faults
<1>1. faults' = faults
  BY DEF Next, Call, Starts, Flips, Fails, ReceiveAck, PanelTakes,
         ReceiveKeypadUpdate, PanelReports, PanelDisarms, Outage, vars
<1>2. \A c \in ActionCalls : at[c] = "idle"
  <2> SUFFICES ASSUME NEW c \in ActionCalls, at[c] # "idle" PROVE at'[c] # "idle"
    BY DEF Undisturbed
  <2> USE SwitchesAreCalls DEF TInv, TypeOK
  <2>1. \A d \in Calls : Call(d) \/ Starts(d) \/ Flips(d) => at'[c] # "idle"
    BY DEF Call, Starts, Flips
  <2>2. \A d \in Calls : Fails(d) \/ ReceiveAck(d) \/ PanelTakes(d)
                            => at'[c] # "idle"
    BY DEF Fails, ReceiveAck, PanelTakes
  <2>3. ReceiveKeypadUpdate \/ PanelReports \/ PanelDisarms \/ UNCHANGED vars
          => at' = at
    BY DEF ReceiveKeypadUpdate, PanelReports, PanelDisarms, callVars, vars
  <2>4. Outage => at'[c] # "idle"
    BY DEF Outage
  <2> QED
    BY <2>1, <2>2, <2>3, <2>4 DEF Next
<1> QED
  BY <1>1, <1>2 DEF Undisturbed

\* A call that is under way then is a switch call, and has the turn.
LEMMA WhoIsUnderWay ==
  ASSUME TInv, Undisturbed, NEW c \in Calls, UnderWay(c)
  PROVE  c \in SwitchCalls /\ turn = c
BY DEF Undisturbed, UnderWay, TInv, TurnIsHeld, Calls

LEMMA TogglingIsItsOwnInverse ==
  ASSUME NEW set \in SUBSET Zones, NEW z \in Zones
  PROVE  /\ Toggled(set, z) # set
         /\ z \in Toggled(set, z) <=> z \notin set
BY DEF Toggled

\* The calls keep the agreement.
LEMMA CallsAgree ==
  ASSUME TInv, TInv', Undisturbed, Agreement, NEW c \in Calls,
         \/ Call(c) \/ Starts(c) \/ Flips(c) \/ Fails(c)
         \/ ReceiveAck(c) \/ PanelTakes(c)
  PROVE  Agreement' \/ ~Undisturbed'
<1> SUFFICES ASSUME Undisturbed' PROVE Agreement'
  OBVIOUS
<1> USE SwitchesAreCalls
<1>0. /\ faults = {} /\ at \in [Calls -> {"idle", "queued", "sending", "acking",
                                          "acked", "done", "failed"}]
      /\ panel \in SUBSET Zones /\ bypassed \in SUBSET Zones
      /\ zone \in [Calls -> Zones] /\ want \in [Calls -> BOOLEAN]
      /\ active \in BOOLEAN
  BY DEF Undisturbed, TInv, TypeOK
<1>1. CASE Call(c)
  <2>1. at[c] = "idle" /\ at' = [at EXCEPT ![c] = "queued"]
        /\ UNCHANGED <<panel, reported, feed, bypassed, active, zone, want, turn>>
    BY <1>1 DEF Call, panelVars, viewVars
  <2>2. \A d \in SwitchCalls : turn = d => d # c
    BY <2>1 DEF TInv, TurnIsHeld, UnderWay
  <2>3. \A d \in SwitchCalls : turn = d => at'[d] = at[d]
    BY <1>0, <2>1, <2>2
  <2>4. \A d \in SwitchCalls : turn = d => During(d)'
    BY <2>1, <2>3 DEF Agreement, During, Known
  <2>5. turn = None => Between'
    BY <2>1 DEF Agreement, Between, IconArrives
  <2>6. turn = None => Known'
    <3> SUFFICES ASSUME turn = None PROVE Known'
      OBVIOUS
    <3>1. \A d \in Calls : ~UnderWay(d)
      BY WhoIsUnderWay
    <3>2. ViewIsCurrent /\ Between
      BY <1>0, <1>1, <3>1 DEF Call, Agreement
    <3>3. Known
      BY <3>2 DEF Known, ViewIsCurrent, Between, IconArrives, Icon
    <3> QED
      BY <2>1, <3>3 DEF Known
  <2> QED
    BY <2>1, <2>4, <2>5, <2>6 DEF Agreement
<1>2. CASE Starts(c)
  <2>1. c \in SwitchCalls
    BY <1>0, <1>2 DEF Starts, Undisturbed, Calls
  <2>2. turn = None /\ Between /\ Known
        /\ UNCHANGED <<panel, reported, feed, bypassed, active, zone, want>>
    BY <1>0, <1>2, <2>1 DEF Starts, MayRun, Agreement, Waiting, panelVars, viewVars
  <2>3. Known' /\ Between'
    BY <2>2 DEF Known, Between, IconArrives
  <2>4. CASE want[c] = (zone[c] \in bypassed)
    <3>1. UNCHANGED turn
      BY <1>2, <2>1, <2>4 DEF Starts
    <3> QED
      BY <2>2, <2>3, <3>1 DEF Agreement
  <2>5. CASE want[c] # (zone[c] \in bypassed)
    <3>1. turn' = c /\ at'[c] = "sending"
      BY <1>0, <1>2, <2>1, <2>5 DEF Starts, TakeTurn
    <3>2. During(c)'
      BY <2>2, <2>3, <2>5, <3>1 DEF During
    <3> QED
      BY <2>1, <3>1, <3>2 DEF Agreement
  <2> QED
    BY <2>4, <2>5
<1>3. CASE Flips(c)
  <2>1. at[c] = "acked"
    BY <1>3 DEF Flips
  <2>2. c \in SwitchCalls /\ turn = c /\ During(c)
    BY <2>1, WhoIsUnderWay DEF UnderWay, Agreement
  <2>3. turn' = None /\ bypassed' = panel /\ feed = <<>>
        /\ UNCHANGED <<panel, reported, feed, active>>
    BY <1>3, <2>1, <2>2 DEF Flips, Release, AfterToggle, During, panelVars
  <2>4. Between' /\ Known'
    BY <1>0, <2>1, <2>2, <2>3 DEF Between, Known, IconArrives, During
  <2> QED
    BY <2>3, <2>4 DEF Agreement
<1>4. CASE Fails(c)
  BY <1>0, <1>4 DEF Fails
<1>5. CASE ReceiveAck(c)
  <2>1. at[c] = "acking" /\ at'[c] = "acked" /\ feed' = Tail(feed)
        /\ Head(feed) = "ack"
        /\ UNCHANGED <<panel, reported, bypassed, active, zone, want, turn>>
    BY <1>0, <1>5 DEF ReceiveAck, panelVars, viewVars
  <2>2. c \in SwitchCalls /\ turn = c /\ During(c)
    BY <2>1, WhoIsUnderWay DEF UnderWay, Agreement
  <2>3. feed = <<"ack">> /\ (active <=> reported = "on")
    BY <2>1, <2>2, TailsOfTwo DEF During
  <2>4. feed' = <<>>
    BY <2>1, <2>3, TailsOfTwo
  <2>5. During(c)'
    BY <2>1, <2>2, <2>3, <2>4 DEF During
  <2> QED
    BY <2>1, <2>2, <2>5 DEF Agreement
<1>6. CASE PanelTakes(c)
  <2>1. at[c] = "sending" /\ at'[c] = "acking" /\ feed' = Append(feed, "ack")
        /\ panel' = Toggled(panel, zone[c])
        /\ UNCHANGED <<reported, bypassed, active, zone, want, turn>>
    BY <1>0, <1>6 DEF PanelTakes, viewVars
  <2>2. c \in SwitchCalls /\ turn = c /\ During(c) /\ Known
    BY <2>1, WhoIsUnderWay DEF UnderWay, Agreement, During
  <2>3. \/ feed' = <<"ack">> /\ (active <=> reported = "on")
        \/ feed' = <<"on", "ack">> /\ reported = "on"
        \/ feed' = <<"off", "ack">> /\ reported = "off" /\ bypassed = {}
    BY <2>1, <2>2, AckAfterIcon DEF Known
  <2>4. reported \in {"on", "off"} /\ panel' = Toggled(bypassed, zone[c])
    BY <2>1, <2>2 DEF Known
  <2>5. During(c)'
    BY <2>1, <2>2, <2>3, <2>4 DEF During
  <2> QED
    BY <2>1, <2>2, <2>5 DEF Agreement
<1> QED
  BY <1>1, <1>2, <1>3, <1>4, <1>5, <1>6

\* So do the wire and the panel, which leave a call alone while it is under way.
LEMMA TheWireAgrees ==
  ASSUME TInv, Undisturbed, Agreement,
         ReceiveKeypadUpdate \/ PanelReports \/ PanelDisarms \/ Outage
  PROVE  Agreement'
<1> USE SwitchesAreCalls
<1>0. /\ faults = {} /\ panel \in SUBSET Zones
      /\ turn \in SwitchCalls \cup {None} /\ active \in BOOLEAN
  BY DEF Undisturbed, TInv, TypeOK
<1>1. CASE ReceiveKeypadUpdate
  <2>1. feed # <<>> /\ Head(feed) # "ack" /\ feed' = Tail(feed)
        /\ active' = (Head(feed) = "on")
        /\ bypassed' = (IF active /\ Head(feed) # "on" THEN {} ELSE bypassed)
        /\ UNCHANGED <<panel, reported, at, zone, want, turn>>
    BY <1>1 DEF ReceiveKeypadUpdate, FlagsAfter, panelVars, callVars
  <2>a. Known => Known'
    BY <2>1, HeadsAndTails DEF Known
  <2>b. ASSUME NEW c \in SwitchCalls, turn = c PROVE During(c)'
    <3>1. During(c) /\ UnderWay(c)
      BY <2>b DEF Agreement, TInv, TurnIsHeld
    <3>2. CASE at[c] = "sending"
      <4>1. Known /\ Known' /\ bypassed' = bypassed
        BY <2>1, <2>a, <3>1, <3>2, HeadsAndTails DEF During, Known
      <4> QED
        BY <2>1, <3>1, <3>2, <4>1 DEF During
    <3>3. CASE at[c] = "acking"
      <4>1. \/ feed = <<"on", "ack">> /\ reported = "on"
            \/ feed = <<"off", "ack">> /\ reported = "off" /\ bypassed = {}
        BY <2>1, <3>1, <3>3, TailsOfTwo DEF During
      <4>2. feed' = <<"ack">> /\ (active' <=> reported = "on") /\ bypassed' = bypassed
        BY <2>1, <4>1, TailsOfTwo
      <4> QED
        BY <2>1, <3>1, <3>3, <4>2 DEF During
    <3>4. CASE at[c] = "acked"
      BY <2>1, <3>1, <3>4 DEF During
    <3> QED
      BY <3>1, <3>2, <3>3, <3>4 DEF UnderWay
  <2>2. SUFFICES ASSUME turn = None PROVE Between'
    BY <2>1, <2>a, <2>b DEF Agreement, Waiting
  <2>3. Between
    BY <2>2 DEF Agreement
  <2>4. CASE feed = <<"on">>
    <3>1. feed' = <<>> /\ active' /\ bypassed' = bypassed
      BY <2>1, <2>4, HeadsAndTails
    <3>2. reported = "on"
      BY <2>3, <2>4, ShortSequences DEF Between, IconArrives
    <3> QED
      BY <2>1, <2>3, <3>1, <3>2 DEF Between, IconArrives
  <2>5. CASE feed = <<"off">>
    <3>0. feed # <<>> /\ feed # <<"on">> /\ feed # <<"on", "off">>
      BY <2>5, ShortSequences
    <3>1. feed' = <<>> /\ ~active' /\ active
          /\ reported = "off" /\ panel = {}
      <4>1. feed' = <<>> /\ Head(feed) = "off"
        BY <2>1, <2>5, HeadsAndTails
      <4>2. active /\ reported = "off"
        BY <2>3, <3>0 DEF Between, IconArrives
      <4>3. panel = {}
        BY <2>3, <3>0 DEF Between
      <4> QED
        BY <2>1, <4>1, <4>2, <4>3
    <3>2. bypassed' = {}
      BY <2>1, <2>5, <3>1, HeadsAndTails
    <3> QED
      BY <2>1, <3>1, <3>2 DEF Between, IconArrives
  <2>6. CASE feed = <<"on", "off">>
    <3>1. feed' = <<"off">> /\ Head(feed) = "on"
      BY <2>1, <2>6, HeadsAndTails
    <3>0. feed # <<>> /\ feed # <<"on">> /\ feed # <<"off">>
      BY <2>6, ShortSequences
    <3>2. panel = {} /\ reported = "off"
      <4>1. panel = {}
        BY <2>3, <3>0 DEF Between
      <4> QED
        BY <2>3, <3>0, <4>1 DEF Between, IconArrives
    <3> QED
      BY <2>1, <3>1, <3>2, ShortSequences DEF Between, IconArrives
  <2> QED
    BY <2>1, <2>3, <2>4, <2>5, <2>6 DEF Between, IconArrives
<1>2. CASE PanelReports
  <2>1. reported # Icon /\ reported' = Icon /\ feed' = Append(feed, Icon)
        /\ (\A c \in Calls : at[c] \notin {"acking", "acked"})
        /\ UNCHANGED <<panel, bypassed, active, at, zone, want, turn>>
    BY <1>0, <1>2 DEF PanelReports, Prompt, viewVars, callVars
  <2>a. Known => Known'
    <3> SUFFICES ASSUME Known PROVE Known'
      OBVIOUS
    <3>1. feed = <<>>
      BY <2>1 DEF Known, Icon
    <3>2. feed' = <<Icon>>
      BY <2>1, <3>1
    <3>3. CASE panel = {}
      BY <2>1, <3>2, <3>3 DEF Known, Icon
    <3>4. CASE panel # {}
      BY <2>1, <3>2, <3>4 DEF Known, Icon
    <3> QED
      BY <3>3, <3>4
  <2>b. ASSUME NEW c \in SwitchCalls, turn = c PROVE During(c)'
    <3>1. During(c) /\ at[c] = "sending"
      BY <2>1, <2>b DEF Agreement, TInv, TurnIsHeld, UnderWay
    <3>2. Known'
      BY <2>a, <3>1 DEF During
    <3> QED
      BY <2>1, <3>1, <3>2 DEF During
  <2>2. SUFFICES ASSUME turn = None PROVE Between'
    BY <2>1, <2>a, <2>b DEF Agreement, Waiting
  <2>3. Between
    BY <2>2 DEF Agreement
  <2>4. CASE panel = {}
    <3>1. reported = "on" /\ reported' = "off" /\ feed' = Append(feed, "off")
      BY <2>1, <2>3, <2>4 DEF Icon, Between, IconArrives
    <3>2. CASE feed = <<>>
      <4>1. feed' = <<"off">> /\ active
        BY <2>3, <3>1, <3>2 DEF Between, IconArrives
      <4> QED
        BY <2>1, <2>4, <3>1, <4>1, ShortSequences DEF Between, IconArrives
    <3>3. CASE feed = <<"on">>
      <4>1. feed' = <<"on", "off">>
        BY <3>1, <3>3, OffAfterOn
      <4> QED
        BY <2>1, <2>4, <3>1, <4>1, ShortSequences DEF Between, IconArrives
    <3> QED
      BY <2>3, <3>1, <3>2, <3>3 DEF Between, IconArrives
  <2>5. CASE panel # {}
    <3>1. reported = "off" /\ reported' = "on" /\ feed' = Append(feed, "on")
      BY <2>1, <2>3, <2>5 DEF Icon, Between, IconArrives
    <3>2. feed = <<>> /\ bypassed = panel
      BY <2>3, <2>5, <3>1 DEF Between, IconArrives
    <3>3. feed' = <<"on">>
      BY <3>1, <3>2
    <3> QED
      BY <2>1, <2>2, <2>5, <3>1, <3>2, <3>3 DEF Agreement, Between, IconArrives
  <2> QED
    BY <2>4, <2>5
<1>3. CASE PanelDisarms
  <2>1. panel # {} /\ panel' = {} /\ reported = "on"
        /\ (\A c \in Calls : at[c] \in {"idle", "done", "failed"})
        /\ UNCHANGED <<reported, feed, bypassed, active, at, zone, want, turn>>
    BY <1>0, <1>3 DEF PanelDisarms, Icon, viewVars, callVars
  <2>2. turn = None /\ ~Waiting
    BY <1>0, <2>1 DEF TInv, TurnIsHeld, UnderWay, Waiting
  <2>3. Between
    BY <2>2 DEF Agreement
  <2>4. Between'
    BY <2>1, <2>3 DEF Between, IconArrives
  <2> QED
    BY <2>1, <2>2, <2>4 DEF Agreement, Waiting
<1>4. CASE Outage
  BY <1>0, <1>4 DEF Outage
<1> QED
  BY <1>1, <1>2, <1>3, <1>4

LEMMA VInvIsInductive == VInv /\ [Next]_vars => VInv'
<1> SUFFICES ASSUME VInv, [Next]_vars PROVE VInv'
  OBVIOUS
<1>1. TInv /\ TInv'
  BY TInvIsInductive DEF VInv
<1>2. ASSUME Undisturbed' PROVE Agreement'
  <2>1. Undisturbed /\ Agreement
    BY <1>1, <1>2, UndisturbedBefore DEF VInv
  <2>2. CASE Next
    BY <1>1, <1>2, <2>1, <2>2, CallsAgree, TheWireAgrees DEF Next
  <2>3. CASE UNCHANGED vars
    BY <2>1, <2>3 DEF vars, panelVars, viewVars, callVars, Agreement, Between,
                      IconArrives, During, Known, Waiting
  <2> QED
    BY <2>2, <2>3
<1> QED
  BY <1>1, <1>2 DEF VInv

LEMMA SettledViewsAgree == VInv => SwitchesAgree
<1> SUFFICES ASSUME VInv, Undisturbed, Settled PROVE bypassed = panel
  BY DEF SwitchesAgree
<1>1. turn = None
  BY SwitchesAreCalls DEF VInv, TInv, TypeOK, TurnIsHeld, Settled
<1> QED
  BY <1>1 DEF VInv, Agreement, Between, Settled, ViewIsCurrent, Icon

\* On a prompt and reliable wire, with nobody bypassing but by the switches,
\* they show just the zones the panel has, for any number of zones and calls
\* (switch.py, coordinator.py's async_toggle_zone_bypass and
\* state_machine.py's _apply_keypad_update together).
THEOREM SwitchesAlwaysAgree == Spec => []SwitchesAgree
BY InitAgrees, VInvIsInductive, SettledViewsAgree, PTL DEF Spec

LEMMA CallsEndAsAsked ==
  ASSUME VInv, [Next]_vars, NEW c \in SwitchCalls, Undisturbed,
         at[c] # "done", at'[c] = "done"
  PROVE  (zone[c] \in panel') = want[c]
<1> USE SwitchesAreCalls
<1>0. /\ TInv /\ Agreement
      /\ at \in [Calls -> {"idle", "queued", "sending", "acking", "acked", "done",
                           "failed"}]
      /\ panel \in SUBSET Zones /\ bypassed \in SUBSET Zones
      /\ zone \in [Calls -> Zones] /\ want \in [Calls -> BOOLEAN]
  BY DEF VInv, TInv, TypeOK
<1>1. ASSUME NEW d \in Calls, Starts(d) PROVE (zone[c] \in panel') = want[c]
  <2>1. d = c /\ want[c] = (zone[c] \in bypassed) /\ panel' = panel
    BY <1>0, <1>1 DEF Starts, panelVars
  <2>2. turn = None /\ Waiting
    BY <1>1, <2>1 DEF Starts, MayRun, Waiting
  <2>3. bypassed = panel
    BY <1>0, <2>2 DEF Agreement, Known
  <2> QED
    BY <2>1, <2>3
<1>2. ASSUME NEW d \in Calls, Flips(d) PROVE (zone[c] \in panel') = want[c]
  <2>1. d = c /\ at[c] = "acked" /\ panel' = panel
    BY <1>0, <1>2 DEF Flips, panelVars
  <2>2. During(c)
    BY <1>0, <2>1, WhoIsUnderWay DEF UnderWay, Agreement
  <2>3. panel = Toggled(bypassed, zone[c]) /\ want[c] # (zone[c] \in bypassed)
    BY <2>1, <2>2 DEF During
  <2>4. zone[c] \in panel <=> zone[c] \notin bypassed
    BY <1>0, <2>3, TogglingIsItsOwnInverse
  <2> QED
    BY <1>0, <2>1, <2>3, <2>4
<1>3. \A d \in Calls : ~(Call(d) \/ Fails(d) \/ ReceiveAck(d) \/ PanelTakes(d))
  BY <1>0 DEF Call, Fails, ReceiveAck, PanelTakes
<1>4. ~(ReceiveKeypadUpdate \/ PanelReports \/ PanelDisarms \/ UNCHANGED vars)
  BY <1>0 DEF ReceiveKeypadUpdate, PanelReports, PanelDisarms, callVars, vars
<1>5. ~Outage
  BY DEF Outage, Undisturbed
<1> QED
  BY <1>1, <1>2, <1>3, <1>4, <1>5 DEF Next

\* There, too, a switch call that ends leaves its zone as it was asked to.
THEOREM CallsAlwaysGetTheirWay == Spec => CallsGetTheirWay
<1>1. VInv /\ [Next]_vars =>
        [\A c \in SwitchCalls :
           Undisturbed /\ at[c] # "done" /\ at'[c] = "done"
              => (zone[c] \in panel') = want[c]]_vars
  BY CallsEndAsAsked
<1> QED
  BY InitAgrees, VInvIsInductive, <1>1, PTL DEF Spec, CallsGetTheirWay
-----------------------------------------------------------------------------
(* The icon's going out.                                                   *)

\* The icon last read before place i of the feed is on.
OnBefore(i) ==
    \/ active /\ \A k \in DOMAIN feed : k < i => feed[k] # "off"
    \/ \E j \in DOMAIN feed :
          /\ j < i /\ feed[j] = "on"
          /\ \A k \in DOMAIN feed : j < k /\ k < i => feed[k] # "off"

\* Every "off" is read after an "on", so it clears the flags; flags that are
\* up have a bypass at the panel or an "off" to come; and while the panel's
\* change is not reported yet there was a bypass before it or is one now.
GoesOut ==
    /\ \A i \in DOMAIN feed : feed[i] = "off" => OnBefore(i)
    /\ reported = "on" => \A m \in Nat : m = Len(feed) + 1 => OnBefore(m)
    /\ bypassed # {} => \/ panel # {} \/ reported = "on"
                        \/ \E i \in DOMAIN feed : feed[i] = "off"
    /\ (\E c \in Calls : at[c] \in {"acking", "acked"}) =>
          panel # {} \/ reported = "on"
    /\ reported \in {"on", "off"}

Orderly == faults \subseteq {"fail", "hasty"}
OInv == TInv /\ (Orderly => GoesOut)

LEMMA WithoutOne ==
  ASSUME NEW S, NEW s \in Seq(S), NEW i \in DOMAIN s
  PROVE  LET r == SubSeq(s, 1, i - 1) \o SubSeq(s, i + 1, Len(s))
         IN  /\ r \in Seq(S) /\ Len(r) = Len(s) - 1
             /\ \A k \in 1..(Len(s) - 1) :
                   r[k] = IF k < i THEN s[k] ELSE s[k + 1]
<1>0. PICK n \in Nat : n = Len(s)
  OBVIOUS
<1>1. i \in 1..n /\ DOMAIN s = 1..n
  BY <1>0
<1> DEFINE a == SubSeq(s, 1, i - 1)
           b == SubSeq(s, i + 1, n)
<1>2. /\ a \in Seq(S) /\ Len(a) = i - 1 /\ \A k \in 1..(i - 1) : a[k] = s[k]
      /\ b \in Seq(S) /\ Len(b) = n - i
      /\ \A k \in 1..(n - i) : b[k] = s[i + k]
  <2>1. /\ \A k \in 1..(i - 1) : s[k] \in S
        /\ \A k \in (i + 1)..n : s[k] \in S
    BY <1>1
  <2>2. /\ a \in Seq(S) /\ Len(a) = IF 1 <= i - 1 THEN (i - 1) - 1 + 1 ELSE 0
        /\ \A k \in 1..((i - 1) - 1 + 1) : a[k] = s[1 + k - 1]
    BY <1>1, <2>1, SubSeqProperties
  <2>3. /\ b \in Seq(S) /\ Len(b) = IF i + 1 <= n THEN n - (i + 1) + 1 ELSE 0
        /\ \A k \in 1..(n - (i + 1) + 1) : b[k] = s[(i + 1) + k - 1]
    BY <1>1, <2>1, SubSeqProperties
  <2> HIDE DEF a, b
  <2>4. ASSUME NEW k \in 1..(i - 1) PROVE a[k] = s[k]
    <3>1. k \in 1..((i - 1) - 1 + 1) /\ 1 + k - 1 = k
      BY <1>1
    <3> QED
      BY <2>2, <3>1
  <2>5. ASSUME NEW k \in 1..(n - i) PROVE b[k] = s[i + k]
    <3>1. k \in 1..(n - (i + 1) + 1) /\ (i + 1) + k - 1 = i + k
      BY <1>1
    <3> QED
      BY <2>3, <3>1
  <2>6. Len(a) = i - 1 /\ Len(b) = n - i
    BY <1>1, <2>2, <2>3
  <2> QED
    BY <2>2, <2>3, <2>4, <2>5, <2>6
<1> HIDE DEF a, b
<1>3. /\ a \o b \in Seq(S) /\ Len(a \o b) = n - 1
      /\ \A k \in 1..(n - 1) :
            (a \o b)[k] = IF k <= i - 1 THEN a[k] ELSE b[k - (i - 1)]
  <2>1. /\ a \o b \in Seq(S) /\ Len(a \o b) = Len(a) + Len(b)
        /\ \A k \in 1..(Len(a) + Len(b)) :
              (a \o b)[k] = IF k <= Len(a) THEN a[k] ELSE b[k - Len(a)]
    BY <1>2, ConcatProperties
  <2>2. Len(a) = i - 1 /\ (i - 1) + Len(b) = n - 1
    BY <1>1, <1>2
  <2> QED
    BY <2>1, <2>2
<1>4. ASSUME NEW k \in 1..(n - 1)
      PROVE  (a \o b)[k] = IF k < i THEN s[k] ELSE s[k + 1]
  <2>1. CASE k < i
    <3>1. k \in 1..(i - 1) /\ k <= i - 1
      BY <1>1, <2>1
    <3> QED
      BY <1>2, <1>3, <2>1, <3>1
  <2>2. CASE ~(k < i)
    <3>1. /\ ~(k <= i - 1) /\ k - (i - 1) \in 1..(n - i)
          /\ i + (k - (i - 1)) = k + 1
      BY <1>1, <2>2
    <3> QED
      BY <1>2, <1>3, <2>2, <3>1
  <2> QED
    BY <2>1, <2>2
<1> QED
  BY <1>0, <1>3, <1>4 DEF a, b

LEMMA WithoutHead ==
  ASSUME NEW S, NEW s \in Seq(S), s # <<>>
  PROVE  /\ Tail(s) \in Seq(S) /\ Len(Tail(s)) = Len(s) - 1
         /\ 1 \in DOMAIN s /\ Head(s) = s[1]
         /\ \A k \in 1..(Len(s) - 1) : Tail(s)[k] = s[k + 1]
OBVIOUS

\* Taking out an acknowledgement leaves the icons in their order.
LEMMA IconsKeepTheirOrder ==
  ASSUME feed \in Seq({"ack", "on", "off"}), GoesOut,
         NEW i \in DOMAIN feed, feed[i] = "ack",
         feed' \in Seq({"ack", "on", "off"}), Len(feed') = Len(feed) - 1,
         \A k \in 1..(Len(feed) - 1) :
            feed'[k] = IF k < i THEN feed[k] ELSE feed[k + 1],
         UNCHANGED <<active, reported>>
  PROVE  /\ \A k \in DOMAIN feed' : feed'[k] = "off" => OnBefore(k)'
         /\ reported' = "on" => \A m \in Nat : m = Len(feed') + 1 => OnBefore(m)'
         /\ (\E k \in DOMAIN feed : feed[k] = "off") =>
               (\E k \in DOMAIN feed' : feed'[k] = "off")
<1>0. PICK n \in Nat : n = Len(feed)
  OBVIOUS
<1>1. DOMAIN feed = 1..n /\ DOMAIN feed' = 1..(n - 1) /\ i \in 1..n /\ n \in Nat
      /\ Len(feed') + 1 = n
  BY <1>0
<1>2. \A k \in 1..(n - 1) : feed'[k] = IF k < i THEN feed[k] ELSE feed[k + 1]
  BY <1>0
<1>3. ASSUME NEW p \in 1..n, NEW q \in 1..(n + 1),
             IF p < i THEN q = p ELSE q = p + 1, OnBefore(q)
      PROVE  OnBefore(p)'
  <2>1. CASE active /\ \A k \in DOMAIN feed : k < q => feed[k] # "off"
    <3>1. ASSUME NEW k \in 1..(n - 1), k < p PROVE feed'[k] # "off"
      <4>1. CASE k < i
        <5>1. k \in 1..n /\ k < q
          BY <1>1, <1>3, <3>1, <4>1
        <5>2. feed'[k] = feed[k]
          BY <1>2, <4>1
        <5> QED
          BY <1>1, <2>1, <5>1, <5>2
      <4>2. CASE ~(k < i)
        <5>1. k + 1 \in 1..n /\ k + 1 < q
          BY <1>1, <1>3, <3>1, <4>2
        <5> QED
          BY <1>1, <1>2, <2>1, <4>2, <5>1
      <4> QED
        BY <4>1, <4>2
    <3> QED
      BY <1>1, <2>1, <3>1 DEF OnBefore
  <2>2. CASE \E j \in DOMAIN feed :
               /\ j < q /\ feed[j] = "on"
               /\ \A k \in DOMAIN feed : j < k /\ k < q => feed[k] # "off"
    <3>1. PICK j \in 1..n :
            /\ j < q /\ feed[j] = "on"
            /\ \A k \in 1..n : j < k /\ k < q => feed[k] # "off"
      BY <1>1, <2>2
    <3>2. j # i
      BY <3>1
    <3> DEFINE l == IF j < i THEN j ELSE j - 1
    <3>3. l \in 1..(n - 1) /\ l < p /\ (l < i => l = j) /\ (~(l < i) => l + 1 = j)
      BY <1>1, <1>3, <3>1, <3>2
    <3> HIDE DEF l
    <3>4. feed'[l] = "on"
      BY <1>2, <3>1, <3>3
    <3>5. ASSUME NEW k \in 1..(n - 1), l < k, k < p PROVE feed'[k] # "off"
      <4>1. CASE k < i
        <5>1. k \in 1..n /\ j < k /\ k < q
          BY <1>1, <1>3, <3>3, <3>5, <4>1
        <5> QED
          BY <1>2, <3>1, <4>1, <5>1
      <4>2. CASE ~(k < i)
        <5>1. k + 1 \in 1..n /\ j < k + 1 /\ k + 1 < q
          BY <1>1, <1>3, <3>3, <3>5, <4>2
        <5> QED
          BY <1>2, <3>1, <4>2, <5>1
      <4> QED
        BY <4>1, <4>2
    <3> QED
      BY <1>1, <3>3, <3>4, <3>5 DEF OnBefore
  <2> QED
    BY <1>3, <2>1, <2>2 DEF OnBefore
<1>4. ASSUME NEW k \in 1..(n - 1), feed'[k] = "off" PROVE OnBefore(k)'
  <2>1. CASE k < i
    <3>1. k \in 1..n /\ feed[k] = "off"
      BY <1>1, <1>2, <1>4, <2>1
    <3>2. OnBefore(k)
      BY <1>1, <3>1 DEF GoesOut
    <3>3. k \in 1..(n + 1)
      BY <1>1, <3>1
    <3> QED
      BY <1>3, <2>1, <3>1, <3>2, <3>3
  <2>2. CASE ~(k < i)
    <3>1. k \in 1..n /\ k + 1 \in 1..n /\ k + 1 \in 1..(n + 1) /\ feed[k + 1] = "off"
      BY <1>1, <1>2, <1>4, <2>2
    <3>2. OnBefore(k + 1)
      BY <1>1, <3>1 DEF GoesOut
    <3> QED
      BY <1>3, <2>2, <3>1, <3>2
  <2> QED
    BY <2>1, <2>2
<1>5. reported' = "on" => OnBefore(n)'
  <2> SUFFICES ASSUME reported' = "on" PROVE OnBefore(n)'
    OBVIOUS
  <2>1. OnBefore(n + 1)
    <3>1. n + 1 \in Nat /\ n + 1 = Len(feed) + 1
      BY <1>0
    <3> QED
      BY <3>1 DEF GoesOut
  <2>2. n \in 1..n /\ n + 1 \in 1..(n + 1) /\ ~(n < i)
    BY <1>1
  <2> QED
    BY <1>3, <2>1, <2>2
<1>6. ASSUME NEW k \in 1..n, feed[k] = "off"
      PROVE  \E m \in 1..(n - 1) : feed'[m] = "off"
  <2>1. k # i
    BY <1>6
  <2>2. CASE k < i
    <3>1. k \in 1..(n - 1)
      BY <1>1, <2>2
    <3> QED
      BY <1>2, <1>6, <2>2, <3>1
  <2>3. CASE ~(k < i)
    <3>1. k - 1 \in 1..(n - 1) /\ ~(k - 1 < i) /\ (k - 1) + 1 = k
      BY <1>1, <2>1, <2>3
    <3> QED
      BY <1>2, <1>6, <3>1
  <2> QED
    BY <2>2, <2>3
<1> QED
  BY <1>1, <1>4, <1>5, <1>6

\* A longer feed: what is before a place stays before it.
LEMMA AppendedFeed ==
  ASSUME feed \in Seq({"ack", "on", "off"}), NEW e \in {"ack", "on", "off"},
         feed' = Append(feed, e)
  PROVE  \E n \in Nat :
           /\ n = Len(feed) /\ Len(feed') = n + 1
           /\ DOMAIN feed = 1..n /\ DOMAIN feed' = 1..(n + 1)
           /\ feed'[n + 1] = e
           /\ \A k \in 1..n : feed'[k] = feed[k]
OBVIOUS

\* The calls keep it.
LEMMA CallsLetItGoOut ==
  ASSUME TInv, TInv', Orderly, GoesOut, NEW c \in Calls,
         \/ Call(c) \/ Starts(c) \/ Flips(c) \/ Fails(c)
         \/ ReceiveAck(c) \/ PanelTakes(c)
  PROVE  GoesOut'
<1>0. /\ feed \in Seq({"ack", "on", "off"}) /\ feed' \in Seq({"ack", "on", "off"})
      /\ at \in [Calls -> {"idle", "queued", "sending", "acking", "acked", "done",
                           "failed"}]
      /\ zone \in [Calls -> Zones] /\ panel \in SUBSET Zones
  BY DEF TInv, TypeOK
<1>1. CASE Call(c) \/ Starts(c)
  <2>1. UNCHANGED <<panel, reported, feed, bypassed, active>>
    BY <1>1 DEF Call, Starts, panelVars, viewVars
  <2>2. \A d \in Calls : at'[d] \in {"acking", "acked"} => at[d] \in {"acking", "acked"}
    BY <1>0, <1>1 DEF Call, Starts
  <2> QED
    BY <2>1, <2>2 DEF GoesOut, OnBefore
<1>2. CASE Flips(c)
  <2>1. /\ UNCHANGED <<panel, reported, feed, active>> /\ at[c] = "acked"
        /\ at' = [at EXCEPT ![c] = "done"]
    BY <1>2 DEF Flips, panelVars
  <2>2. panel # {} \/ reported = "on"
    BY <2>1 DEF GoesOut
  <2> QED
    BY <2>1, <2>2 DEF GoesOut, OnBefore
<1>3. ASSUME UNCHANGED <<panel, reported, bypassed, active>>,
             \A d \in Calls : at'[d] \in {"acking", "acked"} => at[d] \in {"acking", "acked"},
             NEW i \in DOMAIN feed, feed[i] = "ack", Len(feed') = Len(feed) - 1,
             \A k \in 1..(Len(feed) - 1) :
                feed'[k] = IF k < i THEN feed[k] ELSE feed[k + 1]
      PROVE  GoesOut'
  <2>1. /\ \A k \in DOMAIN feed' : feed'[k] = "off" => OnBefore(k)'
        /\ reported' = "on" => \A m \in Nat : m = Len(feed') + 1 => OnBefore(m)'
        /\ (\E k \in DOMAIN feed : feed[k] = "off") =>
               (\E k \in DOMAIN feed' : feed'[k] = "off")
    BY <1>0, <1>3, IconsKeepTheirOrder
  <2> QED
    BY <1>3, <2>1 DEF GoesOut
<1>4. CASE Fails(c)
  <2>1. /\ UNCHANGED <<panel, reported, bypassed, active>>
        /\ at' = [at EXCEPT ![c] = "failed"]
    BY <1>4 DEF Fails, panelVars, viewVars
  <2>2. \A d \in Calls : at'[d] \in {"acking", "acked"} => at[d] \in {"acking", "acked"}
    BY <1>0, <2>1
  <2>3. CASE UNCHANGED feed
    BY <2>1, <2>2, <2>3 DEF GoesOut, OnBefore
  <2>4. CASE \E i \in DOMAIN feed :
               /\ feed[i] = "ack"
               /\ feed' = SubSeq(feed, 1, i - 1) \o SubSeq(feed, i + 1, Len(feed))
    <3>1. PICK i \in DOMAIN feed :
            /\ feed[i] = "ack"
            /\ feed' = SubSeq(feed, 1, i - 1) \o SubSeq(feed, i + 1, Len(feed))
      BY <2>4
    <3>2. /\ Len(feed') = Len(feed) - 1
          /\ \A k \in 1..(Len(feed) - 1) :
                feed'[k] = IF k < i THEN feed[k] ELSE feed[k + 1]
      BY <1>0, <3>1, WithoutOne
    <3> QED
      BY <1>3, <2>1, <2>2, <3>1, <3>2
  <2> QED
    BY <1>4, <2>3, <2>4 DEF Fails
<1>5. CASE ReceiveAck(c)
  <2>1. /\ UNCHANGED <<panel, reported, bypassed, active>>
        /\ at[c] = "acking" /\ at' = [at EXCEPT ![c] = "acked"]
        /\ feed # <<>> /\ Head(feed) = "ack" /\ feed' = Tail(feed)
    BY <1>5 DEF ReceiveAck, panelVars, viewVars
  <2>2. \A d \in Calls : at'[d] \in {"acking", "acked"} => at[d] \in {"acking", "acked"}
    BY <1>0, <2>1
  <2>3. PICK i \in DOMAIN feed : i = 1 /\ feed[i] = "ack"
    BY <1>0, <2>1, WithoutHead
  <2>4. /\ Len(feed') = Len(feed) - 1
        /\ \A k \in 1..(Len(feed) - 1) : feed'[k] = feed[k + 1]
    BY <1>0, <2>1, WithoutHead
  <2>5. \A k \in 1..(Len(feed) - 1) :
          feed'[k] = IF k < i THEN feed[k] ELSE feed[k + 1]
    BY <1>0, <2>3, <2>4
  <2> QED
    BY <1>3, <2>1, <2>2, <2>3, <2>4, <2>5
<1>6. CASE PanelTakes(c)
  <2>1. /\ UNCHANGED <<reported, bypassed, active>> /\ reported = Icon
        /\ feed' = Append(feed, "ack") /\ panel' = Toggled(panel, zone[c])
    BY <1>6 DEF PanelTakes, viewVars, Orderly
  <2>2. panel' # {} \/ reported = "on"
    BY <2>1 DEF Icon, Toggled
  <2>3. PICK n \in Nat :
          /\ n = Len(feed) /\ Len(feed') = n + 1
          /\ DOMAIN feed = 1..n /\ DOMAIN feed' = 1..(n + 1)
          /\ feed'[n + 1] = "ack"
          /\ \A k \in 1..n : feed'[k] = feed[k]
    BY <1>0, <2>1, AppendedFeed
  <2>4. ASSUME NEW i \in 1..(n + 1), OnBefore(i) PROVE OnBefore(i)'
    BY <2>1, <2>3, <2>4 DEF OnBefore
  <2>5. \A i \in DOMAIN feed' : feed'[i] = "off" => OnBefore(i)'
    BY <2>3, <2>4 DEF GoesOut
  <2>6. reported' = "on" => \A m \in Nat : m = Len(feed') + 1 => OnBefore(m)'
    <3> SUFFICES ASSUME reported = "on" PROVE \A m \in Nat : m = n + 2 => OnBefore(m)'
      BY <2>1, <2>3
    <3>1. OnBefore(n + 1)
      BY <2>3 DEF GoesOut
    <3>2. OnBefore(n + 1)'
      BY <2>3, <2>4, <3>1
    <3>3. ASSUME NEW k \in 1..(n + 1), feed'[k] = "off" PROVE k < n + 1
      BY <2>3, <3>3
    <3> QED
      BY <2>3, <3>2, <3>3 DEF OnBefore
  <2>7. panel' # {} \/ reported' = "on"
    BY <2>1, <2>2
  <2> QED
    BY <2>1, <2>5, <2>6, <2>7 DEF GoesOut
<1> QED
  BY <1>1, <1>2, <1>4, <1>5, <1>6

\* So do the wire and the panel.
LEMMA TheWireLetsItGoOut ==
  ASSUME TInv, TInv', Orderly, GoesOut,
         ReceiveKeypadUpdate \/ PanelReports \/ PanelDisarms \/ Outage
  PROVE  GoesOut'
<1>0. feed \in Seq({"ack", "on", "off"}) /\ feed' \in Seq({"ack", "on", "off"})
  BY DEF TInv, TypeOK
<1>1. CASE ReceiveKeypadUpdate
  <2>1. /\ feed # <<>> /\ Head(feed) # "ack" /\ feed' = Tail(feed)
        /\ active' = (Head(feed) = "on")
        /\ bypassed' = (IF active /\ Head(feed) # "on" THEN {} ELSE bypassed)
        /\ UNCHANGED <<panel, reported, at>>
    BY <1>1 DEF ReceiveKeypadUpdate, FlagsAfter, panelVars, callVars
  <2>2. PICK n \in Nat :
          /\ n = Len(feed) - 1 /\ Len(feed') = n
          /\ DOMAIN feed = 1..(n + 1) /\ DOMAIN feed' = 1..n
          /\ Head(feed) = feed[1]
          /\ \A k \in 1..n : feed'[k] = feed[k + 1]
    BY <1>0, <2>1, WithoutHead
  <2>3. feed[1] \in {"on", "off"}
    BY <1>0, <2>1, <2>2
  <2>4. ASSUME NEW i \in 1..(n + 1), OnBefore(i + 1) PROVE OnBefore(i)'
    <3>1. CASE feed[1] = "on" /\ \A k \in 1..(n + 1) : 1 < k /\ k < i + 1 => feed[k] # "off"
      <4>1. active'
        BY <2>1, <2>2, <3>1
      <4>2. ASSUME NEW k \in 1..n, k < i PROVE feed'[k] # "off"
        <5>1. k + 1 \in 1..(n + 1) /\ 1 < k + 1 /\ k + 1 < i + 1
          BY <4>2
        <5> QED
          BY <2>2, <3>1, <5>1
      <4> QED
        BY <2>2, <4>1, <4>2 DEF OnBefore
    <3>2. ASSUME NEW j \in 1..(n + 1), j # 1, j < i + 1, feed[j] = "on",
                 \A k \in 1..(n + 1) : j < k /\ k < i + 1 => feed[k] # "off"
          PROVE  OnBefore(i)'
      <4>1. j - 1 \in 1..n /\ j - 1 < i /\ (j - 1) + 1 = j
        BY <3>2
      <4>2. feed'[j - 1] = "on"
        BY <2>2, <3>2, <4>1
      <4>3. ASSUME NEW k \in 1..n, j - 1 < k, k < i PROVE feed'[k] # "off"
        <5>1. k + 1 \in 1..(n + 1) /\ j < k + 1 /\ k + 1 < i + 1
          BY <4>3
        <5> QED
          BY <2>2, <3>2, <5>1
      <4> QED
        BY <2>2, <4>1, <4>2, <4>3 DEF OnBefore
    <3>3. CASE active /\ \A k \in 1..(n + 1) : k < i + 1 => feed[k] # "off"
      <4>1. 1 \in 1..(n + 1) /\ 1 < i + 1
        OBVIOUS
      <4>2. feed[1] = "on"
        BY <2>3, <3>3, <4>1
      <4> QED
        BY <3>1, <3>3, <4>2
    <3> QED
      BY <2>2, <2>4, <3>1, <3>2, <3>3 DEF OnBefore
  <2>5. \A i \in DOMAIN feed' : feed'[i] = "off" => OnBefore(i)'
    <3> SUFFICES ASSUME NEW i \in 1..n, feed'[i] = "off" PROVE OnBefore(i)'
      BY <2>2
    <3>1. i + 1 \in 1..(n + 1) /\ i \in 1..(n + 1)
      OBVIOUS
    <3>2. OnBefore(i + 1)
      BY <2>2, <3>1 DEF GoesOut
    <3> QED
      BY <2>4, <3>1, <3>2
  <2>6. reported' = "on" => \A m \in Nat : m = Len(feed') + 1 => OnBefore(m)'
    <3> SUFFICES ASSUME reported = "on", NEW m \in Nat, m = n + 1 PROVE OnBefore(m)'
      BY <2>1, <2>2
    <3>1. m + 1 \in Nat /\ m + 1 = Len(feed) + 1 /\ m \in 1..(n + 1)
      BY <2>2
    <3>2. OnBefore(m + 1)
      BY <3>1 DEF GoesOut
    <3> QED
      BY <2>4, <3>1, <3>2
  <2>7. bypassed' # {} => \/ panel' # {} \/ reported' = "on"
                          \/ \E i \in DOMAIN feed' : feed'[i] = "off"
    <3> SUFFICES ASSUME bypassed' # {}, panel = {}, reported # "on"
                 PROVE  \E i \in DOMAIN feed' : feed'[i] = "off"
      BY <2>1
    <3>1. bypassed # {} /\ ~(active /\ feed[1] = "off")
      BY <2>1, <2>2
    <3>2. feed[1] # "off"
      <4>1. SUFFICES ASSUME feed[1] = "off" PROVE FALSE
        OBVIOUS
      <4>2. OnBefore(1)
        BY <2>2, <4>1 DEF GoesOut
      <4>3. active
        BY <2>2, <4>2 DEF OnBefore
      <4> QED
        BY <3>1, <4>1, <4>3
    <3>3. PICK i \in 1..(n + 1) : feed[i] = "off"
      BY <2>2, <3>1 DEF GoesOut
    <3>4. i - 1 \in 1..n /\ (i - 1) + 1 = i
      BY <3>2, <3>3
    <3>5. feed'[i - 1] = "off"
      BY <2>2, <3>3, <3>4
    <3> QED
      BY <2>2, <3>4, <3>5
  <2> QED
    BY <2>1, <2>5, <2>6, <2>7 DEF GoesOut
<1>2. CASE PanelReports
  <2>1. /\ reported # Icon /\ reported' = Icon /\ feed' = Append(feed, Icon)
        /\ (\A d \in Calls : at[d] \notin {"acking", "acked"})
        /\ UNCHANGED <<panel, bypassed, active, at>>
    BY <1>2 DEF PanelReports, Prompt, viewVars, callVars, Orderly
  <2>2. PICK n \in Nat :
          /\ n = Len(feed) /\ Len(feed') = n + 1
          /\ DOMAIN feed = 1..n /\ DOMAIN feed' = 1..(n + 1)
          /\ feed'[n + 1] = Icon
          /\ \A k \in 1..n : feed'[k] = feed[k]
    BY <1>0, <2>1, IconIsOnOrOff, AppendedFeed
  <2>3. ASSUME NEW i \in 1..(n + 1), OnBefore(i) PROVE OnBefore(i)'
    BY <2>1, <2>2, <2>3 DEF OnBefore
  <2>4. Icon = "off" => OnBefore(n + 1)
    BY <2>1, <2>2 DEF GoesOut, Icon
  <2>5. \A i \in DOMAIN feed' : feed'[i] = "off" => OnBefore(i)'
    <3> SUFFICES ASSUME NEW i \in 1..(n + 1), feed'[i] = "off" PROVE OnBefore(i)'
      BY <2>2
    <3>1. CASE i \in 1..n
      BY <2>2, <2>3, <3>1 DEF GoesOut
    <3>2. CASE i = n + 1
      BY <2>2, <2>3, <2>4, <3>2
    <3> QED
      BY <3>1, <3>2
  <2>6. reported' = "on" => \A m \in Nat : m = Len(feed') + 1 => OnBefore(m)'
    <3> SUFFICES ASSUME Icon = "on", NEW m \in Nat, m = n + 2 PROVE OnBefore(m)'
      BY <2>1, <2>2
    <3>1. n + 1 \in 1..(n + 1) /\ n + 1 < m
          /\ \A k \in 1..(n + 1) : ~(n + 1 < k /\ k < m)
      OBVIOUS
    <3> QED
      BY <2>2, <3>1 DEF OnBefore
  <2>7. bypassed' # {} => \/ panel' # {} \/ reported' = "on"
                          \/ \E i \in DOMAIN feed' : feed'[i] = "off"
    <3>1. CASE panel = {}
      <4>1. feed'[n + 1] = "off" /\ n + 1 \in DOMAIN feed'
        BY <2>2, <3>1 DEF Icon
      <4> QED
        BY <4>1
    <3> QED
      BY <2>1, <3>1
  <2>8. reported' \in {"on", "off"}
    BY <2>1, IconIsOnOrOff
  <2> QED
    BY <2>1, <2>5, <2>6, <2>7, <2>8 DEF GoesOut
<1>3. CASE PanelDisarms
  <2>1. panel # {} /\ reported = Icon
        /\ UNCHANGED <<reported, feed, bypassed, active, at>>
    BY <1>3 DEF PanelDisarms, viewVars, callVars
  <2>2. reported' = "on"
    BY <2>1 DEF Icon
  <2> QED
    BY <2>1, <2>2 DEF GoesOut, OnBefore
<1>4. CASE Outage
  BY <1>4 DEF Outage, Orderly
<1> QED
  BY <1>1, <1>2, <1>3, <1>4

LEMMA OInvIsInductive == OInv /\ [Next]_vars => OInv'
<1> SUFFICES ASSUME OInv, [Next]_vars PROVE OInv'
  OBVIOUS
<1>1. TInv /\ TInv'
  BY TInvIsInductive DEF OInv
<1>2. faults' = faults
  BY DEF Next, Call, Starts, Flips, Fails, ReceiveAck, PanelTakes,
         ReceiveKeypadUpdate, PanelReports, PanelDisarms, Outage, vars
<1>3. ASSUME Orderly' PROVE GoesOut'
  <2>1. Orderly /\ GoesOut
    BY <1>2, <1>3 DEF Orderly, OInv
  <2>2. CASE Next
    BY <1>1, <2>1, <2>2, CallsLetItGoOut, TheWireLetsItGoOut DEF Next
  <2>3. CASE UNCHANGED vars
    BY <2>1, <2>3 DEF vars, panelVars, viewVars, callVars, GoesOut, OnBefore
  <2> QED
    BY <2>2, <2>3
<1> QED
  BY <1>1, <1>3 DEF OInv

LEMMA InitGoesOut == Init => OInv
<1> SUFFICES ASSUME Init PROVE OInv
  OBVIOUS
<1>1. TInv
  BY InitIsTyped
<1>2. GoesOut
  BY DEF Init, GoesOut
<1> QED
  BY <1>1, <1>2 DEF OInv

\* Whatever sends fail and whenever calls and disarms come: once the panel has
\* no bypass left and has said so, no switch shows one (state_machine.py's
\* _apply_keypad_update, after coordinator.py's async_toggle_zone_bypass).
THEOREM NoneStaysOn == Spec => []NoneIsLeftOver
<1>1. OInv => NoneIsLeftOver
  <2> SUFFICES ASSUME OInv, Orderly, Settled, panel = {} PROVE bypassed = {}
    BY DEF NoneIsLeftOver, Orderly
  <2>1. feed = <<>> /\ reported = "off"
    BY DEF Settled, ViewIsCurrent, Icon
  <2> QED
    BY <2>1 DEF OInv, GoesOut
<1> QED
  BY InitGoesOut, OInvIsInductive, <1>1, PTL DEF Spec
=============================================================================
