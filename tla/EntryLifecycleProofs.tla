------------------------ MODULE EntryLifecycleProofs ------------------------
(* TypeOK, SettingsTakeEffect, NoOrphans and the two action properties of  *)
(* EntryLifecycle, for any entries, flows, hosts, modules and passwords.   *)
EXTENDS EntryLifecycle, TLAPS

(* ------------------------- the inductive invariant ---------------------- *)

\* Only stored entries run anything or have a reauth dialog, and numbers are
\* given out in order.
OnlyStoredOnesRun ==
    \A e \in Entries :
        /\ Present(e) => e <= created
        /\ ~Present(e) => state[e] = "not_loaded" /\ reauth[e] = NoReauth

\* A dialog that waits for a login knows what to try, and a reconfigure
\* dialog has its entry.
DialogsAreFilled ==
    /\ \A f \in Flows :
         /\ flow[f].step \in {"login", "busy", "panel", "probe"} =>
              flow[f].host \in Hosts /\ flow[f].password \in Passwords
         /\ flow[f].step \in {"reconfigure", "probe"} =>
              flow[f].entry \in Entries /\ Present(flow[f].entry)
    /\ \A e \in Entries :
         reauth[e].step = "probe" =>
             reauth[e].host \in Hosts /\ reauth[e].password \in Passwords

\* What setup has read bounds the registry, and a loaded entry fills it.
RegistryFollows ==
    \A e \in Entries :
        /\ state[e] \in {"setup", "loaded"} => using[e] \in Settings
        /\ state[e] = "setup" => registry[e] \subseteq 1..using[e].zones
        /\ state[e] = "loaded" => registry[e] = 1..using[e].zones

IInv ==
    /\ TypeOK
    /\ OnlyStoredOnesRun
    /\ DialogsAreFilled
    /\ RegistryFollows
    /\ SettingsTakeEffect

\* The parts of IInv that are about stored and running entries, and those
\* that are about dialogs.
EntryPart ==
    /\ data \in [Entries -> Settings \cup {None}]
    /\ mac \in [Entries -> Modules \cup {None}]
    /\ options \in [Entries -> Codes]
    /\ created \in 0..MaxEntries
    /\ state \in [Entries -> States]
    /\ registry \in [Entries -> SUBSET (1..MaxZones)]
    /\ using \in [Entries -> Settings \cup {None}]
    /\ usingCode \in [Entries -> Codes \cup {None}]
    /\ reload \in [Entries -> BOOLEAN]
    /\ at \in [Hosts -> Modules \cup {None}]
    /\ acts \in 0..MaxActs
    /\ \A e \in Entries :
         /\ Present(e) => e <= created
         /\ ~Present(e) => state[e] = "not_loaded"
    /\ RegistryFollows
    /\ SettingsTakeEffect

ReauthPart ==
    /\ reauth \in [Entries -> Reauths]
    /\ \A e \in Entries :
         /\ ~Present(e) => reauth[e] = NoReauth
         /\ reauth[e].step = "probe" =>
              reauth[e].host \in Hosts /\ reauth[e].password \in Passwords

Filled(record) ==
    /\ record \in FlowRecords
    /\ record.step \in {"login", "busy", "panel", "probe"} =>
         record.host \in Hosts /\ record.password \in Passwords
    /\ record.step \in {"reconfigure", "probe"} =>
         record.entry \in Entries /\ Present(record.entry)

FlowPart ==
    /\ flow \in [Flows -> FlowRecords]
    /\ \A f \in Flows : Filled(flow[f])

LEMMA Parts == IInv <=> EntryPart /\ ReauthPart /\ FlowPart
BY DEF IInv, EntryPart, ReauthPart, FlowPart, Filled, TypeOK,
       OnlyStoredOnesRun, DialogsAreFilled

LEMMA PartsNext == EntryPart' /\ ReauthPart' /\ FlowPart' => IInv'
BY DEF IInv, EntryPart, ReauthPart, FlowPart, Filled, TypeOK,
       OnlyStoredOnesRun, DialogsAreFilled

\* Nothing that entries are about has changed.
LEMMA EntryStutter ==
  ASSUME EntryPart, UNCHANGED <<stored, running, reload, at>>,
         acts' \in 0..MaxActs
  PROVE  EntryPart'
BY DEF EntryPart, stored, running, RegistryFollows, SettingsTakeEffect, Present

LEMMA ReauthStutter ==
  ASSUME ReauthPart, UNCHANGED reauth,
         \A e \in Entries : Present(e) => Present(e)'
  PROVE  ReauthPart'
BY DEF ReauthPart

LEMMA FlowStutter ==
  ASSUME FlowPart, UNCHANGED flow,
         \A e \in Entries : Present(e) => Present(e)'
  PROVE  FlowPart'
BY DEF FlowPart, Filled

\* One dialog moves on to a record that is filled, or ends.
LEMMA FlowGoto ==
  ASSUME FlowPart, NEW f \in Flows,
         \E record : Goto(f, record) /\ Filled(record),
         \A e \in Entries : Present(e) => Present(e)'
  PROVE  FlowPart'
<1>1. PICK record : Goto(f, record) /\ Filled(record)
  OBVIOUS
<1>2. \A g \in Flows : Filled(flow'[g])
  BY <1>1 DEF FlowPart, Goto
<1>3. flow' \in [Flows -> FlowRecords]
  BY <1>1 DEF FlowPart, Goto, Filled
<1> QED
  BY <1>2, <1>3 DEF FlowPart, Filled

LEMMA NoFlowFilled == Filled(NoFlow)
BY EntryConstants DEF Filled, NoFlow, Form, FlowRecords, Steps

LEMMA ActBound ==
  ASSUME Act, acts \in 0..MaxActs
  PROVE  acts' \in 0..MaxActs
BY EntryConstants DEF Act

(* ------------------------ setup, reload, unload ------------------------- *)

\* Whenever the coordinator is made, it is made from the stored settings.
LEMMA ReadSettingsKeeps ==
  ASSUME EntryPart, NEW e \in Entries, Present(e), ReadSettings(e),
         reload' \in [Entries -> BOOLEAN],
         \A d \in Entries \ {e} : reload'[d] = reload[d],
         UNCHANGED <<stored, at, acts>>
  PROVE  EntryPart'
<1> USE DEF EntryPart, ReadSettings, stored, Present
<1>1. data[e] \in Settings
  OBVIOUS
<1>2. RegistryFollows'
  BY <1>1 DEF RegistryFollows, States
<1>3. SettingsTakeEffect'
  BY <1>1 DEF SettingsTakeEffect
<1>4. registry' \in [Entries -> SUBSET (1..MaxZones)]
  OBVIOUS
<1>5. /\ using' \in [Entries -> Settings \cup {None}]
      /\ usingCode' \in [Entries -> Codes \cup {None}]
      /\ state' \in [Entries -> States]
  BY <1>1 DEF States
<1> QED
  BY <1>2, <1>3, <1>4, <1>5

LEMMA HomeAssistantKeeps ==
  ASSUME IInv, HomeAssistant
  PROVE  IInv'
<1>1. EntryPart /\ ReauthPart /\ FlowPart
  BY Parts
<1>2. PICK e \in Entries :
        \/ SetupStarts(e) \/ SetupSucceeds(e) \/ SetupRefused(e)
        \/ SetupNotReady(e) \/ ReloadStarts(e) \/ UnloadEnds(e)
  BY DEF HomeAssistant
<1>3. UNCHANGED stored /\ UNCHANGED flow /\ UNCHANGED at /\ UNCHANGED acts
  BY <1>2 DEF SetupStarts, SetupSucceeds, SetupRefused, SetupNotReady,
              ReloadStarts, UnloadEnds, flows
<1>4. \A d \in Entries : Present(d) <=> Present(d)'
  BY <1>3 DEF Present, stored
<1>5. Present(e)
  BY <1>1, <1>2 DEF EntryPart, SetupStarts, SetupSucceeds, SetupRefused,
                    SetupNotReady, ReloadStarts, UnloadEnds
<1>6. EntryPart'
  <2>1. CASE SetupStarts(e)
    BY <1>1, <1>5, <2>1, ReadSettingsKeeps DEF SetupStarts, EntryPart
  <2>2. CASE SetupSucceeds(e)
    <3>1. using[e] \in Settings /\ registry[e] \subseteq 1..using[e].zones
      BY <1>1, <2>2 DEF SetupSucceeds, EntryPart, RegistryFollows
    <3>2. /\ registry' = [registry EXCEPT ![e] = 1..using[e].zones]
          /\ state' = [state EXCEPT ![e] = "loaded"]
          /\ state[e] = "setup"
          /\ UNCHANGED <<stored, using, usingCode, reload, at, acts>>
      BY <1>1, <2>2, <3>1 DEF SetupSucceeds, EntryPart
    <3>3. 1..using[e].zones \in SUBSET (1..MaxZones)
      BY <3>1, EntryConstants DEF Settings
    <3> QED
      BY <1>1, <1>5, <3>1, <3>2, <3>3
      DEF EntryPart, RegistryFollows, SettingsTakeEffect, States, Present, stored
  <2>3. CASE SetupRefused(e)
    BY <1>1, <1>5, <2>3
    DEF SetupRefused, EntryPart, RegistryFollows, SettingsTakeEffect, States,
        Present, stored
  <2>4. CASE SetupNotReady(e)
    BY <1>1, <1>5, <2>4
    DEF SetupNotReady, Forget, EntryPart, RegistryFollows, SettingsTakeEffect,
        States, Present, stored
  <2>5. CASE ReloadStarts(e) /\ state[e] = "loaded"
    BY <1>1, <1>5, <2>5
    DEF ReloadStarts, EntryPart, RegistryFollows, SettingsTakeEffect, States,
        Present, stored
  <2>6. CASE ReloadStarts(e) /\ state[e] # "loaded"
    BY <1>1, <1>5, <2>6, ReadSettingsKeeps DEF ReloadStarts, EntryPart
  <2>7. CASE UnloadEnds(e)
    BY <1>1, <1>5, <2>7, ReadSettingsKeeps DEF UnloadEnds, EntryPart
  <2> QED
    BY <1>2, <2>1, <2>2, <2>3, <2>4, <2>5, <2>6, <2>7
<1>7. ReauthPart'
  <2>1. CASE SetupRefused(e)
    BY <1>1, <1>4, <1>5, <2>1
    DEF SetupRefused, ReauthPart, Reauths, ReauthForm, NoReauth
  <2>2. CASE UNCHANGED reauth
    BY <1>1, <1>4, <2>2, ReauthStutter
  <2> QED
    BY <1>2, <2>1, <2>2
    DEF SetupStarts, SetupSucceeds, SetupNotReady, ReloadStarts, UnloadEnds, flows
<1>8. FlowPart'
  BY <1>1, <1>3, <1>4, FlowStutter
<1> QED
  BY <1>6, <1>7, <1>8, PartsNext

(* ---------------------- changes of stored settings ---------------------- *)

\* A change of the stored settings leaves a reload behind, or changes nothing
\* that a loaded entry uses.
LEMMA StoreSettingsKeeps ==
  ASSUME EntryPart, NEW e \in Entries, Present(e), NEW s \in Settings,
         StoreSettings(e, s), UNCHANGED <<mac, options, created, running>>,
         at' \in [Hosts -> Modules \cup {None}], acts' \in 0..MaxActs
  PROVE  EntryPart' /\ \A d \in Entries : Present(d) <=> Present(d)'
<1> USE DEF EntryPart, StoreSettings, running, Present
<1>1. s # None
  BY EntryConstants
<1>2. \A d \in Entries : Present(d) <=> Present(d)'
  BY <1>1
<1>3. SettingsTakeEffect'
  BY DEF SettingsTakeEffect, HasListener
<1>4. RegistryFollows'
  BY DEF RegistryFollows
<1> QED
  BY <1>1, <1>2, <1>3, <1>4

\* A change of what a coordinator does not read.
LEMMA ListenersCalledKeeps ==
  ASSUME EntryPart, NEW e \in Entries, NEW changed \in BOOLEAN,
         ListenersCalled(e, changed), UNCHANGED <<data, created, running>>,
         mac' \in [Entries -> Modules \cup {None}],
         options' \in [Entries -> Codes],
         at' \in [Hosts -> Modules \cup {None}], acts' \in 0..MaxActs
  PROVE  EntryPart'
BY DEF EntryPart, ListenersCalled, running, Present, RegistryFollows,
       SettingsTakeEffect, HasListener

\* What is left of the entries when some are deleted and nothing of those
\* runs any more; new settings may be stored under the next number.
LEMMA NothingRunsKeeps ==
  ASSUME EntryPart, NEW gone \in SUBSET Entries, NothingRuns(gone),
         data' \in [Entries -> Settings \cup {None}],
         mac' \in [Entries -> Modules \cup {None}],
         options' \in [Entries -> Codes],
         created' \in 0..MaxEntries, created' >= created,
         \A e \in gone : data'[e] = None,
         \A e \in Entries \ gone :
             data'[e] = data[e] \/ (~Present(e) /\ e <= created'),
         UNCHANGED at, acts' \in 0..MaxActs
  PROVE  EntryPart'
<1> USE DEF EntryPart, NothingRuns, Forget, Present
<1>1. \A e \in Entries :
        /\ e \in gone => state'[e] = "not_loaded" /\ ~Present(e)'
        /\ e \notin gone => /\ state'[e] = state[e] /\ using'[e] = using[e]
                            /\ registry'[e] = registry[e]
                            /\ reload'[e] = reload[e]
  OBVIOUS
<1>2. RegistryFollows'
  BY <1>1 DEF RegistryFollows
<1>3. SettingsTakeEffect'
  BY <1>1 DEF SettingsTakeEffect
<1>4. \A e \in Entries : /\ Present(e)' => e <= created'
                         /\ ~Present(e)' => state'[e] = "not_loaded"
  BY <1>1 DEF Entries
<1>5. /\ state' \in [Entries -> States]
      /\ registry' \in [Entries -> SUBSET (1..MaxZones)]
      /\ reload' \in [Entries -> BOOLEAN]
      /\ using' \in [Entries -> Settings \cup {None}]
      /\ usingCode' \in [Entries -> Codes \cup {None}]
  BY DEF States
<1> QED
  BY <1>2, <1>3, <1>4, <1>5

(* ------------------------------- dialogs -------------------------------- *)

\* The steps that only move a dialog on.
DialogStep(f) ==
    \/ OpenUser(f) \/ SubmitBusy(f) \/ Close(f) \/ LoginAnswered(f)
    \/ \E e \in Entries : OpenReconfigure(f, e)
    \/ \E h \in Hosts, p \in Passwords : SubmitUser(f, h, p)

LEMMA DialogStepKeeps ==
  ASSUME IInv, NEW f \in Flows, DialogStep(f)
  PROVE  IInv'
<1>1. EntryPart /\ ReauthPart /\ FlowPart
  BY Parts
<1>2. UNCHANGED <<stored, running, reload, reauth, at, acts>>
  BY DEF DialogStep, OpenUser, SubmitBusy, Close, LoginAnswered,
         OpenReconfigure, SubmitUser
<1>3. \A e \in Entries : Present(e) <=> Present(e)'
  BY <1>2 DEF Present, stored
<1>4. EntryPart' /\ ReauthPart'
  BY <1>1, <1>2, <1>3, EntryStutter, ReauthStutter DEF EntryPart
<1>5. Filled(flow[f]) /\ flow[f] \in FlowRecords
  BY <1>1 DEF FlowPart
<1>6. \E record : Goto(f, record) /\ Filled(record)
  <2> USE DEF Filled, FlowRecords, Steps, Form
  <2>1. CASE OpenUser(f)
    <3>1. Filled(Form("user", 0, None, None))
      BY EntryConstants
    <3> QED
      BY <2>1, <3>1 DEF OpenUser
  <2>2. CASE SubmitBusy(f)
    <3>1. Filled([flow[f] EXCEPT !.step = "login"])
      BY <1>5, <2>2 DEF SubmitBusy
    <3> QED
      BY <2>2, <3>1 DEF SubmitBusy
  <2>3. CASE Close(f)
    BY <2>3, NoFlowFilled DEF Close
  <2>4. CASE LoginAnswered(f)
    <3>1. flow[f].host \in Hosts /\ flow[f].password \in Passwords
      BY <1>5, <2>4 DEF LoginAnswered
    <3>2. Filled([flow[f] EXCEPT !.step = "busy"])
      BY <1>5, <3>1
    <3>3. Filled(Form("user", 0, flow[f].mac, flow[f].uid))
      BY <1>5, EntryConstants
    <3>4. Filled([flow[f] EXCEPT !.step = "panel", !.uid = flow[f].host])
      BY <1>5, <3>1
    <3>5. \/ Goto(f, Form("user", 0, flow[f].mac, flow[f].uid))
          \/ Goto(f, NoFlow)
          \/ Goto(f, [flow[f] EXCEPT !.step = "busy"])
          \/ Goto(f, [flow[f] EXCEPT !.step = "panel", !.uid = flow[f].host])
      BY <2>4 DEF LoginAnswered
    <3> QED
      BY <3>2, <3>3, <3>4, <3>5, NoFlowFilled
  <2>5. CASE \E e \in Entries : OpenReconfigure(f, e)
    <3>1. PICK e \in Entries : OpenReconfigure(f, e)
      BY <2>5
    <3>2. Filled(Form("reconfigure", e, None, None))
      BY <3>1, EntryConstants DEF OpenReconfigure, Entries
    <3> QED
      BY <3>1, <3>2 DEF OpenReconfigure
  <2>6. CASE \E h \in Hosts, p \in Passwords : SubmitUser(f, h, p)
    <3>1. PICK h \in Hosts, p \in Passwords : SubmitUser(f, h, p)
      BY <2>6
    <3>2. Filled([flow[f] EXCEPT !.step = "login", !.host = h,
                                 !.password = p])
      BY <1>5
    <3> QED
      BY <3>1, <3>2, NoFlowFilled DEF SubmitUser
  <2> QED
    BY <2>1, <2>2, <2>3, <2>4, <2>5, <2>6 DEF DialogStep
<1> QED
  BY <1>1, <1>3, <1>4, <1>6, FlowGoto, PartsNext

\* A reauth or reconfigure flow that stores settings, or only moves on.
LEMMA ReauthKeeps ==
  ASSUME IInv, NEW e \in Entries,
         ReauthAnswered(e) \/ \E p \in Passwords : SubmitReauth(e, p)
  PROVE  IInv'
<1>1. EntryPart /\ ReauthPart /\ FlowPart
  BY Parts
<1>2. Present(e) /\ reauth[e] \in Reauths
  BY <1>1 DEF ReauthAnswered, SubmitReauth, ReauthPart, NoReauth
<1>3. data[e] \in Settings
  BY <1>1, <1>2 DEF EntryPart, Present
<1>4. CASE ReauthAnswered(e)
  <2>1. reauth[e].password \in Passwords
    BY <1>1, <1>4 DEF ReauthAnswered, ReauthPart
  <2>2. [data[e] EXCEPT !.password = reauth[e].password] \in Settings
    BY <1>3, <2>1 DEF Settings
  <2>3. UNCHANGED <<mac, options, created, running, flow, at, acts>>
    BY <1>4 DEF ReauthAnswered
  <2>4. acts' \in 0..MaxActs /\ at' \in [Hosts -> Modules \cup {None}]
    BY <1>1, <2>3 DEF EntryPart
  <2>5. \/ StoreSettings(e, [data[e] EXCEPT !.password = reauth[e].password])
        \/ UNCHANGED <<data, reload>>
    BY <1>4 DEF ReauthAnswered
  <2>6. EntryPart' /\ \A d \in Entries : Present(d) <=> Present(d)'
    <3>1. CASE UNCHANGED <<data, reload>>
      BY <1>1, <2>3, <2>4, <3>1, EntryStutter DEF stored, Present
    <3>2. CASE StoreSettings(e, [data[e] EXCEPT !.password = reauth[e].password])
      <4>1. PICK s \in Settings : StoreSettings(e, s)
        BY <2>2, <3>2
      <4> QED
        BY <1>1, <1>2, <2>3, <2>4, <4>1, StoreSettingsKeeps
    <3> QED
      BY <2>5, <3>1, <3>2
  <2>7. \E r \in {NoReauth, ReauthForm} : reauth' = [reauth EXCEPT ![e] = r]
    BY <1>4 DEF ReauthAnswered
  <2>8. ReauthPart'
    BY <1>1, <1>2, <2>6, <2>7
    DEF ReauthPart, NoReauth, ReauthForm, Reauths
  <2>9. FlowPart'
    BY <1>1, <2>3, <2>6, FlowStutter
  <2> QED
    BY <2>6, <2>8, <2>9, PartsNext
<1>5. CASE \E p \in Passwords : SubmitReauth(e, p)
  <2>1. PICK p \in Passwords : SubmitReauth(e, p)
    BY <1>5
  <2>2. Act /\ UNCHANGED <<stored, running, reload, flow, at>>
    BY <2>1 DEF SubmitReauth
  <2>3. acts' \in 0..MaxActs
    BY <1>1, <2>2, ActBound DEF EntryPart
  <2>4. \A d \in Entries : Present(d) <=> Present(d)'
    BY <2>2 DEF Present, stored
  <2>5. EntryPart' /\ FlowPart'
    BY <1>1, <2>2, <2>3, <2>4, EntryStutter, FlowStutter
  <2>6. data[e].host \in Hosts
    BY <1>3 DEF Settings
  <2>7. ReauthPart'
    BY <1>1, <1>2, <2>1, <2>4, <2>6 DEF SubmitReauth, ReauthPart, Reauths
  <2> QED
    BY <2>5, <2>7, PartsNext
<1> QED
  BY <1>4, <1>5

LEMMA ReconfigureKeeps ==
  ASSUME IInv, NEW f \in Flows,
         \/ ReconfigureAnswered(f)
         \/ \E h \in Hosts, p \in Passwords \cup {None}, z \in Asked :
                SubmitReconfigure(f, h, p, z)
  PROVE  IInv'
<1> DEFINE e == flow[f].entry
<1>1. EntryPart /\ ReauthPart /\ FlowPart
  BY Parts
<1>2. Filled(flow[f]) /\ e \in Entries /\ Present(e)
  BY <1>1 DEF ReconfigureAnswered, SubmitReconfigure, FlowPart, Filled
<1>3. data[e] \in Settings
  BY <1>1, <1>2 DEF EntryPart, Present
<1>4. /\ acts' \in 0..MaxActs
      /\ UNCHANGED <<mac, options, created, running, reauth, at>>
  BY <1>1, ActBound DEF ReconfigureAnswered, SubmitReconfigure, EntryPart
<1>5. /\ \/ UNCHANGED <<data, reload>>
         \/ \E s \in Settings : StoreSettings(e, s)
      /\ \E record : Goto(f, record) /\ Filled(record)
  <2>1. CASE ReconfigureAnswered(f)
    <3>1. /\ flow[f].host \in Hosts /\ flow[f].password \in Passwords
          /\ flow[f].zones \in 1..MaxZones
      BY <1>2, <2>1 DEF ReconfigureAnswered, Filled, FlowRecords
    <3>2. [host |-> flow[f].host, password |-> flow[f].password,
           zones |-> flow[f].zones] \in Settings
      BY <3>1 DEF Settings
    <3>3. Filled(Form("reconfigure", e, None, None))
      BY <1>2, EntryConstants DEF Filled, Form, FlowRecords, Steps, Entries
    <3> QED
      BY <2>1, <3>2, <3>3, NoFlowFilled DEF ReconfigureAnswered
  <2>2. CASE \E h \in Hosts, p \in Passwords \cup {None}, z \in Asked :
                SubmitReconfigure(f, h, p, z)
    <3>1. PICK h \in Hosts, p \in Passwords \cup {None}, z \in Asked :
                SubmitReconfigure(f, h, p, z)
      BY <2>2
    <3> DEFINE password == IF p = None THEN data[e].password ELSE p
    <3>2. password \in Passwords /\ z \in 1..MaxZones
      <4>1. Fits(z)
        BY <3>1 DEF SubmitReconfigure
      <4>2. z \in 1..MaxZones
        BY <4>1, EntryConstants DEF Fits, Asked
      <4>3. data[e].password \in Passwords
        BY <1>3 DEF Settings
      <4> QED
        BY <4>2, <4>3
    <3>3. [host |-> h, password |-> password, zones |-> z] \in Settings
      BY <3>2 DEF Settings
    <3>4. Filled([flow[f] EXCEPT !.step = "probe", !.host = h,
                                 !.password = password, !.zones = z])
      <4> HIDE DEF password
      <4> QED
        BY <1>2, <3>2 DEF Filled, FlowRecords, Steps
    <3> QED
      BY <3>1, <3>3, <3>4, NoFlowFilled DEF SubmitReconfigure
  <2> QED
    BY <2>1, <2>2
<1>6. EntryPart' /\ \A d \in Entries : Present(d) <=> Present(d)'
  <2>1. CASE UNCHANGED <<data, reload>>
    BY <1>1, <1>4, <2>1, EntryStutter DEF stored, Present
  <2>2. CASE \E s \in Settings : StoreSettings(e, s)
    <3>1. PICK s \in Settings : StoreSettings(e, s)
      BY <2>2
    <3>2. PICK d \in Entries : d = e
      BY <1>2
    <3>3. at' \in [Hosts -> Modules \cup {None}]
      BY <1>1, <1>4 DEF EntryPart
    <3> QED
      BY <1>1, <1>2, <1>4, <3>1, <3>2, <3>3, StoreSettingsKeeps
  <2> QED
    BY <1>5, <2>1, <2>2
<1>7. ReauthPart'
  BY <1>1, <1>4, <1>6, ReauthStutter
<1>8. FlowPart'
  BY <1>1, <1>5, <1>6, FlowGoto
<1> QED
  BY <1>6, <1>7, <1>8, PartsNext

(* --------------------- creation, removal, restarts ---------------------- *)

\* Dialogs that are left alone or ended, with the entries of those left alone.
LEMMA FlowsEnd ==
  ASSUME FlowPart, NEW ended \in SUBSET Flows,
         flow' = [f \in Flows |-> IF f \in ended THEN NoFlow ELSE flow[f]],
         \A f \in Flows \ ended :
             flow[f].entry \in Entries /\ Present(flow[f].entry)
             => Present(flow[f].entry)'
  PROVE  FlowPart'
<1>1. flow' \in [Flows -> FlowRecords]
  BY NoFlowFilled DEF FlowPart, Filled
<1>2. ASSUME NEW f \in Flows PROVE Filled(flow[f])'
  <2>1. CASE f \in ended
    BY <1>1, <2>1 DEF Filled, NoFlow, Form
  <2>2. CASE f \notin ended
    <3>1. flow'[f] = flow[f] /\ Filled(flow[f])
      BY <2>2 DEF FlowPart
    <3>2. \/ ~(flow[f].entry \in Entries /\ Present(flow[f].entry))
          \/ data'[flow[f].entry] # None
      BY <2>2, <3>1 DEF Present
    <3> QED
      BY <3>1, <3>2 DEF Filled, Present
  <2> QED
    BY <2>1, <2>2
<1> QED
  BY <1>1, <1>2 DEF FlowPart

LEMMA SubmitPanelKeeps ==
  ASSUME IInv, NEW f \in Flows, NEW zones \in Asked, SubmitPanel(f, zones)
  PROVE  IInv'
<1> DEFINE n == created + 1
           h == flow[f].host
           gone == {e \in Entries : Present(e) /\ data[e].host = h}
           ended == {g \in Flows : g = f \/ flow[g].uid = h
                                    \/ flow[g].entry \in gone}
           new == [host |-> h, password |-> flow[f].password, zones |-> zones]
<1>1. EntryPart /\ ReauthPart /\ FlowPart
  BY Parts
<1>2. /\ n \in Entries /\ n \notin gone /\ ~Present(n)
      /\ created' = n /\ n \in 0..MaxEntries /\ n > created
  BY <1>1, EntryConstants DEF SubmitPanel, EntryPart, Entries
<1>3. new \in Settings /\ flow[f].mac \in Modules \cup {None}
  <2>1. Filled(flow[f]) /\ flow[f].step = "panel"
    BY <1>1 DEF FlowPart, SubmitPanel
  <2>2. zones \in 1..MaxZones
    BY EntryConstants DEF SubmitPanel, Fits, Asked
  <2> QED
    BY <2>1, <2>2 DEF Filled, FlowRecords, Settings
<1>4. new # None
  BY <1>3, EntryConstants
<1>5. /\ data' = [e \in Entries |-> IF e = n THEN new
                                    ELSE IF e \in gone THEN None ELSE data[e]]
      /\ mac' = [e \in Entries |-> IF e = n THEN flow[f].mac
                                   ELSE IF e \in gone THEN None ELSE mac[e]]
      /\ \E c \in Codes : options' = [options EXCEPT ![n] = c]
      /\ NothingRuns(gone)
      /\ reauth' = [e \in Entries |->
                       IF e \in gone THEN NoReauth ELSE reauth[e]]
      /\ flow' = [g \in Flows |-> IF g = f \/ flow[g].uid = h
                                     \/ flow[g].entry \in gone
                                  THEN NoFlow ELSE flow[g]]
      /\ Act /\ UNCHANGED at
  BY DEF SubmitPanel
<1>6. gone \in SUBSET Entries /\ ended \in SUBSET Flows
  OBVIOUS
<1>7. flow' = [g \in Flows |-> IF g \in ended THEN NoFlow ELSE flow[g]]
  BY <1>5
<1>8. \A e \in Entries : /\ e \in gone => data'[e] = None
                         /\ e \notin gone => data'[e] = data[e] \/ e = n
                         /\ e = n => data'[e] = new
  BY <1>2, <1>5
<1>9. \A g \in Flows \ ended : flow[g].entry \notin gone
  OBVIOUS
<1> HIDE DEF gone, ended, new
<1>10. EntryPart'
  <2>1. /\ data' \in [Entries -> Settings \cup {None}]
        /\ mac' \in [Entries -> Modules \cup {None}]
        /\ options' \in [Entries -> Codes]
    BY <1>1, <1>2, <1>3, <1>5 DEF EntryPart
  <2>2. \A e \in Entries \ gone :
             data'[e] = data[e] \/ (~Present(e) /\ e <= created')
    BY <1>2, <1>8 DEF Entries
  <2>3. created' \in 0..MaxEntries /\ created' >= created
    BY <1>1, <1>2 DEF EntryPart
  <2>4. acts' \in 0..MaxActs
    BY <1>1, <1>5, ActBound DEF EntryPart
  <2> QED
    BY <1>1, <1>5, <1>6, <1>8, <2>1, <2>2, <2>3, <2>4, NothingRunsKeeps
<1>11. ReauthPart'
  BY <1>1, <1>4, <1>5, <1>8 DEF ReauthPart, Reauths, NoReauth, Present
<1>12. FlowPart'
  BY <1>1, <1>4, <1>6, <1>7, <1>8, <1>9, FlowsEnd DEF Present
<1> QED
  BY <1>10, <1>11, <1>12, PartsNext

LEMMA DeleteKeeps ==
  ASSUME IInv, NEW e \in Entries, Delete(e)
  PROVE  IInv'
<1> DEFINE ended == {g \in Flows : flow[g].entry = e}
<1>1. EntryPart /\ ReauthPart /\ FlowPart
  BY Parts
<1>2. /\ data' = [data EXCEPT ![e] = None] /\ mac' = [mac EXCEPT ![e] = None]
      /\ NothingRuns({e}) /\ reauth' = [reauth EXCEPT ![e] = NoReauth]
      /\ flow' = [g \in Flows |-> IF g \in ended THEN NoFlow ELSE flow[g]]
      /\ Act /\ UNCHANGED <<options, created, at>>
  BY DEF Delete
<1>3. /\ data' \in [Entries -> Settings \cup {None}]
      /\ mac' \in [Entries -> Modules \cup {None}]
      /\ options' \in [Entries -> Codes]
      /\ created' \in 0..MaxEntries /\ created' >= created
      /\ data'[e] = None
      /\ \A d \in Entries \ {e} : data'[d] = data[d]
  BY <1>1, <1>2 DEF EntryPart
<1>4. acts' \in 0..MaxActs
  BY <1>1, <1>2, ActBound DEF EntryPart
<1>5. EntryPart'
  <2>1. PICK gone \in SUBSET Entries : gone = {e}
    OBVIOUS
  <2> QED
    BY <1>1, <1>2, <1>3, <1>4, <2>1, NothingRunsKeeps
<1>6. ReauthPart'
  BY <1>1, <1>2, <1>3 DEF ReauthPart, Reauths, NoReauth, Present
<1>7. FlowPart'
  <2>1. ended \in SUBSET Flows /\ \A g \in Flows \ ended : flow[g].entry # e
    OBVIOUS
  <2> HIDE DEF ended
  <2> QED
    BY <1>1, <1>2, <1>3, <2>1, FlowsEnd DEF Present
<1> QED
  BY <1>5, <1>6, <1>7, PartsNext

LEMMA RestartKeeps ==
  ASSUME IInv, Restart
  PROVE  IInv'
<1>1. EntryPart /\ ReauthPart /\ FlowPart
  BY Parts
<1>2. acts' \in 0..MaxActs
  BY <1>1, ActBound DEF Restart, EntryPart
<1>3. EntryPart'
  BY <1>1, <1>2
  DEF Restart, Forget, EntryPart, RegistryFollows, SettingsTakeEffect, States,
      Present, stored
<1>4. ReauthPart'
  BY <1>1 DEF Restart, ReauthPart, Reauths, NoReauth
<1>5. FlowPart'
  <2>1. flow' = [f \in Flows |-> IF f \in Flows THEN NoFlow ELSE flow[f]]
    BY DEF Restart
  <2>2. PICK ended \in SUBSET Flows : ended = Flows
    OBVIOUS
  <2> QED
    BY <1>1, <2>1, <2>2, FlowsEnd
<1> QED
  BY <1>3, <1>4, <1>5, PartsNext

(* -------------------------- leases and options -------------------------- *)

LEMMA LeaseKeeps ==
  ASSUME IInv, NEW m \in Modules, NEW h \in Hosts, Lease(m, h)
  PROVE  IInv'
<1>1. EntryPart /\ ReauthPart /\ FlowPart
  BY Parts
<1>2. Act /\ UNCHANGED <<options, created, running, reauth>>
  BY DEF Lease
<1>3. acts' \in 0..MaxActs /\ at' \in [Hosts -> Modules \cup {None}]
  BY <1>1, <1>2, ActBound DEF Lease, EntryPart
<1>4. CASE \E e \in Entries : LeaseMoves(e, m, h)
  <2>1. PICK e \in Entries : LeaseMoves(e, m, h)
    BY <1>4
  <2>2. Present(e) /\ UNCHANGED <<mac, flow>>
    BY <2>1 DEF LeaseMoves, FirstToClaim, Claims
  <2>3. [data[e] EXCEPT !.host = h] \in Settings
    BY <1>1, <2>2 DEF EntryPart, Present, Settings
  <2>4. \/ UNCHANGED <<data, reload>>
        \/ \E s \in Settings : StoreSettings(e, s)
    BY <2>1, <2>3 DEF LeaseMoves
  <2>5. EntryPart' /\ \A d \in Entries : Present(d) <=> Present(d)'
    <3>1. CASE UNCHANGED <<data, reload>>
      BY <1>1, <1>2, <1>3, <2>2, <3>1
      DEF EntryPart, running, Present, RegistryFollows, SettingsTakeEffect
    <3>2. CASE \E s \in Settings : StoreSettings(e, s)
      BY <1>1, <1>2, <1>3, <2>2, <3>2, StoreSettingsKeeps
    <3> QED
      BY <2>4, <3>1, <3>2
  <2> QED
    BY <1>1, <1>2, <2>2, <2>5, ReauthStutter, FlowStutter, PartsNext
<1>5. CASE \E e \in Entries : LeaseTeaches(e, m, h)
  <2>1. PICK e \in Entries : LeaseTeaches(e, m, h)
    BY <1>5
  <2>2. /\ mac' = [mac EXCEPT ![e] = m] /\ ListenersCalled(e, TRUE)
        /\ UNCHANGED <<data, flow>>
    BY <2>1 DEF LeaseTeaches
  <2>3. /\ mac' \in [Entries -> Modules \cup {None}]
        /\ options' \in [Entries -> Codes]
    BY <1>1, <1>2, <2>2 DEF EntryPart
  <2>4. \A d \in Entries : Present(d) <=> Present(d)'
    BY <2>2 DEF Present
  <2>5. EntryPart'
    <3>1. PICK changed \in BOOLEAN : changed = TRUE
      OBVIOUS
    <3> QED
      BY <1>1, <1>2, <1>3, <2>2, <2>3, <3>1, ListenersCalledKeeps
  <2> QED
    BY <1>1, <1>2, <2>2, <2>4, <2>5, ReauthStutter, FlowStutter, PartsNext
<1>6. CASE \E f \in Flows : LeaseOffers(f, m, h)
  <2>1. PICK f \in Flows : LeaseOffers(f, m, h)
    BY <1>6
  <2>2. UNCHANGED <<data, mac, reload>>
    BY <2>1 DEF LeaseOffers
  <2>3. \A d \in Entries : Present(d) <=> Present(d)'
    BY <2>2 DEF Present
  <2>4. EntryPart' /\ ReauthPart'
    BY <1>1, <1>2, <1>3, <2>2, <2>3, ReauthStutter
    DEF EntryPart, running, Present, RegistryFollows, SettingsTakeEffect
  <2>5. FlowPart'
    <3>1. CASE UNCHANGED flow
      BY <1>1, <2>3, <3>1, FlowStutter
    <3>2. CASE Goto(f, Form("user", 0, m, h))
      <4>1. Filled(Form("user", 0, m, h))
        BY EntryConstants DEF Filled, Form, FlowRecords, Steps
      <4> QED
        BY <1>1, <2>3, <3>2, <4>1, FlowGoto
    <3> QED
      BY <2>1, <3>1, <3>2 DEF LeaseOffers
  <2> QED
    BY <2>4, <2>5, PartsNext
<1> QED
  BY <1>4, <1>5, <1>6 DEF Lease

LEMMA SaveOptionsKeeps ==
  ASSUME IInv, NEW e \in Entries, NEW code \in Codes, SaveOptions(e, code)
  PROVE  IInv'
<1>1. EntryPart /\ ReauthPart /\ FlowPart
  BY Parts
<1>2. /\ options' = [options EXCEPT ![e] = code]
      /\ ListenersCalled(e, code # options[e])
      /\ Act /\ UNCHANGED <<data, mac, created, running, flows, at>>
  BY DEF SaveOptions
<1>3. /\ acts' \in 0..MaxActs
      /\ mac' \in [Entries -> Modules \cup {None}]
      /\ options' \in [Entries -> Codes]
      /\ at' \in [Hosts -> Modules \cup {None}]
  BY <1>1, <1>2, ActBound DEF EntryPart
<1>4. EntryPart'
  <2>1. PICK changed \in BOOLEAN : changed = (code # options[e])
    OBVIOUS
  <2> QED
    BY <1>1, <1>2, <1>3, <2>1, ListenersCalledKeeps
<1>5. \A d \in Entries : Present(d) <=> Present(d)'
  BY <1>2 DEF Present
<1> QED
  BY <1>1, <1>2, <1>4, <1>5, ReauthStutter, FlowStutter, PartsNext DEF flows

(* ------------------------------- theorems ------------------------------- *)

LEMMA InitHolds == Init => IInv
<1> SUFFICES ASSUME Init PROVE IInv
  OBVIOUS
<1>1. EntryPart
  BY EntryConstants
  DEF Init, EntryPart, RegistryFollows, SettingsTakeEffect, States, Entries,
      Present
<1>2. ReauthPart
  BY DEF Init, ReauthPart, Reauths, NoReauth
<1>3. FlowPart
  BY NoFlowFilled DEF Init, FlowPart, Filled
<1> QED
  BY <1>1, <1>2, <1>3, Parts

LEMMA StepKeeps == IInv /\ [Next]_vars => IInv'
<1> SUFFICES ASSUME IInv, [Next]_vars PROVE IInv'
  OBVIOUS
<1>1. CASE HomeAssistant
  BY <1>1, HomeAssistantKeeps
<1>2. CASE People
  <2>1. CASE \E e \in Entries : Delete(e)
    BY <2>1, DeleteKeeps
  <2>2. CASE \E e \in Entries, p \in Passwords : SubmitReauth(e, p)
    BY <2>2, ReauthKeeps
  <2>3. CASE \E e \in Entries, c \in Codes : SaveOptions(e, c)
    BY <2>3, SaveOptionsKeeps
  <2>4. CASE \E f \in Flows : OpenUser(f) \/ SubmitBusy(f) \/ Close(f)
    BY <2>4, DialogStepKeeps DEF DialogStep
  <2>5. CASE \E f \in Flows, e \in Entries : OpenReconfigure(f, e)
    BY <2>5, DialogStepKeeps DEF DialogStep
  <2>6. CASE \E f \in Flows, h \in Hosts, p \in Passwords : SubmitUser(f, h, p)
    BY <2>6, DialogStepKeeps DEF DialogStep
  <2>7. CASE \E f \in Flows, z \in Asked : SubmitPanel(f, z)
    BY <2>7, SubmitPanelKeeps
  <2>8. CASE \E f \in Flows, h \in Hosts, p \in Passwords \cup {None},
                z \in Asked : SubmitReconfigure(f, h, p, z)
    BY <2>8, ReconfigureKeeps
  <2> QED
    BY <1>2, <2>1, <2>2, <2>3, <2>4, <2>5, <2>6, <2>7, <2>8 DEF People
<1>3. CASE Network
  <2>1. CASE \E e \in Entries : ReauthAnswered(e)
    BY <2>1, ReauthKeeps
  <2>2. CASE \E f \in Flows : LoginAnswered(f)
    BY <2>2, DialogStepKeeps DEF DialogStep
  <2>3. CASE \E f \in Flows : ReconfigureAnswered(f)
    BY <2>3, ReconfigureKeeps
  <2>4. CASE \E m \in Modules, h \in Hosts : Lease(m, h)
    BY <2>4, LeaseKeeps
  <2> QED
    BY <1>3, <2>1, <2>2, <2>3, <2>4 DEF Network
<1>4. CASE Restart
  BY <1>4, RestartKeeps
<1>5. CASE UNCHANGED vars
  BY <1>5 DEF IInv, TypeOK, OnlyStoredOnesRun, DialogsAreFilled,
              RegistryFollows, SettingsTakeEffect, Present, vars, stored,
              running, flows
<1> QED
  BY <1>1, <1>2, <1>3, <1>4, <1>5 DEF Next

\* What is stored, what runs and what dialogs hold is well formed, however
\* flows, leases, setups, reloads, deletions and restarts are interleaved.
THEOREM EntriesAreWellFormed == Spec => []IInv
BY InitHolds, StepKeeps, PTL DEF Spec

\* The type invariant of the entries and flows of config_flow.py and
\* __init__.py, for any number of entries, dialogs, hosts and modules.
THEOREM TypesHold == Spec => []TypeOK
BY EntriesAreWellFormed, PTL DEF IInv

\* Whatever changes the settings of an entry, and at whatever point of its
\* setup or reload: they are in use or a reload is due.
THEOREM SettingsAlwaysTakeEffect == Spec => []SettingsTakeEffect
BY EntriesAreWellFormed, PTL DEF IInv

\* A loaded entry with no reload due has an entity for exactly its zones.
THEOREM NoEntityIsOrphaned == Spec => []NoOrphans
<1>1. IInv => NoOrphans
  BY DEF IInv, RegistryFollows, SettingsTakeEffect, NoOrphans
<1> QED
  BY <1>1, EntriesAreWellFormed, PTL

(* ------------------------------ addresses ------------------------------- *)

AddressMoved(e) == Present(e) /\ Present(e)' /\ data'[e].host # data[e].host
MoveProved(e) ==
    LET m == at'[data'[e].host]
    IN \/ mac[e] = m /\ data'[e].password = data[e].password
       \/ m # None /\ data'[e].password = PasswordOf[m]

\* Only a lease and an answered probe move an entry.
LEMMA WhatMovesAnEntry ==
  ASSUME IInv, [Next]_vars, NEW e \in Entries, AddressMoved(e)
  PROVE  \/ \E m \in Modules, h \in Hosts : Lease(m, h) /\ LeaseMoves(e, m, h)
         \/ \E f \in Flows : ReconfigureAnswered(f) /\ flow[f].entry = e
<1>1. data \in [Entries -> Settings \cup {None}] /\ EntryPart /\ FlowPart
  BY Parts DEF EntryPart
<1>2. data' # data
  BY DEF AddressMoved
<1>3. CASE \E f \in Flows : ReconfigureAnswered(f)
  <2>1. PICK f \in Flows : ReconfigureAnswered(f)
    BY <1>3
  <2>2. flow[f].entry \in Entries
    BY <1>1, <2>1 DEF FlowPart, Filled, ReconfigureAnswered
  <2>3. \A d \in Entries \ {flow[f].entry} : data'[d] = data[d]
    BY <1>1, <2>1, <2>2 DEF ReconfigureAnswered, StoreSettings
  <2> QED
    BY <2>1, <2>3 DEF AddressMoved
<1>4. CASE \E m \in Modules, h \in Hosts : Lease(m, h)
  <2>1. PICK m \in Modules, h \in Hosts : Lease(m, h)
    BY <1>4
  <2>2. PICK d \in Entries : LeaseMoves(d, m, h)
    BY <1>2, <2>1 DEF Lease, LeaseTeaches, LeaseOffers
  <2>3. \A c \in Entries \ {d} : data'[c] = data[c]
    BY <1>1, <2>2 DEF LeaseMoves, StoreSettings
  <2> QED
    BY <2>1, <2>2, <2>3 DEF AddressMoved
<1>5. ASSUME NEW d \in Entries, ReauthAnswered(d) PROVE FALSE
  <2>1. data' = [data EXCEPT ![d] = [data[d] EXCEPT !.password = reauth[d].password]]
    BY <1>2, <1>5 DEF ReauthAnswered, StoreSettings
  <2>2. data[e] \in Settings
    BY <1>1 DEF AddressMoved, Present
  <2> QED
    BY <1>1, <2>1, <2>2 DEF AddressMoved, Settings
<1>6. ASSUME NEW f \in Flows, NEW h \in Hosts, NEW p \in Passwords \cup {None},
             NEW z \in Asked, SubmitReconfigure(f, h, p, z)
      PROVE  FALSE
  <2>1. flow[f].entry \in Entries /\ Present(flow[f].entry)
    BY <1>1, <1>6 DEF FlowPart, Filled, SubmitReconfigure
  <2>2. /\ ~ConnectionChanged(flow[f].entry, h, p)
        /\ \E q : StoreSettings(flow[f].entry, [host |-> h, password |-> q,
                                                zones |-> z])
    BY <1>2, <1>6 DEF SubmitReconfigure
  <2>3. h = data[flow[f].entry].host
    BY <2>2 DEF ConnectionChanged
  <2>4. \A d \in Entries : Present(d) => data'[d].host = data[d].host
    BY <1>1, <2>1, <2>2, <2>3 DEF StoreSettings
  <2> QED
    BY <2>4 DEF AddressMoved
<1>7. ASSUME NEW f \in Flows, NEW z \in Asked, SubmitPanel(f, z) PROVE FALSE
  <2>1. ~Present(created + 1) \/ e # created + 1
    BY <1>1 DEF EntryPart, Entries
  <2>2. e # created + 1 /\ data'[e] # data[e] => data'[e] = None
    BY <1>7 DEF SubmitPanel
  <2> QED
    BY <2>1, <2>2 DEF AddressMoved, Present
<1>8. ASSUME NEW d \in Entries, Delete(d) PROVE FALSE
  BY <1>1, <1>8 DEF Delete, AddressMoved, Present
<1> QED
  BY <1>2, <1>3, <1>4, <1>5, <1>6, <1>7, <1>8
  DEF Next, HomeAssistant, People, Network, Restart, SetupStarts,
      SetupSucceeds, SetupRefused, SetupNotReady, ReloadStarts, UnloadEnds,
      SaveOptions, SubmitReauth, OpenUser, SubmitBusy, Close, OpenReconfigure,
      SubmitUser, LoginAnswered, stored, flows, vars

LEMMA MoveStep ==
  ASSUME IInv, [Next]_vars, NEW e \in Entries, AddressMoved(e)
  PROVE  MoveProved(e)
<1>1. EntryPart /\ FlowPart
  BY Parts
<1>2. data[e] \in Settings
  BY <1>1 DEF AddressMoved, EntryPart, Present
<1>3. CASE \E m \in Modules, h \in Hosts : Lease(m, h) /\ LeaseMoves(e, m, h)
  <2>1. PICK m \in Modules, h \in Hosts : Lease(m, h) /\ LeaseMoves(e, m, h)
    BY <1>3
  <2>2. data' = [data EXCEPT ![e] = [data[e] EXCEPT !.host = h]]
    BY <2>1 DEF LeaseMoves, StoreSettings, AddressMoved
  <2>3. data'[e].host = h /\ data'[e].password = data[e].password
    BY <1>1, <1>2, <2>2 DEF EntryPart, Settings
  <2>4. at'[h] = m /\ mac[e] = m
    BY <2>1 DEF Lease, LeaseMoves
  <2> QED
    BY <2>3, <2>4 DEF MoveProved
<1>4. CASE \E f \in Flows : ReconfigureAnswered(f) /\ flow[f].entry = e
  <2>1. PICK f \in Flows : ReconfigureAnswered(f) /\ flow[f].entry = e
    BY <1>4
  <2>2. data' # data
    BY DEF AddressMoved
  <2>3. /\ "accepted" \in Answers(flow[f].host, flow[f].password, e)
        /\ data' = [data EXCEPT ![e] = [host |-> flow[f].host,
                                        password |-> flow[f].password,
                                        zones |-> flow[f].zones]]
        /\ at' = at
    BY <2>1, <2>2 DEF ReconfigureAnswered, StoreSettings
  <2>4. /\ at[flow[f].host] # None
        /\ flow[f].password = PasswordOf[at[flow[f].host]]
    BY <2>3 DEF Answers, Admits
  <2> QED
    BY <1>1, <2>3, <2>4 DEF MoveProved, EntryPart
<1> QED
  BY <1>3, <1>4, WhatMovesAnEntry

\* No flow and no lease stores an address with a password that was never
\* tried there: a lease moves the MAC's own entry, and a reconfigure only
\* what a module has just accepted.
THEOREM EveryMoveIsProved == Spec => MovesAreProved
<1>1. IInv /\ [Next]_vars =>
        [\A e \in Entries :
         Present(e) /\ Present(e)' /\ data'[e].host # data[e].host =>
            LET m == at'[data'[e].host]
            IN \/ mac[e] = m /\ data'[e].password = data[e].password
               \/ m # None /\ data'[e].password = PasswordOf[m]]_vars
  BY MoveStep DEF AddressMoved, MoveProved
<1> QED
  BY <1>1, EntriesAreWellFormed, PTL DEF Spec, MovesAreProved

LEMMA LeaseStep ==
  ASSUME IInv, [Next]_vars, NEW m \in Modules, NEW h \in Hosts,
         at[h] # m, at'[h] = m, \E e \in Entries : Present(e) /\ mac[e] = m
  PROVE  \E e \in Entries : Present(e)' /\ mac'[e] = m /\ data'[e].host = h
<1>1. EntryPart
  BY Parts
<1>2. \E k \in Modules, g \in Hosts : Lease(k, g)
  BY DEF Next, HomeAssistant, People, Network, Restart, SetupStarts,
         SetupSucceeds, SetupRefused, SetupNotReady, ReloadStarts, UnloadEnds,
         Delete, SaveOptions, SubmitReauth, ReauthAnswered, OpenUser,
         SubmitBusy, Close, OpenReconfigure, SubmitReconfigure, SubmitUser,
         SubmitPanel, LoginAnswered, ReconfigureAnswered, vars
<1>3. Lease(m, h)
  BY <1>1, <1>2, EntryConstants DEF Lease, EntryPart
<1>4. PICK e \in Entries : LeaseMoves(e, m, h) \/ LeaseTeaches(e, m, h)
  BY <1>3 DEF Lease, LeaseOffers, Claims
<1>5. Present(e) /\ data[e] \in Settings
  BY <1>1, <1>4
  DEF LeaseMoves, LeaseTeaches, FirstToClaim, Claims, EntryPart, Present
<1>6. CASE LeaseMoves(e, m, h)
  <2>1. mac'[e] = m /\ data'[e] \in Settings /\ data'[e].host = h
    <3>1. CASE data[e].host = h
      BY <1>5, <1>6, <3>1 DEF LeaseMoves
    <3>2. CASE data[e].host # h
      <4>1. data' = [data EXCEPT ![e] = [data[e] EXCEPT !.host = h]]
        BY <1>6, <3>2 DEF LeaseMoves, StoreSettings
      <4>2. data'[e] = [data[e] EXCEPT !.host = h]
        BY <1>1, <4>1 DEF EntryPart
      <4> QED
        BY <1>5, <1>6, <4>2 DEF LeaseMoves, Settings
    <3> QED
      BY <3>1, <3>2
  <2> QED
    BY <2>1, EntryConstants DEF Present
<1>7. CASE LeaseTeaches(e, m, h)
  BY <1>1, <1>5, <1>7, EntryConstants
  DEF LeaseTeaches, FirstToClaim, Claims, EntryPart, Present
<1> QED
  BY <1>4, <1>6, <1>7

\* However the entries came to share a module, a lease of a module that some
\* entry has learned leaves an entry with its MAC at the new address.
THEOREM AModuleIsFollowed == Spec => SomeEntryFollows
<1>1. IInv /\ [Next]_vars =>
        [\A m \in Modules, h \in Hosts :
         /\ at[h] # m /\ at'[h] = m
         /\ \E e \in Entries : Present(e) /\ mac[e] = m
         => \E e \in Entries : Present(e)' /\ mac'[e] = m /\ data'[e].host = h]_vars
  BY LeaseStep
<1> QED
  BY <1>1, EntriesAreWellFormed, PTL DEF Spec, SomeEntryFollows

=============================================================================
