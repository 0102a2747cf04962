--------------------------- MODULE EntryLifecycle ---------------------------
(***************************************************************************)
(* The config entries of the integration: the flows that create and change *)
(* them (config_flow.py), and the setup, reload and unload that make a     *)
(* running coordinator follow what is stored (__init__.py).                *)
(*                                                                         *)
(* A flow step runs on the event loop up to its one await, the login       *)
(* probe, and goes on when the module has answered.  Between the two any   *)
(* other flow, lease, setup or reload may run.  TpiSession has what a      *)
(* probe and a reload do to the session; here a login is one answer.       *)
(*                                                                         *)
(* Home Assistant is external: it runs setups and reloads of an entry one  *)
(* at a time, calls the update listeners of an entry whose data or options *)
(* have changed, and retries a setup that was not ready.  A host stands    *)
(* for a host and its port, and so for the unique id made of the two.      *)
(***************************************************************************)
EXTENDS Integers

CONSTANTS
    MaxEntries,       \* bound on the entries ever created
    Flows,            \* dialogs that may be open at once
    Hosts,
    Modules,          \* the Envisalinks, known by their MAC
    Passwords,
    PasswordOf,       \* the password each module accepts
    MaxZones,         \* what the panel model can have
    Codes,            \* values of the installer code option
    MaxActs,          \* bound on what users, leases and restarts do
    None

\* Entries are numbered as they are created, which is the order in which
\* Home Assistant lists them.
Entries  == 1..MaxEntries
Settings == [host : Hosts, password : Passwords, zones : 1..MaxZones]
Asked    == 1..(MaxZones + 1)       \* counts a form may be sent

ASSUME EntryConstants ==
    /\ MaxEntries \in Nat /\ MaxZones \in Nat \ {0} /\ MaxActs \in Nat
    /\ PasswordOf \in [Modules -> Passwords]
    /\ None \notin Modules \cup Passwords \cup Hosts \cup Settings

\* Mutant: one zone too many.
FitsAlmost(n) == n <= MaxZones + 1

\* The count is within what the panel model can have.
Fits(n) == n <= MaxZones

VARIABLES
    \* -- the stored entries
    data,       \* entry.data without the MAC, None for an entry there is not
    mac,        \* CONF_MAC of entry.data
    options,    \* the installer code in entry.options
    created,    \* how many entries there have been
    \* -- the running side
    state,      \* entry.state
    registry,   \* zones with an entity in the entity registry
    using,      \* the settings the coordinator was made with
    usingCode,  \* the installer code it was made with
    reload,     \* a reload waits for the entry's setup lock
    \* -- flows and the network
    reauth,     \* the reauth flow of each entry
    flow,       \* the user, discovery and reconfigure flows
    at,         \* which module answers at each host
    acts        \* how much has been done from outside

stored  == <<data, mac, options, created>>
running == <<state, registry, using, usingCode>>
flows   == <<reauth, flow>>
vars == <<stored, running, reload, flows, at, acts>>

Present(e) == data[e] # None
States == {"not_loaded", "setup", "loaded", "retry", "auth", "unload"}
Steps  == {"idle", "user", "login", "busy", "panel", "reconfigure", "probe"}
\* A dialog with nothing typed.
Form(step, entry, m, uid) ==
    [step |-> step, entry |-> entry, host |-> None, password |-> None,
     zones |-> 1, mac |-> m, uid |-> uid]
NoFlow == Form("idle", 0, None, None)
FlowRecords ==
    [step : Steps, entry : 0..MaxEntries, host : Hosts \cup {None},
     password : Passwords \cup {None}, zones : 1..MaxZones,
     mac : Modules \cup {None}, uid : Hosts \cup {None}]
NoReauth == [step |-> "none", host |-> None, password |-> None]
Reauths ==
    [step : {"none", "form", "probe"}, host : Hosts \cup {None},
     password : Passwords \cup {None}]
ReauthForm == [step |-> "form", host |-> None, password |-> None]

TypeOK ==
    /\ data \in [Entries -> Settings \cup {None}]
    /\ mac \in [Entries -> Modules \cup {None}]
    /\ options \in [Entries -> Codes]
    /\ created \in 0..MaxEntries
    /\ state \in [Entries -> States]
    /\ registry \in [Entries -> SUBSET (1..MaxZones)]
    /\ using \in [Entries -> Settings \cup {None}]
    /\ usingCode \in [Entries -> Codes \cup {None}]
    /\ reload \in [Entries -> BOOLEAN]
    /\ reauth \in [Entries -> Reauths]
    /\ flow \in [Flows -> FlowRecords]
    /\ at \in [Hosts -> Modules \cup {None}]
    /\ acts \in 0..MaxActs

\* Home Assistant starts with the entries it stored, at different addresses.
Init ==
    /\ data \in [Entries -> Settings \cup {None}]
    /\ created \in 0..MaxEntries
    /\ \A e \in Entries : Present(e) <=> e <= created
    /\ \A e, f \in 1..created : e # f => data[e].host # data[f].host
    /\ mac \in [Entries -> Modules \cup {None}]
    /\ \A e, f \in Entries :
         mac[e] # None => e <= created /\ (e # f => mac[e] # mac[f])
    /\ options \in [Entries -> Codes]
    /\ state = [e \in Entries |-> "not_loaded"]
    /\ registry = [e \in Entries |-> {}]
    /\ using = [e \in Entries |-> None]
    /\ usingCode = [e \in Entries |-> None]
    /\ reload = [e \in Entries |-> FALSE]
    /\ reauth = [e \in Entries |-> NoReauth]
    /\ flow = [f \in Flows |-> NoFlow]
    /\ at \in [Hosts -> Modules \cup {None}]
    /\ \A h, g \in Hosts : h # g /\ at[h] # None => at[h] # at[g]
    /\ acts = 0

Act == acts < MaxActs /\ acts' = acts + 1

(* ------------------------------ a login ------------------------------- *)

\* The module admits one client: an entry that is loaded there keeps every
\* other one out, and so may a client that is not ours.  lent is the entry
\* whose coordinator has let go of its session for this login.
Admits(h, lent) ==
    /\ at[h] # None
    /\ \A e \in Entries \ {lent} :
         ~(Present(e) /\ state[e] = "loaded" /\ using[e].host = h)

Answers(h, password, lent) ==
    {"failed"} \cup
    (IF ~Admits(h, lent) THEN {}
     ELSE IF password = PasswordOf[at[h]] THEN {"accepted"} ELSE {"refused"})

(* ------------------- what a change of an entry sets off ---------------- *)

\* The update listener is there from the end of a setup to the unload.
HasListener(e) == state[e] \in {"loaded", "unload"}

ListenersCalled(e, changed) ==
    reload' = [reload EXCEPT ![e] = @ \/ (changed /\ HasListener(e))]

\* Mutant: only the listener reloads.
StoreForTheListener(e, settings) ==
    /\ data' = [data EXCEPT ![e] = settings]
    /\ reload' = [reload EXCEPT ![e] =
                    @ \/ (settings # data[e] /\ HasListener(e))]

\* The listener reloads after a change; a flow reloads what has no listener.
StoreSettings(e, settings) ==
    /\ data' = [data EXCEPT ![e] = settings]
    /\ reload' = [reload EXCEPT ![e] =
                    @ \/ settings # data[e] \/ ~HasListener(e)]

(* ------------------- setup, reload, unload, removal -------------------- *)

\* Mutant: entities above the count are kept.
ReadSettingsOnly(e) ==
    /\ state' = [state EXCEPT ![e] = "setup"]
    /\ using' = [using EXCEPT ![e] = data[e]]
    /\ usingCode' = [usingCode EXCEPT ![e] = options[e]]
    /\ UNCHANGED registry

\* The coordinator is made from what is stored now.
ReadSettings(e) ==
    /\ state' = [state EXCEPT ![e] = "setup"]
    /\ registry' = [registry EXCEPT ![e] = @ \cap 1..data[e].zones]
    /\ using' = [using EXCEPT ![e] = data[e]]
    /\ usingCode' = [usingCode EXCEPT ![e] = options[e]]

Forget(gone) ==
    /\ using' = [e \in Entries |-> IF e \in gone THEN None ELSE using[e]]
    /\ usingCode' =
         [e \in Entries |-> IF e \in gone THEN None ELSE usingCode[e]]

\* A new entry, or one whose setup was not ready, is set up.
SetupStarts(e) ==
    /\ Present(e) /\ state[e] \in {"not_loaded", "retry"} /\ ~reload[e]
    /\ ReadSettings(e)
    /\ UNCHANGED <<stored, reload, flows, at, acts>>

SetupSucceeds(e) ==
    /\ state[e] = "setup"
    /\ "accepted" \in Answers(using[e].host, using[e].password, e)
    /\ state' = [state EXCEPT ![e] = "loaded"]
    /\ registry' = [registry EXCEPT ![e] = @ \cup 1..using[e].zones]
    /\ UNCHANGED <<stored, using, usingCode, reload, flows, at, acts>>

\* Mutant: a rejected password is told to nobody.
SetupRefusedSilently(e) ==
    /\ state[e] = "setup"
    /\ "refused" \in Answers(using[e].host, using[e].password, e)
    /\ state' = [state EXCEPT ![e] = "auth"]
    /\ UNCHANGED <<stored, registry, using, usingCode, reload, flows, at, acts>>

\* A rejected password opens the reauth flow, unless it is open already.
SetupRefused(e) ==
    /\ state[e] = "setup"
    /\ "refused" \in Answers(using[e].host, using[e].password, e)
    /\ state' = [state EXCEPT ![e] = "auth"]
    /\ reauth' = [reauth EXCEPT ![e] = IF @ = NoReauth THEN ReauthForm
                                              ELSE @]
    /\ UNCHANGED <<stored, registry, using, usingCode, reload, flow, at, acts>>

SetupNotReady(e) ==
    /\ state[e] = "setup"
    /\ state' = [state EXCEPT ![e] = "retry"]
    /\ Forget({e})
    /\ UNCHANGED <<stored, registry, reload, flows, at, acts>>

\* A reload takes the setup lock; a loaded entry is unloaded first.
ReloadStarts(e) ==
    /\ Present(e) /\ reload[e] /\ state[e] \notin {"setup", "unload"}
    /\ reload' = [reload EXCEPT ![e] = FALSE]
    /\ IF state[e] = "loaded"
       THEN /\ state' = [state EXCEPT ![e] = "unload"]
            /\ UNCHANGED <<registry, using, usingCode>>
       ELSE ReadSettings(e)
    /\ UNCHANGED <<stored, flows, at, acts>>

UnloadEnds(e) ==
    /\ state[e] = "unload"
    /\ ReadSettings(e)
    /\ UNCHANGED <<stored, reload, flows, at, acts>>

\* What deleting the entries in gone leaves: nothing runs, no flow is left.
NothingRuns(gone) ==
    /\ state' = [e \in Entries |-> IF e \in gone THEN "not_loaded" ELSE state[e]]
    /\ registry' = [e \in Entries |-> IF e \in gone THEN {} ELSE registry[e]]
    /\ reload' = [e \in Entries |-> e \notin gone /\ reload[e]]
    /\ Forget(gone)

Delete(e) ==
    /\ Act
    /\ Present(e) /\ state[e] \notin {"setup", "unload"}
    /\ data' = [data EXCEPT ![e] = None]
    /\ mac' = [mac EXCEPT ![e] = None]
    /\ NothingRuns({e})
    /\ reauth' = [reauth EXCEPT ![e] = NoReauth]
    /\ flow' = [f \in Flows |-> IF flow[f].entry = e THEN NoFlow ELSE flow[f]]
    /\ UNCHANGED <<options, created, at>>

\* Entries and the registry are stored; dialogs, tasks and setups are not.
Restart ==
    /\ Act
    /\ state' = [e \in Entries |-> "not_loaded"]
    /\ reload' = [e \in Entries |-> FALSE]
    /\ reauth' = [e \in Entries |-> NoReauth]
    /\ flow' = [f \in Flows |-> NoFlow]
    /\ Forget(Entries)
    /\ UNCHANGED <<stored, registry, at>>

(* --------------------- the user and discovery flow --------------------- *)

HostTaken(h) == \E e \in Entries : Present(e) /\ data[e].host = h
Goto(f, record) == flow' = [flow EXCEPT ![f] = record]
OpenUser(f) ==
    /\ flow[f] = NoFlow
    /\ Goto(f, Form("user", 0, None, None))
    /\ UNCHANGED <<stored, running, reload, reauth, at, acts>>

\* The first screen: an address an entry has ends the flow.
SubmitUser(f, h, password) ==
    /\ flow[f].step = "user"
    /\ Goto(f, IF HostTaken(h) THEN NoFlow
               ELSE [flow[f] EXCEPT !.step = "login", !.host = h,
                                    !.password = password])
    /\ UNCHANGED <<stored, running, reload, reauth, at, acts>>

\* Submit on the busy screen logs in again with what was typed.
SubmitBusy(f) ==
    /\ flow[f].step = "busy"
    /\ Goto(f, [flow[f] EXCEPT !.step = "login"])
    /\ UNCHANGED <<stored, running, reload, reauth, at, acts>>

\* A login that fails shows the first or the busy screen; one that is
\* accepted goes on to the panel, unless the address was taken meanwhile by
\* an entry or by another flow.
LoginAnswered(f) ==
    /\ flow[f].step = "login"
    /\ LET h == flow[f].host
           form == Form("user", 0, flow[f].mac, flow[f].uid)
           busy == [flow[f] EXCEPT !.step = "busy"]
           on == IF HostTaken(h) \/ \E g \in Flows \ {f} : flow[g].uid = h
                 THEN NoFlow
                 ELSE [flow[f] EXCEPT !.step = "panel", !.uid = h]
       IN \E r \in Answers(h, flow[f].password, 0) :
            \/ r = "failed" /\ (Goto(f, busy) \/ Goto(f, form))
            \/ r = "refused" /\ Goto(f, form)
            \/ r = "accepted" /\ Goto(f, on)
    /\ UNCHANGED <<stored, running, reload, reauth, at, acts>>

\* The panel screen creates the entry.  Home Assistant then removes an entry
\* with the same unique id and ends every other flow for it.
SubmitPanel(f, zones) ==
    /\ Act
    /\ flow[f].step = "panel" /\ Fits(zones) /\ created < MaxEntries
    /\ LET n == created + 1
           h == flow[f].host
           gone == {e \in Entries : Present(e) /\ data[e].host = h}
       IN /\ created' = n
          /\ data' = [e \in Entries |->
                 IF e = n THEN [host |-> h, password |-> flow[f].password,
                                zones |-> zones]
                 ELSE IF e \in gone THEN None ELSE data[e]]
          /\ mac' = [e \in Entries |-> IF e = n THEN flow[f].mac
                                       ELSE IF e \in gone THEN None ELSE mac[e]]
          /\ options' \in {[options EXCEPT ![n] = c] : c \in Codes}
          /\ NothingRuns(gone)
          /\ reauth' = [e \in Entries |->
                           IF e \in gone THEN NoReauth ELSE reauth[e]]
          /\ flow' = [g \in Flows |->
                 IF g = f \/ flow[g].uid = h \/ flow[g].entry \in gone
                 THEN NoFlow ELSE flow[g]]
    /\ UNCHANGED at

(* ------------------------------- leases -------------------------------- *)

\* The loop over the entries stops at the first with the MAC, or with none
\* and this address.
Claims(e, m, h) ==
    Present(e) /\ (mac[e] = m \/ (mac[e] = None /\ data[e].host = h))
FirstToClaim(e, m, h) ==
    Claims(e, m, h) /\ \A d \in 1..(e - 1) : ~Claims(d, m, h)

\* Mutant: only an entry that is loaded moves.
LeaseMovesWhatRuns(e, m, h) ==
    /\ FirstToClaim(e, m, h) /\ mac[e] = m
    /\ IF data[e].host = h \/ ~HasListener(e) THEN UNCHANGED <<data, reload>>
       ELSE StoreSettings(e, [data[e] EXCEPT !.host = h])
    /\ UNCHANGED <<mac, flow>>

\* The entry of the MAC moves, unless it is at h already.
LeaseMoves(e, m, h) ==
    /\ FirstToClaim(e, m, h) /\ mac[e] = m
    /\ IF data[e].host = h THEN UNCHANGED <<data, reload>>
       ELSE StoreSettings(e, [data[e] EXCEPT !.host = h])
    /\ UNCHANGED <<mac, flow>>

\* An entry made by hand at h learns the MAC.
LeaseTeaches(e, m, h) ==
    /\ FirstToClaim(e, m, h) /\ mac[e] = None
    /\ mac' = [mac EXCEPT ![e] = m]
    /\ ListenersCalled(e, TRUE)
    /\ UNCHANGED <<data, flow>>

\* No entry claims it: it is offered as a new one.
LeaseOffers(f, m, h) ==
    /\ \A e \in Entries : ~Claims(e, m, h)
    /\ IF HostTaken(h) \/ \E g \in Flows : flow[g].uid = h
       THEN UNCHANGED flow
       ELSE /\ flow[f] = NoFlow
            /\ Goto(f, Form("user", 0, m, h))
    /\ UNCHANGED <<data, mac, reload>>

\* Module m takes h.
Lease(m, h) ==
    /\ Act
    /\ at' = [g \in Hosts |-> IF g = h THEN m
                              ELSE IF at[g] = m THEN None ELSE at[g]]
    /\ \/ \E e \in Entries : LeaseMoves(e, m, h) \/ LeaseTeaches(e, m, h)
       \/ \E f \in Flows : LeaseOffers(f, m, h)
    /\ UNCHANGED <<options, created, running, reauth>>

(* ------------------------- reauth and reconfigure ---------------------- *)

SubmitReauth(e, password) ==
    /\ Act
    /\ Present(e) /\ reauth[e].step = "form"
    /\ reauth' = [reauth EXCEPT ![e] = [step |-> "probe", host |-> data[e].host,
                                        password |-> password]]
    /\ UNCHANGED <<stored, running, reload, flow, at>>

\* The probe went to the address of its time; the password goes into the
\* settings of now.
ReauthAnswered(e) ==
    /\ reauth[e].step = "probe"
    /\ \E r \in Answers(reauth[e].host, reauth[e].password, 0) :
         IF r = "accepted"
         THEN /\ StoreSettings(e, [data[e] EXCEPT !.password = reauth[e].password])
              /\ reauth' = [reauth EXCEPT ![e] = NoReauth]
         ELSE /\ reauth' = [reauth EXCEPT ![e] = ReauthForm]
              /\ UNCHANGED <<data, reload>>
    /\ UNCHANGED <<mac, options, created, running, flow, at, acts>>

OpenReconfigure(f, e) ==
    /\ flow[f] = NoFlow /\ Present(e)
    /\ Goto(f, Form("reconfigure", e, None, None))
    /\ UNCHANGED <<stored, running, reload, reauth, at, acts>>

OwnedByAnother(e, h) ==
    \E other \in Entries \ {e} : Present(other) /\ data[other].host = h

\* Mutant: a new address with the old password is not tried.
PasswordChanged(e, h, typed) == typed # None

\* What a login can test.
ConnectionChanged(e, h, typed) == typed # None \/ h # data[e].host

\* A blank password keeps the stored one.  Nothing is dialled when neither
\* the address nor the password was changed.
SubmitReconfigure(f, h, typed, zones) ==
    LET e == flow[f].entry
        password == IF typed = None THEN data[e].password ELSE typed
    IN /\ Act
       /\ flow[f].step = "reconfigure" /\ Fits(zones)
       /\ \/ /\ OwnedByAnother(e, h)
             /\ Goto(f, NoFlow)
             /\ UNCHANGED <<data, reload>>
          \/ /\ ~OwnedByAnother(e, h)
             /\ ConnectionChanged(e, h, typed)
             /\ Goto(f, [flow[f] EXCEPT !.step = "probe", !.host = h,
                                 !.password = password, !.zones = zones])
             /\ UNCHANGED <<data, reload>>
          \/ /\ ~OwnedByAnother(e, h)
             /\ ~ConnectionChanged(e, h, typed)
             /\ StoreSettings(e, [host |-> h, password |-> password,
                                  zones |-> zones])
             /\ Goto(f, NoFlow)
       /\ UNCHANGED <<mac, options, created, running, reauth, at>>

ReconfigureAnswered(f) ==
    /\ flow[f].step = "probe"
    /\ LET e == flow[f].entry
       IN \E r \in Answers(flow[f].host, flow[f].password, e) :
            IF r = "accepted"
            THEN /\ StoreSettings(e, [host |-> flow[f].host,
                                      password |-> flow[f].password,
                                      zones |-> flow[f].zones])
                 /\ Goto(f, NoFlow)
            ELSE /\ Goto(f, Form("reconfigure", e, None, None))
                 /\ UNCHANGED <<data, reload>>
    /\ UNCHANGED <<mac, options, created, running, reauth, at, acts>>

\* Saving the options: a blank code keeps the stored one, a switch clears it.
SaveOptions(e, code) ==
    /\ Act
    /\ Present(e)
    /\ options' = [options EXCEPT ![e] = code]
    /\ ListenersCalled(e, code # options[e])
    /\ UNCHANGED <<data, mac, created, running, flows, at>>

Close(f) ==
    /\ flow[f].step \in {"user", "busy", "panel", "reconfigure"}
    /\ Goto(f, NoFlow)
    /\ UNCHANGED <<stored, running, reload, reauth, at, acts>>

(* ---------------------------- specification ---------------------------- *)

HomeAssistant ==
    \E e \in Entries :
        \/ SetupStarts(e) \/ SetupSucceeds(e) \/ SetupRefused(e)
        \/ SetupNotReady(e) \/ ReloadStarts(e) \/ UnloadEnds(e)

People ==
    \/ \E e \in Entries : Delete(e)
    \/ \E e \in Entries, p \in Passwords : SubmitReauth(e, p)
    \/ \E e \in Entries, c \in Codes : SaveOptions(e, c)
    \/ \E f \in Flows : OpenUser(f) \/ SubmitBusy(f) \/ Close(f)
    \/ \E f \in Flows, e \in Entries : OpenReconfigure(f, e)
    \/ \E f \in Flows, h \in Hosts, p \in Passwords : SubmitUser(f, h, p)
    \/ \E f \in Flows, z \in Asked : SubmitPanel(f, z)
    \/ \E f \in Flows, h \in Hosts, p \in Passwords \cup {None},
          z \in Asked : SubmitReconfigure(f, h, p, z)

Network ==
    \/ \E e \in Entries : ReauthAnswered(e)
    \/ \E f \in Flows : LoginAnswered(f) \/ ReconfigureAnswered(f)
    \/ \E m \in Modules, h \in Hosts : Lease(m, h)

Next == HomeAssistant \/ People \/ Network \/ Restart

Spec == Init /\ [][Next]_vars

\* Home Assistant goes on with every setup, reload and retry, and a probe is
\* answered or times out.  A module is not busy for ever: a setup that can
\* get an answer again and again gets one.  Nobody has to act.
Fairness ==
    /\ \A e \in Entries :
         /\ WF_vars(SetupStarts(e)) /\ WF_vars(ReloadStarts(e))
         /\ WF_vars(UnloadEnds(e)) /\ WF_vars(SetupNotReady(e))
         /\ SF_vars(SetupSucceeds(e)) /\ SF_vars(SetupRefused(e))
         /\ WF_vars(ReauthAnswered(e))
    /\ \A f \in Flows :
         WF_vars(LoginAnswered(f)) /\ WF_vars(ReconfigureAnswered(f))

FairSpec == Spec /\ Fairness

(* ------------------------------ properties ----------------------------- *)

\* Whatever changed the stored settings, and at whatever point of a setup or
\* reload it came: an entry that is being set up, is loaded or has had its
\* password refused does so with the settings that are stored, or a reload
\* is due (config_flow.py's _reload_unless_the_entry_reloads_itself and
\* __init__.py's update listener).
SettingsTakeEffect ==
    \A e \in Entries :
        Present(e) /\ state[e] \in {"setup", "loaded", "auth"} =>
            reload[e] \/ using[e] = data[e]

\* A loaded entry with no reload due has an entity for exactly the zones it
\* is configured with: those above a lowered count are gone from the registry
\* (_async_remove_out_of_range_entities).
NoOrphans ==
    \A e \in Entries :
        Present(e) /\ state[e] = "loaded" =>
            reload[e] \/ registry[e] = 1..data[e].zones

\* An entry changes its address only with a lease of its own MAC, or to one
\* whose module has just accepted the password stored with it: no flow
\* combines an address and a password that were never tried together.
MovesAreProved ==
    [][\A e \in Entries :
         Present(e) /\ Present(e)' /\ data'[e].host # data[e].host =>
            LET m == at'[data'[e].host]
            IN \/ mac[e] = m /\ data'[e].password = data[e].password
               \/ m # None /\ data'[e].password = PasswordOf[m]]_vars

\* When people and modules leave it alone, every entry whose module answers
\* ends up loaded with the settings stored for it, or with a reauth dialog
\* open because a setup with exactly these had its password rejected.
Settled(e) ==
    \/ ~Present(e)
    \/ ~Admits(data[e].host, e)
    \/ /\ using[e] = data[e]
       /\ state[e] = "loaded" \/ (state[e] = "auth" /\ reauth[e].step = "form")
Settles == <>[](\A e \in Entries : Settled(e))

\* README: saving the options reloads the entry.
OptionsTakeEffect ==
    \A e \in Entries :
        Present(e) /\ state[e] \in {"setup", "loaded"} =>
            reload[e] \/ usingCode[e] = options[e]

\* A lease never loses a module that an entry follows: some entry with its
\* MAC is at the new address afterwards, whatever is stored and running.
SomeEntryFollows ==
    [][\A m \in Modules, h \in Hosts :
         /\ at[h] # m /\ at'[h] = m
         /\ \E e \in Entries : Present(e) /\ mac[e] = m
         => \E e \in Entries : Present(e)' /\ mac'[e] = m /\ data'[e].host = h]_vars
=============================================================================
