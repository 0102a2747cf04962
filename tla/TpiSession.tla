----------------------------- MODULE TpiSession -----------------------------
(***************************************************************************)
(* One config entry's share of the Envisalink's single TPI session: the    *)
(* client that owns the socket (client.py), the coordinator's setup,       *)
(* reconnect, release, resume and shutdown (coordinator.py), and the       *)
(* reconfigure flows that borrow the session for a probe (config_flow.py). *)
(*                                                                         *)
(* Everything runs on one event loop, so a step is what a coroutine does   *)
(* between two awaits.  An await that can end without suspending is still  *)
(* a step of its own: that adds interleavings and removes none.            *)
(*                                                                         *)
(* The module itself is external.  It counts one client at a time and      *)
(* frees the place only when it notices that client's socket close.        *)
(***************************************************************************)
EXTENDS Naturals

CONSTANTS
    Tasks,                \* identities of reconnect-loop tasks
    Flows,                \* reconfigure flows open on the loaded entry
    Setup, Unload,        \* the entry's setup and its unload (or HA's stop)
    None,                 \* no task
    BackoffMin, BackoffMax, FailuresBeforeIssue,
    Faults                \* what the network and the module may do

ASSUME IdentitiesAssumption ==
    /\ Setup # Unload
    /\ Setup \notin Tasks \cup Flows
    /\ Unload \notin Tasks \cup Flows
    /\ None \notin Tasks
    /\ Tasks \cap Flows = {}

ASSUME NumbersAssumption ==
    /\ BackoffMin \in Nat \ {0}
    /\ BackoffMax \in Nat
    /\ BackoffMin <= BackoffMax
    /\ FailuresBeforeIssue \in Nat \ {0}
    /\ Faults \subseteq {"eof", "reset", "silent", "hang", "auth"}

Dialers == Tasks \cup Flows \cup {Setup}      \* who may be inside connect()
Closers == Flows \cup {Setup, Unload}         \* who may be inside disconnect()

VARIABLES
    \* -- the module and the network
    slot,        \* whom the module counts: "free", "ours", "stale", "other"
    reachable,   \* a dial gets through and a counted login is answered OK
    \* -- client.py
    sess,        \* the socket behind _writer
    reader,      \* the read loop behind _read_task
    unacked,     \* bytes were written to a peer that no longer answers TCP
    dial,        \* connect() of each dialer
    err,         \* the exception a closing connect() will re-raise
    \* -- coordinator.py
    connected,   \* data.system.connected
    released,    \* _session_released
    shutting,    \* _shutting_down
    rtask,       \* _reconnect_task
    task,        \* where each reconnect task is
    periodic,    \* _periodic_task exists
    backoff, failed, issue,
    setup,       \* where async_setup is
    tear,        \* where each release or shutdown is
    victim,      \* the reconnect task a release or shutdown took
    \* -- config_flow.py and the config entry
    flow,        \* where each reconfigure submission is
    loaded,      \* entry.state is LOADED
    reload       \* a reload of the entry is scheduled

moduleVars == <<slot, reachable>>
clientVars == <<sess, reader, unacked, dial, err>>
countVars  == <<backoff, failed, issue>>
flagVars   == <<connected, released, shutting>>
taskVars   == <<rtask, task, periodic>>
tearVars   == <<tear, victim>>
entryVars  == <<setup, flow, loaded, reload>>
vars == <<moduleVars, clientVars, countVars, flagVars, taskVars, tearVars,
          entryVars>>

SessStates == {"none", "up", "eof", "reset", "silent", "hung"}
DialStates == {"idle", "opening", "admitted", "turned_away", "closing"}
Errors     == {"none", "auth", "conn", "cancel"}
TaskStates == {"none", "top", "sleep", "connect", "dump"}
TearStates == {"idle", "periodic", "reconnect", "reader", "socket", "done"}
SetupStates == {"new", "first", "wait", "second", "dump", "undo", "failed",
                "done"}
FlowStates  == {"idle", "release", "probe", "resume", "dump"}

TypeOK ==
    /\ slot \in {"free", "ours", "stale", "other"}
    /\ reachable \in BOOLEAN
    /\ sess \in SessStates
    /\ reader \in {"none", "reading", "cancelled", "ended"}
    /\ unacked \in BOOLEAN
    /\ dial \in [Dialers -> DialStates]
    /\ err \in [Dialers -> Errors]
    /\ connected \in BOOLEAN
    /\ released \in BOOLEAN
    /\ shutting \in BOOLEAN
    /\ rtask \in Tasks \cup {None}
    /\ task \in [Tasks -> TaskStates]
    /\ periodic \in BOOLEAN
    /\ backoff \in BackoffMin..BackoffMax
    /\ failed \in 0..(FailuresBeforeIssue + 1)
    /\ issue \in BOOLEAN
    /\ setup \in SetupStates
    /\ tear \in [Closers -> TearStates]
    /\ victim \in [Closers -> Tasks \cup {None}]
    /\ flow \in [Flows -> FlowStates]
    /\ loaded \in BOOLEAN
    /\ reload \in BOOLEAN

Init ==
    /\ slot \in {"free", "stale", "other"}
    /\ reachable \in BOOLEAN
    /\ sess = "none" /\ reader = "none" /\ unacked = FALSE
    /\ dial = [a \in Dialers |-> "idle"]
    /\ err = [a \in Dialers |-> "none"]
    /\ connected = FALSE /\ released = FALSE /\ shutting = FALSE
    /\ rtask = None
    /\ task = [t \in Tasks |-> "none"]
    /\ periodic = FALSE
    /\ backoff = BackoffMin /\ failed = 0 /\ issue = FALSE
    /\ setup = "new"
    /\ tear = [p \in Closers |-> "idle"]
    /\ victim = [p \in Closers |-> None]
    /\ flow = [f \in Flows |-> "idle"]
    /\ loaded = FALSE /\ reload = FALSE

-----------------------------------------------------------------------------
(* client.py: connect(), the read loop, disconnect().                      *)

ClientConnected == sess \in {"up", "eof", "silent", "hung"}

StartDial(a) == dial' = [dial EXCEPT ![a] = "opening"]

\* open_connection returns; the module counts the socket if its place is free
\* and otherwise will hang up on it unanswered.
DialOpens(a) ==
    /\ dial[a] = "opening"
    /\ \/ /\ slot = "free"
          /\ slot' = "ours"
          /\ dial' = [dial EXCEPT ![a] = "admitted"]
       \/ /\ slot # "free"
          /\ dial' = [dial EXCEPT ![a] = "turned_away"]
          /\ UNCHANGED slot
    /\ UNCHANGED <<reachable, sess, reader, unacked, err, countVars, flagVars,
                   taskVars, tearVars, entryVars>>

\* _close_writer on a socket the client does not own yet, holding back e.
CloseDial(a, e) ==
    /\ dial' = [dial EXCEPT ![a] = "closing"]
    /\ err' = [err EXCEPT ![a] = e]
    /\ slot' = IF dial[a] = "admitted" THEN "stale" ELSE slot

\* The login ends in anything but "OK".  TPISessionBusyError is a
\* TPIConnectionError and every caller here treats the two alike.
LoginFails(a) ==
    /\ \/ /\ dial[a] = "turned_away"
          /\ CloseDial(a, "conn")
       \/ /\ dial[a] = "admitted" /\ ~reachable
          /\ CloseDial(a, "conn")
       \/ /\ dial[a] = "admitted" /\ "auth" \in Faults
          /\ CloseDial(a, "auth")
    /\ UNCHANGED <<reachable, sess, reader, unacked, countVars, flagVars,
                   taskVars, tearVars, entryVars>>

\* connect() raises e to its caller: open_connection failed, or the failed
\* login's socket has been closed.
ConnectRaises(a, e) ==
    /\ \/ dial[a] = "opening" /\ ~reachable /\ e = "conn"
       \/ dial[a] = "closing" /\ err[a] = e
    /\ dial' = [dial EXCEPT ![a] = "idle"]
    /\ err' = [err EXCEPT ![a] = "none"]

\* The login succeeded: the socket becomes _writer and gets a read loop.
Establish(a) ==
    /\ dial[a] = "admitted"
    /\ dial' = [dial EXCEPT ![a] = "idle"]
    /\ sess' = "up"
    /\ reader' = "reading"
    /\ unacked' = FALSE
    /\ UNCHANGED <<slot, reachable, err>>

-----------------------------------------------------------------------------
(* coordinator.py: the reconnect task.                                     *)

\* A new background task; its identity is one nobody runs or waits for.
CreateReconnectTask ==
    \E t \in Tasks :
        /\ task[t] = "none"
        /\ \A p \in Closers : victim[p] # t
        /\ task' = [task EXCEPT ![t] = "top"]
        /\ rtask' = t

\* Mutants: keeping the entities available while the session is lent, and
\* taking a finished task still in _reconnect_task for one that runs.
HandleDisconnectReturnsEarly ==
    IF shutting \/ released
      THEN UNCHANGED <<connected, rtask, task>>
      ELSE connected' = FALSE /\ CreateReconnectTask

HandleDisconnectOnce ==
    /\ connected' = FALSE
    /\ IF shutting \/ released \/ rtask # None
         THEN UNCHANGED <<rtask, task>>
         ELSE CreateReconnectTask

HandleDisconnect ==
    /\ connected' = FALSE
    /\ IF shutting \/ released
         THEN UNCHANGED <<rtask, task>>
         ELSE CreateReconnectTask

\* Mutant: the repair issue stays up.
MarkConnectedKeepsIssue == connected' = TRUE /\ UNCHANGED issue

MarkConnected == connected' = TRUE /\ issue' = FALSE

\* Mutants: the loop goes on during a release, or during a shutdown.
LoopTopIgnoresLoan(t) ==
    task' = [task EXCEPT ![t] = IF shutting THEN "none" ELSE "sleep"]

LoopTopIgnoresShutdown(t) ==
    task' = [task EXCEPT ![t] = IF released THEN "none" ELSE "sleep"]

\* The while condition of _reconnect_loop, checked before each sleep.
LoopTop(t) ==
    task' = [task EXCEPT ![t] = IF shutting \/ released THEN "none"
                                                        ELSE "sleep"]

TaskStarts(t) ==
    /\ task[t] = "top"
    /\ LoopTop(t)
    /\ UNCHANGED <<moduleVars, clientVars, countVars, flagVars, rtask,
                   periodic, tearVars, entryVars>>

TaskWakes(t) ==
    /\ task[t] = "sleep"
    /\ task' = [task EXCEPT ![t] = "connect"]
    /\ StartDial(t)
    /\ UNCHANGED <<moduleVars, sess, reader, unacked, err, countVars, flagVars,
                   rtask, periodic, tearVars, entryVars>>

TaskConnected(t) ==
    /\ task[t] = "connect"
    /\ Establish(t)
    /\ failed' = 0
    /\ backoff' = BackoffMin
    /\ MarkConnected
    /\ task' = [task EXCEPT ![t] = "dump"]
    /\ UNCHANGED <<released, shutting, rtask, periodic, tearVars, entryVars>>

\* Mutant: no upper bound on the backoff.
NextBackoffUnbounded == 2 * backoff

NextBackoff == IF 2 * backoff > BackoffMax THEN BackoffMax ELSE 2 * backoff

\* Any exception counts as one more failure, a rejected password included.
\* _failed_reconnects stops counting one past the value it is compared with.
TaskConnectFails(t) ==
    /\ task[t] = "connect"
    /\ \E e \in Errors \ {"cancel"} : ConnectRaises(t, e)
    /\ failed' = IF failed > FailuresBeforeIssue THEN failed ELSE failed + 1
    /\ issue' = (issue \/ failed + 1 = FailuresBeforeIssue)
    /\ backoff' = NextBackoff
    /\ LoopTop(t)
    /\ UNCHANGED <<moduleVars, sess, reader, unacked, flagVars, rtask,
                   periodic, tearVars, entryVars>>

\* The CancelledError that closed the dial ends the task.
TaskCancelled(t) ==
    /\ task[t] = "connect"
    /\ ConnectRaises(t, "cancel")
    /\ task' = [task EXCEPT ![t] = "none"]
    /\ UNCHANGED <<moduleVars, sess, reader, unacked, countVars, flagVars,
                   rtask, periodic, tearVars, entryVars>>

\* The zone timer dump was answered, refused, or aborted with its session.
TaskDumped(t) ==
    /\ task[t] = "dump"
    /\ task' = [task EXCEPT ![t] = "none"]
    /\ UNCHANGED <<moduleVars, clientVars, countVars, flagVars, rtask,
                   periodic, tearVars, entryVars>>

-----------------------------------------------------------------------------
(* client.py: the read loop's end, whoever causes it.                      *)

ReaderEnds ==
    /\ reader = "reading" /\ sess \in {"eof", "reset"}
    /\ reader' = "ended"
    /\ HandleDisconnect
    /\ UNCHANGED <<moduleVars, sess, unacked, dial, err, countVars, released,
                   shutting, periodic, tearVars, entryVars>>

ReaderCancelled ==
    /\ reader = "cancelled"
    /\ reader' = "none"
    /\ HandleDisconnect
    /\ UNCHANGED <<moduleVars, sess, unacked, dial, err, countVars, released,
                   shutting, periodic, tearVars, entryVars>>

-----------------------------------------------------------------------------
(* Release and shutdown: the same walk over the tasks and the socket.      *)

\* task.cancel() as the task will see it at the await it is in.  A connect()
\* already closing a failed socket keeps its own exception.
Waiting(t) == t \in Tasks /\ (task[t] \in {"top", "sleep", "dump"}
                                \/ dial[t] = "opening")
InLogin(t) == t \in Tasks /\ dial[t] \in {"admitted", "turned_away"}

Cancel(t) ==
    \/ /\ Waiting(t)
       /\ task' = [task EXCEPT ![t] = "none"]
       /\ dial' = [dial EXCEPT ![t] = "idle"]
       /\ UNCHANGED <<err, slot>>
    \/ /\ InLogin(t)
       /\ CloseDial(t, "cancel")
       /\ UNCHANGED task
    \/ /\ ~Waiting(t) /\ ~InLogin(t)
       /\ UNCHANGED <<task, dial, err, slot>>

\* async_shutdown up to awaiting the cancelled periodic task.
BeginShutdown(p) ==
    /\ shutting' = TRUE
    /\ victim' = [victim EXCEPT ![p] = rtask]
    /\ rtask' = None
    /\ periodic' = FALSE
    /\ tear' = [tear EXCEPT ![p] = "periodic"]

CancelReconnect(p) ==
    /\ tear[p] = "periodic"
    /\ Cancel(victim[p])
    /\ tear' = [tear EXCEPT ![p] = "reconnect"]
    /\ UNCHANGED <<reachable, sess, reader, unacked, countVars, flagVars,
                   rtask, periodic, victim, entryVars>>

\* Take whatever _writer is by now and close it; the module still counts it
\* until it notices.
TakeWriter(p) ==
    /\ tear' = [tear EXCEPT ![p] = "socket"]
    /\ sess' = "none"
    /\ unacked' = FALSE
    /\ slot' = IF sess \in {"up", "hung"} THEN "stale" ELSE slot

\* Mutant: the cancelled reconnect task is not awaited.
TaskOverUnawaited(p) == TRUE

\* _cancel_and_wait has seen the end of the task it cancelled.
TaskOver(p) == victim[p] \in Tasks => task[victim[p]] = "none"

\* disconnect(), once the reconnect task is over: take and cancel _read_task.
\* Only a read loop that still runs makes it wait before it takes _writer.
StopReader(p) ==
    /\ tear[p] = "reconnect"
    /\ TaskOver(p)
    /\ victim' = [victim EXCEPT ![p] = None]
    /\ \/ /\ reader = "reading"
          /\ reader' = "cancelled"
          /\ tear' = [tear EXCEPT ![p] = "reader"]
          /\ UNCHANGED <<slot, sess, unacked>>
       \/ /\ reader # "reading"
          /\ reader' = IF reader = "ended" THEN "none" ELSE reader
          /\ TakeWriter(p)
    /\ UNCHANGED <<reachable, dial, err, countVars, flagVars, taskVars,
                   entryVars>>

CloseWriter(p) ==
    /\ tear[p] = "reader" /\ reader # "cancelled"
    /\ TakeWriter(p)
    /\ UNCHANGED <<reachable, reader, dial, err, countVars, flagVars, taskVars,
                   victim, entryVars>>

ShutdownEnds ==
    /\ \E p \in {Setup, Unload} :
        /\ tear[p] = "socket"
        /\ tear' = [tear EXCEPT ![p] = "done"]
        /\ setup' = IF p = Setup THEN "failed" ELSE setup
    /\ UNCHANGED <<moduleVars, clientVars, countVars, flagVars, taskVars,
                   victim, flow, loaded, reload>>

-----------------------------------------------------------------------------
(* async_setup and the end of the entry.                                   *)

SetupDials ==
    /\ \/ setup = "new" /\ setup' = "first"
       \/ setup = "wait" /\ setup' = "second"
    /\ StartDial(Setup)
    /\ UNCHANGED <<moduleVars, sess, reader, unacked, err, countVars, flagVars,
                   taskVars, tearVars, flow, loaded, reload>>

\* connect_with_retry: one more try unless the password was rejected.
SetupConnectFails ==
    /\ setup \in {"first", "second"}
    /\ \E e \in Errors \ {"cancel"} :
        /\ ConnectRaises(Setup, e)
        /\ setup' = IF setup = "first" /\ e # "auth" THEN "wait" ELSE "failed"
    /\ UNCHANGED <<moduleVars, sess, reader, unacked, countVars, flagVars,
                   taskVars, tearVars, flow, loaded, reload>>

SetupConnected ==
    /\ setup \in {"first", "second"}
    /\ Establish(Setup)
    /\ MarkConnected
    /\ setup' = "dump"
    /\ UNCHANGED <<backoff, failed, released, shutting, taskVars, tearVars,
                   flow, loaded, reload>>

SetupDumped ==
    /\ setup = "dump"
    /\ setup' = "done"
    /\ periodic' = TRUE
    /\ loaded' = TRUE
    /\ UNCHANGED <<moduleVars, clientVars, countVars, flagVars, rtask, task,
                   tearVars, flow, reload>>

SetupDumpFails ==
    /\ setup = "dump"
    /\ setup' = "undo"
    /\ connected' = FALSE
    /\ BeginShutdown(Setup)
    /\ UNCHANGED <<moduleVars, clientVars, countVars, released, task, flow,
                   loaded, reload>>

\* Home Assistant unloads or reloads the entry: it leaves LOADED, unloads the
\* platforms, and then shuts the coordinator down.
UnloadStarts ==
    /\ loaded /\ tear[Unload] = "idle"
    /\ loaded' = FALSE
    /\ reload' = FALSE
    /\ UNCHANGED <<moduleVars, clientVars, countVars, flagVars, taskVars,
                   tearVars, setup, flow>>

\* The unload's shutdown, or Home Assistant's stop event on a loaded entry.
ShutdownStarts ==
    /\ setup = "done" /\ tear[Unload] = "idle"
    /\ BeginShutdown(Unload)
    /\ UNCHANGED <<moduleVars, clientVars, countVars, connected, released,
                   task, entryVars>>

-----------------------------------------------------------------------------
(* config_flow.py: a reconfigure submission that changes the connection.   *)

SubmitReconfigure(f) ==
    /\ flow[f] = "idle" /\ loaded
    /\ flow' = [flow EXCEPT ![f] = "release"]
    /\ released' = TRUE
    /\ victim' = [victim EXCEPT ![f] = rtask]
    /\ rtask' = None
    /\ Cancel(rtask)
    /\ tear' = [tear EXCEPT ![f] = "reconnect"]
    /\ UNCHANGED <<reachable, sess, reader, unacked, countVars, connected,
                   shutting, periodic, setup, loaded, reload>>

ProbeStarts(f) ==
    /\ tear[f] = "socket"
    /\ tear' = [tear EXCEPT ![f] = "idle"]
    /\ flow' = [flow EXCEPT ![f] = "probe"]
    /\ StartDial(f)
    /\ UNCHANGED <<moduleVars, sess, reader, unacked, err, countVars, flagVars,
                   taskVars, victim, setup, loaded, reload>>

\* The probe logged in, so its own client disconnects and settles; or its
\* open_connection failed, and it settles all the same.
ProbeLeaves(f) ==
    /\ flow[f] = "probe"
    /\ \/ dial[f] = "admitted" /\ CloseDial(f, "none")
       \/ dial[f] = "opening" /\ ~reachable /\ CloseDial(f, "conn")
    /\ UNCHANGED <<reachable, sess, reader, unacked, countVars, flagVars,
                   taskVars, tearVars, entryVars>>

\* async_resume_session up to its first await.
Resume(f) ==
    /\ released' = FALSE
    /\ IF shutting \/ ClientConnected
         THEN /\ flow' = [flow EXCEPT ![f] = "idle"]
              /\ dial' = [dial EXCEPT ![f] = "idle"]
         ELSE /\ flow' = [flow EXCEPT ![f] = "resume"]
              /\ StartDial(f)
    /\ UNCHANGED reload

\* Mutant: the new settings are stored and no reload is scheduled.
StoreWithoutReload(f) ==
    /\ flow' = [flow EXCEPT ![f] = "idle"]
    /\ dial' = [dial EXCEPT ![f] = "idle"]
    /\ UNCHANGED <<released, reload>>

\* The entry is updated and, if it is loaded, will reload: the session stays
\* lent until then.
Store(f) ==
    /\ reload' = (reload \/ loaded)
    /\ flow' = [flow EXCEPT ![f] = "idle"]
    /\ dial' = [dial EXCEPT ![f] = "idle"]
    /\ UNCHANGED released

\* A failed probe hands the session back at once.  A good one stores the new
\* settings, which schedules a reload, or finds nothing to store and hands
\* the session back to an entry that is still loaded.
ProbeEnds(f) ==
    /\ flow[f] = "probe" /\ dial[f] = "closing"
    /\ \/ err[f] # "none" /\ Resume(f)
       \/ err[f] = "none" /\ loaded /\ Resume(f)
       \/ err[f] = "none" /\ Store(f)
    /\ err' = [err EXCEPT ![f] = "none"]
    /\ UNCHANGED <<moduleVars, sess, reader, unacked, countVars, connected,
                   shutting, taskVars, tearVars, setup, loaded>>

ResumeConnected(f) ==
    /\ flow[f] = "resume"
    /\ Establish(f)
    /\ MarkConnected
    /\ flow' = [flow EXCEPT ![f] = "dump"]
    /\ UNCHANGED <<backoff, failed, released, shutting, taskVars, tearVars,
                   setup, loaded, reload>>

ResumeConnectFails(f) ==
    /\ flow[f] = "resume"
    /\ \E e \in Errors \ {"cancel"} : ConnectRaises(f, e)
    /\ backoff' = BackoffMin
    /\ CreateReconnectTask
    /\ flow' = [flow EXCEPT ![f] = "idle"]
    /\ UNCHANGED <<moduleVars, sess, reader, unacked, failed, issue, flagVars,
                   periodic, tearVars, setup, loaded, reload>>

ResumeDumped(f) ==
    /\ flow[f] = "dump"
    /\ flow' = [flow EXCEPT ![f] = "idle"]
    /\ UNCHANGED <<moduleVars, clientVars, countVars, flagVars, taskVars,
                   tearVars, setup, loaded, reload>>

-----------------------------------------------------------------------------
(* The periodic task, the network and the module.                          *)

\* Mutant: the poll is skipped exactly when there is a session.
KeepAliveInverted ==
    /\ periodic /\ ~ClientConnected
    /\ UNCHANGED vars

\* The keepalive poll; a failed one is logged and changes nothing here.
KeepAlive ==
    /\ periodic /\ ClientConnected
    /\ unacked' = (unacked \/ sess = "silent")
    /\ UNCHANGED <<moduleVars, sess, reader, dial, err, countVars, flagVars,
                   taskVars, tearVars, entryVars>>

\* The session is lost: the module closes it, its TCP connection breaks, the
\* peer vanishes without a word, or the module stops answering TPI commands.
SessionLost ==
    /\ \/ /\ "eof" \in Faults /\ sess = "up"
          /\ sess' = "eof"
          /\ slot' = "free"
       \/ /\ "reset" \in Faults /\ sess \in {"up", "hung"}
          /\ sess' = "reset"
          /\ slot' \in {"free", "stale"}
       \/ /\ "silent" \in Faults /\ sess = "up"
          /\ sess' = "silent"
          /\ slot' \in {"free", "stale"}
       \/ /\ "hang" \in Faults /\ sess = "up"
          /\ sess' = "hung"
          /\ UNCHANGED slot
    /\ UNCHANGED <<reachable, reader, unacked, dial, err, countVars, flagVars,
                   taskVars, tearVars, entryVars>>

\* The kernel gives up on unacknowledged data and breaks the connection.
TcpGivesUp ==
    /\ sess = "silent" /\ unacked
    /\ sess' = "reset"
    /\ UNCHANGED <<moduleVars, reader, unacked, dial, err, countVars, flagVars,
                   taskVars, tearVars, entryVars>>

ModuleNotices ==
    /\ slot = "stale"
    /\ slot' = "free"
    /\ UNCHANGED <<reachable, clientVars, countVars, flagVars, taskVars,
                   tearVars, entryVars>>

\* Some other TPI client comes or goes; the module is reachable or not.
Outside ==
    /\ \/ slot = "free" /\ slot' = "other" /\ UNCHANGED reachable
       \/ slot = "other" /\ slot' = "free" /\ UNCHANGED reachable
       \/ reachable' = ~reachable /\ UNCHANGED slot
    /\ UNCHANGED <<clientVars, countVars, flagVars, taskVars, tearVars,
                   entryVars>>

-----------------------------------------------------------------------------
ConnectStep(a) == DialOpens(a) \/ LoginFails(a)

TaskStep(t) ==
    \/ TaskStarts(t) \/ TaskWakes(t) \/ TaskConnected(t)
    \/ TaskConnectFails(t) \/ TaskCancelled(t) \/ TaskDumped(t)
    \/ ConnectStep(t)

SetupStep ==
    \/ SetupDials \/ SetupConnectFails \/ SetupConnected \/ SetupDumped
    \/ SetupDumpFails \/ ConnectStep(Setup)

FlowStep(f) ==
    \/ ProbeStarts(f) \/ ProbeLeaves(f) \/ ProbeEnds(f)
    \/ ResumeConnected(f) \/ ResumeConnectFails(f) \/ ResumeDumped(f)
    \/ ConnectStep(f)

ReaderStep == ReaderEnds \/ ReaderCancelled

CloserStep(p) == CancelReconnect(p) \/ StopReader(p) \/ CloseWriter(p)

Next ==
    \/ \E t \in Tasks : TaskStep(t)
    \/ SetupStep
    \/ \E f \in Flows : SubmitReconfigure(f) \/ FlowStep(f)
    \/ ReaderStep
    \/ \E p \in Closers : CloserStep(p)
    \/ ShutdownEnds
    \/ UnloadStarts \/ ShutdownStarts
    \/ KeepAlive \/ SessionLost \/ TcpGivesUp \/ ModuleNotices \/ Outside

\* The event loop runs whatever can run, every timeout expires, the kernel and
\* the module do their part, and Home Assistant finishes an unload or a reload
\* it started.  Nobody has to submit a form, stop Home Assistant, free the
\* module for us or break anything.
Fairness ==
    /\ \A t \in Tasks : WF_vars(TaskStep(t))
    /\ WF_vars(SetupStep)
    /\ \A f \in Flows : WF_vars(FlowStep(f))
    /\ WF_vars(ReaderStep)
    /\ \A p \in Closers : WF_vars(CloserStep(p))
    /\ WF_vars(ShutdownEnds)
    /\ WF_vars(reload /\ UnloadStarts)
    /\ WF_vars(~loaded /\ ShutdownStarts)
    /\ WF_vars(KeepAlive) /\ WF_vars(TcpGivesUp) /\ WF_vars(ModuleNotices)

Spec == Init /\ [][Next]_vars
FairSpec == Spec /\ Fairness

-----------------------------------------------------------------------------
(* Safety.                                                                 *)

Alive == sess \in {"up", "silent", "hung"}
Holding(a) == dial[a] \in {"opening", "admitted", "turned_away"}

\* Home Assistant's stop event shuts down a coordinator whose entry stays
\* LOADED, so a form can still find it and take nothing over from it.
StoppingWhileLoaded == shutting /\ loaded

\* The module admits one TPI client, so the entry and the flow probing for it
\* never have two sockets open towards it: no two connect() calls overlap and
\* none is made on top of a session nobody has lost.  (The reconnect loop, the
\* probe, the resume and setup each dial; release and shutdown await what they
\* cancel so that this holds.)
OneSocket ==
    ~StoppingWhileLoaded =>
        /\ \A a, b \in Dialers : Holding(a) /\ Holding(b) => a = b
        /\ \A a \in Dialers : Holding(a) => ~Alive

\* A set-up entry that is neither lent out nor shutting down always has
\* somebody to bring its session back: a read loop that will report the loss,
\* a reconnect task that will dial, or a resume that is dialling.
NeverForgotten ==
    setup = "done" /\ ~shutting /\ ~released =>
        \/ reader = "reading"
        \/ \E t \in Tasks : task[t] \in {"top", "sleep", "connect"}
        \/ \E f \in Flows : flow[f] = "resume"

\* The session is lent out only while a flow is borrowing it, or once the flow
\* has left the entry to a reload.
LoanIsOwned ==
    released /\ ~shutting =>
        \/ \E f \in Flows : flow[f] \in {"release", "probe"}
        \/ reload \/ ~loaded

\* data.system.connected, which is what makes the entities available, says
\* that a read loop is watching the session, except in a setup undoing itself.
ConnectedMeansWatched ==
    setup \notin {"undo", "failed"} =>
        (connected <=> reader \in {"reading", "cancelled"})

\* The repair issue is up only during an outage that has lasted.
IssueIsHonest ==
    issue => ~connected /\ failed >= FailuresBeforeIssue

\* Once async_shutdown has returned, the unload's or that of a setup undoing
\* itself, no reconnect task dials or will dial; one that a release took first
\* may still be closing the socket it had.
NoDialAfterShutdown ==
    \A p \in {Setup, Unload} : tear[p] = "done" =>
        \A t \in Tasks : task[t] # "sleep" /\ ~Holding(t)

\* connect() overwrites _writer, _buffer and _read_task without looking at what
\* they were.  Whoever it is that a login has succeeded for, setup, a reconnect
\* task or a flow's resume: at that moment the read loop of the session before,
\* if there was one, is over and not merely cancelled, and its session is lost
\* or closed.  (EnvisalinkClient.connect; its callers have to see to it.)
NoReaderDropped ==
    [][(\E a \in Dialers : Establish(a)) =>
         reader \in {"none", "ended"} /\ ~Alive]_vars

-----------------------------------------------------------------------------
(* Liveness, under FairSpec.                                               *)

\* Left alone with a module that answers and counts nobody else, the entry
\* gets its session back, however it was lost.
Quiet == reachable /\ slot # "other" /\ \A f \in Flows : flow[f] = "idle"
Recovers ==
    <>[]Quiet => []<>(sess = "up" \/ shutting \/ setup = "failed")

\* A peer that vanished without a word is noticed, because the keepalive poll
\* keeps giving TCP something to fail on.
SilenceIsNoticed == sess = "silent" /\ periodic ~> sess # "silent" \/ shutting

\* Releasing, probing and resuming always finish, and so does a shutdown:
\* nobody awaits a task that awaits them.
FlowsFinish == \A f \in Flows : flow[f] # "idle" ~> flow[f] = "idle"
ShutdownFinishes == shutting ~> \E p \in {Setup, Unload} : tear[p] = "done"

-----------------------------------------------------------------------------
(* What the documents promise: kept with one flow open, not with two.       *)

\* "while something else is deliberately borrowing the module's one TPI session
\* ... does not start a reconnect that would take the session back": while a
\* flow's probe is out, nothing else of this entry dials.
LoanIsRespected ==
    \A f \in Flows : flow[f] = "probe" /\ ~shutting =>
        /\ ~Alive
        /\ \A t \in Tasks : ~Holding(t)
        /\ \A g \in Flows : flow[g] = "resume" => ~Holding(g)
=============================================================================
