---------------------------- MODULE TpiSessionInv ----------------------------
(***************************************************************************)
(* The inductive invariant behind OneSocket, NoReaderDropped and           *)
(* NoDialAfterShutdown, for an entry with at most one reconfigure flow     *)
(* open.  Each part says who may be at work in one phase of the session.   *)
(***************************************************************************)
EXTENDS TpiSession

SingleFlow == \A f, g \in Flows : f = g

Live(t) == task[t] \in {"top", "sleep", "connect"}

\* A dial belongs to the coroutine that is inside connect().
DialsHaveCallers ==
    /\ \A t \in Tasks : dial[t] # "idle" <=> task[t] = "connect"
    /\ \A f \in Flows : dial[f] # "idle" => flow[f] \in {"probe", "resume"}
    /\ dial[Setup] # "idle" => setup \in {"first", "second"}

\* Before setup has connected there is nothing but its own dial.
SetupFirst ==
    /\ setup \in {"new", "first", "wait", "second"} =>
        /\ sess = "none" /\ reader = "none" /\ rtask = None
        /\ ~released /\ ~shutting
        /\ \A t \in Tasks : task[t] = "none"
        /\ \A p \in Closers : tear[p] = "idle" /\ victim[p] = None
    /\ setup # "done" =>
        /\ ~loaded /\ tear[Unload] = "idle"
        /\ \A f \in Flows : flow[f] = "idle"

\* A release or a shutdown in progress has its flag up and its flow waiting;
\* it holds on to the task it took only until that task is over.
TearsAreFlagged ==
    /\ \A f \in Flows : tear[f] # "idle" <=> flow[f] = "release"
    /\ \A f \in Flows : tear[f] \notin {"periodic", "done"}
    /\ \A f \in Flows : flow[f] \in {"release", "probe"} => released
    /\ shutting <=> tear[Setup] # "idle" \/ tear[Unload] # "idle"
    /\ setup \notin {"undo", "failed"} => tear[Setup] = "idle"
    /\ \A p \in Closers :
         victim[p] # None => tear[p] \in {"periodic", "reconnect"}
    /\ reader = "cancelled" => \E p \in Closers : tear[p] = "reader"

\* One reconnect task at most is going to dial; it is the one somebody can
\* still cancel, and it exists only when the session is gone for good.
OneRunner ==
    \A t \in Tasks : Live(t) =>
        /\ \A u \in Tasks : Live(u) => u = t
        /\ rtask = t \/ \E p \in Closers : victim[p] = t
        /\ reader \in {"none", "ended"}
        /\ ~Alive

\* A read loop that runs has a socket.
ReaderHasSocket == reader = "reading" => sess # "none"

\* While a disconnect() waits for the read loop it cancelled, nobody dials, so
\* the _writer it takes afterwards is the one it found.
ReaderWait ==
    \A p \in Closers : tear[p] = "reader" =>
        /\ reader \in {"none", "cancelled"}
        /\ \A t \in Tasks : ~Live(t)
        /\ \A f \in Flows : flow[f] # "resume"

\* While a release waits, what is left of the reconnect task is closing.
ReleaseWaits ==
    ~StoppingWhileLoaded =>
        \A f \in Flows : flow[f] = "release" =>
            /\ \A t \in Tasks : Live(t) =>
                 victim[f] = t /\ dial[t] = "closing" /\ tear[f] = "reconnect"
            /\ tear[f] = "socket" =>
                 sess = "none" /\ reader \in {"none", "cancelled"}

\* A probe finds the place empty, and so does a resume.
ProbeAlone ==
    ~StoppingWhileLoaded =>
        \A f \in Flows : flow[f] = "probe" =>
            /\ sess = "none" /\ reader \in {"none", "cancelled"}
            /\ \A t \in Tasks : ~Live(t)

ResumeAlone ==
    \A f \in Flows : flow[f] = "resume" =>
        /\ sess = "none" /\ reader = "none"
        /\ \A t \in Tasks : ~Live(t)

\* Past the point where a shutdown has cancelled the task it took, a live task
\* is new and has yet to look at the flag, or is closing its socket.
ShutdownSilences ==
    \A p \in {Setup, Unload} :
        /\ tear[p] \in {"reconnect", "reader", "socket", "done"} =>
             \A t \in Tasks : Live(t) => task[t] = "top" \/ dial[t] = "closing"
        /\ tear[p] = "periodic" =>
             \A t \in Tasks : Live(t) =>
                task[t] = "top" \/ dial[t] = "closing" \/ victim[p] = t

IInv ==
    /\ TypeOK
    /\ DialsHaveCallers
    /\ SetupFirst
    /\ TearsAreFlagged
    /\ OneRunner
    /\ ReaderHasSocket
    /\ ReaderWait
    /\ ReleaseWaits
    /\ ProbeAlone
    /\ ResumeAlone
    /\ ShutdownSilences
=============================================================================
