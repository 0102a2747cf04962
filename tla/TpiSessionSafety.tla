--------------------------- MODULE TpiSessionSafety ---------------------------
(***************************************************************************)
(* Proofs about TpiSession, for every set of tasks, every backoff bound    *)
(* and every set of faults: type correctness, and that IInv is inductive,  *)
(* so that an entry with a single reconfigure flow open keeps OneSocket,   *)
(* NoDialAfterShutdown and NoReaderDropped.  A step is split into the      *)
(* parts of IInv that speak of what it changes and the parts that do not.  *)
(***************************************************************************)
EXTENDS TpiSessionInv, TLAPS

LEMMA NumberFacts ==
  /\ 0 \in 0..(FailuresBeforeIssue + 1)
  /\ BackoffMin \in BackoffMin..BackoffMax
  BY NumbersAssumption

LEMMA InitTypeOK == Init => TypeOK
<1> SUFFICES ASSUME Init PROVE TypeOK
  OBVIOUS
<1> USE DEF Init, SessStates, DialStates, Errors, TaskStates, TearStates,
            SetupStates, FlowStates
<1>1. /\ slot \in {"free", "ours", "stale", "other"}
      /\ sess \in SessStates
      /\ reader \in {"none", "reading", "cancelled", "ended"}
      /\ rtask \in Tasks \cup {None}
      /\ setup \in SetupStates
  OBVIOUS
<1>2. /\ dial \in [Dialers -> DialStates]
      /\ err \in [Dialers -> Errors]
      /\ task \in [Tasks -> TaskStates]
  OBVIOUS
<1>3. /\ tear \in [Closers -> TearStates]
      /\ victim \in [Closers -> Tasks \cup {None}]
      /\ flow \in [Flows -> FlowStates]
  OBVIOUS
<1>4. /\ reachable \in BOOLEAN /\ unacked \in BOOLEAN /\ connected \in BOOLEAN
      /\ released \in BOOLEAN /\ shutting \in BOOLEAN /\ periodic \in BOOLEAN
      /\ issue \in BOOLEAN /\ loaded \in BOOLEAN /\ reload \in BOOLEAN
  OBVIOUS
<1>5. /\ backoff \in BackoffMin..BackoffMax
      /\ failed \in 0..(FailuresBeforeIssue + 1)
  BY NumberFacts
<1>6. QED
  BY <1>1, <1>2, <1>3, <1>4, <1>5 DEF TypeOK

LEMMA TaskTypeOK ==
  ASSUME TypeOK, NEW t \in Tasks, TaskStep(t)
  PROVE  TypeOK'
<1> USE DEF TypeOK, moduleVars, clientVars, countVars, flagVars, taskVars,
            tearVars, entryVars
<1>1. CASE TaskStarts(t)
  BY <1>1 DEF TaskStates, TaskStarts, LoopTop
<1>2. CASE TaskWakes(t)
  BY <1>2 DEF TaskStates, DialStates, Dialers, TaskWakes, StartDial
<1>3. CASE TaskConnected(t)
  <2>1. /\ backoff' \in BackoffMin..BackoffMax
        /\ failed' \in 0..(FailuresBeforeIssue + 1)
    BY <1>3, NumberFacts DEF TaskConnected
  <2>2. QED
    BY <1>3, <2>1 DEF SessStates, TaskStates, DialStates, Dialers, TaskConnected, Establish, MarkConnected
<1>4. CASE TaskConnectFails(t)
  <2>1. /\ backoff' \in BackoffMin..BackoffMax
        /\ failed' \in 0..(FailuresBeforeIssue + 1)
    BY <1>4, NumbersAssumption DEF TaskConnectFails, NextBackoff
  <2>2. QED
    BY <1>4, <2>1 DEF TaskStates, DialStates, Errors, Dialers, TaskConnectFails,
        ConnectRaises, LoopTop
<1>5. CASE TaskCancelled(t)
  BY <1>5 DEF TaskStates, DialStates, Errors, Dialers, TaskCancelled, ConnectRaises
<1>6. CASE TaskDumped(t)
  BY <1>6 DEF TaskStates, TaskDumped
<1>7. CASE DialOpens(t)
  BY <1>7 DEF DialStates, Dialers, DialOpens
<1>8. CASE LoginFails(t)
  BY <1>8 DEF DialStates, Errors, Dialers, LoginFails, CloseDial
<1>9. QED
  BY <1>1, <1>2, <1>3, <1>4, <1>5, <1>6, <1>7, <1>8 DEF TaskStep, ConnectStep

LEMMA SetupTypeOK ==
  ASSUME TypeOK, SetupStep
  PROVE  TypeOK'
<1> USE DEF TypeOK, moduleVars, clientVars, countVars, flagVars, taskVars,
            tearVars, entryVars
<1>1. CASE SetupDials
  BY <1>1 DEF SetupStates, DialStates, Dialers, SetupDials, StartDial
<1>2. CASE SetupConnectFails
  BY <1>2 DEF SetupStates, DialStates, Errors, Dialers, SetupConnectFails, ConnectRaises
<1>3. CASE SetupConnected
  BY <1>3 DEF SetupStates, SessStates, DialStates, Dialers, SetupConnected, Establish, MarkConnected
<1>4. CASE SetupDumped
  BY <1>4 DEF SetupStates, SetupDumped
<1>5. CASE SetupDumpFails
  BY <1>5 DEF SetupStates, TearStates, Closers, SetupDumpFails, BeginShutdown
<1>6. CASE DialOpens(Setup)
  BY <1>6 DEF DialStates, Dialers, DialOpens
<1>7. CASE LoginFails(Setup)
  BY <1>7 DEF DialStates, Errors, Dialers, LoginFails, CloseDial
<1>8. QED
  BY <1>1, <1>2, <1>3, <1>4, <1>5, <1>6, <1>7 DEF SetupStep, ConnectStep

LEMMA FlowTypeOK ==
  ASSUME TypeOK, NEW f \in Flows, SubmitReconfigure(f) \/ FlowStep(f)
  PROVE  TypeOK'
<1> USE DEF TypeOK, moduleVars, clientVars, countVars, flagVars, taskVars,
            tearVars, entryVars
<1>1. CASE SubmitReconfigure(f)
  BY <1>1 DEF FlowStates, TaskStates, DialStates, Errors, TearStates, Dialers, Closers, SubmitReconfigure, Cancel, CloseDial, Waiting, InLogin
<1>2. CASE ProbeStarts(f)
  BY <1>2 DEF FlowStates, TearStates, DialStates, Dialers, Closers, ProbeStarts, StartDial
<1>3. CASE ProbeLeaves(f)
  BY <1>3 DEF DialStates, Errors, Dialers, ProbeLeaves, CloseDial
<1>4. CASE ProbeEnds(f)
  <2>1. /\ dial' \in [Dialers -> DialStates]
        /\ err' \in [Dialers -> Errors]
        /\ flow' \in [Flows -> FlowStates]
    BY <1>4 DEF FlowStates, DialStates, Errors, Dialers, ProbeEnds, Resume,
                Store, StartDial
  <2>2. released' \in BOOLEAN /\ reload' \in BOOLEAN
    BY <1>4 DEF ProbeEnds, Resume, Store
  <2>3. UNCHANGED <<moduleVars, sess, reader, unacked, countVars, connected,
                    shutting, taskVars, tearVars, setup, loaded>>
    BY <1>4 DEF ProbeEnds
  <2>4. QED
    BY <2>1, <2>2, <2>3
<1>5. CASE ResumeConnected(f)
  BY <1>5 DEF FlowStates, SessStates, DialStates, Dialers, ResumeConnected, Establish, MarkConnected
<1>6. CASE ResumeConnectFails(f)
  BY <1>6, NumberFacts
     DEF FlowStates, TaskStates, DialStates, Errors, Dialers, ResumeConnectFails, ConnectRaises, CreateReconnectTask
<1>7. CASE ResumeDumped(f)
  BY <1>7 DEF FlowStates, ResumeDumped
<1>8. CASE DialOpens(f)
  BY <1>8 DEF DialStates, Dialers, DialOpens
<1>9. CASE LoginFails(f)
  BY <1>9 DEF DialStates, Errors, Dialers, LoginFails, CloseDial
<1>10. QED
  BY <1>1, <1>2, <1>3, <1>4, <1>5, <1>6, <1>7, <1>8, <1>9
     DEF FlowStep, ConnectStep

LEMMA CloserTypeOK ==
  ASSUME TypeOK, NEW p \in Closers, CloserStep(p)
  PROVE  TypeOK'
<1> USE DEF TypeOK, moduleVars, clientVars, countVars, flagVars, taskVars,
            tearVars, entryVars
<1>1. CASE CancelReconnect(p)
  BY <1>1 DEF TaskStates, DialStates, Errors, TearStates, Dialers, CancelReconnect, Cancel, CloseDial, Waiting, InLogin
<1>2. CASE StopReader(p)
  <2>1. /\ victim' \in [Closers -> Tasks \cup {None}]
        /\ tear' \in [Closers -> TearStates]
    BY <1>2 DEF TearStates, StopReader, TakeWriter
  <2>2. /\ slot' \in {"free", "ours", "stale", "other"}
        /\ sess' \in SessStates
        /\ reader' \in {"none", "reading", "cancelled", "ended"}
        /\ unacked' \in BOOLEAN
    BY <1>2 DEF SessStates, StopReader, TakeWriter
  <2>3. UNCHANGED <<reachable, dial, err, countVars, flagVars, taskVars,
                    entryVars>>
    BY <1>2 DEF StopReader
  <2>4. QED
    BY <2>1, <2>2, <2>3
<1>3. CASE CloseWriter(p)
  <2>1. /\ tear' \in [Closers -> TearStates]
        /\ sess' \in SessStates
        /\ slot' \in {"free", "ours", "stale", "other"}
        /\ unacked' \in BOOLEAN
    BY <1>3 DEF TearStates, SessStates, CloseWriter, TakeWriter
  <2>2. UNCHANGED <<reachable, reader, dial, err, countVars, flagVars, taskVars,
                    victim, entryVars>>
    BY <1>3 DEF CloseWriter
  <2>3. QED
    BY <2>1, <2>2
<1>4. QED
  BY <1>1, <1>2, <1>3 DEF CloserStep

\* The steps that are none of a task's, setup's, a flow's or a closer's.
Elsewhere == ReaderStep \/ ShutdownEnds \/ UnloadStarts \/ ShutdownStarts
               \/ KeepAlive \/ SessionLost \/ TcpGivesUp \/ ModuleNotices
               \/ Outside

LEMMA ElsewhereTypeOK ==
  ASSUME TypeOK, Elsewhere
  PROVE  TypeOK'
<1> USE DEF TypeOK, moduleVars, clientVars, countVars, flagVars, taskVars,
            tearVars, entryVars
<1>1. CASE ReaderEnds
  BY <1>1 DEF TaskStates, ReaderEnds, HandleDisconnect, CreateReconnectTask
<1>2. CASE ReaderCancelled
  BY <1>2 DEF TaskStates, ReaderCancelled, HandleDisconnect, CreateReconnectTask
<1>3. CASE ShutdownEnds
  BY <1>3 DEF TearStates, SetupStates, Closers, ShutdownEnds
<1>4. CASE UnloadStarts
  <2>1. loaded' \in BOOLEAN /\ reload' \in BOOLEAN
    BY <1>4 DEF UnloadStarts
  <2>2. UNCHANGED <<moduleVars, clientVars, countVars, flagVars, taskVars,
                    tearVars, setup, flow>>
    BY <1>4 DEF UnloadStarts
  <2>3. QED
    BY <2>1, <2>2
<1>5. CASE ShutdownStarts
  <2>1. /\ BeginShutdown(Unload)
        /\ UNCHANGED <<moduleVars, clientVars, countVars, connected, released,
                       task, entryVars>>
    BY <1>5 DEF ShutdownStarts
  <2>2. /\ tear' \in [Closers -> TearStates]
        /\ victim' \in [Closers -> Tasks \cup {None}]
    BY <2>1 DEF TearStates, Closers, BeginShutdown
  <2>3. /\ shutting' \in BOOLEAN /\ periodic' \in BOOLEAN
        /\ rtask' \in Tasks \cup {None}
    BY <2>1 DEF BeginShutdown
  <2>4. QED
    BY <2>1, <2>2, <2>3
<1>6. CASE KeepAlive
  BY <1>6 DEF KeepAlive
<1>7. CASE SessionLost
  BY <1>7 DEF SessStates, SessionLost
<1>8. CASE TcpGivesUp
  BY <1>8 DEF SessStates, TcpGivesUp
<1>9. CASE ModuleNotices
  BY <1>9 DEF ModuleNotices
<1>10. CASE Outside
  <2>1. slot' \in {"free", "ours", "stale", "other"} /\ reachable' \in BOOLEAN
    BY <1>10 DEF Outside
  <2>2. UNCHANGED <<clientVars, countVars, flagVars, taskVars, tearVars,
                    entryVars>>
    BY <1>10 DEF Outside
  <2>3. QED
    BY <2>1, <2>2
<1>11. QED
  BY <1>1, <1>2, <1>3, <1>4, <1>5, <1>6, <1>7, <1>8, <1>9, <1>10
     DEF Elsewhere, ReaderStep

LEMMA StutterTypeOK ==
  ASSUME TypeOK, UNCHANGED vars
  PROVE  TypeOK'
  BY DEF TypeOK, vars, moduleVars, clientVars, countVars, flagVars, taskVars,
         tearVars, entryVars

\* Every variable keeps its type, whatever the tasks, the flows, the bounds on
\* the backoff and the faults.
THEOREM TypeCorrect == Spec => []TypeOK
<1>1. TypeOK /\ [Next]_vars => TypeOK'
  BY TaskTypeOK, SetupTypeOK, FlowTypeOK, CloserTypeOK, ElsewhereTypeOK,
     StutterTypeOK DEF Next, Elsewhere
<1>2. QED
  BY InitTypeOK, <1>1, PTL DEF Spec

-----------------------------------------------------------------------------
(* One phase of the session at a time.                                     *)

\* What cancelling v does to tasks and dials, whichever await v is in.
CancelFacts(v) ==
  /\ \A t \in Tasks : Live(t)' =>
       task'[t] = task[t] /\ dial'[t] = IF t = v THEN "closing" ELSE dial[t]
  /\ \A t \in Tasks : task[t] = "none" => task'[t] = "none"
  /\ \A t \in Tasks : dial'[t] # "idle" <=> task'[t] = "connect"
  /\ \A a \in Flows \cup {Setup} : dial'[a] = dial[a]

LEMMA CancelEffect ==
  ASSUME TypeOK, DialsHaveCallers, NEW v \in Tasks \cup {None}, Cancel(v)
  PROVE  CancelFacts(v)
<1> USE IdentitiesAssumption DEF CancelFacts, TypeOK, DialsHaveCallers, Cancel,
        Waiting, InLogin, Live, Dialers
<1>1. CASE Waiting(v)
  BY <1>1 DEF TaskStates
<1>2. CASE InLogin(v)
  BY <1>2 DEF CloseDial
<1>3. CASE ~Waiting(v) /\ ~InLogin(v)
  BY <1>3 DEF DialStates, TaskStates
<1>4. QED
  BY <1>1, <1>2, <1>3

LEMMA InitIInv == Init => IInv
<1> SUFFICES ASSUME Init PROVE IInv
  OBVIOUS
<1>1. TypeOK
  BY InitTypeOK
<1>2. DialsHaveCallers /\ SetupFirst /\ TearsAreFlagged
  BY IdentitiesAssumption DEF Init, DialsHaveCallers, SetupFirst,
     TearsAreFlagged, Dialers, Closers
<1>3. OneRunner /\ ReaderHasSocket /\ ReaderWait
  BY IdentitiesAssumption DEF Init, OneRunner, ReaderHasSocket, ReaderWait,
     Live, Closers
<1>4. ReleaseWaits /\ ProbeAlone /\ ResumeAlone /\ ShutdownSilences
  BY IdentitiesAssumption DEF Init, ReleaseWaits, ProbeAlone, ResumeAlone,
     ShutdownSilences, Closers
<1>5. QED
  BY <1>1, <1>2, <1>3, <1>4 DEF IInv

\* A step that touches nothing IInv speaks of, beyond the types.
LEMMA QuietKeepsIInv ==
  ASSUME IInv, TypeOK',
         UNCHANGED <<sess, reader, dial, released, shutting, rtask, task, tear,
                     victim, setup, flow, loaded>>
  PROVE  IInv'
  BY DEF IInv, DialsHaveCallers, SetupFirst, TearsAreFlagged, OneRunner,
     ReaderHasSocket, ReaderWait, ReleaseWaits, ProbeAlone, ResumeAlone,
     ShutdownSilences, Live, Alive, StoppingWhileLoaded

\* A step of a reconnect task keeps the phases apart.
LEMMA TaskKeepsIInv ==
  ASSUME IInv, SingleFlow, NEW t \in Tasks, TaskStep(t)
  PROVE  IInv'
<1>0. TypeOK'
  BY TaskTypeOK DEF IInv
<1>1. CASE TaskStarts(t)
  <2>1. (DialsHaveCallers /\ SetupFirst /\ OneRunner /\ ReaderWait /\
        ReleaseWaits /\ ProbeAlone /\ ResumeAlone /\ ShutdownSilences)'
    BY SMTT(10), <1>1 DEF IInv, DialsHaveCallers, SetupFirst, TearsAreFlagged,
       OneRunner, ReaderWait, ReleaseWaits, ProbeAlone, ResumeAlone,
       ShutdownSilences, Live, Alive, StoppingWhileLoaded, TaskStarts, LoopTop,
       clientVars, flagVars, tearVars, entryVars
  <2>2. (TearsAreFlagged /\ ReaderHasSocket)'
    BY SMTT(10), <1>1 DEF IInv, TearsAreFlagged, ReaderHasSocket, TaskStarts,
       LoopTop, clientVars, flagVars, tearVars, entryVars
  <2>3. QED
    BY <1>0, <2>1, <2>2 DEF IInv
<1>2. CASE TaskWakes(t)
  <2>1. (DialsHaveCallers /\ SetupFirst /\ OneRunner /\ ReaderWait /\
        ReleaseWaits /\ ProbeAlone /\ ResumeAlone /\ ShutdownSilences)'
    BY SMTT(10), <1>2, IdentitiesAssumption DEF IInv, TypeOK,
       DialsHaveCallers, SetupFirst, OneRunner, ReaderWait, ReleaseWaits,
       ProbeAlone, ResumeAlone, ShutdownSilences, Live, Alive,
       StoppingWhileLoaded, TaskWakes, StartDial, Dialers, flagVars, tearVars,
       entryVars
  <2>2. (TearsAreFlagged /\ ReaderHasSocket)'
    BY SMTT(10), <1>2 DEF IInv, TearsAreFlagged, ReaderHasSocket, TaskWakes,
       StartDial, flagVars, tearVars, entryVars
  <2>3. QED
    BY <1>0, <2>1, <2>2 DEF IInv
<1>3. CASE TaskConnected(t)
  <2>1. (DialsHaveCallers /\ SetupFirst /\ TearsAreFlagged /\ OneRunner /\
        ReaderHasSocket /\ ReaderWait /\ ReleaseWaits /\ ProbeAlone /\
        ResumeAlone /\ ShutdownSilences)'
    BY SMTT(10), <1>3 DEF IInv, TypeOK, DialsHaveCallers, SetupFirst,
       TearsAreFlagged, OneRunner, ReaderHasSocket, ReaderWait, ReleaseWaits,
       ProbeAlone, ResumeAlone, ShutdownSilences, Live, Alive,
       StoppingWhileLoaded, TaskConnected, Establish, MarkConnected, Dialers,
       tearVars, entryVars
  <2>2. QED
    BY <1>0, <2>1 DEF IInv
<1>4. CASE TaskConnectFails(t)
  <2>1. (DialsHaveCallers /\ SetupFirst /\ OneRunner /\ ReaderWait /\
        ReleaseWaits /\ ProbeAlone /\ ResumeAlone /\ ShutdownSilences)'
    BY SMTT(10), <1>4 DEF IInv, TypeOK, DialsHaveCallers, SetupFirst,
       TearsAreFlagged, OneRunner, ReaderWait, ReleaseWaits, ProbeAlone,
       ResumeAlone, ShutdownSilences, Live, Alive, StoppingWhileLoaded,
       TaskConnectFails, ConnectRaises, LoopTop, Dialers, flagVars, tearVars,
       entryVars
  <2>2. (TearsAreFlagged /\ ReaderHasSocket)'
    BY SMTT(10), <1>4 DEF IInv, TearsAreFlagged, ReaderHasSocket,
       TaskConnectFails, ConnectRaises, LoopTop, flagVars, tearVars, entryVars
  <2>3. QED
    BY <1>0, <2>1, <2>2 DEF IInv
<1>5. CASE TaskCancelled(t)
  <2>1. (DialsHaveCallers /\ SetupFirst /\ OneRunner /\ ReaderWait /\
        ReleaseWaits /\ ProbeAlone /\ ResumeAlone /\ ShutdownSilences)'
    BY SMTT(10), <1>5 DEF IInv, TypeOK, DialsHaveCallers, SetupFirst,
       OneRunner, ReaderWait, ReleaseWaits, ProbeAlone, ResumeAlone,
       ShutdownSilences, Live, Alive, StoppingWhileLoaded, TaskCancelled,
       ConnectRaises, Dialers, flagVars, tearVars, entryVars
  <2>2. (TearsAreFlagged /\ ReaderHasSocket)'
    BY SMTT(10), <1>5 DEF IInv, TearsAreFlagged, ReaderHasSocket,
       TaskCancelled, ConnectRaises, flagVars, tearVars, entryVars
  <2>3. QED
    BY <1>0, <2>1, <2>2 DEF IInv
<1>6. CASE TaskDumped(t)
  <2>1. (DialsHaveCallers /\ SetupFirst /\ OneRunner /\ ReaderWait /\
        ReleaseWaits /\ ProbeAlone /\ ResumeAlone /\ ShutdownSilences)'
    BY SMTT(10), <1>6 DEF IInv, DialsHaveCallers, SetupFirst, OneRunner,
       ReaderWait, ReleaseWaits, ProbeAlone, ResumeAlone, ShutdownSilences, Live,
       Alive, StoppingWhileLoaded, TaskDumped, clientVars, flagVars, tearVars,
       entryVars
  <2>2. (TearsAreFlagged /\ ReaderHasSocket)'
    BY SMTT(10), <1>6 DEF IInv, TearsAreFlagged, ReaderHasSocket, TaskDumped,
       clientVars, flagVars, tearVars, entryVars
  <2>3. QED
    BY <1>0, <2>1, <2>2 DEF IInv
<1>7. CASE DialOpens(t)
  <2>1. (DialsHaveCallers /\ ReleaseWaits /\ ShutdownSilences)'
    BY SMTT(10), <1>7 DEF IInv, TypeOK, DialsHaveCallers, ReleaseWaits,
       ShutdownSilences, Live, StoppingWhileLoaded, DialOpens, Dialers, flagVars,
       taskVars, tearVars, entryVars
  <2>2. (SetupFirst /\ TearsAreFlagged /\ OneRunner /\ ReaderHasSocket /\
        ReaderWait /\ ProbeAlone /\ ResumeAlone)'
    BY SMTT(10), <1>7 DEF IInv, SetupFirst, TearsAreFlagged, OneRunner,
       ReaderHasSocket, ReaderWait, ProbeAlone, ResumeAlone, Live, Alive,
       StoppingWhileLoaded, DialOpens, flagVars, taskVars, tearVars, entryVars
  <2>3. QED
    BY <1>0, <2>1, <2>2 DEF IInv
<1>8. CASE LoginFails(t)
  <2>1. (DialsHaveCallers /\ ReleaseWaits /\ ShutdownSilences)'
    BY SMTT(10), <1>8 DEF IInv, TypeOK, DialsHaveCallers, ReleaseWaits,
       ShutdownSilences, Live, StoppingWhileLoaded, LoginFails, CloseDial,
       Dialers, flagVars, taskVars, tearVars, entryVars
  <2>2. (SetupFirst /\ TearsAreFlagged /\ OneRunner /\ ReaderHasSocket /\
        ReaderWait /\ ProbeAlone /\ ResumeAlone)'
    BY SMTT(10), <1>8 DEF IInv, SetupFirst, TearsAreFlagged, OneRunner,
       ReaderHasSocket, ReaderWait, ProbeAlone, ResumeAlone, Live, Alive,
       StoppingWhileLoaded, LoginFails, CloseDial, flagVars, taskVars, tearVars,
       entryVars
  <2>3. QED
    BY <1>0, <2>1, <2>2 DEF IInv
<1>9. QED
  BY <1>1, <1>2, <1>3, <1>4, <1>5, <1>6, <1>7, <1>8
     DEF TaskStep, ConnectStep

\* A step of setup keeps the phases apart.
LEMMA SetupKeepsIInv ==
  ASSUME IInv, SingleFlow, SetupStep
  PROVE  IInv'
<1>0. TypeOK'
  BY SetupTypeOK DEF IInv
<1>1. CASE SetupDials
  <2>1. (DialsHaveCallers /\ SetupFirst /\ TearsAreFlagged /\ ReleaseWaits
        /\ ShutdownSilences)'
    BY SMTT(10), <1>1, IdentitiesAssumption DEF IInv, DialsHaveCallers,
       SetupFirst, TearsAreFlagged, ReleaseWaits, ShutdownSilences, Live,
       StoppingWhileLoaded, SetupDials, StartDial, flagVars, taskVars, tearVars
  <2>2. (OneRunner /\ ReaderHasSocket /\ ReaderWait /\ ProbeAlone /\
        ResumeAlone)'
    BY SMTT(10), <1>1 DEF IInv, OneRunner, ReaderHasSocket, ReaderWait,
       ProbeAlone, ResumeAlone, Live, Alive, StoppingWhileLoaded, SetupDials,
       StartDial, flagVars, taskVars, tearVars
  <2>3. QED
    BY <1>0, <2>1, <2>2 DEF IInv
<1>2. CASE SetupConnectFails
  <2>1. (DialsHaveCallers /\ SetupFirst /\ TearsAreFlagged /\ ReleaseWaits
        /\ ShutdownSilences)'
    BY SMTT(10), <1>2 DEF IInv, TypeOK, DialsHaveCallers, SetupFirst,
       TearsAreFlagged, ReleaseWaits, ShutdownSilences, Live,
       StoppingWhileLoaded, SetupConnectFails, ConnectRaises, Dialers, flagVars,
       taskVars, tearVars
  <2>2. (OneRunner /\ ReaderHasSocket /\ ReaderWait /\ ProbeAlone /\
        ResumeAlone)'
    BY SMTT(10), <1>2 DEF IInv, OneRunner, ReaderHasSocket, ReaderWait,
       ProbeAlone, ResumeAlone, Live, Alive, StoppingWhileLoaded,
       SetupConnectFails, ConnectRaises, flagVars, taskVars, tearVars
  <2>3. QED
    BY <1>0, <2>1, <2>2 DEF IInv
<1>3. CASE SetupConnected
  <2>1. (DialsHaveCallers /\ SetupFirst /\ TearsAreFlagged /\ OneRunner /\
        ReaderHasSocket /\ ReaderWait /\ ReleaseWaits /\ ProbeAlone /\
        ResumeAlone /\ ShutdownSilences)'
    BY SMTT(10), <1>3 DEF IInv, TypeOK, DialsHaveCallers, SetupFirst,
       TearsAreFlagged, OneRunner, ReaderHasSocket, ReaderWait, ReleaseWaits,
       ProbeAlone, ResumeAlone, ShutdownSilences, Live, Alive,
       StoppingWhileLoaded, SetupConnected, Establish, MarkConnected, Dialers,
       taskVars, tearVars
  <2>2. QED
    BY <1>0, <2>1 DEF IInv
<1>4. CASE SetupDumped
  <2>1. (DialsHaveCallers /\ SetupFirst /\ TearsAreFlagged /\ ReleaseWaits
        /\ ProbeAlone)'
    BY SMTT(10), <1>4 DEF IInv, DialsHaveCallers, SetupFirst, TearsAreFlagged,
       ReleaseWaits, ProbeAlone, Live, StoppingWhileLoaded, SetupDumped,
       clientVars, flagVars, tearVars
  <2>2. (OneRunner /\ ReaderHasSocket /\ ReaderWait /\ ResumeAlone /\
        ShutdownSilences)'
    BY SMTT(10), <1>4 DEF IInv, OneRunner, ReaderHasSocket, ReaderWait,
       ResumeAlone, ShutdownSilences, Live, Alive, SetupDumped, clientVars,
       tearVars
  <2>3. QED
    BY <1>0, <2>1, <2>2 DEF IInv
<1>5. CASE SetupDumpFails
  <2>1. (DialsHaveCallers /\ SetupFirst /\ TearsAreFlagged /\ OneRunner /\
        ReaderWait /\ ReleaseWaits /\ ProbeAlone /\ ShutdownSilences)'
    BY SMTT(10), <1>5, IdentitiesAssumption DEF IInv, TypeOK,
       DialsHaveCallers, SetupFirst, TearsAreFlagged, OneRunner, ReaderWait,
       ReleaseWaits, ProbeAlone, ShutdownSilences, Live, Alive,
       StoppingWhileLoaded, SetupDumpFails, BeginShutdown, Closers, clientVars
  <2>2. (ReaderHasSocket /\ ResumeAlone)'
    BY SMTT(10), <1>5 DEF IInv, ReaderHasSocket, ResumeAlone, Live,
       SetupDumpFails, BeginShutdown, clientVars
  <2>3. QED
    BY <1>0, <2>1, <2>2 DEF IInv
<1>6. CASE DialOpens(Setup)
  <2>1. (DialsHaveCallers /\ ReleaseWaits /\ ShutdownSilences)'
    BY SMTT(10), <1>6 DEF IInv, TypeOK, DialsHaveCallers, ReleaseWaits,
       ShutdownSilences, Live, StoppingWhileLoaded, DialOpens, Dialers, flagVars,
       taskVars, tearVars, entryVars
  <2>2. (SetupFirst /\ TearsAreFlagged /\ OneRunner /\ ReaderHasSocket /\
        ReaderWait /\ ProbeAlone /\ ResumeAlone)'
    BY SMTT(10), <1>6 DEF IInv, SetupFirst, TearsAreFlagged, OneRunner,
       ReaderHasSocket, ReaderWait, ProbeAlone, ResumeAlone, Live, Alive,
       StoppingWhileLoaded, DialOpens, flagVars, taskVars, tearVars, entryVars
  <2>3. QED
    BY <1>0, <2>1, <2>2 DEF IInv
<1>7. CASE LoginFails(Setup)
  <2>1. (DialsHaveCallers /\ ReleaseWaits /\ ShutdownSilences)'
    BY SMTT(10), <1>7 DEF IInv, TypeOK, DialsHaveCallers, ReleaseWaits,
       ShutdownSilences, Live, StoppingWhileLoaded, LoginFails, CloseDial,
       Dialers, flagVars, taskVars, tearVars, entryVars
  <2>2. (SetupFirst /\ TearsAreFlagged /\ OneRunner /\ ReaderHasSocket /\
        ReaderWait /\ ProbeAlone /\ ResumeAlone)'
    BY SMTT(10), <1>7 DEF IInv, SetupFirst, TearsAreFlagged, OneRunner,
       ReaderHasSocket, ReaderWait, ProbeAlone, ResumeAlone, Live, Alive,
       StoppingWhileLoaded, LoginFails, CloseDial, flagVars, taskVars, tearVars,
       entryVars
  <2>3. QED
    BY <1>0, <2>1, <2>2 DEF IInv
<1>8. QED
  BY <1>1, <1>2, <1>3, <1>4, <1>5, <1>6, <1>7
     DEF SetupStep, ConnectStep

\* A step of a flow keeps the phases apart.
LEMMA FlowKeepsIInv ==
  ASSUME IInv, SingleFlow, NEW f \in Flows, SubmitReconfigure(f) \/ FlowStep(f)
  PROVE  IInv'
<1>0. TypeOK'
  BY FlowTypeOK DEF IInv
<1>1. CASE SubmitReconfigure(f)
  <2>1. CancelFacts(rtask)
    BY <1>1, CancelEffect DEF IInv, TypeOK, SubmitReconfigure
  <2>2. (DialsHaveCallers /\ SetupFirst /\ TearsAreFlagged /\ OneRunner /\
        ReaderWait /\ ReleaseWaits /\ ProbeAlone /\ ResumeAlone /\
        ShutdownSilences)'
    BY SMTT(10), <1>1, <2>1, IdentitiesAssumption DEF IInv, TypeOK,
       SingleFlow, DialsHaveCallers, SetupFirst, TearsAreFlagged, OneRunner,
       ReaderWait, ReleaseWaits, ProbeAlone, ResumeAlone, ShutdownSilences, Live,
       Alive, StoppingWhileLoaded, SubmitReconfigure, CancelFacts, Closers
  <2>3. ReaderHasSocket'
    BY SMTT(10), <1>1 DEF IInv, ReaderHasSocket, SubmitReconfigure,
       CancelFacts
  <2>4. QED
    BY <1>0, <2>2, <2>3 DEF IInv
<1>2. CASE ProbeStarts(f)
  <2>1. (DialsHaveCallers /\ SetupFirst /\ TearsAreFlagged /\ ReaderWait
        /\ ReleaseWaits /\ ProbeAlone /\ ResumeAlone /\ ShutdownSilences)'
    BY SMTT(10), <1>2, IdentitiesAssumption DEF IInv, TypeOK,
       DialsHaveCallers, SetupFirst, TearsAreFlagged, ReaderWait, ReleaseWaits,
       ProbeAlone, ResumeAlone, ShutdownSilences, Live, StoppingWhileLoaded,
       ProbeStarts, StartDial, Closers, flagVars, taskVars
  <2>2. (OneRunner /\ ReaderHasSocket)'
    BY SMTT(10), <1>2 DEF IInv, OneRunner, ReaderHasSocket, Live, Alive,
       ProbeStarts, StartDial, taskVars
  <2>3. QED
    BY <1>0, <2>1, <2>2 DEF IInv
<1>3. CASE ProbeLeaves(f)
  <2>1. (DialsHaveCallers /\ ReleaseWaits /\ ShutdownSilences)'
    BY SMTT(10), <1>3 DEF IInv, TypeOK, SingleFlow, DialsHaveCallers,
       ReleaseWaits, ShutdownSilences, Live, StoppingWhileLoaded, ProbeLeaves,
       CloseDial, Dialers, taskVars, tearVars, entryVars
  <2>2. (SetupFirst /\ TearsAreFlagged /\ OneRunner /\ ReaderHasSocket /\
        ReaderWait /\ ProbeAlone /\ ResumeAlone)'
    BY SMTT(10), <1>3 DEF IInv, SetupFirst, TearsAreFlagged, OneRunner,
       ReaderHasSocket, ReaderWait, ProbeAlone, ResumeAlone, Live, Alive,
       StoppingWhileLoaded, ProbeLeaves, CloseDial, flagVars, taskVars, tearVars,
       entryVars
  <2>3. QED
    BY <1>0, <2>1, <2>2 DEF IInv
<1>4. CASE ProbeEnds(f)
  <2>1. (DialsHaveCallers /\ SetupFirst /\ TearsAreFlagged /\ ReaderWait
        /\ ReleaseWaits /\ ProbeAlone /\ ResumeAlone /\ ShutdownSilences)'
    BY SMTT(10), <1>4, IdentitiesAssumption DEF IInv, TypeOK, SingleFlow,
       DialsHaveCallers, SetupFirst, TearsAreFlagged, ReaderWait, ReleaseWaits,
       ProbeAlone, ResumeAlone, ShutdownSilences, Live, StoppingWhileLoaded,
       ProbeEnds, Resume, Store, StartDial, ClientConnected, Dialers, Closers, taskVars,
       tearVars
  <2>2. (OneRunner /\ ReaderHasSocket)'
    BY SMTT(10), <1>4 DEF IInv, OneRunner, ReaderHasSocket, Live, Alive,
       ProbeEnds, Resume, Store, StartDial, ClientConnected, taskVars, tearVars
  <2>3. QED
    BY <1>0, <2>1, <2>2 DEF IInv
<1>5. CASE ResumeConnected(f)
  <2>1. (DialsHaveCallers /\ SetupFirst /\ TearsAreFlagged /\ OneRunner /\
        ReaderHasSocket /\ ReaderWait /\ ReleaseWaits /\ ProbeAlone /\
        ResumeAlone /\ ShutdownSilences)'
    BY SMTT(10), <1>5 DEF IInv, TypeOK, SingleFlow, DialsHaveCallers,
       SetupFirst, TearsAreFlagged, OneRunner, ReaderHasSocket, ReaderWait,
       ReleaseWaits, ProbeAlone, ResumeAlone, ShutdownSilences, Live, Alive,
       StoppingWhileLoaded, ResumeConnected, Establish, MarkConnected, Dialers,
       taskVars, tearVars
  <2>2. QED
    BY <1>0, <2>1 DEF IInv
<1>6. CASE ResumeConnectFails(f)
  <2>1. (DialsHaveCallers /\ SetupFirst /\ TearsAreFlagged /\ OneRunner /\
        ReaderWait /\ ReleaseWaits /\ ProbeAlone /\ ResumeAlone /\
        ShutdownSilences)'
    BY SMTT(10), <1>6 DEF IInv, TypeOK, SingleFlow, DialsHaveCallers,
       SetupFirst, TearsAreFlagged, OneRunner, ReaderWait, ReleaseWaits,
       ProbeAlone, ResumeAlone, ShutdownSilences, Live, Alive,
       StoppingWhileLoaded, ResumeConnectFails, ConnectRaises,
       CreateReconnectTask, Dialers, flagVars, tearVars
  <2>2. ReaderHasSocket'
    BY SMTT(10), <1>6 DEF IInv, ReaderHasSocket, ResumeConnectFails,
       ConnectRaises, CreateReconnectTask
  <2>3. QED
    BY <1>0, <2>1, <2>2 DEF IInv
<1>7. CASE ResumeDumped(f)
  <2>1. (DialsHaveCallers /\ SetupFirst /\ TearsAreFlagged /\ ReaderWait
        /\ ReleaseWaits /\ ProbeAlone /\ ResumeAlone)'
    BY SMTT(10), <1>7 DEF IInv, DialsHaveCallers, SetupFirst, TearsAreFlagged,
       ReaderWait, ReleaseWaits, ProbeAlone, ResumeAlone, Live,
       StoppingWhileLoaded, ResumeDumped, clientVars, flagVars, taskVars,
       tearVars
  <2>2. (OneRunner /\ ReaderHasSocket /\ ShutdownSilences)'
    BY SMTT(10), <1>7 DEF IInv, OneRunner, ReaderHasSocket, ShutdownSilences,
       Live, Alive, ResumeDumped, clientVars, taskVars, tearVars
  <2>3. QED
    BY <1>0, <2>1, <2>2 DEF IInv
<1>8. CASE DialOpens(f)
  <2>1. (DialsHaveCallers /\ ReleaseWaits /\ ShutdownSilences)'
    BY SMTT(10), <1>8 DEF IInv, TypeOK, DialsHaveCallers, ReleaseWaits,
       ShutdownSilences, Live, StoppingWhileLoaded, DialOpens, Dialers, flagVars,
       taskVars, tearVars, entryVars
  <2>2. (SetupFirst /\ TearsAreFlagged /\ OneRunner /\ ReaderHasSocket /\
        ReaderWait /\ ProbeAlone /\ ResumeAlone)'
    BY SMTT(10), <1>8 DEF IInv, SetupFirst, TearsAreFlagged, OneRunner,
       ReaderHasSocket, ReaderWait, ProbeAlone, ResumeAlone, Live, Alive,
       StoppingWhileLoaded, DialOpens, flagVars, taskVars, tearVars, entryVars
  <2>3. QED
    BY <1>0, <2>1, <2>2 DEF IInv
<1>9. CASE LoginFails(f)
  <2>1. (DialsHaveCallers /\ ReleaseWaits /\ ShutdownSilences)'
    BY SMTT(10), <1>9 DEF IInv, TypeOK, DialsHaveCallers, ReleaseWaits,
       ShutdownSilences, Live, StoppingWhileLoaded, LoginFails, CloseDial,
       Dialers, flagVars, taskVars, tearVars, entryVars
  <2>2. (SetupFirst /\ TearsAreFlagged /\ OneRunner /\ ReaderHasSocket /\
        ReaderWait /\ ProbeAlone /\ ResumeAlone)'
    BY SMTT(10), <1>9 DEF IInv, SetupFirst, TearsAreFlagged, OneRunner,
       ReaderHasSocket, ReaderWait, ProbeAlone, ResumeAlone, Live, Alive,
       StoppingWhileLoaded, LoginFails, CloseDial, flagVars, taskVars, tearVars,
       entryVars
  <2>3. QED
    BY <1>0, <2>1, <2>2 DEF IInv
<1>10. QED
  BY <1>1, <1>2, <1>3, <1>4, <1>5, <1>6, <1>7, <1>8, <1>9
     DEF FlowStep, ConnectStep

\* A step of a release or a shutdown keeps the phases apart.
LEMMA CloserKeepsIInv ==
  ASSUME IInv, SingleFlow, NEW p \in Closers, CloserStep(p)
  PROVE  IInv'
<1>0. TypeOK'
  BY CloserTypeOK DEF IInv
<1>1. CASE CancelReconnect(p)
  <2>1. CancelFacts(victim[p])
    BY <1>1, CancelEffect DEF IInv, TypeOK, CancelReconnect
  <2>2. (DialsHaveCallers /\ SetupFirst /\ TearsAreFlagged /\ OneRunner /\
        ReaderWait /\ ReleaseWaits /\ ProbeAlone /\ ResumeAlone /\
        ShutdownSilences)'
    BY SMTT(10), <1>1, <2>1 DEF IInv, DialsHaveCallers, SetupFirst,
       TearsAreFlagged, OneRunner, ReaderWait, ReleaseWaits, ProbeAlone,
       ResumeAlone, ShutdownSilences, Live, Alive, StoppingWhileLoaded,
       CancelReconnect, CancelFacts, flagVars, entryVars
  <2>3. ReaderHasSocket'
    BY SMTT(10), <1>1 DEF IInv, ReaderHasSocket, CancelReconnect, CancelFacts
  <2>4. QED
    BY <1>0, <2>2, <2>3 DEF IInv
<1>2. CASE StopReader(p)
  <2>1. (SetupFirst /\ TearsAreFlagged /\ OneRunner /\ ReaderHasSocket /\
        ReaderWait /\ ReleaseWaits /\ ProbeAlone /\ ResumeAlone /\
        ShutdownSilences)'
    BY SMTT(10), <1>2 DEF IInv, TypeOK, SetupFirst, TearsAreFlagged,
       OneRunner, ReaderHasSocket, ReaderWait, ReleaseWaits, ProbeAlone,
       ResumeAlone, ShutdownSilences, Live, Alive, StoppingWhileLoaded,
       StopReader, TaskOver, TakeWriter, Closers, flagVars, taskVars, entryVars
  <2>2. DialsHaveCallers'
    BY SMTT(10), <1>2 DEF IInv, DialsHaveCallers, StopReader, TaskOver, TakeWriter,
       taskVars, entryVars
  <2>3. QED
    BY <1>0, <2>1, <2>2 DEF IInv
<1>3. CASE CloseWriter(p)
  <2>1. (SetupFirst /\ TearsAreFlagged /\ OneRunner /\ ReaderHasSocket /\
        ReaderWait /\ ReleaseWaits /\ ProbeAlone /\ ResumeAlone /\
        ShutdownSilences)'
    BY SMTT(10), <1>3 DEF IInv, SetupFirst, TearsAreFlagged, OneRunner,
       ReaderHasSocket, ReaderWait, ReleaseWaits, ProbeAlone, ResumeAlone,
       ShutdownSilences, Live, Alive, StoppingWhileLoaded, CloseWriter,
       TakeWriter, flagVars, taskVars, entryVars
  <2>2. DialsHaveCallers'
    BY SMTT(10), <1>3 DEF IInv, DialsHaveCallers, CloseWriter, TakeWriter,
       taskVars, entryVars
  <2>3. QED
    BY <1>0, <2>1, <2>2 DEF IInv
<1>4. QED
  BY <1>1, <1>2, <1>3
     DEF CloserStep

\* A step of the read loop, the entry or the module keeps the phases apart.
LEMMA ElsewhereKeepsIInv ==
  ASSUME IInv, SingleFlow, Elsewhere
  PROVE  IInv'
<1>0. TypeOK'
  BY ElsewhereTypeOK DEF IInv
<1>1. CASE ReaderEnds
  <2>1. (DialsHaveCallers /\ SetupFirst /\ TearsAreFlagged /\ OneRunner /\
        ReaderHasSocket /\ ReaderWait /\ ReleaseWaits /\ ProbeAlone /\
        ResumeAlone /\ ShutdownSilences)'
    BY SMTT(10), <1>1 DEF IInv, TypeOK, DialsHaveCallers, SetupFirst,
       TearsAreFlagged, OneRunner, ReaderHasSocket, ReaderWait, ReleaseWaits,
       ProbeAlone, ResumeAlone, ShutdownSilences, Live, Alive,
       StoppingWhileLoaded, ReaderEnds, HandleDisconnect, CreateReconnectTask,
       tearVars, entryVars
  <2>2. QED
    BY <1>0, <2>1 DEF IInv
<1>2. CASE ReaderCancelled
  <2>1. (DialsHaveCallers /\ SetupFirst /\ TearsAreFlagged /\ OneRunner /\
        ReaderHasSocket /\ ReaderWait /\ ReleaseWaits /\ ProbeAlone /\
        ResumeAlone /\ ShutdownSilences)'
    BY SMTT(10), <1>2 DEF IInv, DialsHaveCallers, SetupFirst, TearsAreFlagged,
       OneRunner, ReaderHasSocket, ReaderWait, ReleaseWaits, ProbeAlone,
       ResumeAlone, ShutdownSilences, Live, Alive, StoppingWhileLoaded,
       ReaderCancelled, HandleDisconnect, CreateReconnectTask, Closers, tearVars,
       entryVars
  <2>2. QED
    BY <1>0, <2>1 DEF IInv
<1>3. CASE ShutdownEnds
  <2>1. (DialsHaveCallers /\ SetupFirst /\ TearsAreFlagged /\ ReaderWait
        /\ ReleaseWaits /\ ShutdownSilences)'
    BY SMTT(10), <1>3, IdentitiesAssumption DEF IInv, DialsHaveCallers,
       SetupFirst, TearsAreFlagged, ReaderWait, ReleaseWaits, ShutdownSilences,
       Live, StoppingWhileLoaded, ShutdownEnds, clientVars, flagVars, taskVars
  <2>2. (OneRunner /\ ReaderHasSocket /\ ProbeAlone /\ ResumeAlone)'
    BY SMTT(10), <1>3 DEF IInv, OneRunner, ReaderHasSocket, ProbeAlone,
       ResumeAlone, Live, Alive, StoppingWhileLoaded, ShutdownEnds, clientVars,
       flagVars, taskVars
  <2>3. QED
    BY <1>0, <2>1, <2>2 DEF IInv
<1>4. CASE UnloadStarts
  <2>1. (SetupFirst /\ ReleaseWaits /\ ProbeAlone)'
    BY SMTT(10), <1>4 DEF IInv, SetupFirst, TearsAreFlagged, ReleaseWaits,
       ProbeAlone, Live, StoppingWhileLoaded, UnloadStarts, clientVars, taskVars,
       tearVars
  <2>2. (DialsHaveCallers /\ TearsAreFlagged /\ OneRunner /\
        ReaderHasSocket /\ ReaderWait /\ ResumeAlone /\ ShutdownSilences)'
    BY SMTT(10), <1>4 DEF IInv, DialsHaveCallers, TearsAreFlagged, OneRunner,
       ReaderHasSocket, ReaderWait, ResumeAlone, ShutdownSilences, Live, Alive,
       UnloadStarts, clientVars, flagVars, taskVars, tearVars
  <2>3. QED
    BY <1>0, <2>1, <2>2 DEF IInv
<1>5. CASE ShutdownStarts
  <2>1. (SetupFirst /\ TearsAreFlagged /\ OneRunner /\ ReaderWait /\
        ReleaseWaits /\ ProbeAlone /\ ShutdownSilences)'
    BY SMTT(10), <1>5, IdentitiesAssumption DEF IInv, TypeOK, SetupFirst,
       TearsAreFlagged, OneRunner, ReaderWait, ReleaseWaits, ProbeAlone,
       ShutdownSilences, Live, Alive, StoppingWhileLoaded, ShutdownStarts,
       BeginShutdown, Closers, clientVars, entryVars
  <2>2. (DialsHaveCallers /\ ReaderHasSocket /\ ResumeAlone)'
    BY SMTT(10), <1>5 DEF IInv, DialsHaveCallers, ReaderHasSocket,
       ResumeAlone, Live, ShutdownStarts, BeginShutdown, clientVars, entryVars
  <2>3. QED
    BY <1>0, <2>1, <2>2 DEF IInv
<1>6. CASE SessionLost
  <2>1. (SetupFirst /\ OneRunner /\ ReaderHasSocket /\ ReleaseWaits /\
        ProbeAlone /\ ResumeAlone)'
    BY SMTT(10), <1>6 DEF IInv, SetupFirst, OneRunner, ReaderHasSocket,
       ReleaseWaits, ProbeAlone, ResumeAlone, Live, Alive, StoppingWhileLoaded,
       SessionLost, flagVars, taskVars, tearVars, entryVars
  <2>2. (DialsHaveCallers /\ TearsAreFlagged /\ ReaderWait /\
        ShutdownSilences)'
    BY SMTT(10), <1>6 DEF IInv, DialsHaveCallers, TearsAreFlagged, ReaderWait,
       ShutdownSilences, Live, SessionLost, flagVars, taskVars, tearVars,
       entryVars
  <2>3. QED
    BY <1>0, <2>1, <2>2 DEF IInv
<1>7. CASE TcpGivesUp
  <2>1. (SetupFirst /\ OneRunner /\ ReaderHasSocket /\ ReleaseWaits /\
        ProbeAlone /\ ResumeAlone)'
    BY SMTT(10), <1>7 DEF IInv, SetupFirst, OneRunner, ReaderHasSocket,
       ReleaseWaits, ProbeAlone, ResumeAlone, Live, Alive, StoppingWhileLoaded,
       TcpGivesUp, flagVars, taskVars, tearVars, entryVars
  <2>2. (DialsHaveCallers /\ TearsAreFlagged /\ ReaderWait /\
        ShutdownSilences)'
    BY SMTT(10), <1>7 DEF IInv, DialsHaveCallers, TearsAreFlagged, ReaderWait,
       ShutdownSilences, Live, TcpGivesUp, flagVars, taskVars, tearVars,
       entryVars
  <2>3. QED
    BY <1>0, <2>1, <2>2 DEF IInv
<1>8. CASE KeepAlive \/ ModuleNotices \/ Outside
  <2>1. UNCHANGED <<sess, reader, dial, released, shutting, rtask, task,
                    tear, victim, setup, flow, loaded>>
    BY <1>8 DEF KeepAlive, ModuleNotices, Outside, clientVars, flagVars,
       taskVars, tearVars, entryVars
  <2>2. QED
    BY <1>0, <2>1, QuietKeepsIInv
<1>9. QED
  BY <1>1, <1>2, <1>3, <1>4, <1>5, <1>6, <1>7, <1>8
     DEF Elsewhere, ReaderStep

LEMMA NextKeepsIInv ==
  ASSUME IInv, SingleFlow, [Next]_vars
  PROVE  IInv'
<1>1. CASE UNCHANGED vars
  <2>1. TypeOK'
    BY <1>1, StutterTypeOK DEF IInv
  <2>2. UNCHANGED <<sess, reader, dial, released, shutting, rtask, task, tear,
                    victim, setup, flow, loaded>>
    BY <1>1 DEF vars, clientVars, flagVars, taskVars, tearVars, entryVars
  <2>3. QED
    BY <2>1, <2>2, QuietKeepsIInv
<1>2. CASE Next
  BY <1>2, TaskKeepsIInv, SetupKeepsIInv, FlowKeepsIInv, CloserKeepsIInv,
     ElsewhereKeepsIInv DEF Next, Elsewhere
<1>3. QED
  BY <1>1, <1>2

\* With one flow, IInv always holds.
THEOREM PhasesStayApart ==
  ASSUME SingleFlow
  PROVE  Spec => []IInv
<1>1. IInv /\ [Next]_vars => IInv'
  BY NextKeepsIInv
<1>2. QED
  BY InitIInv, <1>1, PTL DEF Spec

LEMMA IInvGivesOneSocket ==
  ASSUME IInv, SingleFlow
  PROVE  OneSocket
<1> SUFFICES ASSUME ~StoppingWhileLoaded, NEW a \in Dialers, Holding(a)
             PROVE  /\ \A b \in Dialers : Holding(b) => a = b
                    /\ ~Alive
  BY DEF OneSocket
<1>1. \A t \in Tasks : Holding(t) => Live(t)
  BY DEF IInv, DialsHaveCallers, Holding, Live
<1>2. \A f \in Flows : Holding(f) =>
        /\ sess = "none"
        /\ \A t \in Tasks : ~Live(t)
  BY DEF IInv, DialsHaveCallers, ProbeAlone, ResumeAlone, Holding
<1>3. Holding(Setup) =>
        /\ sess = "none"
        /\ \A t \in Tasks : ~Live(t)
        /\ \A f \in Flows : ~Holding(f)
  BY DEF IInv, DialsHaveCallers, SetupFirst, Holding, Live
<1>4. \A t \in Tasks : Live(t) => ~Alive /\ \A u \in Tasks : Live(u) => u = t
  BY DEF IInv, OneRunner
<1>5. QED
  BY <1>1, <1>2, <1>3, <1>4 DEF Dialers, SingleFlow, Alive

LEMMA IInvGivesSilence ==
  ASSUME IInv
  PROVE  NoDialAfterShutdown
<1> SUFFICES ASSUME NEW p \in {Setup, Unload}, tear[p] = "done",
                    NEW t \in Tasks
             PROVE  task[t] # "sleep" /\ ~Holding(t)
  BY DEF NoDialAfterShutdown
<1>1. Live(t) => task[t] = "top" \/ dial[t] = "closing"
  BY DEF IInv, ShutdownSilences
<1>2. dial[t] # "idle" <=> task[t] = "connect"
  BY DEF IInv, DialsHaveCallers
<1>3. QED
  BY <1>1, <1>2 DEF Live, Holding

\* No two connect() calls of the entry and its flow overlap, and none is made
\* on top of a session nobody has lost, until Home Assistant stops under a
\* loaded entry.
THEOREM OneSocketAlways ==
  ASSUME SingleFlow
  PROVE  Spec => []OneSocket
<1>1. IInv => OneSocket
  BY IInvGivesOneSocket
<1>2. QED
  BY PhasesStayApart, <1>1, PTL

\* With one flow its probe has the module's one place to itself: nothing else
\* of the entry dials or has a session (async_release_session waits for what
\* it cancelled).  LoanIsRespected fails with two.
THEOREM ALoneFlowIsRespected ==
  ASSUME SingleFlow
  PROVE  Spec => []LoanIsRespected
<1>1. IInv => LoanIsRespected
  <2> SUFFICES ASSUME IInv, NEW f \in Flows, flow[f] = "probe", ~shutting
               PROVE  /\ ~Alive
                      /\ \A t \in Tasks : ~Holding(t)
                      /\ \A g \in Flows : flow[g] # "resume"
    BY DEF LoanIsRespected
  <2>1. sess = "none" /\ \A t \in Tasks : ~Live(t)
    BY DEF IInv, ProbeAlone, StoppingWhileLoaded
  <2>2. \A t \in Tasks : Holding(t) => Live(t)
    BY DEF IInv, DialsHaveCallers, Holding, Live
  <2> QED
    BY <2>1, <2>2 DEF Alive, SingleFlow
<1>2. QED
  BY PhasesStayApart, <1>1, PTL

\* A coordinator that has been shut down, by an unload, a stop or a setup that
\* failed after its login, has no reconnect task that dials.
THEOREM ShutdownIsFinal ==
  ASSUME SingleFlow
  PROVE  Spec => []NoDialAfterShutdown
<1>1. IInv => NoDialAfterShutdown
  BY IInvGivesSilence
<1>2. QED
  BY PhasesStayApart, <1>1, PTL

\* A probe's client is its own: no step turns its login into the entry's session.
LEMMA ProbesEstablishNothing ==
  ASSUME IInv, [Next]_vars, SingleFlow, NEW f \in Flows, flow[f] = "probe",
         dial[f] = "admitted"
  PROVE  ~Establish(f)
<1> SUFFICES ASSUME dial'[f] = "idle" PROVE FALSE
  BY DEF Establish, IInv, TypeOK, Dialers
<1>0. /\ dial \in [Dialers -> DialStates] /\ f \in Dialers
      /\ \A g \in Flows : g = f
      /\ \A t \in Tasks : t # f /\ t \in Dialers
      /\ Setup # f /\ Setup \in Dialers
  BY IdentitiesAssumption DEF IInv, TypeOK, Dialers, SingleFlow
<1>1. \A v : Cancel(v) => dial'[f] = dial[f]
  BY <1>0 DEF Cancel, Waiting, InLogin, CloseDial
<1>2. ASSUME NEW t \in Tasks, TaskStep(t) PROVE FALSE
  BY <1>0, <1>2 DEF TaskStep, TaskStarts, TaskWakes, TaskConnected,
     TaskConnectFails, TaskCancelled, TaskDumped, ConnectStep, DialOpens,
     LoginFails, CloseDial, ConnectRaises, Establish, StartDial, clientVars
<1>3. CASE SetupStep
  BY <1>0, <1>3 DEF SetupStep, SetupDials, SetupConnectFails, SetupConnected,
     SetupDumped, SetupDumpFails, ConnectStep, DialOpens, LoginFails,
     CloseDial, ConnectRaises, Establish, StartDial, clientVars
<1>4. CASE SubmitReconfigure(f) \/ FlowStep(f)
  BY <1>0, <1>4 DEF FlowStep, SubmitReconfigure, ProbeStarts, ProbeLeaves,
     ProbeEnds, ResumeConnected, ResumeConnectFails, ResumeDumped, ConnectStep,
     DialOpens, LoginFails, CloseDial, StartDial, clientVars
<1>5. ASSUME NEW p \in Closers, CloserStep(p) PROVE FALSE
  BY <1>1, <1>5 DEF CloserStep, CancelReconnect, StopReader, CloseWriter
<1>6. CASE Elsewhere \/ UNCHANGED vars
  BY <1>6 DEF Elsewhere, ReaderStep, ReaderEnds, ReaderCancelled, ShutdownEnds,
     UnloadStarts, ShutdownStarts, KeepAlive, SessionLost, TcpGivesUp,
     ModuleNotices, Outside, vars, clientVars
<1> QED
  BY <1>0, <1>2, <1>3, <1>4, <1>5, <1>6 DEF Next, Elsewhere

LEMMA OnlyALostSessionIsReplaced ==
  ASSUME IInv, [Next]_vars, SingleFlow, NEW a \in Dialers, Establish(a)
  PROVE  reader \in {"none", "ended"} /\ ~Alive
<1>1. dial[a] = "admitted"
  BY DEF Establish
<1>2. CASE a \in Tasks
  BY <1>1, <1>2 DEF IInv, DialsHaveCallers, OneRunner, Live
<1>3. CASE a = Setup
  BY <1>1, <1>3 DEF IInv, DialsHaveCallers, SetupFirst, Alive
<1>4. CASE a \in Flows
  <2>1. flow[a] # "probe"
    BY <1>1, <1>4, ProbesEstablishNothing
  <2>2. flow[a] = "resume"
    BY <1>1, <1>4, <2>1 DEF IInv, DialsHaveCallers
  <2> QED
    BY <1>4, <2>2 DEF IInv, ResumeAlone, Alive
<1> QED
  BY <1>2, <1>3, <1>4 DEF Dialers

\* Whenever a login succeeds and connect() takes _writer and _read_task over,
\* for setup, a reconnect task or a resume, the read loop that was there before
\* is over and its session lost or closed.  (EnvisalinkClient.connect.)
THEOREM ReadersAreNotDropped ==
  ASSUME SingleFlow
  PROVE  Spec => NoReaderDropped
<1>1. IInv /\ [Next]_vars =>
        [(\E a \in Dialers : Establish(a)) =>
           reader \in {"none", "ended"} /\ ~Alive]_vars
  BY OnlyALostSessionIsReplaced
<1>2. QED
  BY PhasesStayApart, <1>1, PTL DEF Spec, NoReaderDropped
=============================================================================
