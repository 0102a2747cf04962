--------------------------- MODULE TpiSessionService ---------------------------
(***************************************************************************)
(* What the session promises the rest of the entry, for every set of tasks *)
(* and faults.  However many reconfigure flows are open, it is never lent  *)
(* for nothing and the connected flag tells the truth.  With a single one, *)
(* by induction on top of IInv, it is never forgotten, the repair issue is *)
(* honest, and TpiSession implements SessionLoan.                          *)
(***************************************************************************)
EXTENDS TpiSessionSafety, SessionRefinement

-----------------------------------------------------------------------------
(* However many flows are open: the connected flag, and whose the loan is. *)

\* Whoever may read connected as true finds a read loop, at any time; the
\* converse waits for setup.
FlagIsBacked == connected => reader \in {"reading", "cancelled"}

\* Nobody borrows the session before setup is done, and a setup that shuts
\* down again never is.
SetupLendsNothing ==
    /\ setup # "done" =>
        /\ ~released /\ ~loaded
        /\ \A f \in Flows : flow[f] = "idle" /\ tear[f] = "idle"
    /\ tear[Setup] # "idle" => setup \in {"undo", "failed"}

EInv == FlagIsBacked /\ ConnectedMeansWatched /\ SetupLendsNothing /\ LoanIsOwned

LEMMA InitEInv == Init => EInv
BY IdentitiesAssumption DEF Init, EInv, FlagIsBacked, ConnectedMeansWatched,
   SetupLendsNothing, LoanIsOwned, Closers

\* A step of a reconnect task or of anybody's connect().
LEMMA TaskKeepsEInv ==
  ASSUME TypeOK, EInv, NEW t \in Dialers,
         ConnectStep(t) \/ (t \in Tasks /\ TaskStep(t))
  PROVE  EInv'
<1> USE DEF EInv, flagVars, taskVars, tearVars, entryVars, countVars, clientVars
<1>1. UNCHANGED <<released, shutting, tear, setup, flow, loaded, reload>>
  BY DEF ConnectStep, DialOpens, LoginFails, TaskStep, TaskStarts, TaskWakes,
     TaskConnected, TaskConnectFails, TaskCancelled, TaskDumped
<1>2. \/ UNCHANGED <<connected, reader>>
      \/ connected' = TRUE /\ reader' = "reading"
  BY DEF ConnectStep, DialOpens, LoginFails, TaskStep, TaskStarts, TaskWakes,
     TaskConnected, TaskConnectFails, TaskCancelled, TaskDumped, Establish,
     MarkConnected
<1>3. FlagIsBacked' /\ ConnectedMeansWatched'
  BY <1>1, <1>2 DEF FlagIsBacked, ConnectedMeansWatched
<1>4. SetupLendsNothing' /\ LoanIsOwned'
  BY <1>1 DEF SetupLendsNothing, LoanIsOwned
<1> QED
  BY <1>3, <1>4

\* A step of async_setup.
LEMMA SetupKeepsEInv ==
  ASSUME TypeOK, EInv, SetupStep
  PROVE  EInv'
<1> USE IdentitiesAssumption DEF EInv, flagVars, taskVars, tearVars, entryVars,
        countVars, clientVars
<1>1. CASE SetupDials \/ SetupConnectFails
  BY <1>1 DEF FlagIsBacked, ConnectedMeansWatched, SetupLendsNothing,
     LoanIsOwned, SetupDials, SetupConnectFails
<1>2. CASE SetupConnected
  BY <1>2 DEF FlagIsBacked, ConnectedMeansWatched, SetupLendsNothing,
     LoanIsOwned, SetupConnected, Establish, MarkConnected
<1>3. CASE SetupDumped
  BY <1>3 DEF FlagIsBacked, ConnectedMeansWatched, SetupLendsNothing,
     LoanIsOwned, SetupDumped
<1>4. CASE SetupDumpFails
  BY <1>4 DEF FlagIsBacked, ConnectedMeansWatched, SetupLendsNothing,
     LoanIsOwned, SetupDumpFails, BeginShutdown
<1>5. CASE ConnectStep(Setup)
  BY <1>5, TaskKeepsEInv DEF Dialers
<1> QED
  BY <1>1, <1>2, <1>3, <1>4, <1>5 DEF SetupStep

\* A step of a reconfigure flow: whoever hands the session back or leaves it to
\* a reload was borrowing it, so setup is done.
LEMMA FlowKeepsEInv ==
  ASSUME TypeOK, EInv, NEW f \in Flows, SubmitReconfigure(f) \/ FlowStep(f)
  PROVE  EInv'
<1> USE IdentitiesAssumption DEF EInv, flagVars, taskVars, tearVars, entryVars,
        countVars, clientVars
<1>1. CASE SubmitReconfigure(f)
  <2>1. setup = "done" /\ setup' = "done" /\ tear'[Setup] = tear[Setup]
    BY <1>1 DEF SetupLendsNothing, SubmitReconfigure, TypeOK, Closers
  <2>2. flow'[f] = "release"
    BY <1>1 DEF SubmitReconfigure, TypeOK
  <2>3. UNCHANGED <<connected, reader>>
    BY <1>1 DEF SubmitReconfigure
  <2> QED
    BY <2>1, <2>2, <2>3 DEF FlagIsBacked, ConnectedMeansWatched,
       SetupLendsNothing, LoanIsOwned
<1>2. CASE ProbeStarts(f)
  <2>1. UNCHANGED <<connected, reader, released, shutting, setup, loaded, reload>>
    BY <1>2 DEF ProbeStarts
  <2>2. flow'[f] = "probe" /\ tear'[Setup] = tear[Setup]
    BY <1>2 DEF ProbeStarts, TypeOK, Closers
  <2>3. setup = "done"
    BY <1>2 DEF ProbeStarts, SetupLendsNothing
  <2> QED
    BY <2>1, <2>2, <2>3 DEF FlagIsBacked, ConnectedMeansWatched,
       SetupLendsNothing, LoanIsOwned
<1>3. CASE ProbeLeaves(f)
  BY <1>3 DEF FlagIsBacked, ConnectedMeansWatched, SetupLendsNothing,
     LoanIsOwned, ProbeLeaves
<1>4. CASE ProbeEnds(f)
  <2>1. setup = "done" /\ UNCHANGED <<connected, reader, setup, tear, shutting>>
    BY <1>4 DEF ProbeEnds, SetupLendsNothing
  <2>2. ~released' \/ reload' \/ ~loaded'
    BY <1>4 DEF ProbeEnds, Resume, Store
  <2> QED
    BY <2>1, <2>2 DEF FlagIsBacked, ConnectedMeansWatched, SetupLendsNothing,
       LoanIsOwned
<1>5. CASE ResumeConnected(f) \/ ResumeConnectFails(f) \/ ResumeDumped(f)
  <2>1. /\ setup = "done" /\ UNCHANGED <<released, shutting, setup, tear,
                                         loaded, reload>>
        /\ flow[f] \in {"resume", "dump"}
    BY <1>5 DEF ResumeConnected, ResumeConnectFails, ResumeDumped,
       SetupLendsNothing
  <2>2. \/ UNCHANGED <<connected, reader>>
        \/ connected' = TRUE /\ reader' = "reading"
    BY <1>5 DEF ResumeConnected, ResumeConnectFails, ResumeDumped, Establish,
       MarkConnected
  <2>3. \A g \in Flows : flow[g] \in {"release", "probe"} => flow'[g] = flow[g]
    BY <1>5, <2>1 DEF ResumeConnected, ResumeConnectFails, ResumeDumped, TypeOK
  <2>4. LoanIsOwned'
    BY <2>1, <2>3 DEF LoanIsOwned
  <2> QED
    BY <2>1, <2>2, <2>4 DEF FlagIsBacked, ConnectedMeansWatched,
       SetupLendsNothing
<1>6. CASE ConnectStep(f)
  BY <1>6, TaskKeepsEInv DEF Dialers
<1> QED
  BY <1>1, <1>2, <1>3, <1>4, <1>5, <1>6 DEF FlowStep

\* A step of a release or a shutdown.
LEMMA CloserKeepsEInv ==
  ASSUME TypeOK, EInv, NEW p \in Closers, CloserStep(p)
  PROVE  EInv'
<1> USE IdentitiesAssumption DEF EInv, flagVars, taskVars, tearVars, entryVars,
        countVars, clientVars
<1>1. UNCHANGED <<connected, released, shutting, setup, flow, loaded, reload>>
  BY DEF CloserStep, CancelReconnect, StopReader, CloseWriter
<1>2. \/ reader' = reader
      \/ reader = "reading" /\ reader' = "cancelled"
      \/ reader = "ended" /\ reader' = "none"
  BY DEF CloserStep, CancelReconnect, StopReader, CloseWriter
<1>3. tear[p] # "idle" /\ \A q \in Closers : q # p => tear'[q] = tear[q]
  BY DEF CloserStep, CancelReconnect, StopReader, CloseWriter, TakeWriter,
     TypeOK
<1>4. FlagIsBacked' /\ ConnectedMeansWatched'
  BY <1>1, <1>2 DEF FlagIsBacked, ConnectedMeansWatched
<1>5. SetupLendsNothing'
  BY <1>1, <1>3 DEF SetupLendsNothing, Closers
<1>6. LoanIsOwned'
  BY <1>1 DEF LoanIsOwned
<1> QED
  BY <1>4, <1>5, <1>6

\* A step of the read loop, the entry or the module.
LEMMA ElsewhereKeepsEInv ==
  ASSUME TypeOK, EInv, Elsewhere
  PROVE  EInv'
<1> USE IdentitiesAssumption DEF EInv, flagVars, taskVars, tearVars, entryVars,
        countVars, clientVars
<1>1. CASE ReaderStep
  BY <1>1 DEF FlagIsBacked, ConnectedMeansWatched, SetupLendsNothing,
     LoanIsOwned, ReaderStep, ReaderEnds, ReaderCancelled, HandleDisconnect
<1>2. CASE ShutdownEnds
  <2>1. UNCHANGED <<connected, reader, released, shutting, flow, loaded, reload>>
    BY <1>2 DEF ShutdownEnds
  <2>2. PICK p \in {Setup, Unload} :
           /\ tear[p] = "socket" /\ tear' = [tear EXCEPT ![p] = "done"]
           /\ setup' = IF p = Setup THEN "failed" ELSE setup
    BY <1>2 DEF ShutdownEnds
  <2>3. \A q \in Closers : q # p => tear'[q] = tear[q]
    BY <2>2 DEF TypeOK, Closers
  <2>4. CASE p = Setup
    <3>1. setup \in {"undo", "failed"} /\ setup' = "failed"
      BY <2>2, <2>4 DEF SetupLendsNothing
    <3> QED
      BY <2>1, <2>3, <2>4, <3>1 DEF FlagIsBacked, ConnectedMeansWatched,
         SetupLendsNothing, LoanIsOwned, Closers
  <2>5. CASE p # Setup
    <3>1. setup' = setup /\ p = Unload
      BY <2>2, <2>5
    <3> QED
      BY <2>1, <2>3, <2>5, <3>1 DEF FlagIsBacked, ConnectedMeansWatched,
         SetupLendsNothing, LoanIsOwned, Closers
  <2> QED
    BY <2>4, <2>5
<1>3. CASE UnloadStarts
  BY <1>3 DEF FlagIsBacked, ConnectedMeansWatched, SetupLendsNothing,
     LoanIsOwned, UnloadStarts
<1>4. CASE ShutdownStarts
  <2>1. /\ setup = "done" /\ shutting' = TRUE
        /\ UNCHANGED <<connected, reader, setup>>
    BY <1>4 DEF ShutdownStarts, BeginShutdown
  <2>2. tear'[Setup] = tear[Setup]
    BY <1>4 DEF ShutdownStarts, BeginShutdown, TypeOK, Closers
  <2> QED
    BY <2>1, <2>2 DEF FlagIsBacked, ConnectedMeansWatched, SetupLendsNothing,
       LoanIsOwned
<1>5. CASE SessionLost \/ TcpGivesUp \/ KeepAlive \/ ModuleNotices \/ Outside
  <2>1. UNCHANGED <<reader, flagVars, tear, entryVars>>
    BY <1>5 DEF SessionLost, TcpGivesUp, KeepAlive, ModuleNotices, Outside
  <2> QED
    BY <2>1 DEF FlagIsBacked, ConnectedMeansWatched, SetupLendsNothing,
       LoanIsOwned
<1> QED
  BY <1>1, <1>2, <1>3, <1>4, <1>5 DEF Elsewhere

LEMMA NextKeepsEInv ==
  ASSUME TypeOK, EInv, [Next]_vars
  PROVE  EInv'
<1>1. CASE UNCHANGED vars
  BY <1>1 DEF vars, clientVars, flagVars, tearVars, entryVars, EInv,
     FlagIsBacked, ConnectedMeansWatched, SetupLendsNothing, LoanIsOwned
<1>2. CASE Next
  BY <1>2, TaskKeepsEInv, SetupKeepsEInv, FlowKeepsEInv, CloserKeepsEInv,
     ElsewhereKeepsEInv DEF Next, Elsewhere, Dialers
<1> QED
  BY <1>1, <1>2

LEMMA FlagAndLoan == Spec => []EInv
<1>1. TypeOK /\ EInv /\ [Next]_vars => EInv'
  BY NextKeepsEInv
<1> QED
  BY TypeCorrect, InitEInv, <1>1, PTL DEF Spec

\* _session_released is up only while a flow has the session or the entry is on
\* its way to a reload; for any number of flows.
THEOREM LoansAreOwned == Spec => []LoanIsOwned
<1>1. EInv => LoanIsOwned
  BY DEF EInv
<1> QED
  BY FlagAndLoan, <1>1, PTL

\* Entities are available exactly while a read loop watches the session; for any
\* number of flows.
THEOREM ConnectedIsWatched == Spec => []ConnectedMeansWatched
<1>1. EInv => ConnectedMeansWatched
  BY DEF EInv
<1> QED
  BY FlagAndLoan, <1>1, PTL

-----------------------------------------------------------------------------
(* With a single flow: the session is never forgotten, the issue is honest. *)

\* A cancelled dial is somebody's: a release that has not seen its end yet, or
\* a shutdown's.
CancelledAreTaken ==
    \A t \in Tasks : err[t] = "cancel" =>
        /\ dial[t] = "closing"
        /\ shutting \/ \E f \in Flows : flow[f] = "release" /\ victim[f] = t

\* NeverForgotten, from the moment setup has a session, which nobody borrows.
Attended ==
    /\ setup # "done" => ~released
    /\ setup \in {"dump", "done"} /\ ~shutting /\ ~released =>
        \/ reader = "reading"
        \/ \E t \in Tasks : Live(t)
        \/ \E f \in Flows : flow[f] = "resume"

SInv ==
    /\ IssueIsHonest
    /\ CancelledAreTaken
    /\ Attended

LEMMA InitSInv == Init => SInv
BY IdentitiesAssumption DEF Init, SInv, IssueIsHonest, CancelledAreTaken,
   Attended, Dialers

\* Cancelling v marks at most v's dial as cancelled, and only then.
LEMMA CancelMarks ==
  ASSUME TypeOK, DialsHaveCallers, CancelledAreTaken, NEW v \in Tasks \cup {None},
         Cancel(v), NEW t \in Tasks, err'[t] = "cancel"
  PROVE  dial'[t] = "closing" /\ (t = v \/ err[t] = "cancel")
<1> USE IdentitiesAssumption DEF TypeOK, DialsHaveCallers, CancelledAreTaken,
        Cancel, Waiting, InLogin, Dialers
<1>1. CASE Waiting(v)
  BY <1>1
<1>2. CASE InLogin(v)
  BY <1>2 DEF CloseDial
<1>3. CASE ~Waiting(v) /\ ~InLogin(v)
  BY <1>3
<1>4. QED
  BY <1>1, <1>2, <1>3

\* A step inside anybody's connect().
LEMMA ConnectKeepsSInv ==
  ASSUME IInv, SInv, NEW a \in Dialers, ConnectStep(a)
  PROVE  SInv'
<1> USE DEF SInv, flagVars, taskVars, tearVars, entryVars, countVars
<1>1. CancelledAreTaken'
  <2> SUFFICES ASSUME NEW t \in Tasks, err'[t] = "cancel"
               PROVE  /\ dial'[t] = "closing"
                      /\ shutting \/ \E f \in Flows :
                           flow[f] = "release" /\ victim[f] = t
    BY DEF CancelledAreTaken, ConnectStep, DialOpens, LoginFails
  <2>1. err[t] = "cancel"
    BY DEF ConnectStep, DialOpens, LoginFails, CloseDial, IInv, TypeOK, Dialers
  <2>2. dial[t] = "closing"
    BY <2>1 DEF CancelledAreTaken
  <2>3. dial'[t] = "closing"
    BY <2>2 DEF ConnectStep, DialOpens, LoginFails, CloseDial, IInv, TypeOK,
       Dialers
  <2>4. QED
    BY <2>1, <2>3 DEF CancelledAreTaken
<1>2. QED
  BY <1>1 DEF IssueIsHonest, Attended, Live, ConnectStep, DialOpens, LoginFails

\* A step of a reconnect task.
LEMMA TaskKeepsSInv ==
  ASSUME IInv, FlagIsBacked, SInv, NEW t \in Tasks, TaskStep(t)
  PROVE  SInv'
<1> USE DEF SInv, flagVars, taskVars, tearVars, entryVars, countVars, clientVars
<1>1. CASE TaskStarts(t)
  BY SMTT(10), <1>1 DEF IInv, TypeOK, IssueIsHonest, CancelledAreTaken,
     Attended, Live, TaskStarts, LoopTop
<1>2. CASE TaskWakes(t)
  <2>1. dial[t] = "idle"
    BY <1>2 DEF IInv, TypeOK, DialStates, DialsHaveCallers, TaskWakes
  <2>2. QED
    BY SMTT(10), <1>2, <2>1 DEF IInv, TypeOK, IssueIsHonest, CancelledAreTaken,
       Attended, Live, TaskWakes, StartDial
<1>3. CASE TaskConnected(t)
  BY SMTT(10), <1>3 DEF IInv, TypeOK, IssueIsHonest, CancelledAreTaken,
     Attended, TaskConnected, Establish, MarkConnected
<1>4. CASE TaskConnectFails(t)
  <2>1. ~connected
    BY <1>4 DEF IInv, OneRunner, Live, TaskConnectFails, FlagIsBacked
  <2>2. IssueIsHonest'
    BY SMTT(10), <1>4, <2>1, NumbersAssumption DEF IInv, TypeOK, IssueIsHonest,
       TaskConnectFails
  <2>3. CancelledAreTaken'
    BY SMTT(10), <1>4 DEF IInv, TypeOK, CancelledAreTaken, TaskConnectFails,
       ConnectRaises, Dialers
  <2>4. QED
    BY SMTT(10), <1>4, <2>2, <2>3 DEF IInv, TypeOK, Attended, Live,
       TaskConnectFails, LoopTop
<1>5. CASE TaskCancelled(t)
  <2>1. shutting \/ \E f \in Flows : flow[f] = "release"
    BY <1>5 DEF TaskCancelled, ConnectRaises, CancelledAreTaken, IInv,
       DialsHaveCallers
  <2>2. shutting \/ released
    BY <2>1 DEF IInv, TearsAreFlagged
  <2>3. QED
    BY SMTT(10), <1>5, <2>2 DEF IInv, TypeOK, IssueIsHonest, CancelledAreTaken,
       Attended, TaskCancelled, ConnectRaises, Dialers
<1>6. CASE TaskDumped(t)
  BY SMTT(10), <1>6 DEF IInv, TypeOK, IssueIsHonest, CancelledAreTaken,
     Attended, Live, TaskDumped
<1>7. CASE ConnectStep(t)
  BY <1>7, ConnectKeepsSInv DEF Dialers
<1>8. QED
  BY <1>1, <1>2, <1>3, <1>4, <1>5, <1>6, <1>7 DEF TaskStep

\* A step of async_setup.
LEMMA SetupKeepsSInv ==
  ASSUME IInv, SInv, SetupStep
  PROVE  SInv'
<1> USE IdentitiesAssumption DEF SInv, flagVars, taskVars, tearVars, entryVars,
        countVars, clientVars
<1>1. CASE SetupDials
  BY SMTT(10), <1>1 DEF IInv, TypeOK, IssueIsHonest, CancelledAreTaken,
     Attended, SetupDials, StartDial
<1>2. CASE SetupConnectFails
  BY SMTT(10), <1>2 DEF IInv, TypeOK, IssueIsHonest, CancelledAreTaken,
     Attended, SetupConnectFails, ConnectRaises
<1>3. CASE SetupConnected
  BY SMTT(10), <1>3 DEF IInv, TypeOK, IssueIsHonest, CancelledAreTaken,
     Attended, SetupConnected, Establish, MarkConnected
<1>4. CASE SetupDumped
  BY SMTT(10), <1>4 DEF IssueIsHonest, CancelledAreTaken, Attended, Live,
     SetupDumped
<1>5. CASE SetupDumpFails
  BY SMTT(10), <1>5 DEF IssueIsHonest, CancelledAreTaken, Attended,
     SetupDumpFails, BeginShutdown
<1>6. CASE ConnectStep(Setup)
  BY <1>6, ConnectKeepsSInv DEF Dialers
<1>7. QED
  BY <1>1, <1>2, <1>3, <1>4, <1>5, <1>6 DEF SetupStep

\* A step of a reconfigure flow.
LEMMA FlowKeepsSInv ==
  ASSUME IInv, SInv, NEW f \in Flows, SubmitReconfigure(f) \/ FlowStep(f)
  PROVE  SInv'
<1> USE IdentitiesAssumption DEF SInv, flagVars, taskVars, tearVars, entryVars,
        countVars, clientVars
<1>1. CASE SubmitReconfigure(f)
  <2>1. CancelledAreTaken'
    <3> SUFFICES ASSUME NEW t \in Tasks, err'[t] = "cancel"
                 PROVE  /\ dial'[t] = "closing"
                        /\ shutting \/ \E g \in Flows :
                             flow'[g] = "release" /\ victim'[g] = t
      BY <1>1 DEF CancelledAreTaken, SubmitReconfigure
    <3>1. dial'[t] = "closing" /\ (t = rtask \/ err[t] = "cancel")
      BY <1>1, CancelMarks DEF IInv, TypeOK, SubmitReconfigure
    <3>2. CASE t = rtask
      BY <1>1, <3>1, <3>2 DEF IInv, TypeOK, SubmitReconfigure, Closers
    <3>3. CASE err[t] = "cancel"
      BY <1>1, <3>1, <3>3 DEF IInv, TypeOK, SubmitReconfigure, Closers,
         CancelledAreTaken
    <3> QED
      BY <3>1, <3>2, <3>3
  <2>2. setup = "done"
    BY <1>1 DEF IInv, SetupFirst, SubmitReconfigure
  <2>3. QED
    BY SMTT(10), <1>1, <2>1, <2>2 DEF IInv, TypeOK, IssueIsHonest, Attended,
       SubmitReconfigure
<1>2. CASE ProbeStarts(f)
  <2>1. victim[f] = None /\ flow[f] = "release"
    BY <1>2 DEF IInv, TearsAreFlagged, ProbeStarts, Closers
  <2>2. QED
    BY SMTT(10), <1>2, <2>1 DEF IInv, TypeOK, IssueIsHonest, CancelledAreTaken,
       Attended, Live, ProbeStarts, StartDial
<1>3. CASE ProbeLeaves(f)
  <2>1. \A t \in Tasks : t # f /\ err'[t] = err[t] /\ dial'[t] = dial[t]
    BY <1>3 DEF IInv, TypeOK, ProbeLeaves, CloseDial, Dialers
  <2>2. QED
    BY SMTT(10), <1>3, <2>1 DEF IssueIsHonest, CancelledAreTaken, Attended,
       Live, ProbeLeaves
<1>4. CASE ProbeEnds(f)
  <2>1. setup = "done" /\ flow[f] = "probe" /\ released
    BY <1>4 DEF IInv, SetupFirst, TearsAreFlagged, ProbeEnds
  <2>2. \A t \in Tasks : t # f /\ err'[t] = err[t] /\ dial'[t] = dial[t]
    BY <1>4 DEF IInv, TypeOK, ProbeEnds, Resume, Store, StartDial, Dialers
  <2>3. CancelledAreTaken'
    <3>1. \A g \in Flows : flow[g] = "release" => flow'[g] = "release"
      BY <1>4, <2>1 DEF IInv, TypeOK, ProbeEnds, Resume, Store
    <3> QED
      BY <1>4, <2>2, <3>1 DEF CancelledAreTaken, ProbeEnds
  <2>4. Attended'
    <3>1. ASSUME Resume(f) PROVE Attended'
      <4>1. shutting \/ ~ClientConnected
        BY <2>1 DEF IInv, ProbeAlone, StoppingWhileLoaded, ClientConnected
      <4> QED
        BY SMTT(10), <1>4, <2>1, <3>1, <4>1 DEF IInv, TypeOK, Attended,
           ProbeEnds, Resume
    <3>2. ASSUME Store(f) PROVE Attended'
      BY SMTT(10), <1>4, <2>1, <3>2 DEF IInv, TypeOK, Attended, Live,
         ProbeEnds, Store
    <3> QED
      BY <1>4, <3>1, <3>2 DEF ProbeEnds
  <2>5. QED
    BY SMTT(10), <1>4, <2>3, <2>4 DEF IssueIsHonest, ProbeEnds
<1>5. CASE ResumeConnected(f)
  BY SMTT(10), <1>5 DEF IInv, TypeOK, IssueIsHonest, CancelledAreTaken,
     Attended, ResumeConnected, Establish, MarkConnected
<1>6. CASE ResumeConnectFails(f)
  <2>1. PICK t \in Tasks : task' = [task EXCEPT ![t] = "top"]
    BY <1>6 DEF ResumeConnectFails, CreateReconnectTask
  <2>2. task'[t] = "top"
    BY <2>1 DEF IInv, TypeOK
  <2>3. QED
    BY SMTT(10), <1>6, <2>2 DEF IInv, TypeOK, IssueIsHonest, CancelledAreTaken,
       Attended, Live, ResumeConnectFails, ConnectRaises
<1>7. CASE ResumeDumped(f)
  BY SMTT(10), <1>7 DEF IInv, TypeOK, IssueIsHonest, CancelledAreTaken,
     Attended, Live, ResumeDumped
<1>8. CASE ConnectStep(f)
  BY <1>8, ConnectKeepsSInv DEF Dialers
<1>9. QED
  BY <1>1, <1>2, <1>3, <1>4, <1>5, <1>6, <1>7, <1>8 DEF FlowStep

\* A step of a release or a shutdown: its flag is up.
LEMMA CloserKeepsSInv ==
  ASSUME IInv, SInv, NEW p \in Closers, CloserStep(p)
  PROVE  SInv'
<1> USE IdentitiesAssumption DEF SInv, flagVars, taskVars, tearVars, entryVars,
        countVars, clientVars
<1>0. shutting \/ released
  <2>1. tear[p] # "idle"
    BY DEF CloserStep, CancelReconnect, StopReader, CloseWriter
  <2>2. QED
    BY <2>1 DEF IInv, TearsAreFlagged, Closers
<1>1. CASE CancelReconnect(p)
  <2>1. shutting
    BY <1>1 DEF IInv, TearsAreFlagged, CancelReconnect, Closers
  <2>2. CancelledAreTaken'
    <3>1. \A t \in Tasks : err'[t] = "cancel" => dial'[t] = "closing"
      BY <1>1, CancelMarks DEF IInv, TypeOK, CancelReconnect
    <3> QED
      BY <1>1, <2>1, <3>1 DEF CancelledAreTaken, CancelReconnect
  <2>3. QED
    BY SMTT(10), <1>1, <2>1, <2>2 DEF IssueIsHonest, Attended, CancelReconnect
<1>2. CASE StopReader(p)
  <2>1. CancelledAreTaken'
    <3> SUFFICES ASSUME NEW t \in Tasks, err[t] = "cancel"
                 PROVE  /\ dial[t] = "closing"
                        /\ shutting \/ \E g \in Flows :
                             flow[g] = "release" /\ victim'[g] = t
      BY <1>2 DEF CancelledAreTaken, StopReader
    <3>1. dial[t] = "closing" /\ task[t] = "connect"
      BY DEF CancelledAreTaken, IInv, DialsHaveCallers
    <3>2. victim[p] # t
      BY <1>2, <3>1 DEF StopReader, TaskOver
    <3> QED
      BY <1>2, <3>1, <3>2 DEF IInv, TypeOK, Closers, CancelledAreTaken,
         StopReader
  <2>2. QED
    BY SMTT(10), <1>0, <1>2, <2>1 DEF IssueIsHonest, Attended, StopReader,
       TakeWriter
<1>3. CASE CloseWriter(p)
  BY SMTT(10), <1>0, <1>3 DEF IssueIsHonest, CancelledAreTaken, Attended, Live,
     CloseWriter, TakeWriter
<1>4. QED
  BY <1>1, <1>2, <1>3 DEF CloserStep

\* A step of the read loop, the entry or the module.
LEMMA ElsewhereKeepsSInv ==
  ASSUME IInv, SInv, Elsewhere
  PROVE  SInv'
<1> USE IdentitiesAssumption DEF SInv, flagVars, taskVars, tearVars, entryVars,
        countVars, clientVars
<1>1. CASE ReaderEnds \/ ReaderCancelled
  <2>1. connected' = FALSE /\ reader' \in {"none", "ended"}
    BY <1>1 DEF ReaderEnds, ReaderCancelled, HandleDisconnect
  <2>2. (shutting \/ released) \/ \E t \in Tasks : Live(t)'
    <3>1. shutting \/ released \/ \E t \in Tasks :
            task' = [task EXCEPT ![t] = "top"]
      BY <1>1 DEF ReaderEnds, ReaderCancelled, HandleDisconnect,
         CreateReconnectTask
    <3> QED
      BY <3>1 DEF IInv, TypeOK, Live
  <2>3. QED
    BY SMTT(10), <1>1, <2>1, <2>2 DEF IssueIsHonest, CancelledAreTaken,
       Attended, ReaderEnds, ReaderCancelled
<1>2. CASE ShutdownEnds
  BY SMTT(10), <1>2 DEF IInv, TearsAreFlagged, SetupFirst, IssueIsHonest,
     CancelledAreTaken, Attended, ShutdownEnds
<1>3. CASE UnloadStarts
  BY SMTT(10), <1>3 DEF IssueIsHonest, CancelledAreTaken, Attended, Live,
     UnloadStarts
<1>4. CASE ShutdownStarts
  BY SMTT(10), <1>4 DEF IssueIsHonest, CancelledAreTaken, Attended,
     ShutdownStarts, BeginShutdown
<1>5. CASE SessionLost \/ TcpGivesUp \/ KeepAlive \/ ModuleNotices \/ Outside
  <2>1. UNCHANGED <<reader, dial, err, countVars, flagVars, taskVars, tearVars,
                    entryVars>>
    BY <1>5 DEF SessionLost, TcpGivesUp, KeepAlive, ModuleNotices, Outside
  <2>2. QED
    BY <2>1 DEF IssueIsHonest, CancelledAreTaken, Attended, Live
<1>6. QED
  BY <1>1, <1>2, <1>3, <1>4, <1>5 DEF Elsewhere, ReaderStep

LEMMA NextKeepsSInv ==
  ASSUME IInv, EInv, SInv, [Next]_vars
  PROVE  SInv'
<1>1. CASE UNCHANGED vars
  BY <1>1 DEF vars, clientVars, countVars, flagVars, taskVars, tearVars,
     entryVars, SInv, IssueIsHonest, CancelledAreTaken, Attended, Live
<1>2. CASE Next
  BY <1>2, TaskKeepsSInv, SetupKeepsSInv, FlowKeepsSInv, CloserKeepsSInv,
     ElsewhereKeepsSInv DEF Next, Elsewhere, EInv
<1>3. QED
  BY <1>1, <1>2

LEMMA ServiceIsKept ==
  ASSUME SingleFlow
  PROVE  Spec => []SInv
<1>1. IInv /\ EInv /\ SInv /\ [Next]_vars => SInv'
  BY NextKeepsSInv
<1>2. QED
  BY PhasesStayApart, FlagAndLoan, InitSInv, <1>1, PTL DEF Spec

\* Between setup and shutdown, unless it is lent out, somebody is always there
\* to bring the session back (_handle_disconnect, _reconnect_loop and
\* async_resume_session together).
THEOREM SessionsAreNeverForgotten ==
  ASSUME SingleFlow
  PROVE  Spec => []NeverForgotten
<1>1. SInv => NeverForgotten
  BY DEF SInv, Attended, NeverForgotten, Live
<1>2. QED
  BY ServiceIsKept, <1>1, PTL

\* The repair issue is raised only in an outage that has lasted, and goes with
\* it, for any threshold.
THEOREM IssuesAreHonest ==
  ASSUME SingleFlow
  PROVE  Spec => []IssueIsHonest
<1>1. SInv => IssueIsHonest
  BY DEF SInv
<1>2. QED
  BY ServiceIsKept, <1>1, PTL

-----------------------------------------------------------------------------
(* The loan: a step of the session dials, lends, hands back, stops, or     *)
(* leaves at most the owner's socket closed.                               *)

\* While the session is lent no coroutine of the entry is going to dial.
LentIsQuiet ==
    released /\ ~StoppingWhileLoaded =>
        /\ \A t \in Tasks : Live(t) => dial[t] = "closing"
        /\ \A f \in Flows : flow[f] # "resume"

LInv == IInv /\ EInv /\ SInv /\ LentIsQuiet

LEMMA InitLInv == Init => LInv
<1>1. Init => LentIsQuiet
  BY DEF Init, LentIsQuiet
<1> QED
  BY <1>1, InitIInv, InitEInv, InitSInv DEF LInv

LEMMA StoppingIsFinal ==
  ASSUME IInv, [Next]_vars, StoppingWhileLoaded
  PROVE  StoppingWhileLoaded'
<1> USE DEF StoppingWhileLoaded, flagVars, entryVars
<1>1. ~UnloadStarts
  BY DEF UnloadStarts, IInv, SetupFirst, TearsAreFlagged
<1>2. shutting'
  BY DEF Next, TaskStep, SetupStep, FlowStep, ReaderStep, CloserStep,
     TaskStarts, TaskWakes, TaskConnected, TaskConnectFails, TaskCancelled,
     TaskDumped, ConnectStep, DialOpens, LoginFails, SetupDials,
     SetupConnectFails, SetupConnected, SetupDumped, SetupDumpFails,
     BeginShutdown, SubmitReconfigure, ProbeStarts, ProbeLeaves, ProbeEnds,
     ResumeConnected, ResumeConnectFails, ResumeDumped, ReaderEnds,
     ReaderCancelled, CancelReconnect, StopReader, CloseWriter, ShutdownEnds,
     UnloadStarts, ShutdownStarts, KeepAlive, SessionLost, TcpGivesUp,
     ModuleNotices, Outside, vars
<1>3. loaded'
  BY <1>1 DEF Next, TaskStep, SetupStep, FlowStep, ReaderStep, CloserStep,
     TaskStarts, TaskWakes, TaskConnected, TaskConnectFails, TaskCancelled,
     TaskDumped, ConnectStep, DialOpens, LoginFails, SetupDials,
     SetupConnectFails, SetupConnected, SetupDumped, SetupDumpFails,
     SubmitReconfigure, ProbeStarts, ProbeLeaves, ProbeEnds,
     ResumeConnected, ResumeConnectFails, ResumeDumped, ReaderEnds,
     ReaderCancelled, CancelReconnect, StopReader, CloseWriter, ShutdownEnds,
     ShutdownStarts, KeepAlive, SessionLost, TcpGivesUp, ModuleNotices, Outside,
     vars
<1> QED
  BY <1>2, <1>3

-----------------------------------------------------------------------------
(* Nobody of the entry dials while the session is lent.                    *)

LEMMA TaskKeepsQuiet ==
  ASSUME LInv, NEW t \in Tasks, TaskStep(t), ~StoppingWhileLoaded
  PROVE  LentIsQuiet'
<1> SUFFICES ASSUME released PROVE LentIsQuiet'
  BY DEF LentIsQuiet, TaskStep, TaskStarts, TaskWakes, TaskConnected,
     TaskConnectFails, TaskCancelled, TaskDumped, ConnectStep, DialOpens,
     LoginFails, flagVars
<1>1. /\ \A u \in Tasks : Live(u) => dial[u] = "closing"
      /\ \A f \in Flows : flow[f] # "resume"
  BY DEF LInv, LentIsQuiet
<1>2. UNCHANGED flow
  BY DEF TaskStep, TaskStarts, TaskWakes, TaskConnected, TaskConnectFails,
     TaskCancelled, TaskDumped, ConnectStep, DialOpens, LoginFails, entryVars
<1>3. \A u \in Tasks : Live(u)' => Live(u) /\ dial'[u] = dial[u]
  <2> USE DEF LInv, IInv, TypeOK, Live, Dialers, taskVars, clientVars
  <2>1. CASE TaskStarts(t)
    BY <2>1 DEF TaskStarts, LoopTop
  <2>2. CASE TaskWakes(t)
    BY <1>1, <2>2 DEF TaskWakes, DialsHaveCallers, DialStates
  <2>3. CASE TaskConnected(t)
    BY <1>1, <2>3 DEF TaskConnected, Establish
  <2>4. CASE TaskConnectFails(t)
    BY <2>4 DEF TaskConnectFails, ConnectRaises, LoopTop
  <2>5. CASE TaskCancelled(t)
    BY <2>5 DEF TaskCancelled, ConnectRaises
  <2>6. CASE TaskDumped(t)
    BY <2>6 DEF TaskDumped
  <2>7. CASE ConnectStep(t)
    BY <1>1, <2>7 DEF ConnectStep, DialOpens, LoginFails, CloseDial,
       DialsHaveCallers
  <2> QED
    BY <2>1, <2>2, <2>3, <2>4, <2>5, <2>6, <2>7 DEF TaskStep
<1> QED
  BY <1>1, <1>2, <1>3 DEF LentIsQuiet

LEMMA FlowKeepsQuiet ==
  ASSUME LInv, IInv', SingleFlow, NEW f \in Flows,
         SubmitReconfigure(f) \/ FlowStep(f), ~StoppingWhileLoaded'
  PROVE  LentIsQuiet'
<1> USE IdentitiesAssumption DEF LInv, IInv, TypeOK, Live, Dialers
<1>1. CASE SubmitReconfigure(f) \/ ProbeStarts(f)
  <2>1. flow'[f] \in {"release", "probe"}
    BY <1>1 DEF SubmitReconfigure, ProbeStarts
  <2>2. \A t \in Tasks : Live(t)' => dial'[t] = "closing"
    BY <2>1 DEF ReleaseWaits, ProbeAlone
  <2> QED
    BY <2>1, <2>2 DEF LentIsQuiet, SingleFlow
<1>2. CASE ProbeEnds(f)
  <2>1. CASE Resume(f)
    BY <2>1 DEF LentIsQuiet, Resume
  <2>2. CASE Store(f)
    BY <1>2, <2>2 DEF LentIsQuiet, ProbeEnds, Store, ProbeAlone, SingleFlow,
       StoppingWhileLoaded, taskVars
  <2> QED
    BY <1>2, <2>1, <2>2 DEF ProbeEnds
<1>3. CASE ResumeConnected(f) \/ ResumeConnectFails(f)
  <2>1. ~released
    BY <1>3 DEF LentIsQuiet, ResumeConnected, ResumeConnectFails,
       StoppingWhileLoaded, flagVars
  <2> QED
    BY <1>3, <2>1 DEF LentIsQuiet, ResumeConnected, ResumeConnectFails, flagVars
<1>4. CASE ProbeLeaves(f) \/ ResumeDumped(f) \/ ConnectStep(f)
  <2>1. UNCHANGED <<released, shutting, loaded, task>>
    BY <1>4 DEF ProbeLeaves, ResumeDumped, ConnectStep, DialOpens, LoginFails,
       flagVars, taskVars, entryVars
  <2>2. \A t \in Tasks : dial'[t] = dial[t]
    BY <1>4 DEF ProbeLeaves, ResumeDumped, ConnectStep, DialOpens, LoginFails,
       CloseDial, clientVars
  <2>3. \A g \in Flows : flow'[g] = "resume" => flow[g] = "resume"
    BY <1>4 DEF ProbeLeaves, ResumeDumped, ConnectStep, DialOpens, LoginFails,
       entryVars
  <2> QED
    BY <2>1, <2>2, <2>3 DEF LentIsQuiet, StoppingWhileLoaded
<1> QED
  BY <1>1, <1>2, <1>3, <1>4 DEF FlowStep

LEMMA OthersKeepQuiet ==
  ASSUME LInv, ~StoppingWhileLoaded, ~StoppingWhileLoaded',
         SetupStep \/ Elsewhere \/ \E p \in Closers : CloserStep(p)
  PROVE  LentIsQuiet'
<1>0. \A p \in Closers : CancelReconnect(p) => CancelFacts(victim[p])
  BY CancelEffect DEF LInv, IInv, TypeOK, CancelReconnect
<1> USE IdentitiesAssumption DEF LInv, IInv, TypeOK, Live, Dialers
<1>1. CASE SetupStep
  <2>1. ~released /\ UNCHANGED released
    BY <1>1 DEF SInv, Attended, SetupStep, SetupDials, SetupConnectFails,
       SetupConnected, SetupDumped, SetupDumpFails, BeginShutdown, ConnectStep,
       DialOpens, LoginFails, CloseDial, flagVars, SetupFirst, DialsHaveCallers
  <2> QED
    BY <2>1 DEF LentIsQuiet
<1>2. CASE ReaderStep
  <2> SUFFICES ASSUME released PROVE LentIsQuiet'
    BY <1>2 DEF ReaderStep, ReaderEnds, ReaderCancelled, LentIsQuiet
  <2>1. UNCHANGED <<released, task, dial, flow>>
    BY <1>2 DEF ReaderStep, ReaderEnds, ReaderCancelled, HandleDisconnect,
       entryVars
  <2> QED
    BY <2>1 DEF LentIsQuiet
<1>3. ASSUME NEW p \in Closers, CloserStep(p) PROVE LentIsQuiet'
  <2>1. CASE CancelReconnect(p)
    <3>1. CancelFacts(victim[p])
      BY <1>0, <2>1
    <3> QED
      BY <2>1, <3>1 DEF LentIsQuiet, CancelReconnect, CancelFacts, flagVars,
         entryVars
  <2>2. CASE StopReader(p) \/ CloseWriter(p)
    BY <2>2 DEF StopReader, CloseWriter, LentIsQuiet, flagVars, taskVars,
       entryVars
  <2> QED
    BY <1>3, <2>1, <2>2 DEF CloserStep
<1>4. CASE Elsewhere /\ ~ReaderStep
  <2>1. UNCHANGED <<released, task, dial, flow>>
    BY <1>4 DEF Elsewhere, ShutdownEnds, UnloadStarts, ShutdownStarts,
       BeginShutdown, KeepAlive, SessionLost, TcpGivesUp, ModuleNotices, Outside,
       clientVars, flagVars, taskVars, entryVars
  <2> QED
    BY <2>1 DEF LentIsQuiet
<1> QED
  BY <1>1, <1>2, <1>3, <1>4

LEMMA NextKeepsLInv ==
  ASSUME LInv, SingleFlow, [Next]_vars
  PROVE  LInv'
<1>1. IInv' /\ EInv' /\ SInv'
  BY NextKeepsIInv, NextKeepsEInv, NextKeepsSInv DEF LInv, IInv
<1>2. ASSUME ~StoppingWhileLoaded' PROVE LentIsQuiet'
  <2>1. ~StoppingWhileLoaded
    BY <1>2, StoppingIsFinal DEF LInv
  <2>2. CASE UNCHANGED vars
    BY <2>2 DEF LInv, LentIsQuiet, StoppingWhileLoaded, Live, vars, clientVars,
       flagVars, taskVars, entryVars
  <2>3. CASE Next
    BY <1>1, <1>2, <2>1, <2>3, TaskKeepsQuiet, FlowKeepsQuiet, OthersKeepQuiet
       DEF Next, Elsewhere
  <2> QED
    BY <2>2, <2>3
<1> QED
  BY <1>1, <1>2 DEF LInv, LentIsQuiet

LEMMA TheLoanInvariant ==
  ASSUME SingleFlow
  PROVE  Spec => []LInv
<1>1. LInv /\ [Next]_vars => LInv'
  BY NextKeepsLInv
<1> QED
  BY InitLInv, <1>1, PTL DEF Spec

-----------------------------------------------------------------------------
(* The steps and what they are of SessionLoan.                             *)

\* Steps after which no new socket is held leave the owner or nobody.
LEMMA NoNewSocket ==
  ASSUME OneSocket, ~StoppingWhileLoaded,
         \A a \in Dialers : Holding(a)' => Holding(a),
         \A f \in Flows : Holding(f)' => (flow'[f] = "probe" <=> flow[f] = "probe"),
         Alive' => \/ Alive
                   \/ \E a \in Dialers : Holding(a) /\ a \notin Flows
                   \/ \E f \in Flows : Holding(f) /\ flow[f] # "probe"
  PROVE  Owner' \in {Owner, "nobody"}
<1> USE DEF Dialers
<1>1. CASE Owner' = "flow"
  BY <1>1 DEF Owner, Probing
<1>2. CASE Owner' = "entry"
  <2> SUFFICES ~Probing /\ (Alive \/ \E a \in Dialers : Holding(a))
    BY <1>2 DEF Owner
  <2>1. ~Probing' /\ (Alive' \/ \E a \in Dialers : Holding(a)')
    BY <1>2 DEF Owner
  <2>2. Alive \/ \E a \in Dialers : Holding(a)
    BY <2>1
  <2>3. ASSUME NEW f \in Flows, flow[f] = "probe", Holding(f) PROVE FALSE
    <3>1. ~Alive /\ \A a \in Dialers : Holding(a) => a = f
      BY <2>3 DEF OneSocket
    <3>2. ~Alive'
      BY <2>3, <3>1
    <3>3. Holding(f)'
      BY <2>1, <3>1, <3>2
    <3> QED
      BY <2>1, <2>3, <3>3 DEF Probing
  <2> QED
    BY <2>2, <2>3 DEF Probing
<1> QED
  BY <1>1, <1>2 DEF Owner

\* Such a step closes at most the owner's socket.
LEMMA ClosingMaps ==
  ASSUME ~StoppingWhileLoaded, ~StoppingWhileLoaded', released' = released,
         Owner' \in {Owner, "nobody"}
  PROVE  [Loan!Next]_(Loan!lvars)
<1>1. Owner \in {"flow", "entry", "nobody"}
  BY DEF Owner
<1> QED
  BY <1>1 DEF Loan!Next, Loan!lvars, Loan!EntryCloses, Loan!FlowCloses,
     StoppingWhileLoaded

\* A step in which the entry dials.
LEMMA DiallingMaps ==
  ASSUME OneSocket', ~StoppingWhileLoaded, ~StoppingWhileLoaded',
         ~released, released' = released, NEW a \in Dialers, Holding(a)', ~Holding(a),
         a \in Flows => flow'[a] # "probe",
         \A b \in Dialers : b # a => (Holding(b) <=> Holding(b)'), Alive => Alive'
  PROVE  [Loan!Next]_(Loan!lvars)
<1>1. ~Alive' /\ \A b \in Dialers : Holding(b)' => b = a
  BY DEF OneSocket
<1>2. \A b \in Dialers : ~Holding(b)
  BY <1>1
<1>3. Owner = "nobody"
  BY <1>1, <1>2 DEF Owner, Probing, Dialers
<1>4. ~Probing'
  BY <1>1 DEF Probing, Dialers
<1>5. Owner' = "entry"
  BY <1>4 DEF Owner
<1> QED
  BY <1>3, <1>5 DEF Loan!Next, Loan!EntryDials, StoppingWhileLoaded

\* Steps that change neither sessions nor dials, nor who is probing.
LEMMA IdleMaps ==
  ASSUME ~StoppingWhileLoaded, ~StoppingWhileLoaded',
         UNCHANGED <<sess, dial, released>>,
         \A f \in Flows : Holding(f) => (flow'[f] = "probe" <=> flow[f] = "probe")
  PROVE  [Loan!Next]_(Loan!lvars)
<1>1. \A a \in Dialers : Holding(a)' <=> Holding(a)
  BY DEF Holding
<1>2. Alive' <=> Alive
  BY DEF Alive
<1>3. Probing' <=> Probing
  BY <1>1 DEF Probing, Dialers
<1>4. Owner' = Owner
  BY <1>1, <1>2, <1>3 DEF Owner
<1> QED
  BY <1>4 DEF Loan!lvars, StoppingWhileLoaded

LEMMA ConnectMaps ==
  ASSUME LInv, OneSocket, NEW a \in Dialers, ConnectStep(a),
         ~StoppingWhileLoaded, ~StoppingWhileLoaded'
  PROVE  [Loan!Next]_(Loan!lvars)
<1>1. \A b \in Dialers : Holding(b)' => Holding(b)
  BY DEF LInv, IInv, TypeOK, ConnectStep, DialOpens, LoginFails, CloseDial, Holding
<1>2. UNCHANGED <<sess, flow, released>>
  BY DEF ConnectStep, DialOpens, LoginFails, flagVars, entryVars
<1>3. Owner' \in {Owner, "nobody"}
  BY <1>1, <1>2, NoNewSocket DEF Alive
<1> QED
  BY <1>2, <1>3, ClosingMaps

LEMMA TaskMaps ==
  ASSUME LInv, OneSocket, OneSocket', NEW t \in Tasks, TaskStep(t),
         ~StoppingWhileLoaded, ~StoppingWhileLoaded'
  PROVE  [Loan!Next]_(Loan!lvars)
<1> USE IdentitiesAssumption
<1>1. CASE TaskStarts(t) \/ TaskDumped(t)
  BY <1>1, IdleMaps DEF TaskStarts, TaskDumped, clientVars, flagVars, entryVars
<1>2. CASE TaskWakes(t)
  <2>1. ~Holding(t) /\ ~released
    BY <1>2 DEF LInv, IInv, TypeOK, DialsHaveCallers, LentIsQuiet, Live, Holding,
       TaskWakes, DialStates, Dialers
  <2>2. Holding(t)' /\ \A b \in Dialers : b # t => (Holding(b) <=> Holding(b)')
    BY <1>2 DEF LInv, IInv, TypeOK, Holding, TaskWakes, StartDial, Dialers
  <2>3. Alive' = Alive /\ released' = released
    BY <1>2 DEF TaskWakes, Alive, flagVars
  <2>4. t \in Dialers /\ t \notin Flows
    BY DEF Dialers
  <2> QED
    BY <2>1, <2>2, <2>3, <2>4, DiallingMaps
<1>3. CASE TaskConnected(t) \/ TaskConnectFails(t) \/ TaskCancelled(t)
  <2>1. \A b \in Dialers : Holding(b)' => Holding(b)
    BY <1>3 DEF LInv, IInv, TypeOK, Holding, TaskConnected, Establish,
       TaskConnectFails, TaskCancelled, ConnectRaises
  <2>2. UNCHANGED <<flow, released>>
    BY <1>3 DEF TaskConnected, TaskConnectFails, TaskCancelled, flagVars,
       entryVars
  <2>3. Alive' => Alive \/ Holding(t)
    BY <1>3 DEF Alive, Holding, TaskConnected, Establish, TaskConnectFails,
       TaskCancelled
  <2>4. t \in Dialers /\ t \notin Flows
    BY DEF Dialers
  <2>5. Owner' \in {Owner, "nobody"}
    BY <2>1, <2>2, <2>3, <2>4, NoNewSocket
  <2> QED
    BY <2>2, <2>5, ClosingMaps
<1>4. CASE ConnectStep(t)
  BY <1>4, ConnectMaps DEF Dialers
<1> QED
  BY <1>1, <1>2, <1>3, <1>4 DEF TaskStep

LEMMA SetupMaps ==
  ASSUME LInv, OneSocket, OneSocket', SetupStep,
         ~StoppingWhileLoaded, ~StoppingWhileLoaded'
  PROVE  [Loan!Next]_(Loan!lvars)
<1> USE IdentitiesAssumption
<1>0. Setup \in Dialers /\ Setup \notin Flows
  BY DEF Dialers
<1>1. CASE SetupDials
  <2>1. ~Holding(Setup) /\ ~released
    BY <1>1 DEF LInv, IInv, TypeOK, DialsHaveCallers, SetupFirst, Holding,
       SetupDials, DialStates, Dialers
  <2>2. Holding(Setup)'
        /\ \A b \in Dialers : b # Setup => (Holding(b) <=> Holding(b)')
    BY <1>0, <1>1 DEF LInv, IInv, TypeOK, Holding, SetupDials, StartDial
  <2>3. Alive' = Alive /\ released' = released
    BY <1>1 DEF SetupDials, Alive, flagVars
  <2> QED
    BY <1>0, <2>1, <2>2, <2>3, DiallingMaps
<1>2. CASE SetupConnected \/ SetupConnectFails
  <2>1. \A b \in Dialers : Holding(b)' => Holding(b)
    BY <1>0, <1>2 DEF LInv, IInv, TypeOK, Holding, SetupConnected, Establish,
       SetupConnectFails, ConnectRaises
  <2>2. UNCHANGED <<flow, released>>
    BY <1>2 DEF SetupConnected, SetupConnectFails, flagVars
  <2>3. Alive' => Alive \/ Holding(Setup)
    BY <1>2 DEF Alive, Holding, SetupConnected, Establish, SetupConnectFails
  <2>4. Owner' \in {Owner, "nobody"}
    BY <1>0, <2>1, <2>2, <2>3, NoNewSocket
  <2> QED
    BY <2>2, <2>4, ClosingMaps
<1>3. CASE SetupDumped \/ SetupDumpFails
  BY <1>3, IdleMaps DEF SetupDumped, SetupDumpFails, BeginShutdown, clientVars,
     flagVars
<1>4. CASE ConnectStep(Setup)
  BY <1>0, <1>4, ConnectMaps
<1> QED
  BY <1>1, <1>2, <1>3, <1>4 DEF SetupStep

\* Submitting lends the session, or finds it still lent to a pending reload.
LEMMA SubmitMaps ==
  ASSUME LInv, OneSocket, SingleFlow, NEW f \in Flows, SubmitReconfigure(f),
         ~StoppingWhileLoaded, ~StoppingWhileLoaded'
  PROVE  [Loan!Next]_(Loan!lvars)
<1>1. \A a \in Dialers : Holding(a)' => Holding(a)
  BY IdentitiesAssumption DEF LInv, IInv, TypeOK, SubmitReconfigure, Cancel,
     Waiting, InLogin, CloseDial, Holding
<1>2. \A g \in Flows : g = f /\ flow[g] = "idle" /\ flow'[g] = "release"
  BY DEF LInv, IInv, TypeOK, SubmitReconfigure, SingleFlow
<1>3. Owner' \in {Owner, "nobody"}
  BY <1>1, <1>2, NoNewSocket DEF SubmitReconfigure, Alive
<1>4. released' = TRUE
  BY DEF SubmitReconfigure
<1>5. CASE released
  BY <1>3, <1>4, <1>5, ClosingMaps
<1>6. CASE ~released
  BY <1>3, <1>4, <1>6 DEF Loan!Next, Loan!Lend, StoppingWhileLoaded
<1> QED
  BY <1>5, <1>6 DEF LInv, IInv, TypeOK

\* The probe dials in the place the release has left.
LEMMA ProbeMaps ==
  ASSUME LInv, OneSocket', NEW f \in Flows, ProbeStarts(f),
         ~StoppingWhileLoaded, ~StoppingWhileLoaded'
  PROVE  [Loan!Next]_(Loan!lvars)
<1> USE IdentitiesAssumption
<1>0. f \in Dialers
  BY DEF Dialers
<1>1. Holding(f)' /\ flow'[f] = "probe" /\ flow[f] = "release"
  BY <1>0 DEF LInv, IInv, TypeOK, TearsAreFlagged, ProbeStarts, StartDial, Holding
<1>2. ~Alive' /\ \A b \in Dialers : Holding(b)' => b = f
  BY <1>0, <1>1 DEF OneSocket
<1>3. \A b \in Dialers : ~Holding(b)
  <2>1. dial[f] = "idle"
    BY <1>0, <1>1 DEF LInv, IInv, TypeOK, DialsHaveCallers, DialStates
  <2>2. \A b \in Dialers : b # f => dial'[b] = dial[b]
    BY DEF LInv, IInv, TypeOK, ProbeStarts, StartDial
  <2> QED
    BY <1>2, <2>1, <2>2 DEF Holding
<1>4. ~Alive
  BY <1>2 DEF ProbeStarts, Alive
<1>5. Owner = "nobody"
  BY <1>0, <1>3, <1>4 DEF Owner, Probing, Dialers
<1>6. Owner' = "flow"
  BY <1>1 DEF Owner, Probing
<1>7. released /\ released' = released
  BY <1>1 DEF LInv, IInv, TypeOK, TearsAreFlagged, ProbeStarts, flagVars
<1> QED
  BY <1>5, <1>6, <1>7 DEF Loan!Next, Loan!FlowDials, StoppingWhileLoaded

\* The probe's end hands the session back or leaves it lent.
LEMMA ProbeEndMaps ==
  ASSUME LInv, OneSocket, OneSocket', SingleFlow, NEW f \in Flows, ProbeEnds(f),
         ~StoppingWhileLoaded, ~StoppingWhileLoaded'
  PROVE  [Loan!Next]_(Loan!lvars)
<1> USE IdentitiesAssumption
<1>0. f \in Dialers /\ flow[f] = "probe" /\ setup = "done" /\ released
  BY DEF LInv, IInv, SetupFirst, TearsAreFlagged, ProbeEnds, Dialers
<1>1. ~Alive /\ \A a \in Dialers : ~Holding(a)
  <2>1. sess = "none" /\ \A t \in Tasks : ~Live(t)
    BY <1>0 DEF LInv, IInv, ProbeAlone
  <2>2. \A t \in Tasks : ~Holding(t)
    BY <2>1 DEF LInv, IInv, DialsHaveCallers, Live, Holding
  <2>3. ~Holding(Setup)
    BY <1>0 DEF LInv, IInv, DialsHaveCallers, Holding
  <2>4. \A g \in Flows : ~Holding(g)
    BY DEF SingleFlow, ProbeEnds, Holding
  <2> QED
    BY <2>1, <2>2, <2>3, <2>4 DEF Alive, Dialers
<1>2. Owner = "nobody"
  BY <1>0, <1>1 DEF Owner, Probing, Dialers
<1>3. CASE Resume(f)
  <2>1. ~Probing'
    BY <1>3 DEF SingleFlow, Probing, Resume, LInv, IInv, TypeOK
  <2>2. Owner' \in {"nobody", "entry"}
    BY <2>1 DEF Owner
  <2>3. released' = FALSE
    BY <1>3 DEF Resume
  <2> QED
    BY <1>0, <1>2, <2>2, <2>3 DEF Loan!Next, Loan!Return, StoppingWhileLoaded
<1>4. CASE Store(f)
  <2>1. \A a \in Dialers : ~Holding(a)'
    BY <1>0, <1>1, <1>4 DEF Store, Holding, LInv, IInv, TypeOK
  <2>2. ~Alive'
    BY <1>1 DEF ProbeEnds, Alive
  <2>3. Owner' = "nobody"
    BY <2>1, <2>2 DEF Owner, Probing, Dialers
  <2> QED
    BY <1>2, <1>4, <2>3, ClosingMaps DEF Store
<1> QED
  BY <1>3, <1>4 DEF ProbeEnds

LEMMA FlowMaps ==
  ASSUME LInv, OneSocket, OneSocket', SingleFlow, NEW f \in Flows,
         SubmitReconfigure(f) \/ FlowStep(f),
         ~StoppingWhileLoaded, ~StoppingWhileLoaded'
  PROVE  [Loan!Next]_(Loan!lvars)
<1> USE IdentitiesAssumption
<1>0. f \in Dialers
  BY DEF Dialers
<1>1. CASE ProbeLeaves(f)
  <2>1. \A b \in Dialers : Holding(b)' => Holding(b)
    BY <1>1 DEF LInv, IInv, TypeOK, Holding, ProbeLeaves, CloseDial
  <2>2. UNCHANGED <<sess, flow, released>>
    BY <1>1 DEF ProbeLeaves, flagVars, entryVars
  <2>3. Owner' \in {Owner, "nobody"}
    BY <2>1, <2>2, NoNewSocket DEF Alive
  <2> QED
    BY <2>2, <2>3, ClosingMaps
<1>2. CASE ResumeConnected(f) \/ ResumeConnectFails(f)
  <2>1. \A b \in Dialers : Holding(b)' => Holding(b)
    BY <1>2 DEF LInv, IInv, TypeOK, Holding, ResumeConnected, Establish,
       ResumeConnectFails, ConnectRaises
  <2>2. released' = released /\ flow[f] = "resume"
        /\ \A g \in Flows : flow'[g] = "probe" <=> flow[g] = "probe"
    BY <1>2 DEF ResumeConnected, ResumeConnectFails, flagVars, LInv, IInv, TypeOK
  <2>3. Alive' => Alive \/ Holding(f)
    BY <1>2 DEF Alive, Holding, ResumeConnected, Establish, ResumeConnectFails
  <2>4. Owner' \in {Owner, "nobody"}
    BY <2>1, <2>2, <2>3, NoNewSocket
  <2> QED
    BY <2>2, <2>4, ClosingMaps
<1>3. CASE ResumeDumped(f)
  <2>1. \A g \in Flows : flow'[g] = "probe" <=> flow[g] = "probe"
    BY <1>3 DEF ResumeDumped, LInv, IInv, TypeOK
  <2> QED
    BY <1>3, <2>1, IdleMaps DEF ResumeDumped, clientVars, flagVars
<1>4. CASE ConnectStep(f)
  BY <1>0, <1>4, ConnectMaps
<1> QED
  BY <1>1, <1>2, <1>3, <1>4, SubmitMaps, ProbeMaps, ProbeEndMaps DEF FlowStep

LEMMA CloserMaps ==
  ASSUME LInv, OneSocket, NEW p \in Closers, CloserStep(p),
         ~StoppingWhileLoaded, ~StoppingWhileLoaded'
  PROVE  [Loan!Next]_(Loan!lvars)
<1>1. \A b \in Dialers : Holding(b)' => Holding(b)
  BY IdentitiesAssumption DEF LInv, IInv, TypeOK, CloserStep, CancelReconnect,
     StopReader, CloseWriter, Cancel, Waiting, InLogin, CloseDial, Holding
<1>2. UNCHANGED <<flow, released>>
  BY DEF CloserStep, CancelReconnect, StopReader, CloseWriter, flagVars, entryVars
<1>3. Alive' => Alive
  BY DEF CloserStep, CancelReconnect, StopReader, CloseWriter, TakeWriter, Alive
<1>4. Owner' \in {Owner, "nobody"}
  BY <1>1, <1>2, <1>3, NoNewSocket
<1> QED
  BY <1>2, <1>4, ClosingMaps

LEMMA ElsewhereMaps ==
  ASSUME LInv, OneSocket, Elsewhere,
         ~StoppingWhileLoaded, ~StoppingWhileLoaded'
  PROVE  [Loan!Next]_(Loan!lvars)
<1>1. UNCHANGED <<dial, flow, released>>
  BY DEF Elsewhere, ReaderStep, ReaderEnds, ReaderCancelled, ShutdownEnds,
     UnloadStarts, ShutdownStarts, BeginShutdown, KeepAlive, SessionLost,
     TcpGivesUp, ModuleNotices, Outside, clientVars, flagVars, entryVars
<1>2. Alive' => Alive
  BY DEF Elsewhere, ReaderStep, ReaderEnds, ReaderCancelled, ShutdownEnds,
     UnloadStarts, ShutdownStarts, KeepAlive, SessionLost, TcpGivesUp,
     ModuleNotices, Outside, clientVars, Alive
<1>3. Owner' \in {Owner, "nobody"}
  BY <1>1, <1>2, NoNewSocket DEF Holding
<1> QED
  BY <1>1, <1>3, ClosingMaps

LEMMA OneSocketNext ==
  ASSUME SingleFlow
  PROVE  IInv' => OneSocket'
<1>1. IInv => OneSocket
  BY IInvGivesOneSocket
<1> QED
  BY <1>1, PTL

\* Each step of the session is one of SessionLoan or a stutter.
LEMMA StepsOfTheLoan ==
  ASSUME LInv, SingleFlow, [Next]_vars
  PROVE  [Loan!Next]_(Loan!lvars)
<1>0. LInv' /\ OneSocket /\ OneSocket'
  <2>1. LInv'
    BY NextKeepsLInv
  <2> QED
    BY <2>1, IInvGivesOneSocket, OneSocketNext DEF LInv
<1>1. CASE StoppingWhileLoaded'
  <2>1. released' \in BOOLEAN
    BY <1>0 DEF LInv, IInv, TypeOK
  <2>2. Owner' \in {"nobody", "entry", "flow"}
    BY DEF Owner
  <2> QED
    BY <1>1, <2>1, <2>2 DEF Loan!Next, Loan!Stop
<1>2. CASE ~StoppingWhileLoaded'
  <2>1. ~StoppingWhileLoaded
    BY <1>2, StoppingIsFinal DEF LInv
  <2>2. CASE UNCHANGED vars
    BY <1>2, <2>1, <2>2, IdleMaps DEF vars, clientVars, flagVars, entryVars
  <2>3. CASE Next
    BY <1>0, <1>2, <2>1, <2>3, TaskMaps, SetupMaps, FlowMaps, CloserMaps,
       ElsewhereMaps DEF Next, Elsewhere
  <2> QED
    BY <2>2, <2>3
<1> QED
  BY <1>1, <1>2

\* The entry dials only while it has not lent the session and no socket is
\* open; a flow only while it has borrowed it and the entry's own is gone
\* (async_release_session, validate_connection and async_resume_session with
\* the reconnect loop), whatever is lost, cancelled or turned away.
THEOREM TheLoanIsKept ==
  ASSUME SingleFlow
  PROVE  Spec => ImplementsLoan
<1>1. Init => Loan!Init
  BY DEF Init, Loan!Init, Owner, Probing, Alive, Holding, StoppingWhileLoaded
<1>2. LInv /\ [Next]_vars => [Loan!Next]_(Loan!lvars)
  BY StepsOfTheLoan
<1> QED
  BY <1>1, <1>2, TheLoanInvariant, PTL DEF Spec, ImplementsLoan, Loan!Spec
=============================================================================
