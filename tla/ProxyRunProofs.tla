--------------------------- MODULE ProxyRunProofs ---------------------------
(***************************************************************************)
(* The safety properties of the life of the process, for any number of     *)
(* connections, requests, policy reloads and starts.                       *)
(***************************************************************************)
EXTENDS ProxyRun, TLAPS

-----------------------------------------------------------------------------
(* The inductive invariant.                                                *)

Gen     == {"cert", "certBody", "key", "keyBody"}
Closing == {"closeSource", "closeSiem", "waitSiem", "closeFile", "waitFile"}
\* The source has not been started yet, or has returned.
Sourceless == {"policy", "closeSiem", "waitSiem", "closeFile", "waitFile"}
Serving == {"serve"} \cup Closing
Early   == {"stat", "load", "trust", "config"} \cup Gen
Loaded  == {"trust", "config", "policy", "listen"} \cup Serving

\* The root on disk and in memory: a generation is counted before anything is
\* written, a process that has got past GenerateOrLoad has what is on disk,
\* and what has once been usable stays there.
RootInv ==
    /\ generations <= starts
    /\ pc \in {"stat", "cert"} => generations < starts
    /\ pc \in Gen \ {"cert"} => generations >= 1
    /\ pc \in {"key", "keyBody"} => cert = generations
    /\ pc # "off" => exit = "none"
    /\ usable = TRUE => cert \in Roots /\ key \in Roots /\ pc \notin Gen /\ exit # "noRoot"
    /\ pc \in Loaded => usable = TRUE /\ root = [cert |-> cert, key |-> key]
    /\ pc # "off" /\ pc \notin Serving => \A c \in Conns : conn[c] = "none"
    /\ \A r \in signers : usable = TRUE /\ r = [cert |-> cert, key |-> cert]
    /\ \A t \in trusted : usable = TRUE /\ t = cert

\* Before the sinks are in use nobody has reported anything.
Quiet ==
    /\ \A p \in Reporters : count[p] = 0 /\ rpc[p] = (IF p = Source THEN "gone" ELSE "idle")
    /\ fCalling = {} /\ fPending = {} /\ fKept = {} /\ fLost = {} /\ fEarly = {}
    /\ sCalling = {} /\ sPending = {} /\ sKept = {} /\ sLost = {} /\ sEarly = {}
    /\ fDropped = {} /\ sDropped = {} /\ before = {}

\* An item is safe once it was accepted in time or has an outcome.
FileSafe == (fPending \cap fEarly) \cup FileSettled
SiemSafe == (sPending \cap sEarly) \cup SiemSettled

\* The calls of p to a sink that are over.
FileDone(p, n) == n < count[p] \/ rpc[p] \in NotCalling \cup {"toSiem", "inSiem"}
SiemDone(p, n) == n < count[p] \/ rpc[p] \in NotCalling

\* The order of the shutdown.
OrderInv ==
    /\ pc \in Early => Quiet
    /\ pc \notin {"off", "waitSiem", "closeFile", "waitFile"} => sPhase = "open"
    /\ pc \in {"closeFile", "waitFile"} => sPhase = "closed"
    /\ pc \notin {"off", "waitFile"} => fPhase = "open"
    /\ pc \in Sourceless => rpc[Source] = "gone"
    /\ fPhase = "open" => fPending \subseteq fEarly
    /\ sPhase = "open" => sPending \subseteq sEarly
    /\ \A p \in Reporters : rpc[p] \notin NotCalling => count[p] >= 1

\* What has become of the items reported so far.  The source reports while
\* both sinks are open; a connection may come too late.
SafeInv ==
    /\ \A p \in Reporters : \A n \in 1..count[p] :
          /\ (p = Source \/ fPhase = "open") /\ FileDone(p, n) => <<p, n>> \in FileSafe
          /\ (p = Source \/ sPhase = "open") /\ SiemDone(p, n) => <<p, n>> \in SiemSafe
    /\ before \subseteq FileSafe \cap SiemSafe
    /\ sCalling \cup sPending \cup SiemSettled \subseteq FileSafe

\* Once the SIEM sink is closed, what was safe in it has its outcome; when
\* the process has ended the same holds of the file.
DoneInv ==
    /\ pc \in {"closeFile", "waitFile"} =>
          /\ before \subseteq SiemSettled
          /\ \A n \in 1..count[Source] : <<Source, n>> \in SiemSettled
    /\ FileStillHasIt /\ ReloadsReachOpenSinks /\ RecordsReachOpenSinks

IInv == TypeOK /\ RootInv /\ OrderInv /\ SafeInv /\ DoneInv

-----------------------------------------------------------------------------
(* Types.                                                                  *)

\* Facts about the constants.
LEMMA Constants ==
    /\ Source \notin Conns /\ Source \in Reporters /\ Conns \subseteq Reporters
    /\ MaxStarts \in Nat /\ Roots \subseteq Nat /\ OnDisk = {Absent, Torn} \cup Roots
    /\ Absent \notin Roots /\ Torn \notin Roots /\ Absent # Torn
BY RunAssumption DEF Reporters, Roots, OnDisk

\* A call of a reporter is one.
LEMMA ItemIsCall ==
    ASSUME count \in [Reporters -> Nat], NEW p \in Reporters
    PROVE  Item(p) \in Calls /\ \A n \in Nat : <<p, n>> \in Calls
BY DEF Item, Calls

\* The initial states satisfy the invariant.
LEMMA InitInv == Init => IInv
<1> SUFFICES ASSUME Init PROVE IInv
  OBVIOUS
<1> USE DEF Init, File!Init, Siem!Init
<1>1. TypeOK
  <2>1. RootTypes
    <3>1. 0 \in 0..MaxStarts /\ 0 \in 0..0
      BY Constants
    <3>2. NoRoot \in [cert : OnDisk, key : OnDisk] /\ Absent \in OnDisk
      BY Constants DEF NoRoot
    <3> QED
      BY <3>1, <3>2 DEF RootTypes
  <2>2. MainTypes /\ WorkTypes /\ LogTypes
    BY Constants DEF MainTypes, WorkTypes, LogTypes
  <2> QED
    BY <2>1, <2>2 DEF TypeOK
<1>2. RootInv
  BY DEF RootInv, Loaded, Serving, Closing, Gen
<1>3. OrderInv
  BY DEF OrderInv, Early, Gen, Sourceless, Quiet, NotCalling
<1>4. SafeInv
  BY DEF SafeInv, FileSafe, SiemSafe, FileSettled, SiemSettled
<1>5. DoneInv
  BY DEF DoneInv, FileStillHasIt, ReloadsReachOpenSinks, RecordsReachOpenSinks, Clean
<1> QED
  BY <1>1, <1>2, <1>3, <1>4, <1>5 DEF IInv

\* A process that is gone, however it ended.
Gone == Killed \/ StartFails \/ GenerateFails \/ (LoadRoot /\ Fresh)

Generating == CertOpen \/ CertWrite \/ KeyOpen \/ KeyWrite

\* Which actions change the root.
LEMMA RootFrame ==
    [Next]_vars =>
        \/ Start \/ Gone \/ LoadRoot \/ Generating \/ InstallTrust
        \/ \E c \in Conns : Intercept(c)
        \/ UNCHANGED <<cert, key, trusted, root, starts, generations, signers, usable>>
BY DEF Next, Startup, GenerateOrLoad, Shutdown, Report, Gone, Generating,
       Stat, OpenSinks, StartSource, Listen, CloseListener, ServeReturns, CloseSource,
       SourceReturns, CloseSiem, SiemClosed, CloseFile, FileClosed, Signal, Connect,
       Disconnect, Request, Respond, RespondPanics, Reload, CallFile, SendFile, CallSiem, SendSiem,
       WriteFile, DeliverSiem, disk, ca, vars, Unaffected

\* Which change the connections and the reporters.
LEMMA WorkFrame ==
    [Next]_vars =>
        \/ Start \/ Gone \/ StartSource \/ SourceReturns \/ Reload
        \/ \E c \in Conns : \/ Connect(c) \/ Intercept(c) \/ Disconnect(c)
                           \/ Request(c) \/ Respond(c) \/ RespondPanics(c)
        \/ \E p \in Reporters : Report(p)
        \/ UNCHANGED <<conn, rpc, count>>
BY DEF Next, Startup, GenerateOrLoad, Shutdown, Gone, Goto, Exit,
       Stat, LoadRoot, CertOpen, CertWrite, KeyOpen, KeyWrite, InstallTrust, OpenSinks,
       Listen, CloseListener, ServeReturns, CloseSource, CloseSiem, SiemClosed, CloseFile,
       FileClosed, Signal, WriteFile, DeliverSiem, work, vars, Unaffected

\* Which change the sinks.
LEMMA LogFrame ==
    [Next]_vars =>
        \/ Start \/ Gone \/ Signal \/ CloseSiem \/ SiemClosed \/ CloseFile \/ FileClosed
        \/ WriteFile \/ DeliverSiem
        \/ \E p \in Reporters : Report(p)
        \/ UNCHANGED <<fVars, sVars, fDropped, sDropped, before>>
BY DEF Next, Startup, GenerateOrLoad, Shutdown, Gone, Goto, Exit,
       Stat, LoadRoot, CertOpen, CertWrite, KeyOpen, KeyWrite, InstallTrust, OpenSinks,
       Listen, CloseListener, ServeReturns, CloseSource, StartSource, SourceReturns,
       Connect, Intercept, Disconnect, Request, Respond, RespondPanics, Reload, dropped, vars, Unaffected

-----------------------------------------------------------------------------
(* Types, continued: every step preserves them.                            *)

LEMMA StepRootTypes == IInv /\ [Next]_vars => RootTypes'
<1> SUFFICES ASSUME IInv, [Next]_vars PROVE RootTypes'
  OBVIOUS
<1>0. RootTypes /\ RootInv /\ starts \in Nat /\ generations \in Nat
  BY Constants DEF IInv, TypeOK, RootTypes
<1>1. NoRoot \in [cert : OnDisk, key : OnDisk]
  BY Constants DEF NoRoot
<1>10. ASSUME UNCHANGED <<cert, key, trusted, starts, generations, signers, usable>>,
              root' \in [cert : OnDisk, key : OnDisk]
       PROVE  RootTypes'
  <2>1. starts' \in 0..MaxStarts /\ generations' \in 0..starts'
    BY <1>10, <1>0 DEF RootTypes
  <2>2. /\ cert' \in OnDisk /\ key' \in OnDisk /\ trusted' \subseteq Roots
        /\ signers' \subseteq [cert : Roots, key : Roots] /\ usable' \in BOOLEAN
    BY <1>10, <1>0, Zenon DEF RootTypes
  <2>3. root' \in [cert : OnDisk, key : OnDisk]
    BY <1>10, Zenon
  <2> QED
    BY <2>1, <2>2, <2>3, Zenon DEF RootTypes
<1>2. CASE Start
  <2>1. starts' \in 0..MaxStarts /\ generations' \in 0..starts'
    BY <1>2, <1>0, Constants DEF Start, ca, RootInv
  <2> QED
    BY <1>2, <1>0, <1>1, <2>1 DEF RootTypes, Start, Fresh, disk
<1>3. CASE Gone
  <2>1. /\ root' = NoRoot
        /\ UNCHANGED <<cert, key, trusted, starts, generations, signers>>
        /\ usable' = usable \/ usable' = TRUE
    BY <1>3 DEF Gone, Killed, StartFails, GenerateFails, LoadRoot, Exit, Fresh, disk, Unaffected
  <2> QED
    BY <2>1, <1>1, <1>0, Zenon DEF RootTypes
<1>4. CASE LoadRoot
  <2>1. CASE cert \in Roots /\ key \in Roots
    <3>1. root' \in [cert : OnDisk, key : OnDisk]
      BY <1>4, <2>1, Constants DEF LoadRoot
    <3>2. /\ UNCHANGED <<cert, key, trusted, starts, generations, signers>>
          /\ usable' = TRUE
      BY <1>4, <2>1 DEF LoadRoot, disk, Unaffected
    <3> QED
      BY <3>1, <3>2, <1>0 DEF RootTypes
  <2>2. CASE ~(cert \in Roots /\ key \in Roots)
    BY <1>4, <1>1, <1>10, <2>2 DEF LoadRoot, Exit, Fresh, disk
  <2> QED
    BY <2>1, <2>2
<1>5. CASE CertOpen
  <2>1. generations' \in 0..starts'
    BY <1>5, <1>0 DEF CertOpen, RootInv, Unaffected
  <2> QED
    BY <1>5, <1>0, <2>1, Constants DEF RootTypes, CertOpen, Unaffected
<1>6. CASE CertWrite \/ KeyOpen \/ KeyWrite
  <2>1. generations \in Roots
    BY <1>6, <1>0, Constants DEF CertWrite, KeyOpen, KeyWrite, RootInv, Gen, Roots, RootTypes
  <2>2. /\ cert' \in OnDisk /\ key' \in OnDisk /\ usable' \in BOOLEAN
        /\ root' \in [cert : OnDisk, key : OnDisk]
        /\ UNCHANGED <<trusted, starts, generations, signers>>
    <3>1. /\ cert \in OnDisk /\ key \in OnDisk /\ usable \in BOOLEAN
          /\ root \in [cert : OnDisk, key : OnDisk]
          /\ generations \in OnDisk /\ Torn \in OnDisk
      BY <1>0, <2>1, Constants DEF RootTypes
    <3>2. CASE CertWrite
      BY <3>1, <3>2 DEF CertWrite, ca, Unaffected
    <3>3. CASE KeyOpen
      BY <3>1, <3>3 DEF KeyOpen, ca, Unaffected
    <3>4. CASE KeyWrite
      BY <3>1, <3>4 DEF KeyWrite, Unaffected
    <3> QED
      BY <1>6, <3>2, <3>3, <3>4
  <2> QED
    BY <1>0, <2>2 DEF RootTypes
<1>7. CASE InstallTrust
  <2>1. root.cert \in Roots
    BY <1>7, <1>0 DEF InstallTrust, RootInv, Loaded
  <2> QED
    BY <1>7, <1>0, <2>1 DEF RootTypes, InstallTrust, ca, Unaffected
<1>8. ASSUME NEW c \in Conns, Intercept(c)
      PROVE  RootTypes'
  <2>1. root \in [cert : Roots, key : Roots]
    <3>1. pc \in Loaded
      BY <1>8, <1>0 DEF Intercept, Running, StepConn, RootInv, Loaded
    <3> QED
      BY <3>1, <1>0 DEF RootInv, RootTypes
  <2> QED
    BY <1>8, <1>0, <2>1 DEF RootTypes, Intercept, disk, ca
<1>9. CASE UNCHANGED <<cert, key, trusted, root, starts, generations, signers, usable>>
  BY <1>9, <1>0 DEF RootTypes
<1> QED
  BY RootFrame, <1>2, <1>3, <1>4, <1>5, <1>6, <1>7, <1>8, <1>9 DEF Generating

LEMMA StepMainTypes == IInv /\ [Next]_vars => MainTypes'
<1> SUFFICES ASSUME MainTypes, [Next]_vars PROVE MainTypes'
  BY DEF IInv, TypeOK
<1> QED
  BY DEF MainTypes, Next, Startup, GenerateOrLoad, Shutdown, Report, Goto, Exit, Fresh,
         Start, Killed, StartFails, GenerateFails,
         Stat, LoadRoot, CertOpen, CertWrite, KeyOpen, KeyWrite, InstallTrust, OpenSinks,
         StartSource, Listen, CloseListener, ServeReturns, CloseSource, SourceReturns,
         CloseSiem, SiemClosed, CloseFile, FileClosed, Signal,
         Connect, Intercept, Disconnect, Request, Respond, RespondPanics, Reload,
         CallFile, SendFile, CallSiem, SendSiem, WriteFile, DeliverSiem,
         main, vars, Unaffected

LEMMA StepWorkTypes == IInv /\ [Next]_vars => WorkTypes'
<1> SUFFICES ASSUME WorkTypes, [Next]_vars PROVE WorkTypes'
  BY DEF IInv, TypeOK
<1> USE Constants DEF WorkTypes
<1>1. CASE Start \/ Gone
  BY <1>1 DEF Start, Gone, Killed, StartFails, GenerateFails, Exit, Fresh
<1>2. CASE StartSource \/ SourceReturns
  BY <1>2 DEF StartSource, SourceReturns, StepReporter
<1>3. CASE Reload
  BY <1>3 DEF Reload, StepReporter
<1>4. ASSUME NEW c \in Conns, Connect(c) \/ Intercept(c) \/ Disconnect(c)
      PROVE  WorkTypes'
  BY <1>4 DEF Connect, Intercept, Disconnect, StepConn
<1>5. ASSUME NEW c \in Conns, Request(c) \/ Respond(c) \/ RespondPanics(c)
      PROVE  WorkTypes'
  BY <1>5 DEF Request, Respond, RespondPanics, StepReporter
<1>6. ASSUME NEW p \in Reporters, Report(p)
      PROVE  WorkTypes'
  BY <1>6 DEF Report, CallFile, SendFile, CallSiem, SendSiem, StepReporter
<1>7. CASE UNCHANGED <<conn, rpc, count>>
  BY <1>7
<1> QED
  BY WorkFrame, <1>1, <1>2, <1>3, <1>4, <1>5, <1>6, <1>7

LEMMA StepLogTypes == IInv /\ [Next]_vars => LogTypes'
<1> SUFFICES ASSUME LogTypes, WorkTypes, [Next]_vars PROVE LogTypes'
  BY DEF IInv, TypeOK
<1> USE DEF LogTypes
<1>1. CASE Start \/ Gone
  BY <1>1 DEF Start, Gone, Killed, StartFails, GenerateFails, Exit, Fresh
<1>2. CASE Signal
  <2>1. Reported \subseteq Calls
    BY ItemIsCall DEF Reported, WorkTypes
  <2> QED
    BY <1>2, <2>1 DEF Signal, fVars, sVars, dropped
<1>3. CASE CloseSiem \/ SiemClosed
  BY <1>3 DEF CloseSiem, SiemClosed, Siem!Shut, Siem!Finish, fVars, dropped
<1>4. CASE CloseFile \/ FileClosed
  BY <1>4 DEF CloseFile, FileClosed, File!Shut, File!Finish, sVars, dropped
<1>5. CASE WriteFile
  BY <1>5 DEF WriteFile, File!Settle, sVars, dropped
<1>6. CASE DeliverSiem
  BY <1>6 DEF DeliverSiem, Siem!Settle, fVars, dropped
<1>7. ASSUME NEW p \in Reporters, Report(p)
      PROVE  LogTypes'
  <2>1. Item(p) \in Calls
    BY ItemIsCall DEF WorkTypes
  <2>2. CASE CallFile(p) \/ SendFile(p)
    BY <2>1, <2>2 DEF CallFile, SendFile, File!Call, File!Accept, File!Drop, sVars, dropped
  <2>3. CASE CallSiem(p) \/ SendSiem(p)
    BY <2>1, <2>3 DEF CallSiem, SendSiem, Siem!Call, Siem!Accept, Siem!Drop, fVars, dropped
  <2> QED
    BY <1>7, <2>2, <2>3 DEF Report
<1>8. CASE UNCHANGED <<fVars, sVars, fDropped, sDropped, before>>
  BY <1>8 DEF fVars, sVars
<1> QED
  BY LogFrame, <1>1, <1>2, <1>3, <1>4, <1>5, <1>6, <1>7, <1>8

\* All of it.
LEMMA StepType == IInv /\ [Next]_vars => TypeOK'
BY StepRootTypes, StepMainTypes, StepWorkTypes, StepLogTypes DEF TypeOK

-----------------------------------------------------------------------------
(* The root on disk and in memory.                                         *)

LEMMA StepRoot == IInv /\ [Next]_vars => RootInv'
<1> SUFFICES ASSUME IInv, [Next]_vars PROVE RootInv'
  OBVIOUS
<1>0. RootInv /\ RootTypes /\ WorkTypes /\ starts \in Nat /\ generations \in Nat
  BY Constants DEF IInv, TypeOK, RootTypes
<1> USE DEF Gen, Loaded, Serving, Closing
<1>1. CASE Start
  <2>1. /\ generations' <= starts' /\ generations' < starts'
        /\ pc' = "stat" /\ exit' = "none" /\ \A c \in Conns : conn'[c] = "none"
        /\ UNCHANGED <<cert, key, trusted, usable, signers>>
    BY <1>1, <1>0 DEF Start, Fresh, disk, RootInv
  <2> QED
    BY <2>1, <1>0 DEF RootInv
<1>2. ASSUME pc' = "off", UNCHANGED <<cert, key, trusted, generations, usable, starts, signers>>,
             usable = TRUE => exit' # "noRoot"
      PROVE  RootInv'
  BY <1>2, <1>0 DEF RootInv
<1>3. CASE Killed \/ StartFails
  BY <1>3, <1>2 DEF Killed, StartFails, Exit, disk
<1>4. CASE GenerateFails
  <2>1. usable # TRUE
    BY <1>4, <1>0 DEF GenerateFails, RootInv
  <2> QED
    BY <1>4, <2>1, <1>2 DEF GenerateFails, Exit, disk
<1>5. CASE Stat
  BY <1>5, <1>0, Constants DEF Stat, Goto, RootInv, disk, ca, work, Unaffected
<1>6. CASE LoadRoot
  <2>1. CASE cert \in Roots /\ key \in Roots
    BY <1>6, <2>1, <1>0 DEF LoadRoot, Goto, RootInv, disk, work, Unaffected
  <2>2. CASE ~(cert \in Roots /\ key \in Roots)
    BY <1>6, <2>2, <1>0, <1>2 DEF LoadRoot, Exit, RootInv, disk
  <2> QED
    BY <2>1, <2>2
<1>7. CASE CertOpen
  <2>1. usable # TRUE /\ generations < starts /\ pc = "cert"
    BY <1>7, <1>0 DEF CertOpen, RootInv
  <2>2. generations' <= starts' /\ generations' >= 1
    BY <1>7, <2>1, <1>0 DEF CertOpen, Unaffected
  <2> QED
    BY <1>7, <2>1, <2>2, <1>0 DEF CertOpen, Goto, RootInv, work, Unaffected
<1>8. CASE CertWrite
  <2>1. usable # TRUE
    BY <1>8, <1>0 DEF CertWrite, RootInv
  <2> QED
    BY <1>8, <2>1, <1>0 DEF CertWrite, Goto, RootInv, ca, work, Unaffected
<1>9. CASE KeyOpen
  <2>1. usable # TRUE
    BY <1>9, <1>0 DEF KeyOpen, RootInv
  <2> QED
    BY <1>9, <2>1, <1>0 DEF KeyOpen, Goto, RootInv, ca, work, Unaffected
<1>10. CASE KeyWrite
  <2>1. usable # TRUE /\ cert = generations /\ generations \in Roots /\ pc = "keyBody"
    <3>1. pc = "keyBody"
      BY <1>10 DEF KeyWrite
    <3>2. usable # TRUE /\ cert = generations /\ generations >= 1
      BY <3>1, <1>0 DEF RootInv
    <3>3. generations <= MaxStarts
      BY <1>0, Constants DEF RootTypes
    <3>4. generations \in Roots
      BY <3>2, <3>3, <1>0, Constants DEF Roots
    <3> QED
      BY <3>1, <3>2, <3>4
  <2>2. /\ pc' = "trust" /\ exit' = exit /\ usable' = TRUE
        /\ root' = [cert |-> cert, key |-> generations] /\ key' = generations
        /\ UNCHANGED <<cert, trusted, generations, starts, signers, conn>>
    BY <1>10, <2>1 DEF KeyWrite, Goto, work, Unaffected
  <2> QED
    BY <2>1, <2>2, <1>0 DEF RootInv
<1>11. CASE InstallTrust
  <2>1. usable = TRUE /\ root.cert = cert /\ exit = "none"
    BY <1>11, <1>0 DEF InstallTrust, RootInv
  <2> QED
    BY <1>11, <2>1, <1>0 DEF InstallTrust, Goto, RootInv, ca, work, Unaffected
<1>12. CASE FileClosed
  BY <1>12, <1>0 DEF FileClosed, RootInv, disk, ca
<1>13. ASSUME UNCHANGED <<cert, key, trusted, generations, usable, root, starts, signers, conn, exit>>,
              pc \in Loaded /\ pc' \in Loaded,
              pc' \notin Serving => pc \notin Serving
       PROVE  RootInv'
  BY <1>13, <1>0 DEF RootInv
<1>14. CASE OpenSinks \/ StartSource \/ Listen
  BY <1>14, <1>13 DEF OpenSinks, StartSource, Listen, Goto, disk, ca, work, Unaffected
<1>15. CASE ServeReturns \/ CloseSource \/ CloseSiem \/ SiemClosed \/ CloseFile
  BY <1>15, <1>13 DEF ServeReturns, CloseSource, CloseSiem, SiemClosed, CloseFile, Goto,
                      disk, ca, work, Unaffected
<1>16. ASSUME NEW c \in Conns, Connect(c) \/ Disconnect(c) \/ Intercept(c)
       PROVE  RootInv'
  <2>1. pc \in Serving /\ UNCHANGED <<cert, key, trusted, generations, usable, root, starts, pc, exit>>
    BY <1>16, <1>0 DEF Connect, Disconnect, Intercept, StepConn, Running, RootInv, disk, ca, main
  <2>2. \A r \in signers' : r \in signers \/ r = root
    BY <1>16 DEF Connect, Disconnect, Intercept
  <2>3. CASE Connect(c) \/ Disconnect(c)
    BY <2>1, <2>3, <1>0 DEF Connect, Disconnect, RootInv
  <2>4. CASE Intercept(c)
    <3>1. root = [cert |-> cert, key |-> cert]
      BY <2>1, <2>4, <1>0 DEF Intercept, RootInv
    <3> QED
      BY <2>1, <2>2, <3>1, <1>0 DEF RootInv
  <2> QED
    BY <1>16, <2>3, <2>4
<1>17. ASSUME UNCHANGED <<cert, key, trusted, generations, usable, root, starts, signers, conn, pc, exit>>
       PROVE  RootInv'
  BY <1>17, <1>0 DEF RootInv
<1>18. CASE \/ CloseListener \/ SourceReturns \/ Signal \/ Reload \/ WriteFile \/ DeliverSiem
            \/ UNCHANGED vars
  BY <1>18, <1>17 DEF CloseListener, SourceReturns, Signal, Reload, WriteFile, DeliverSiem,
                      disk, ca, main, work, vars
<1>19. ASSUME NEW c \in Conns, Request(c) \/ Respond(c) \/ RespondPanics(c)
       PROVE  RootInv'
  BY <1>19, <1>17 DEF Request, Respond, RespondPanics, disk, ca, main
<1>20. ASSUME NEW p \in Reporters, Report(p)
       PROVE  RootInv'
  BY <1>20, <1>17 DEF Report, CallFile, SendFile, CallSiem, SendSiem, disk, ca, main
<1> QED
  BY <1>1, <1>3, <1>4, <1>5, <1>6, <1>7, <1>8, <1>9, <1>10, <1>11, <1>12, <1>14, <1>15, <1>16,
     <1>18, <1>19, <1>20
     DEF Next, Startup, GenerateOrLoad, Shutdown

-----------------------------------------------------------------------------
(* The order of the shutdown.                                              *)

\* A process that is gone has nothing left.
LEMMA GoneIsFresh == Gone => Fresh /\ pc' = "off"
<1>1. LoadRoot /\ Fresh => pc' = "off"
  <2> SUFFICES ASSUME LoadRoot, Fresh, cert \in Roots, key \in Roots PROVE FALSE
    BY DEF LoadRoot, Exit
  <2>1. root'.cert = Absent /\ root'.cert = cert
    BY DEF LoadRoot, Fresh, NoRoot
  <2> QED
    BY <2>1, Constants
<1> QED
  BY <1>1 DEF Gone, Killed, StartFails, GenerateFails, Exit

\* Nor has one that has just started.
LEMMA FreshInv == Fresh /\ pc' \in {"off", "stat"} => OrderInv' /\ SafeInv' /\ DoneInv'
<1> SUFFICES ASSUME Fresh, pc' \in {"off", "stat"} PROVE OrderInv' /\ SafeInv' /\ DoneInv'
  OBVIOUS
<1> USE DEF Fresh
<1>1. OrderInv'
  BY DEF OrderInv, Early, Gen, Sourceless, Quiet, NotCalling
<1>2. SafeInv'
  BY DEF SafeInv, FileSafe, SiemSafe, FileSettled, SiemSettled
<1>3. DoneInv'
  <2>1. pc' \notin {"closeFile", "waitFile"}
    OBVIOUS
  <2>2. sCalling' \cup sPending' \cup SiemSettled' = {} /\ before' = {}
    BY DEF SiemSettled
  <2>3. \A n \in 1..count'[Source] : FALSE
    BY Constants
  <2> QED
    BY <2>1, <2>2, <2>3 DEF DoneInv, FileStillHasIt, ReloadsReachOpenSinks, RecordsReachOpenSinks
<1> QED
  BY <1>1, <1>2, <1>3

\* What the steps before the sinks are in use leave alone.
LEMMA Untouched ==
    (Stat \/ LoadRoot \/ Generating \/ InstallTrust \/ OpenSinks \/ Listen \/ ServeReturns \/ CloseSource)
    /\ ~Gone =>
        UNCHANGED <<rpc, count, fVars, sVars, fDropped, sDropped, before>>
BY DEF Stat, LoadRoot, Generating, CertOpen, CertWrite, KeyOpen, KeyWrite, InstallTrust, OpenSinks,
       Listen, ServeReturns, CloseSource, Gone, Exit, work, dropped, Unaffected

LEMMA StepOrder == IInv /\ [Next]_vars => OrderInv'
<1> SUFFICES ASSUME IInv, [Next]_vars PROVE OrderInv'
  OBVIOUS
<1>0. OrderInv /\ RootInv /\ WorkTypes
  BY DEF IInv, TypeOK
<1> USE DEF Early, Gen, Sourceless, NotCalling
<1>1. CASE Start
  BY <1>1, FreshInv DEF Start
<1>2. CASE Gone
  BY <1>2, GoneIsFresh, FreshInv
<1>3. ASSUME UNCHANGED <<rpc, count, fVars, sVars, fDropped, sDropped, before>>,
             pc' \in Early => pc \in Early,
             pc' \notin {"off", "waitSiem", "closeFile", "waitFile"} =>
                 pc \notin {"off", "waitSiem", "closeFile", "waitFile"},
             pc' \in {"closeFile", "waitFile"} => pc \in {"closeFile", "waitFile"},
             pc' \notin {"off", "waitFile"} => pc \notin {"off", "waitFile"},
             pc' \in Sourceless =>
                 rpc[Source] = "gone"
      PROVE  OrderInv'
  BY <1>3, <1>0 DEF OrderInv, Quiet, fVars, sVars
<1>4. CASE (Stat \/ LoadRoot \/ Generating \/ InstallTrust) /\ ~Gone
  <2>1. pc \in Early /\ (pc' \in Early \/ pc' = "off")
    BY <1>4 DEF Stat, LoadRoot, Generating, CertOpen, CertWrite, KeyOpen, KeyWrite, InstallTrust,
                Goto, Gone, Exit
  <2> QED
    BY <1>4, <2>1, Untouched, <1>3
<1>5. CASE OpenSinks \/ Listen \/ ServeReturns \/ CloseSource
  <2>1. UNCHANGED <<rpc, count, fVars, sVars, fDropped, sDropped, before>>
    BY <1>5 DEF OpenSinks, Listen, ServeReturns, CloseSource, work, dropped, Unaffected
  <2> QED
    BY <1>5, <2>1, <1>3, <1>0, Constants
       DEF OpenSinks, Listen, ServeReturns, CloseSource, Goto, OrderInv, Quiet
<1>6. CASE StartSource
  <2>1. /\ pc = "policy" /\ pc' = "listen"
        /\ UNCHANGED <<count, fPhase, sPhase, fPending, sPending, fEarly, sEarly>>
        /\ \A p \in Reporters : rpc'[p] \notin NotCalling => rpc'[p] = rpc[p]
    BY <1>6, <1>0 DEF StartSource, Goto, fVars, sVars, WorkTypes
  <2> QED
    BY <2>1, <1>0 DEF OrderInv
<1>7. CASE CloseSiem \/ SiemClosed \/ CloseFile \/ FileClosed
  BY <1>7, <1>0 DEF CloseSiem, SiemClosed, CloseFile, FileClosed, Goto, OrderInv, work, fVars, sVars,
                    Siem!Shut, Siem!Finish, File!Shut, File!Finish
<1>8. CASE CloseListener \/ UNCHANGED vars
  BY <1>8, <1>3, <1>0 DEF CloseListener, main, work, dropped, vars, OrderInv
<1>9. CASE Signal
  BY <1>9, <1>0 DEF Signal, main, work, dropped, fVars, sVars, OrderInv
<1>10. ASSUME NEW c \in Conns, Connect(c) \/ Intercept(c) \/ Disconnect(c)
       PROVE  OrderInv'
  <2>1. UNCHANGED <<pc, rpc, count, fVars, sVars, fDropped, sDropped, before>>
    BY <1>10 DEF Connect, Intercept, Disconnect, main, dropped
  <2> QED
    BY <2>1, <1>3, <1>0 DEF OrderInv
\* Whoever reports does so when the sinks are in use, and the source only as
\* long as it runs.
<1>11. ASSUME NEW p \in Reporters, pc \notin Early, p = Source => rpc[Source] # "gone",
              UNCHANGED <<pc, fPhase, sPhase>>,
              fPhase = "open" => fPending' \subseteq fEarly',
              sPhase = "open" => sPending' \subseteq sEarly',
              \A q \in Reporters : q # p => rpc'[q] = rpc[q] /\ count'[q] = count[q],
              rpc'[p] \notin NotCalling => count'[p] >= 1
       PROVE  OrderInv'
  <2>1. pc' \in Sourceless => rpc'[Source] = "gone"
    BY <1>11, <1>0, Constants DEF OrderInv
  <2>2. \A q \in Reporters : rpc'[q] \notin NotCalling => count'[q] >= 1
    BY <1>11, <1>0 DEF OrderInv
  <2> QED
    BY <1>11, <1>0, <2>1, <2>2 DEF OrderInv
<1>12. ASSUME NEW p \in Reporters, rpc[p] # (IF p = Source THEN "gone" ELSE "idle")
       PROVE  pc \notin Early
  BY <1>12, <1>0 DEF OrderInv, Quiet
<1>13. CASE SourceReturns \/ Reload
  <2>1. rpc[Source] = "idle"
    BY <1>13 DEF SourceReturns, Reload, StepReporter
  <2>2. /\ UNCHANGED <<pc, fVars, sVars>>
        /\ \A q \in Reporters : q # Source => rpc'[q] = rpc[q] /\ count'[q] = count[q]
        /\ rpc'[Source] \notin NotCalling => count'[Source] >= 1
    BY <1>13, <1>0, Constants DEF SourceReturns, Reload, StepReporter, WorkTypes, main
  <2> QED
    BY <2>1, <2>2, <1>0, <1>11, <1>12, Constants DEF OrderInv, fVars, sVars
<1>14. ASSUME NEW c \in Conns, Request(c) \/ Respond(c) \/ RespondPanics(c)
       PROVE  OrderInv'
  <2>1. c \in Reporters /\ c # Source /\ UNCHANGED <<pc, fVars, sVars>>
    BY <1>14, Constants DEF Request, Respond, RespondPanics, main
  <2>2. pc \notin Early
    <3>1. CASE Request(c)
      BY <3>1, <1>0 DEF Request, StepReporter, Running, RootInv, Serving, Closing
    <3>2. CASE Respond(c) \/ RespondPanics(c)
      BY <3>2, <2>1, <1>12 DEF Respond, RespondPanics, StepReporter
    <3> QED
      BY <1>14, <3>1, <3>2
  <2>3. /\ \A q \in Reporters : q # c => rpc'[q] = rpc[q] /\ count'[q] = count[q]
        /\ rpc'[c] \notin NotCalling => count'[c] >= 1
    BY <1>14, <1>0, <2>1 DEF Request, Respond, RespondPanics, StepReporter, WorkTypes, OrderInv
  <2> QED
    BY <2>1, <2>2, <2>3, <1>0, <1>11 DEF OrderInv, fVars, sVars
<1>15. ASSUME NEW p \in Reporters, Report(p)
       PROVE  OrderInv'
  <2>1. rpc[p] \in {"toFile", "inFile", "toSiem", "inSiem"} /\ UNCHANGED <<pc, count>>
    BY <1>15 DEF Report, CallFile, SendFile, CallSiem, SendSiem, StepReporter, main
  <2>2. /\ \A q \in Reporters : q # p => rpc'[q] = rpc[q]
        /\ count'[p] >= 1
    BY <1>15, <2>1, <1>0 DEF Report, CallFile, SendFile, CallSiem, SendSiem, StepReporter,
                             WorkTypes, OrderInv
  <2>3. UNCHANGED <<fPhase, sPhase>>
    BY <1>15 DEF Report, CallFile, SendFile, CallSiem, SendSiem, File!Call, File!Accept, File!Drop,
                 Siem!Call, Siem!Accept, Siem!Drop, fVars, sVars
  <2>4. fPhase = "open" => fPending' \subseteq fEarly'
    BY <1>15, <1>0 DEF Report, CallFile, SendFile, CallSiem, SendSiem, File!Call, File!Accept,
                       File!Drop, fVars, OrderInv
  <2>5. sPhase = "open" => sPending' \subseteq sEarly'
    BY <1>15, <1>0 DEF Report, CallFile, SendFile, CallSiem, SendSiem, Siem!Call, Siem!Accept,
                       Siem!Drop, sVars, OrderInv
  <2> QED
    BY <2>1, <2>2, <2>3, <2>4, <2>5, <1>11, <1>12
<1>16. CASE WriteFile \/ DeliverSiem
  <2>1. pc \notin Early
    <3>1. \A P : (\E S \in (SUBSET P) \ {{}} : TRUE) => P # {}
      OBVIOUS
    <3>2. fPending # {} \/ sPending # {}
      BY <1>16, <3>1 DEF WriteFile, DeliverSiem
    <3> QED
      BY <3>2, <1>0 DEF OrderInv, Quiet
  <2>2. /\ UNCHANGED <<pc, rpc, count, fPhase, sPhase, fEarly, sEarly>>
        /\ fPending' \subseteq fPending /\ sPending' \subseteq sPending
    BY <1>16 DEF WriteFile, DeliverSiem, File!Settle, Siem!Settle, main, work, fVars, sVars
  <2> QED
    BY <2>1, <2>2, <1>0 DEF OrderInv
<1> QED
  BY <1>1, <1>2, <1>4, <1>5, <1>6, <1>7, <1>8, <1>9, <1>10, <1>13, <1>14, <1>15, <1>16
     DEF Next, Startup, GenerateOrLoad, Shutdown, Gone, Generating

-----------------------------------------------------------------------------
(* What has become of the items.                                           *)

\* A sink forgets nothing, whoever takes a step.
LEMMA SinksGrow ==
    ASSUME [Next]_vars, ~Start, ~Gone
    PROVE  /\ FileSafe \subseteq FileSafe' /\ FileSettled \subseteq FileSettled'
           /\ SiemSafe \subseteq SiemSafe' /\ SiemSettled \subseteq SiemSettled'
           /\ fPhase' = "open" => fPhase = "open"
           /\ sPhase' = "open" => sPhase = "open"
<1> USE DEF FileSafe, FileSettled, SiemSafe, SiemSettled
<1>1. CASE Signal
  BY <1>1 DEF Signal, fVars, sVars, dropped
<1>2. CASE CloseSiem \/ SiemClosed
  BY <1>2 DEF CloseSiem, SiemClosed, Siem!Shut, Siem!Finish, fVars, dropped
<1>3. CASE CloseFile \/ FileClosed
  BY <1>3 DEF CloseFile, FileClosed, File!Shut, File!Finish, sVars, dropped
<1>4. CASE WriteFile
  BY <1>4 DEF WriteFile, File!Settle, sVars, dropped
<1>5. CASE DeliverSiem
  BY <1>5 DEF DeliverSiem, Siem!Settle, fVars, dropped
<1>6. ASSUME NEW p \in Reporters, CallFile(p) \/ SendFile(p)
      PROVE  /\ FileSafe \subseteq FileSafe' /\ FileSettled \subseteq FileSettled'
             /\ UNCHANGED <<sVars, sDropped, fPhase>>
  BY <1>6 DEF CallFile, SendFile, File!Call, File!Accept, File!Drop, dropped
<1>7. ASSUME NEW p \in Reporters, CallSiem(p) \/ SendSiem(p)
      PROVE  /\ SiemSafe \subseteq SiemSafe' /\ SiemSettled \subseteq SiemSettled'
             /\ UNCHANGED <<fVars, fDropped, sPhase>>
  BY <1>7 DEF CallSiem, SendSiem, Siem!Call, Siem!Accept, Siem!Drop, dropped
<1>8. ASSUME NEW p \in Reporters, Report(p)
      PROVE  /\ FileSafe \subseteq FileSafe' /\ FileSettled \subseteq FileSettled'
             /\ SiemSafe \subseteq SiemSafe' /\ SiemSettled \subseteq SiemSettled'
             /\ UNCHANGED <<fPhase, sPhase>>
  BY <1>8, <1>6, <1>7 DEF Report, fVars, sVars
<1>9. CASE UNCHANGED <<fVars, sVars, fDropped, sDropped, before>>
  BY <1>9 DEF fVars, sVars
<1> QED
  BY LogFrame, <1>1, <1>2, <1>3, <1>4, <1>5, <1>8, <1>9

\* While the source runs and a process does, both sinks are open.
LEMMA SourceFindsThemOpen ==
    ASSUME OrderInv, Running, rpc[Source] # "gone"
    PROVE  fPhase = "open" /\ sPhase = "open"
BY DEF OrderInv, Running, Sourceless

\* An item whose call to the file is over was so before the step, or is safe
\* by this step; the same of the SIEM sink.
LEMMA DoneIsSafe ==
    ASSUME IInv, [Next]_vars, ~Start, ~Gone,
           NEW p \in Reporters, NEW n \in 1..count'[p]
    PROVE  /\ (p = Source \/ fPhase' = "open") /\ FileDone(p, n)' => <<p, n>> \in FileSafe'
           /\ (p = Source \/ sPhase' = "open") /\ SiemDone(p, n)' => <<p, n>> \in SiemSafe'
<1>0. OrderInv /\ SafeInv /\ WorkTypes /\ n \in Nat
  BY DEF IInv, TypeOK
<1> DEFINE OldFile == n \in 1..count[p] /\ FileDone(p, n)
           OldSiem == n \in 1..count[p] /\ SiemDone(p, n)
<1>1. /\ (p = Source \/ fPhase' = "open") /\ OldFile => <<p, n>> \in FileSafe'
      /\ (p = Source \/ sPhase' = "open") /\ OldSiem => <<p, n>> \in SiemSafe'
  BY <1>0, SinksGrow DEF SafeInv
<1> USE DEF FileDone, SiemDone, NotCalling
<1>2. CASE UNCHANGED <<rpc, count>>
  BY <1>1, <1>2
<1>3. ASSUME NEW q \in Reporters, rpc[q] \in {"idle", "busy"},
             rpc' = [rpc EXCEPT ![q] = "toFile"],
             count' = [count EXCEPT ![q] = @ + 1]
      PROVE  (FileDone(p, n)' => OldFile) /\ (SiemDone(p, n)' => OldSiem)
  <2>1. CASE p = q
    BY <1>0, <1>3, <2>1 DEF WorkTypes
  <2>2. CASE p # q
    BY <1>0, <1>3, <2>2 DEF WorkTypes
  <2> QED
    BY <2>1, <2>2
<1>4. CASE StartSource \/ SourceReturns
  <2>1. rpc[Source] \in {"gone", "idle"} /\ rpc'[Source] \in {"gone", "idle"}
    BY <1>4, <1>0, Constants
       DEF StartSource, SourceReturns, StepReporter, OrderInv, Sourceless, WorkTypes
  <2>2. count' = count /\ \A q \in Reporters : q # Source => rpc'[q] = rpc[q]
    BY <1>4, <1>0 DEF StartSource, SourceReturns, StepReporter, WorkTypes
  <2> QED
    BY <1>1, <2>1, <2>2
<1>5. CASE Reload
  BY <1>5, <1>1, <1>3, <1>0, Constants DEF Reload, StepReporter, WorkTypes
<1>6. ASSUME NEW c \in Conns, Connect(c) \/ Intercept(c) \/ Disconnect(c)
      PROVE  UNCHANGED <<rpc, count>>
  BY <1>6 DEF Connect, Intercept, Disconnect
<1>7. ASSUME NEW c \in Conns, Request(c) \/ RespondPanics(c)
      PROVE  (FileDone(p, n)' => OldFile) /\ (SiemDone(p, n)' => OldSiem)
  BY <1>7, <1>0, Constants DEF Request, RespondPanics, StepReporter, WorkTypes
<1>8. ASSUME NEW c \in Conns, Respond(c)
      PROVE  (FileDone(p, n)' => OldFile) /\ (SiemDone(p, n)' => OldSiem)
  BY <1>8, <1>3, <1>0, Constants DEF Respond, StepReporter, WorkTypes
\* A call that is over by this step is the last one of its goroutine.
<1>9. ASSUME NEW q \in Reporters, Report(q), p # q \/ n # count[q]
      PROVE  (FileDone(p, n)' => OldFile) /\ (SiemDone(p, n)' => OldSiem)
  <2>1. count' = count /\ \A r \in Reporters : r # q => rpc'[r] = rpc[r]
    BY <1>9, <1>0 DEF Report, CallFile, SendFile, CallSiem, SendSiem, StepReporter, WorkTypes
  <2>2. CASE p # q
    BY <2>1, <2>2
  <2>3. CASE p = q /\ n # count[q]
    BY <2>1, <2>3, <1>9, <1>0 DEF WorkTypes
  <2> QED
    BY <1>9, <2>2, <2>3
<1>10. ASSUME CallFile(p) \/ SendFile(p), n = count[p]
       PROVE  /\ (p = Source \/ fPhase' = "open") /\ FileDone(p, n)' => <<p, n>> \in FileSafe'
              /\ SiemDone(p, n)' = FALSE
  <2>1. /\ count' = count /\ fPhase' = fPhase /\ Running /\ rpc[p] # "gone"
        /\ rpc'[p] \in {"inFile", "toSiem"}
    BY <1>10, <1>0 DEF CallFile, SendFile, StepReporter, File!Call, File!Accept, File!Drop, WorkTypes
  <2>2. SiemDone(p, n)' = FALSE
    BY <2>1, <1>10, <1>0 DEF WorkTypes
  <2>3. SUFFICES ASSUME fPhase = "open", FileDone(p, n)' PROVE <<p, n>> \in FileSafe'
    BY <2>1, <2>2, <1>0, SourceFindsThemOpen
  <2>4. rpc'[p] = "toSiem"
    BY <2>1, <2>3, <1>10, <1>0 DEF WorkTypes
  <2>5. SendFile(p)
    BY <2>3, <2>4, <1>10, <1>0 DEF CallFile, StepReporter, WorkTypes
  <2> QED
    BY <2>3, <2>5, <1>10 DEF SendFile, File!Accept, File!Drop, Item, FileSafe, FileSettled
<1>11. ASSUME CallSiem(p) \/ SendSiem(p), n = count[p]
       PROVE  /\ (p = Source \/ sPhase' = "open") /\ SiemDone(p, n)' => <<p, n>> \in SiemSafe'
              /\ OldFile
  <2>1. /\ count' = count /\ sPhase' = sPhase /\ Running
        /\ rpc[p] \in {"toSiem", "inSiem"} /\ rpc'[p] \in {"inSiem", "idle"}
    BY <1>11, <1>0 DEF CallSiem, SendSiem, StepReporter, Siem!Call, Siem!Accept, Siem!Drop, WorkTypes
  <2>2. OldFile
    BY <2>1, <1>11, <1>0
  <2>3. SUFFICES ASSUME sPhase = "open", SiemDone(p, n)' PROVE <<p, n>> \in SiemSafe'
    BY <2>1, <2>2, <1>0, SourceFindsThemOpen
  <2>4. rpc'[p] = "idle"
    BY <2>1, <2>3, <1>11, <1>0 DEF WorkTypes
  <2>5. SendSiem(p)
    BY <2>3, <2>4, <1>11, <1>0 DEF CallSiem, StepReporter, WorkTypes
  <2> QED
    BY <2>3, <2>5, <1>11 DEF SendSiem, Siem!Accept, Siem!Drop, Item, SiemSafe, SiemSettled
<1>12. ASSUME NEW q \in Reporters, Report(q)
       PROVE  /\ (p = Source \/ fPhase' = "open") /\ FileDone(p, n)' => <<p, n>> \in FileSafe'
              /\ (p = Source \/ sPhase' = "open") /\ SiemDone(p, n)' => <<p, n>> \in SiemSafe'
  <2>1. CASE p # q \/ n # count[q]
    BY <2>1, <1>12, <1>9, <1>1, Zenon
  <2>2. CASE p = q /\ n = count[q]
    BY <2>2, <1>12, <1>10, <1>11, <1>1, Zenon DEF Report
  <2> QED
    BY <2>1, <2>2
<1> QED
  <2> HIDE DEF OldFile, OldSiem, FileDone, SiemDone
  <2> QED
    BY WorkFrame, <1>1, <1>2, <1>4, <1>5, <1>6, <1>7, <1>8, <1>12, Constants

LEMMA StepSafe == IInv /\ [Next]_vars => SafeInv'
<1> SUFFICES ASSUME IInv, [Next]_vars PROVE SafeInv'
  OBVIOUS
<1>0. SafeInv /\ OrderInv /\ WorkTypes
  BY DEF IInv, TypeOK
<1>1. CASE Start \/ Gone
  BY <1>1, GoneIsFresh, FreshInv DEF Start
<1>2. CASE ~(Start \/ Gone)
  <2>1. \A p \in Reporters : \A n \in 1..count'[p] :
           /\ (p = Source \/ fPhase' = "open") /\ FileDone(p, n)' => <<p, n>> \in FileSafe'
           /\ (p = Source \/ sPhase' = "open") /\ SiemDone(p, n)' => <<p, n>> \in SiemSafe'
    BY <1>2, DoneIsSafe
  \* The signal comes while both sinks are open, and counts the calls that are over.
  <2>2. before' \subseteq FileSafe \cap SiemSafe
    <3>1. CASE Signal
      <4>1. fPhase = "open" /\ sPhase = "open"
        BY <3>1, <1>0 DEF Signal, OrderInv
      <4>2. \A p \in Reporters, n \in Nat :
               <<p, n>> \in Reported => n \in 1..count[p] /\ FileDone(p, n) /\ SiemDone(p, n)
        <5>1. SUFFICES ASSUME NEW p \in Reporters, NEW n \in Nat, <<p, n>> \in Reported
                       PROVE  n \in 1..count[p] /\ FileDone(p, n) /\ SiemDone(p, n)
          OBVIOUS
        <5>2. n \in 1..(IF rpc[p] \in NotCalling THEN count[p] ELSE count[p] - 1)
          BY <5>1 DEF Reported
        <5>3. count[p] \in Nat
          BY <1>0 DEF WorkTypes
        <5> QED
          BY <5>2, <5>3 DEF FileDone, SiemDone, NotCalling
      <4>3. \A x \in Reported : x \in FileSafe \cap SiemSafe
        <5>1. SUFFICES ASSUME NEW p \in Reporters,
                              NEW n \in 1..(IF rpc[p] \in NotCalling THEN count[p] ELSE count[p] - 1)
                       PROVE  <<p, n>> \in FileSafe \cap SiemSafe
          BY DEF Reported
        <5>2. n \in Nat /\ <<p, n>> \in Reported
          BY <1>0 DEF Reported, WorkTypes
        <5> QED
          BY <5>2, <4>1, <4>2, <1>0 DEF SafeInv
      <4> QED
        BY <3>1, <4>3 DEF Signal
    <3>2. CASE ~Signal
      <4>1. before' = before
        BY <3>2, <1>2, LogFrame
           DEF CloseSiem, SiemClosed, CloseFile, FileClosed, WriteFile, DeliverSiem,
               Report, CallFile, SendFile, CallSiem, SendSiem
      <4> QED
        BY <4>1, <1>0 DEF SafeInv
    <3> QED
      BY <3>1, <3>2
  \* MultiLogger calls the SIEM sink when the file has the item.
  <2>3. sCalling' \cup sPending' \cup SiemSettled' \subseteq FileSafe
    <3>1. ASSUME NEW p \in Reporters, CallSiem(p), sPhase = "open"
          PROVE  Item(p) \in FileSafe
      <4>1. rpc[p] = "toSiem" /\ pc # "off"
        BY <3>1 DEF CallSiem, StepReporter, Running
      <4>2. fPhase = "open"
        BY <3>1, <4>1, <1>0 DEF OrderInv
      <4>3. count[p] \in 1..count[p]
        BY <4>1, <1>0 DEF OrderInv, WorkTypes, NotCalling
      <4> QED
        BY <4>1, <4>2, <4>3, <1>0 DEF SafeInv, FileDone, Item
    <3>2. ASSUME NEW p \in Reporters, Report(p)
          PROVE  sCalling' \cup sPending' \cup SiemSettled' \subseteq FileSafe
      <4>1. CASE CallFile(p) \/ SendFile(p)
        BY <4>1, <1>0 DEF CallFile, SendFile, sVars, dropped, SafeInv, SiemSettled
      <4>2. CASE CallSiem(p)
        BY <4>2, <3>1, <1>0 DEF CallSiem, Siem!Call, dropped, SafeInv, SiemSettled
      <4>3. CASE SendSiem(p)
        BY <4>3, <1>0 DEF SendSiem, Siem!Accept, Siem!Drop, SafeInv, SiemSettled
      <4> QED
        BY <3>2, <4>1, <4>2, <4>3 DEF Report
    <3>3. CASE DeliverSiem
      BY <3>3, <1>0 DEF DeliverSiem, Siem!Settle, dropped, SafeInv, SiemSettled
    <3>4. CASE CloseSiem \/ SiemClosed
      BY <3>4, <1>0 DEF CloseSiem, SiemClosed, Siem!Shut, Siem!Finish, dropped, SafeInv, SiemSettled
    <3>5. CASE \/ Signal \/ CloseFile \/ FileClosed \/ WriteFile
               \/ UNCHANGED <<fVars, sVars, fDropped, sDropped, before>>
      <4>1. UNCHANGED <<sCalling, sPending, sKept, sLost, sDropped>>
        BY <3>5 DEF Signal, CloseFile, FileClosed, WriteFile, sVars, dropped
      <4> QED
        BY <4>1, <1>0 DEF SafeInv, SiemSettled
    <3> QED
      BY <1>2, LogFrame, <3>2, <3>3, <3>4, <3>5
  <2> QED
    BY <1>2, <2>1, <2>2, <2>3, SinksGrow DEF SafeInv
<1> QED
  BY <1>1, <1>2

\* A sink has returned from Close when nothing accepted in time is pending.
LEMMA SettledIsDone ==
    /\ fEarly \cap fPending = {} => FileSafe = FileSettled
    /\ sEarly \cap sPending = {} => SiemSafe = SiemSettled
BY DEF FileSafe, SiemSafe

\* An ending that comes before the sinks are in use leaves nothing behind.
LEMMA QuietIsDone ==
    Quiet => FileStillHasIt /\ ReloadsReachOpenSinks /\ RecordsReachOpenSinks
<1> SUFFICES ASSUME Quiet PROVE FileStillHasIt /\ ReloadsReachOpenSinks /\ RecordsReachOpenSinks
  OBVIOUS
<1>1. sCalling \cup sPending \cup SiemSettled = {} /\ before = {} /\ count[Source] = 0
  BY Constants DEF Quiet, SiemSettled
<1>2. \A n \in 1..count[Source] : FALSE
  BY <1>1
<1> QED
  BY <1>1, <1>2 DEF FileStillHasIt, ReloadsReachOpenSinks, RecordsReachOpenSinks

LEMMA StepDone == IInv /\ [Next]_vars => DoneInv'
<1> SUFFICES ASSUME IInv, [Next]_vars PROVE DoneInv'
  OBVIOUS
<1>0. DoneInv /\ SafeInv /\ OrderInv /\ WorkTypes /\ count[Source] \in Nat
  BY Constants DEF IInv, TypeOK, WorkTypes
<1>1. CASE Start \/ Gone
  BY <1>1, GoneIsFresh, FreshInv DEF Start
<1>2. CASE SiemClosed
  <2>1. /\ pc' = "closeFile" /\ sEarly \cap sPending = {}
        /\ UNCHANGED <<count, before, sKept, sLost, sDropped>>
        /\ rpc[Source] = "gone"
    BY <1>2, <1>0 DEF SiemClosed, Goto, Siem!Finish, work, dropped, OrderInv, Sourceless
  <2>2. SiemSettled' = SiemSafe
    BY <2>1, SettledIsDone DEF SiemSettled
  <2>3. \A n \in 1..count[Source] : <<Source, n>> \in SiemSafe
    BY <2>1, <1>0, Constants DEF SafeInv, SiemDone, NotCalling
  <2>4. before' \subseteq SiemSettled'
    BY <2>1, <2>2, <1>0 DEF SafeInv
  <2>5. \A n \in 1..count'[Source] : <<Source, n>> \in SiemSettled'
    BY <2>1, <2>2, <2>3
  <2> QED
    BY <2>1, <2>4, <2>5 DEF DoneInv, FileStillHasIt, ReloadsReachOpenSinks, RecordsReachOpenSinks, Clean
<1>3. CASE FileClosed
  <2>1. /\ pc = "waitFile" /\ pc' = "off" /\ fEarly \cap fPending = {} /\ rpc[Source] = "gone"
        /\ UNCHANGED <<count, before, fKept, fLost, fDropped>>
        /\ UNCHANGED <<sCalling, sPending, sKept, sLost, sDropped>>
    BY <1>3, <1>0 DEF FileClosed, File!Finish, work, sVars, dropped, OrderInv, Sourceless
  <2>2. FileSettled' = FileSafe /\ SiemSettled' = SiemSettled
    BY <2>1, SettledIsDone DEF FileSettled, SiemSettled
  <2>3. \A n \in 1..count[Source] : <<Source, n>> \in FileSafe /\ <<Source, n>> \in SiemSettled
    BY <2>1, <1>0, Constants DEF SafeInv, FileDone, DoneInv, NotCalling
  <2>4. before \subseteq FileSafe \cap SiemSettled
    BY <2>1, <1>0 DEF SafeInv, DoneInv
  <2>5. FileStillHasIt'
    BY <2>1, <2>2, <1>0 DEF SafeInv, FileStillHasIt
  <2>6. ReloadsReachOpenSinks'
    BY <2>1, <2>2, <2>3 DEF ReloadsReachOpenSinks
  <2>7. RecordsReachOpenSinks'
    BY <2>1, <2>2, <2>4 DEF RecordsReachOpenSinks
  <2> QED
    BY <2>1, <2>5, <2>6, <2>7 DEF DoneInv
<1>4. CASE InstallTrust
  <2>1. Quiet'
    BY <1>4, <1>0 DEF InstallTrust, Unaffected, work, fVars, sVars, dropped, OrderInv, Early, Quiet
  <2>2. pc' \notin {"closeFile", "waitFile"}
    BY <1>4 DEF InstallTrust, Goto
  <2>3. (FileStillHasIt /\ ReloadsReachOpenSinks /\ RecordsReachOpenSinks)'
    BY <2>1, QuietIsDone, PTL
  <2> QED
    BY <2>2, <2>3 DEF DoneInv
<1>6. ASSUME UNCHANGED <<pc, exit, count, before, sCalling, sPending, sKept, sLost, sDropped,
                         fKept, fLost, fDropped>>
      PROVE  DoneInv'
  BY <1>6, <1>0
     DEF DoneInv, FileStillHasIt, ReloadsReachOpenSinks, RecordsReachOpenSinks, Clean, SiemSettled, FileSettled
<1>7. CASE Signal
  <2>1. pc' = pc /\ pc \notin {"off", "closeFile", "waitFile"}
    BY <1>7 DEF Signal, main
  <2> QED
    BY <2>1 DEF DoneInv, FileStillHasIt, ReloadsReachOpenSinks, RecordsReachOpenSinks, Clean
<1>8. CASE CloseListener \/ UNCHANGED vars
  BY <1>8, <1>6 DEF CloseListener, main, work, sVars, fVars, dropped, vars
<1>9. CASE \/ Stat \/ LoadRoot \/ Generating \/ OpenSinks \/ StartSource \/ Listen
           \/ ServeReturns \/ CloseSource \/ CloseSiem
  <2>1. \/ Gone
        \/ pc # "off" /\ pc' \notin {"off", "closeFile", "waitFile"}
    BY <1>9 DEF Stat, LoadRoot, Generating, CertOpen, CertWrite, KeyOpen, KeyWrite, OpenSinks,
                StartSource, Listen, ServeReturns, CloseSource, CloseSiem, Goto, Gone, Exit
  <2> QED
    BY <2>1, <1>1 DEF DoneInv, FileStillHasIt, ReloadsReachOpenSinks, RecordsReachOpenSinks, Clean
<1>10. CASE CloseFile
  <2>1. /\ pc = "closeFile" /\ pc' = "waitFile"
        /\ UNCHANGED <<count, before, sKept, sLost, sDropped>>
    BY <1>10 DEF CloseFile, Goto, work, sVars, dropped
  <2> QED
    BY <2>1, <1>0
       DEF DoneInv, FileStillHasIt, ReloadsReachOpenSinks, RecordsReachOpenSinks, Clean, SiemSettled
\* While the process runs, only a step that reaches the last defers matters.
<1>11. ASSUME UNCHANGED <<pc, before>>, pc # "off", ~Start, ~Gone,
              rpc[Source] = "gone" => count'[Source] = count[Source]
       PROVE  DoneInv'
  BY <1>11, <1>0, SinksGrow
     DEF DoneInv, FileStillHasIt, ReloadsReachOpenSinks, RecordsReachOpenSinks, Clean, OrderInv, Sourceless
<1>12. CASE SourceReturns \/ Reload \/ WriteFile \/ DeliverSiem
  BY <1>1, <1>12, <1>11 DEF SourceReturns, Reload, StepReporter, WriteFile, DeliverSiem, Running,
                            main, work
<1>13. ASSUME NEW c \in Conns,
              \/ Connect(c) \/ Intercept(c) \/ Disconnect(c)
              \/ Request(c) \/ Respond(c) \/ RespondPanics(c)
       PROVE  DoneInv'
  <2>1. UNCHANGED <<pc, before>> /\ pc # "off"
    BY <1>13 DEF Connect, Intercept, Disconnect, Request, Respond, RespondPanics, StepReporter, Running, main
  <2>2. count'[Source] = count[Source]
    BY <1>13, <1>0, Constants DEF Connect, Intercept, Disconnect, Request, Respond, RespondPanics, WorkTypes
  <2> QED
    BY <1>1, <2>1, <2>2, <1>11
<1>14. ASSUME NEW p \in Reporters, Report(p)
       PROVE  DoneInv'
  <2>1. UNCHANGED <<pc, before, count>> /\ pc # "off"
    BY <1>14 DEF Report, CallFile, SendFile, CallSiem, SendSiem, StepReporter, Running, main
  <2> QED
    BY <1>1, <2>1, <1>11
<1> QED
  BY <1>1, <1>2, <1>3, <1>4, <1>7, <1>8, <1>9, <1>10, <1>12, <1>13, <1>14
     DEF Next, Startup, GenerateOrLoad, Shutdown, Gone, Generating

-----------------------------------------------------------------------------
(* The theorems.                                                           *)

LEMMA Invariant == Spec => []IInv
<1>1. IInv /\ [Next]_vars => IInv'
  BY StepType, StepRoot, StepOrder, StepSafe, StepDone DEF IInv
<1> QED
  BY InitInv, <1>1, PTL DEF Spec

\* Every variable keeps its type; a generation is counted with its start.
THEOREM TypeCorrect == Spec => []TypeOK
<1>1. IInv => TypeOK
  BY DEF IInv
<1> QED
  BY Invariant, <1>1, PTL

\* What is on disk once a process has had a root serves every later start, for
\* any number of starts, crashes and runs of either command.
THEOREM UsableRootStaysAlways == Spec => []UsableRootStays
<1>1. IInv => UsableRootStays
  BY Zenon DEF IInv, TypeOK, RootTypes, RootInv, UsableRootStays
<1> QED
  BY Invariant, <1>1, PTL

\* All leaves are signed by one root, the one that the trust store holds.
THEOREM TrustedRootSignsAlways == Spec => []TrustedRootSigns
<1>1. IInv => TrustedRootSigns
  BY DEF IInv, RootInv, TrustedRootSigns
<1> QED
  BY Invariant, <1>1, PTL

\* What the SIEM sink settles or has cut off, the file has settled.
THEOREM FileStillHasItAlways == Spec => []FileStillHasIt
<1>1. IInv => FileStillHasIt
  BY DEF IInv, DoneInv
<1> QED
  BY Invariant, <1>1, PTL

\* The source never reports to a sink that is closed, and no Close leaves a
\* reload behind.
THEOREM ReloadsReachOpenSinksAlways == Spec => []ReloadsReachOpenSinks
<1>1. IInv => ReloadsReachOpenSinks
  BY DEF IInv, DoneInv
<1> QED
  BY Invariant, <1>1, PTL

\* No Close leaves a record behind that was reported before the signal.
THEOREM RecordsReachOpenSinksAlways == Spec => []RecordsReachOpenSinks
<1>1. IInv => RecordsReachOpenSinks
  BY DEF IInv, DoneInv
<1> QED
  BY Invariant, <1>1, PTL

=============================================================================
