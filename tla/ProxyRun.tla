------------------------------ MODULE ProxyRun ------------------------------
(***************************************************************************)
(* The life of the runveil process (cmd/runveil/proxy.go, init.go): what   *)
(* runProxy sets up and in which order, the connections and the policy     *)
(* source that run meanwhile and report to both sinks of the audit log     *)
(* (internal/audit/multi.go), and the deferred calls that end it.  Every   *)
(* start, and every run of the init command, first generates or loads the  *)
(* local certificate authority (internal/ca); its two files outlive the     *)
(* process, whatever ends it.                                              *)
(*                                                                         *)
(* The sinks are two instances of LossyLog, which AuditWriter and HTTPSink *)
(* implement.  Item <<p, n>> is the n-th record or event of goroutine p.   *)
(***************************************************************************)
EXTENDS Naturals

CONSTANTS
    Conns,       \* connections of a life of the process
    Source,      \* the goroutine of the policy source
    MaxRequests, \* bound on the requests of a connection
    MaxReloads,  \* bound on the policy reloads of a life
    MaxStarts,   \* bound on the starts of the program
    Absent, Torn \* a file that is not there, or cut off

ASSUME RunAssumption == Source \notin Conns
                        /\ MaxRequests \in Nat /\ MaxReloads \in Nat /\ MaxStarts \in Nat
                        /\ Absent # Torn /\ Absent \notin Nat /\ Torn \notin Nat

Reporters == Conns \cup {Source}

VARIABLES
    \* On disk: absent, cut off, or complete; a root file names its key pair.
    cert, key,
    trusted,     \* the roots that the system's trust store holds
    \* The main goroutine and what it has in memory.
    cmd,         \* the command: "proxy" or "init"
    pc,          \* where it is; "off" when there is no process
    exit,        \* how the last process ended
    root,        \* the CA: [cert, key]
    cancelled,   \* the signal context
    listening,   \* the listener is open
    \* The goroutines.
    conn,        \* handleConn: "none", "accepted", "open" or "closed"
    rpc,         \* a reporter: "gone", "idle", "busy", or which sink it calls
    count,       \* items it has brought to the sinks, the current one included
    \* The two sinks.
    fCalling, fPending, fKept, fLost, fRefused, fEarly, fPhase,
    sCalling, sPending, sKept, sLost, sRefused, sEarly, sPhase,
    \* History.
    starts, generations, usable, signers,
    fDropped, sDropped, \* items that met a full channel
    before              \* items reported when the signal came

disk  == <<cert, key, trusted>>
ca    == <<generations, usable, root>>
main  == <<cmd, pc, exit>>
fVars == <<fCalling, fPending, fKept, fLost, fRefused, fEarly, fPhase>>
sVars == <<sCalling, sPending, sKept, sLost, sRefused, sEarly, sPhase>>
work  == <<conn, rpc, count>>
dropped == <<fDropped, sDropped>>

vars == <<disk, ca, main, cancelled, listening, work, fVars, sVars,
          starts, signers, dropped, before>>

Item(p) == <<p, count[p]>>
AllItems == Reporters \X (1..(MaxRequests + MaxReloads))

File == INSTANCE LossyLog WITH
    Items <- AllItems, calling <- fCalling, pending <- fPending, kept <- fKept,
    lost <- fLost, refused <- fRefused, early <- fEarly, phase <- fPhase

Siem == INSTANCE LossyLog WITH
    Items <- AllItems, calling <- sCalling, pending <- sPending, kept <- sKept,
    lost <- sLost, refused <- sRefused, early <- sEarly, phase <- sPhase

Calls    == Reporters \X Nat
Roots    == 1..MaxStarts
OnDisk   == {Absent, Torn} \cup Roots
NoRoot   == [cert |-> Absent, key |-> Absent]

RootTypes ==
    /\ cert \in OnDisk /\ key \in OnDisk
    /\ trusted \subseteq Roots
    /\ root \in [cert : OnDisk, key : OnDisk]
    /\ starts \in 0..MaxStarts /\ generations \in 0..starts
    /\ signers \subseteq [cert : Roots, key : Roots]
    /\ usable \in BOOLEAN

MainTypes ==
    /\ cmd \in {"proxy", "init"}
    /\ pc \in {"off", "stat", "load", "cert", "certBody", "key", "keyBody", "trust", "config",
               "policy", "listen", "serve", "closeSource", "closeSiem", "waitSiem",
               "closeFile", "waitFile"}
    /\ exit \in {"none", "ok", "failed", "noRoot", "killed"}
    /\ cancelled \in BOOLEAN /\ listening \in BOOLEAN

WorkTypes ==
    /\ conn \in [Conns -> {"none", "accepted", "open", "closed"}]
    /\ rpc \in [Reporters -> {"gone", "idle", "busy", "toFile", "inFile", "toSiem", "inSiem"}]
    /\ count \in [Reporters -> Nat]

LogTypes ==
    /\ fCalling \cup fPending \cup fKept \cup fLost \cup fRefused \cup fEarly \subseteq Calls
    /\ sCalling \cup sPending \cup sKept \cup sLost \cup sRefused \cup sEarly \subseteq Calls
    /\ fDropped \cup sDropped \cup before \subseteq Calls
    /\ fPhase \in {"open", "closing", "closed"} /\ sPhase \in {"open", "closing", "closed"}

TypeOK == RootTypes /\ MainTypes /\ WorkTypes /\ LogTypes

Init ==
    /\ cert = Absent /\ key = Absent /\ trusted = {}
    /\ cmd = "proxy" /\ pc = "off" /\ exit = "none" /\ root = NoRoot
    /\ cancelled = FALSE /\ listening = FALSE
    /\ conn = [c \in Conns |-> "none"]
    /\ rpc = [p \in Reporters |-> IF p = Source THEN "gone" ELSE "idle"]
    /\ count = [p \in Reporters |-> 0]
    /\ File!Init /\ Siem!Init
    /\ starts = 0 /\ generations = 0 /\ usable = FALSE
    /\ signers = {} /\ fDropped = {} /\ sDropped = {} /\ before = {}

-----------------------------------------------------------------------------
(* Starts and ends of a process.                                           *)

\* What a new process has, and what is left when one is gone.
Fresh ==
    /\ root' = NoRoot
    /\ cancelled' = FALSE /\ listening' = FALSE
    /\ conn' = [c \in Conns |-> "none"]
    /\ rpc' = [p \in Reporters |-> IF p = Source THEN "gone" ELSE "idle"]
    /\ count' = [p \in Reporters |-> 0]
    /\ fCalling' = {} /\ fPending' = {} /\ fKept' = {} /\ fLost' = {}
    /\ fRefused' = {} /\ fEarly' = {} /\ fPhase' = "open"
    /\ sCalling' = {} /\ sPending' = {} /\ sKept' = {} /\ sLost' = {}
    /\ sRefused' = {} /\ sEarly' = {} /\ sPhase' = "open"
    /\ fDropped' = {} /\ sDropped' = {} /\ before' = {}

\* The user, or the service manager that restarts what failed.
Start ==
    /\ pc = "off" /\ starts < MaxStarts
    /\ starts' = starts + 1
    /\ cmd' \in {"proxy", "init"}
    /\ pc' = "stat" /\ exit' = "none"
    /\ Fresh
    /\ UNCHANGED <<disk, generations, usable, signers>>

\* The process is gone and its goroutines with it; deferred calls are skipped.
Exit(how) ==
    /\ pc' = "off" /\ exit' = how
    /\ Fresh
    /\ UNCHANGED <<disk, generations, usable, cmd, starts, signers>>

\* A crash, or a signal that nobody handles: before NotifyContext, and again
\* after stop().
Killed == pc # "off" /\ Exit("killed")

\* os.Exit(1) of a start: unreadable settings, sinks that cannot be built,
\* flags that exclude each other, no policy, no port.
StartFails == pc \in {"config", "policy", "listen"} /\ Exit("failed")

Goto(l) == pc' = l /\ UNCHANGED <<cmd, exit>>

-----------------------------------------------------------------------------
(* GenerateOrLoad.                                                         *)

Unaffected == <<cancelled, listening, work, fVars, sVars, starts, signers, dropped, before>>

\* Mutation: a root is generated although there is one.
StatForgets ==
    /\ pc = "stat"
    /\ Goto("cert")
    /\ UNCHANGED <<disk, ca, Unaffected>>

\* os.Stat of ca.crt decides.
Stat ==
    /\ pc = "stat"
    /\ Goto(IF cert = Absent THEN "cert" ELSE "load")
    /\ UNCHANGED <<disk, ca, Unaffected>>

\* loadRoot: both files must decode; that they match is not checked.
LoadRoot ==
    /\ pc = "load"
    /\ IF cert \in Roots /\ key \in Roots
         THEN /\ root' = [cert |-> cert, key |-> key]
              /\ usable' = TRUE
              /\ Goto("trust")
              /\ UNCHANGED <<disk, generations, Unaffected>>
         ELSE Exit("noRoot")

\* generateRoot makes a key pair; writePEM truncates ca.crt and writes it.
CertOpen ==
    /\ pc = "cert"
    /\ generations' = generations + 1
    /\ cert' = Torn
    /\ Goto("certBody")
    /\ UNCHANGED <<key, trusted, usable, root, Unaffected>>

CertWrite ==
    /\ pc = "certBody"
    /\ cert' = generations
    /\ Goto("key")
    /\ UNCHANGED <<key, trusted, ca, Unaffected>>

KeyOpen ==
    /\ pc = "key"
    /\ key' = Torn
    /\ Goto("keyBody")
    /\ UNCHANGED <<cert, trusted, ca, Unaffected>>

\* The CA is what generateRoot has in memory.
KeyWrite ==
    /\ pc = "keyBody"
    /\ key' = generations
    /\ root' = [cert |-> generations, key |-> generations]
    /\ usable' = TRUE
    /\ Goto("trust")
    /\ UNCHANGED <<cert, trusted, generations, Unaffected>>

\* Mutation: a key that cannot be written is not noticed.
GenerateFailsLate ==
    \/ pc \in {"cert", "certBody", "key"} /\ Exit("noRoot")
    \/ /\ pc = "keyBody"
       /\ root' = [cert |-> generations, key |-> generations]
       /\ usable' = TRUE
       /\ Goto("trust")
       /\ UNCHANGED <<disk, generations, Unaffected>>

\* A file cannot be created or written to its end.
GenerateFails == pc \in {"cert", "certBody", "key", "keyBody"} /\ Exit("noRoot")

\* Install is best effort.  The init command ends here, with a starter policy
\* or without one.
InstallTrust ==
    /\ pc = "trust"
    /\ trusted' \in {trusted, trusted \cup {root.cert}}
    /\ IF cmd = "init" THEN pc' = "off" /\ exit' \in {"ok", "failed"} /\ UNCHANGED cmd
                       ELSE Goto("config")
    /\ UNCHANGED <<cert, key, ca, Unaffected>>

-----------------------------------------------------------------------------
(* runProxy from the settings to the deferred calls.                       *)

\* Enrollment, config, the writer, the SIEM sink, the tee, the signal context.
OpenSinks ==
    /\ pc = "config"
    /\ Goto("policy")
    /\ UNCHANGED <<disk, ca, Unaffected>>

\* The policy from a file or a server, and the goroutine that watches it;
\* without a policy file there is none.
StartSource ==
    /\ pc = "policy"
    /\ \E s \in {"gone", "idle"} : rpc' = [rpc EXCEPT ![Source] = s]
    /\ Goto("listen")
    /\ UNCHANGED <<disk, ca, cancelled, listening, conn, count, fVars, sVars,
                   starts, signers, dropped, before>>

Listen ==
    /\ pc = "listen"
    /\ listening' = TRUE
    /\ Goto("serve")
    /\ UNCHANGED <<disk, ca, cancelled, work, fVars, sVars, starts, signers, dropped, before>>

\* A reporter that calls no sink: not started or returned, waiting, or in a handler.
NotCalling == {"gone", "idle", "busy"}

\* The items whose calls to both sinks are over.
Reported ==
    UNION {{<<p, n>> : n \in 1..(IF rpc[p] \in NotCalling THEN count[p] ELSE count[p] - 1)} :
               p \in Reporters}

\* SIGINT or SIGTERM between NotifyContext and stop() cancels the context.
Signal ==
    /\ pc \in {"policy", "listen", "serve"} /\ ~cancelled
    /\ cancelled' = TRUE
    /\ before' = Reported
    /\ UNCHANGED <<disk, ca, main, listening, work, fVars, sVars, starts, signers, dropped>>

\* The goroutine that waits for the context closes the listener.
CloseListener ==
    /\ cancelled /\ listening
    /\ listening' = FALSE
    /\ UNCHANGED <<disk, ca, main, cancelled, work, fVars, sVars, starts, signers,
                   dropped, before>>

\* Mutation: Serve waits for its connections.
ServeReturnsLast ==
    /\ pc = "serve" /\ ~listening /\ cancelled
    /\ \A c \in Conns : conn[c] \in {"none", "closed"}
    /\ Goto("closeSource")
    /\ UNCHANGED <<disk, ca, Unaffected>>

\* Accept fails; Serve does not wait for its connections.
ServeReturns ==
    /\ pc = "serve" /\ ~listening /\ cancelled
    /\ Goto("closeSource")
    /\ UNCHANGED <<disk, ca, Unaffected>>

\* Mutation: Close of the source does not wait for its goroutine.
CloseSourceNoWait ==
    /\ pc = "closeSource"
    /\ Goto("closeSiem")
    /\ UNCHANGED <<disk, ca, Unaffected>>

\* Mutation: the SIEM sink is not closed.
CloseSourceOnly ==
    /\ pc = "closeSource" /\ rpc[Source] = "gone"
    /\ Goto("closeFile")
    /\ UNCHANGED <<disk, ca, Unaffected>>

\* The deferred calls, last first: Close of the source, of the metrics
\* server, stop(), then the sinks.
CloseSource ==
    /\ pc = "closeSource" /\ rpc[Source] = "gone"
    /\ Goto("closeSiem")
    /\ UNCHANGED <<disk, ca, Unaffected>>

CloseSiem ==
    /\ pc = "closeSiem"
    /\ Siem!Shut
    /\ Goto("waitSiem")
    /\ UNCHANGED <<disk, ca, cancelled, listening, work, fVars, starts, signers, dropped, before>>

SiemClosed ==
    /\ pc = "waitSiem"
    /\ Siem!Finish
    /\ Goto("closeFile")
    /\ UNCHANGED <<disk, ca, cancelled, listening, work, fVars, starts, signers, dropped, before>>

\* Mutation: the process ends without closing the writer.
CloseFileSkipped ==
    /\ pc = "closeFile"
    /\ pc' = "off" /\ exit' = "ok"
    /\ UNCHANGED <<disk, ca, cmd, Unaffected>>

CloseFile ==
    /\ pc = "closeFile"
    /\ File!Shut
    /\ Goto("waitFile")
    /\ UNCHANGED <<disk, ca, cancelled, listening, work, sVars, starts, signers, dropped, before>>

\* The last deferred call is over: main returns.
FileClosed ==
    /\ pc = "waitFile"
    /\ File!Finish
    /\ pc' = "off" /\ exit' = "ok"
    /\ UNCHANGED <<disk, ca, cmd, cancelled, listening, work, sVars, starts, signers,
                   dropped, before>>

-----------------------------------------------------------------------------
(* Connections, the policy source, and what they report.                   *)

Running == pc # "off"

StepConn(c, from, to) == conn[c] = from /\ conn' = [conn EXCEPT ![c] = to]

Connect(c) ==
    /\ pc = "serve" /\ listening
    /\ StepConn(c, "none", "accepted")
    /\ UNCHANGED <<disk, ca, main, cancelled, listening, rpc, count, fVars, sVars,
                   starts, signers, dropped, before>>

\* CONNECT, MintLeaf, the handshake: a leaf can only be signed with the key
\* of the root certificate.
Intercept(c) ==
    /\ Running /\ root.cert = root.key
    /\ StepConn(c, "accepted", "open")
    /\ signers' = signers \cup {root}
    /\ UNCHANGED <<disk, ca, main, cancelled, listening, rpc, count, fVars, sVars,
                   starts, dropped, before>>

\* The connection fails or ends; an HTTP/2 handler may outlive it.
Disconnect(c) ==
    /\ Running
    /\ \E from \in {"accepted", "open"} : StepConn(c, from, "closed")
    /\ UNCHANGED <<disk, ca, main, cancelled, listening, rpc, count, fVars, sVars,
                   starts, signers, dropped, before>>

StepReporter(p, from, to) == Running /\ rpc[p] = from /\ rpc' = [rpc EXCEPT ![p] = to]

\* A request enters its handler.
Request(c) ==
    /\ conn[c] = "open" /\ count[c] < MaxRequests
    /\ StepReporter(c, "idle", "busy")
    /\ UNCHANGED <<disk, ca, main, cancelled, listening, conn, count, fVars, sVars,
                   starts, signers, dropped, before>>

\* The handler is through; its deferred function reports the record.
Respond(c) ==
    /\ StepReporter(c, "busy", "toFile")
    /\ count' = [count EXCEPT ![c] = @ + 1]
    /\ UNCHANGED <<disk, ca, main, cancelled, listening, conn, fVars, sVars,
                   starts, signers, dropped, before>>

\* The deferred function parses the body a second time, where nothing
\* recovers a panic: the request is over and has no record.
RespondPanics(c) ==
    /\ StepReporter(c, "busy", "idle")
    /\ UNCHANGED <<disk, ca, main, cancelled, listening, conn, count, fVars, sVars,
                   starts, signers, dropped, before>>

\* onAccept or onReject of the source: the policy changes or not, and the
\* event is reported.
Reload ==
    /\ count[Source] < MaxReloads
    /\ StepReporter(Source, "idle", "toFile")
    /\ count' = [count EXCEPT ![Source] = @ + 1]
    /\ UNCHANGED <<disk, ca, main, cancelled, listening, conn, fVars, sVars,
                   starts, signers, dropped, before>>

\* The source's goroutine finds the context cancelled.
SourceReturns ==
    /\ cancelled
    /\ StepReporter(Source, "idle", "gone")
    /\ UNCHANGED <<disk, ca, main, cancelled, listening, conn, count, fVars, sVars,
                   starts, signers, dropped, before>>

\* MultiLogger calls the writer, then the SIEM sink.
CallFile(p) ==
    /\ StepReporter(p, "toFile", IF fPhase = "open" THEN "inFile" ELSE "toSiem")
    /\ File!Call(Item(p))
    /\ UNCHANGED <<disk, ca, main, cancelled, listening, conn, count, sVars,
                   starts, signers, dropped, before>>

SendFile(p) ==
    /\ StepReporter(p, "inFile", "toSiem")
    /\ \/ File!Accept(Item(p)) /\ UNCHANGED fDropped
       \/ File!Drop(Item(p)) /\ fDropped' = fDropped \cup {Item(p)}
    /\ UNCHANGED <<sDropped, disk, ca, main, cancelled, listening, conn, count, sVars,
                   starts, signers, before>>

CallSiem(p) ==
    /\ StepReporter(p, "toSiem", IF sPhase = "open" THEN "inSiem" ELSE "idle")
    /\ Siem!Call(Item(p))
    /\ UNCHANGED <<disk, ca, main, cancelled, listening, conn, count, fVars,
                   starts, signers, dropped, before>>

SendSiem(p) ==
    /\ StepReporter(p, "inSiem", "idle")
    /\ \/ Siem!Accept(Item(p)) /\ UNCHANGED sDropped
       \/ Siem!Drop(Item(p)) /\ sDropped' = sDropped \cup {Item(p)}
    /\ UNCHANGED <<fDropped, disk, ca, main, cancelled, listening, conn, count, fVars,
                   starts, signers, before>>

\* The goroutines of the sinks.
WriteFile ==
    /\ Running
    /\ \E S \in (SUBSET fPending) \ {{}} : \E K \in SUBSET S : File!Settle(S, K)
    /\ UNCHANGED <<disk, ca, main, cancelled, listening, work, sVars,
                   starts, signers, dropped, before>>

DeliverSiem ==
    /\ Running
    /\ \E S \in (SUBSET sPending) \ {{}} : \E K \in SUBSET S : Siem!Settle(S, K)
    /\ UNCHANGED <<disk, ca, main, cancelled, listening, work, fVars,
                   starts, signers, dropped, before>>

-----------------------------------------------------------------------------
GenerateOrLoad == Stat \/ LoadRoot \/ CertOpen \/ CertWrite \/ KeyOpen \/ KeyWrite

Startup == GenerateOrLoad \/ InstallTrust \/ OpenSinks \/ StartSource \/ Listen

Shutdown == \/ CloseListener \/ ServeReturns \/ CloseSource \/ SourceReturns
            \/ CloseSiem \/ SiemClosed \/ CloseFile \/ FileClosed

Report(p) == CallFile(p) \/ SendFile(p) \/ CallSiem(p) \/ SendSiem(p)

Next == \/ Start \/ Startup \/ Shutdown \/ Signal
        \/ Killed \/ StartFails \/ GenerateFails
        \/ \E c \in Conns : \/ Connect(c) \/ Intercept(c) \/ Disconnect(c)
                           \/ Request(c) \/ Respond(c) \/ RespondPanics(c)
        \/ Reload
        \/ \E p \in Reporters : Report(p)
        \/ WriteFile \/ DeliverSiem

Spec == Init /\ [][Next]_vars

\* Goroutines are scheduled, calls of Log and Event do not block, the writer
\* writes, and a sink that is being closed settles what it has (Close of the
\* SIEM sink has a time budget).  Nothing makes a handler or a client finish.
Fairness ==
    /\ WF_vars(Startup) /\ WF_vars(Shutdown) /\ WF_vars(WriteFile)
    /\ WF_vars(sPhase = "closing" /\ DeliverSiem)
    /\ WF_vars(Report(Source))

FairSpec == Spec /\ Fairness

-----------------------------------------------------------------------------
(* Properties.                                                             *)

\* The items a sink has settled: written or delivered, lost to a write that
\* fails or a collector that is silent, or dropped on a full channel.  Not
\* among them are those that it refused because it was closed, and those that
\* Close left behind in its channel.
FileSettled == fKept \cup fLost \cup fDropped
SiemSettled == sKept \cup sLost \cup sDropped

Clean == pc = "off" /\ exit = "ok"

\* A record that the shutdown of the SIEM sink cuts off, or that the sink
\* still takes, has gone to the file while the file was open: it is written
\* there, unless the file dropped it or failed for a reason of its own
\* (httpsink.go:226-228).
FileStillHasIt ==
    Clean => sCalling \cup sPending \cup SiemSettled \subseteq FileSettled

\* The source runs until the shutdown is under way, and yet no reload finds a
\* sink that is already closed, or is left behind by the Close of one
\* (proxy.go:303): after a clean shutdown each sink has settled it.  It is in
\* the log unless the channel was full or the sink failed.
ReloadsReachOpenSinks ==
    Clean => \A n \in 1..count[Source] : <<Source, n>> \in FileSettled \cap SiemSettled

\* The record of a request that was reported when the signal came is not left
\* behind by the Close of either sink: after a clean shutdown each has settled
\* it.  It is in the log unless the channel was full or the sink failed.
RecordsReachOpenSinks == Clean => before \subseteq FileSettled \cap SiemSettled

\* A root that a process has once loaded or generated serves every later
\* start, whatever crashes in between.
UsableRootStays == usable => exit # "noRoot"

\* Every leaf is signed by the root that the trust store holds, over all
\* starts and both commands.
TrustedRootSigns ==
    \A r \in signers : \A t \in trusted : r = [cert |-> t, key |-> t]

\* After the signal the process ends, whatever its connections do.
ShutdownEnds == cancelled ~> pc = "off"
=============================================================================
