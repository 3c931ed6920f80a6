-------------------------- MODULE RequestPipeline ---------------------------
(***************************************************************************)
(* The life of one intercepted request, from the body read to the deferred *)
(* audit record, run concurrently for every request of Requests, while a   *)
(* policy source swaps the active policy.                                  *)
(*                                                                         *)
(*   internal/proxy/upstream.go      the HTTP handler (newHandler)         *)
(*   internal/pipeline/chain.go      Chain.Run and its panic recovery      *)
(*   internal/stage/pathscan         the first stage                       *)
(*   internal/stage/secretscan       the second stage                      *)
(*   internal/policy/provider.go     the atomically swapped policy         *)
(*                                                                         *)
(* A body is the set of byte atoms of interest it holds; a finding names   *)
(* the atoms it covers, so that two findings may cover the same secret.    *)
(* How a span is masked inside a text is the subject of module Redact; of  *)
(* its leaves only the twins matter here: the atoms in texts that the      *)
(* redactor does not reach while it reaches a copy of them.                *)
(***************************************************************************)
EXTENDS Policy, FiniteSets

CONSTANTS
    Requests,        \* one handler invocation each
    Bodies,          \* request bodies: [parse, atoms, twins, paths]
    Findings,        \* what the detectors can report: [pattern, severity, atoms]
    Policies,        \* policies the source can publish
    NoPolicy,        \* the nil *Policy of flag mode
    Initials,        \* policies the proxy can start with
    BlockOnDetect,   \* --block-on-detect
    UpstreamStatus,  \* status codes a vendor answers with
    NoBody           \* no bytes: no RequestCtx yet, nothing transmitted

Atoms == UNION {f.atoms : f \in Findings}

\* The contents a body can have.
Contents == {a : a \in SUBSET Atoms}

\* What parser.ParseRequest makes of a body: an AI request, nothing it knows
\* (a nil result or an error: both stages go on), or a panic.
ParseResults == {"ai", "none", "panic"}

ASSUME ModelAssumption ==
    /\ Policies \subseteq Policy
    /\ NoPolicy \notin Policies
    /\ Initials \subseteq Policies \cup {NoPolicy}
    /\ BlockOnDetect \in BOOLEAN
    /\ \A f \in Findings :
          f.pattern \in Patterns /\ f.severity \in Severities /\ f.atoms # {}
    /\ \A b \in Bodies :
          /\ b.parse \in ParseResults /\ b.paths \subseteq Paths
          /\ b.twins \subseteq b.atoms /\ b.atoms \subseteq Atoms
    /\ NoBody \notin Contents
    /\ UpstreamStatus \subseteq Nat

VARIABLES
    active,     \* policy.Provider's pointer
    pc,         \* where each handler is
    body,       \* the client's body
    metaBody,   \* rc.Metadata["body"]; NoBody while rc is nil
    pathFound,  \* rc.Metadata["pathscan.findings"]
    secretFound,\* rc.Metadata["secretscan.findings"]
    decision,   \* the handler's decision variable
    status,     \* statusRecorder: status written to the client
    wire,       \* bytes transmitted to the vendor, or NoBody
    audit,      \* records handed to AuditFunc.Log for each request
    pathPol,    \* history: the policy the path stage read
    secretPol,  \* history: the policy the secret stage read
    panicked    \* history: the stages that panicked

vars == <<active, pc, body, metaBody, pathFound, secretFound, decision,
          status, wire, audit, pathPol, secretPol, panicked>>

requestVars == <<body, metaBody, pathFound, secretFound>>
outcomeVars == <<decision, status, wire, audit>>
historyVars == <<pathPol, secretPol, panicked>>

PCs == {"idle", "read", "pathscan", "secretscan", "decide", "forward", "wait",
        "stream", "deferred", "done"}

Decisions == {"continue", "block", "modify"}

\* Metadata entries: the finding or path with the name of the rule that
\* decided it.
SecretEntries == [finding : Findings, rule : RuleNames \cup {NoName}]
PathEntries   == [path : Paths, rule : RuleNames \cup {NoName}]

Records == [decision : Decisions, status : Nat, ai : BOOLEAN,
            secrets : SUBSET SecretEntries, paths : SUBSET PathEntries]

NoStatus == 0

TypeOK ==
    /\ active \in Policies \cup {NoPolicy}
    /\ pc \in [Requests -> PCs]
    /\ body \in [Requests -> Bodies]
    /\ metaBody \in [Requests -> Contents \cup {NoBody}]
    /\ pathFound \in [Requests -> SUBSET PathEntries]
    /\ secretFound \in [Requests -> SUBSET SecretEntries]
    /\ decision \in [Requests -> Decisions]
    /\ status \in [Requests -> Nat]
    /\ wire \in [Requests -> Contents \cup {NoBody}]
    /\ audit \in [Requests -> SUBSET Records]
    /\ pathPol \in [Requests -> Policies \cup {NoPolicy}]
    /\ secretPol \in [Requests -> Policies \cup {NoPolicy}]
    /\ panicked \in [Requests -> SUBSET {"pathscan", "secretscan"}]
    /\ \A r \in Requests : pc[r] \in {"pathscan", "secretscan", "decide"} =>
                            metaBody[r] # NoBody
    /\ \A r \in Requests : pc[r] = "decide" => secretPol[r] # NoPolicy

Init ==
    /\ active \in Initials
    /\ pc = [r \in Requests |-> "idle"]
    /\ body \in [Requests -> Bodies]
    /\ metaBody = [r \in Requests |-> NoBody]
    /\ pathFound = [r \in Requests |-> {}]
    /\ secretFound = [r \in Requests |-> {}]
    /\ decision = [r \in Requests |-> "continue"]
    /\ status = [r \in Requests |-> NoStatus]
    /\ wire = [r \in Requests |-> NoBody]
    /\ audit = [r \in Requests |-> {}]
    /\ pathPol = [r \in Requests |-> NoPolicy]
    /\ secretPol = [r \in Requests |-> NoPolicy]
    /\ panicked = [r \in Requests |-> {}]

Goto(r, l) == pc' = [pc EXCEPT ![r] = l]

-----------------------------------------------------------------------------
(* Reading the request.                                                    *)

\* The HTTP server calls the handler, which starts to read the body.
Accept(r) ==
    /\ pc[r] = "idle"
    /\ Goto(r, "read")
    /\ UNCHANGED <<active, requestVars, outcomeVars, historyVars>>

\* Mutation: the stages start without the body in the metadata.
ReadBodyForgets(r) ==
    /\ pc[r] = "read"
    /\ Goto(r, "pathscan")
    /\ UNCHANGED <<active, requestVars, outcomeVars, historyVars>>

\* The body is read and put in a fresh RequestCtx; the chain starts.
ReadBody(r) ==
    /\ pc[r] = "read"
    /\ metaBody' = [metaBody EXCEPT ![r] = body[r].atoms]
    /\ Goto(r, "pathscan")
    /\ UNCHANGED <<active, body, pathFound, secretFound, outcomeVars, historyVars>>

\* The body exceeds MaxBodyBytes (413) or the client goes away (400).
ReadBodyFails(r) ==
    /\ pc[r] = "read"
    /\ \E code \in {413, 400} : status' = [status EXCEPT ![r] = code]
    /\ Goto(r, "deferred")
    /\ UNCHANGED <<active, requestVars, decision, wire, audit, historyVars>>

-----------------------------------------------------------------------------
(* Chain.Run.  A stage that returns Block ends the request with a 403; any *)
(* other result goes on, Modify being remembered over later results.       *)

\* The chain stops: writeBlockResp answers 403.
ChainBlocks(r) ==
    /\ decision' = [decision EXCEPT ![r] = "block"]
    /\ status' = [status EXCEPT ![r] = 403]
    /\ Goto(r, "deferred")
    /\ UNCHANGED <<wire, audit>>

ChainGoesOn(r, dec, next) ==
    /\ decision' = [decision EXCEPT ![r] = IF dec = "modify" THEN dec ELSE @]
    /\ Goto(r, next)
    /\ UNCHANGED <<status, wire, audit>>

\* runStage recovers a panic of the stage and returns Continue.
StagePanics(r, stage, next) ==
    /\ panicked' = [panicked EXCEPT ![r] = @ \cup {stage}]
    /\ ChainGoesOn(r, "continue", next)

-----------------------------------------------------------------------------
(* pathscan.Process: one read of the provider, every extracted path decided*)
(* with that policy; allow suppresses, block blocks, everything else is    *)
(* kept as a warning.                                                      *)

KeptPaths(p, paths) ==
    {[path |-> x, rule |-> DecidePath(p, x).rule] :
        x \in {y \in paths : DecidePath(p, y).action # "allow"}}

PathsBlock(p, paths) == \E x \in paths : DecidePath(p, x).action = "block"

PathScan(r) ==
    /\ pc[r] = "pathscan"
    /\ body[r].parse # "panic" \/ active = NoPolicy
    /\ pathPol' = [pathPol EXCEPT ![r] = active]
    /\ LET paths == IF active = NoPolicy \/ body[r].parse # "ai"
                      THEN {} ELSE body[r].paths
       IN  /\ pathFound' = [pathFound EXCEPT ![r] = KeptPaths(active, paths)]
           /\ IF PathsBlock(active, paths)
                THEN ChainBlocks(r)
                ELSE ChainGoesOn(r, "continue", "secretscan")
    /\ UNCHANGED <<active, body, metaBody, secretFound, secretPol, panicked>>

\* The parser or the path extraction panics after the policy was read.
PathScanPanics(r) ==
    /\ pc[r] = "pathscan"
    /\ active # NoPolicy
    /\ body[r].parse # "none"
    /\ pathPol' = [pathPol EXCEPT ![r] = active]
    /\ StagePanics(r, "pathscan", "secretscan")
    /\ UNCHANGED <<active, requestVars, secretPol>>

-----------------------------------------------------------------------------
(* secretscan.Process.                                                     *)

\* detector.Scan over the text segments of an AI request.
Scan(parse, atoms) ==
    IF parse = "ai" THEN {f \in Findings : f.atoms \subseteq atoms} ELSE {}

Raw(r) == Scan(body[r].parse, metaBody[r])

Kept(p, raw) ==
    {[finding |-> f, rule |-> Decide(p, f).rule] :
        f \in {g \in raw : Decide(p, g).action # "allow"}}

Blocking(p, raw)  == {f \in raw : Decide(p, f).action = "block"}
Redacting(p, raw) == {f \in raw : Decide(p, f).action = "redact"}
MaskedAtoms(p, raw) == UNION {f.atoms : f \in Redacting(p, raw)}

\* What RedactRequest can make of a body when it succeeds: the redacted spans
\* are masked wherever the redactor reaches them, and where spans overlap,
\* bytes next to them are lost as well.  A finding that it reaches in one
\* place passes the check for those it reached nowhere: its twins stay.
RedactRequest(p, raw, atoms, twins) ==
    {s \cup twins : s \in SUBSET (atoms \ MaskedAtoms(p, raw))}

\* Nothing to decide: not an AI request, or no finding.
SecretScanClean(r) ==
    /\ pc[r] = "secretscan"
    /\ body[r].parse # "panic"
    /\ Raw(r) = {}
    /\ ChainGoesOn(r, "continue", "forward")
    /\ UNCHANGED <<active, requestVars, historyVars>>

\* decideWithFlag: no policy is active, only --block-on-detect decides.
SecretScanFlag(r) ==
    /\ pc[r] = "secretscan"
    /\ active = NoPolicy
    /\ Raw(r) # {}
    /\ secretFound' = [secretFound EXCEPT ![r] =
                          {[finding |-> f, rule |-> NoName] : f \in Raw(r)}]
    /\ IF BlockOnDetect /\ \E f \in Raw(r) : f.severity = "high"
         THEN ChainBlocks(r)
         ELSE ChainGoesOn(r, "continue", "forward")
    /\ UNCHANGED <<active, body, metaBody, pathFound, historyVars>>

\* There are findings, and a policy: the stage's one read of the provider.
SecretScanReads(r) ==
    /\ pc[r] = "secretscan"
    /\ active # NoPolicy
    /\ Raw(r) # {}
    /\ secretPol' = [secretPol EXCEPT ![r] = active]
    /\ Goto(r, "decide")
    /\ UNCHANGED <<active, requestVars, outcomeVars, pathPol, panicked>>

\* Mutation: a redaction that succeeds leaves the original body in place.
DecideKeepsBody(r, p) ==
    /\ secretFound' = [secretFound EXCEPT ![r] = Kept(p, Raw(r))]
    /\ UNCHANGED metaBody
    /\ \/ /\ Blocking(p, Raw(r)) # {}
          /\ ChainBlocks(r)
       \/ /\ Blocking(p, Raw(r)) = {}
          /\ ChainGoesOn(r, IF Redacting(p, Raw(r)) = {} THEN "continue"
                            ELSE "modify", "forward")

\* Block wins over redact; RedactRequest masks what it reaches of the redacted
\* findings or fails, and then the stage blocks.
DecideUnder(r, p) ==
    LET raw == Raw(r)
    IN  /\ secretFound' = [secretFound EXCEPT ![r] = Kept(p, raw)]
        /\ \/ /\ Blocking(p, raw) # {}
              /\ ChainBlocks(r)
              /\ UNCHANGED metaBody
           \/ /\ Blocking(p, raw) = {}
              /\ Redacting(p, raw) = {}
              /\ ChainGoesOn(r, "continue", "forward")
              /\ UNCHANGED metaBody
           \/ /\ Blocking(p, raw) = {}
              /\ Redacting(p, raw) # {}
              /\ \/ /\ \E new \in RedactRequest(p, raw, metaBody[r], body[r].twins) :
                          metaBody' = [metaBody EXCEPT ![r] = new]
                    /\ ChainGoesOn(r, "modify", "forward")
                 \/ /\ ChainBlocks(r)
                    /\ UNCHANGED metaBody

\* Mutation: decideWithPolicy reads the provider again.
DecideRereads(r) ==
    /\ pc[r] = "decide"
    /\ active # NoPolicy /\ DecideUnder(r, active)
    /\ UNCHANGED <<active, body, pathFound, historyVars>>

\* decideWithPolicy: the policy that was read decides every finding.
SecretScanPolicy(r) ==
    /\ pc[r] = "decide"
    /\ DecideUnder(r, secretPol[r])
    /\ UNCHANGED <<active, body, pathFound, historyVars>>

\* A panic of the parser or a detector, before the policy is read.
SecretScanPanics(r) ==
    /\ pc[r] = "secretscan"
    /\ body[r].parse # "none"
    /\ StagePanics(r, "secretscan", "forward")
    /\ UNCHANGED <<active, requestVars, pathPol, secretPol>>

\* A panic inside RedactRequest: the findings are already in the metadata,
\* the body is not replaced, and the request goes on.
RedactPanics(r) ==
    /\ pc[r] = "decide"
    /\ Blocking(secretPol[r], Raw(r)) = {}
    /\ Redacting(secretPol[r], Raw(r)) # {}
    /\ secretFound' = [secretFound EXCEPT ![r] = Kept(secretPol[r], Raw(r))]
    /\ StagePanics(r, "secretscan", "forward")
    /\ UNCHANGED <<active, body, metaBody, pathFound, pathPol, secretPol>>

-----------------------------------------------------------------------------
(* Forwarding.                                                             *)

\* The upstream is not resolved, or the outgoing request cannot be built.
ResolveFails(r) ==
    /\ pc[r] = "forward"
    /\ status' = [status EXCEPT ![r] = 502]
    /\ Goto(r, "deferred")
    /\ UNCHANGED <<active, requestVars, decision, wire, audit, historyVars>>

\* Mutation: the handler forwards the body it read, not the stages' one.
SendOriginal(r) ==
    /\ pc[r] = "forward"
    /\ wire' = [wire EXCEPT ![r] = body[r].atoms]
    /\ Goto(r, "wait")
    /\ UNCHANGED <<active, requestVars, decision, status, audit, historyVars>>

\* client.Do transmits the body the stages left in the metadata.
Send(r) ==
    /\ pc[r] = "forward"
    /\ wire' = [wire EXCEPT ![r] = metaBody[r]]
    /\ Goto(r, "wait")
    /\ UNCHANGED <<active, requestVars, decision, status, audit, historyVars>>

\* client.Do fails: before the body was transmitted (dial, handshake) or
\* after it (header timeout, reset).  The client gets a 502 either way.
DoFails(r) ==
    /\ pc[r] \in {"forward", "wait"}
    /\ status' = [status EXCEPT ![r] = 502]
    /\ Goto(r, "deferred")
    /\ UNCHANGED <<active, requestVars, decision, wire, audit, historyVars>>

\* The response header arrives and is passed on.
Respond(r) ==
    /\ pc[r] = "wait"
    /\ \E code \in UpstreamStatus : status' = [status EXCEPT ![r] = code]
    /\ Goto(r, "stream")
    /\ UNCHANGED <<active, requestVars, decision, wire, audit, historyVars>>

\* The copy loop ends: end of the response, or an error on either side.
StreamEnds(r) ==
    /\ pc[r] = "stream"
    /\ Goto(r, "deferred")
    /\ UNCHANGED <<active, requestVars, outcomeVars, historyVars>>

-----------------------------------------------------------------------------
(* The deferred audit record.                                              *)

\* Whether rc was built: vendorAndEndpoint and findingsFromMetadata return
\* nothing for a request whose body was never read.
HasCtx(r) == metaBody[r] # NoBody

AuditRecord(r) ==
    [decision |-> decision[r], status |-> status[r],
     ai |-> body[r].parse = "ai" /\ HasCtx(r),
     secrets |-> secretFound[r], paths |-> pathFound[r]]

\* Mutation: requests that were answered 403 leave no record.
LogUnlessBlocked(r) ==
    /\ pc[r] = "deferred"
    /\ decision[r] # "block"
    /\ audit' = [audit EXCEPT ![r] = @ \cup {AuditRecord(r)}]
    /\ Goto(r, "done")
    /\ UNCHANGED <<active, requestVars, decision, status, wire, historyVars>>

\* The deferred function parses the body again for the vendor and logs.
Log(r) ==
    /\ pc[r] = "deferred"
    /\ HasCtx(r) => body[r].parse # "panic"
    /\ audit' = [audit EXCEPT ![r] = @ \cup {AuditRecord(r)}]
    /\ Goto(r, "done")
    /\ UNCHANGED <<active, requestVars, decision, status, wire, historyVars>>

\* That second parse is not under runStage's recover: a body on which the
\* parser panics ends the handler without a record (net/http recovers).
LogPanics(r) ==
    /\ pc[r] = "deferred"
    /\ HasCtx(r) /\ body[r].parse = "panic"
    /\ Goto(r, "done")
    /\ UNCHANGED <<active, requestVars, outcomeVars, historyVars>>

-----------------------------------------------------------------------------
\* onAccept publishes a new policy (there is a source only if there was a
\* policy at startup).
Reload(p) ==
    /\ active # NoPolicy
    /\ active' = p
    /\ UNCHANGED <<pc, requestVars, outcomeVars, historyVars>>

\* The steps the handler takes by itself, and those that wait for the client
\* or the vendor.
Own(r) ==
    \/ PathScan(r) \/ PathScanPanics(r)
    \/ SecretScanClean(r) \/ SecretScanFlag(r)
    \/ SecretScanReads(r) \/ SecretScanPolicy(r)
    \/ SecretScanPanics(r) \/ RedactPanics(r)
    \/ ResolveFails(r)
    \/ Log(r) \/ LogPanics(r)

Peer(r) ==
    \/ Accept(r) \/ ReadBody(r) \/ ReadBodyFails(r)
    \/ Send(r) \/ DoFails(r) \/ Respond(r) \/ StreamEnds(r)

Next ==
    \/ \E r \in Requests : Own(r) \/ Peer(r)
    \/ \E p \in Policies : Reload(p)

Spec == Init /\ [][Next]_vars

\* The Go scheduler keeps running a handler that is not waiting for a peer.
\* Nothing is assumed of the client or the vendor: the client of newHandler
\* has no overall timeout.  Resolving may always succeed.
Fairness ==
    \A r \in Requests : WF_vars(pc[r] # "forward" /\ Own(r))

FairSpec == Spec /\ Fairness

-----------------------------------------------------------------------------
(* Properties.                                                             *)

\* What the stages look for in the body the client sent.
SentPaths(r)    == IF body[r].parse = "ai" THEN body[r].paths ELSE {}
SentFindings(r) == Scan(body[r].parse, body[r].atoms)

\* No byte reaches the vendor from a request that carries a path the path
\* stage's policy blocks, or a finding the secret stage's policy blocks (in
\* flag mode, a high finding under --block-on-detect), unless that stage
\* panicked: the chain is fail-open for panics and for nothing else, and a
\* reload at any point does not open a gap inside one stage.
BlockEnforced ==
    \A r \in Requests : wire[r] # NoBody =>
        /\ "pathscan" \notin panicked[r] /\ pathPol[r] # NoPolicy =>
              ~PathsBlock(pathPol[r], SentPaths(r))
        /\ "secretscan" \notin panicked[r] =>
              IF active = NoPolicy
                THEN BlockOnDetect => \A f \in SentFindings(r) : f.severity # "high"
                ELSE SentFindings(r) # {} =>
                        /\ secretPol[r] # NoPolicy
                        /\ Blocking(secretPol[r], SentFindings(r)) = {}

\* Of a secret that the secret stage's policy redacts, the vendor receives at
\* most the copies that the redactor does not reach, and never a byte the
\* client did not send; a request in which nothing is redacted goes out as it
\* came in.  A redaction that fails never forwards, and block wins over redact.
RedactionEnforced ==
    \A r \in Requests : wire[r] # NoBody /\ "secretscan" \notin panicked[r] =>
        IF secretPol[r] = NoPolicy \/ Redacting(secretPol[r], SentFindings(r)) = {}
          THEN wire[r] = body[r].atoms
          ELSE wire[r] \cap MaskedAtoms(secretPol[r], SentFindings(r)) \subseteq body[r].twins
               /\ wire[r] \subseteq body[r].atoms

\* No secret leaves unnoticed: when the handler has ended without a panic,
\* every finding that reached the vendor is in the audit record, except the
\* ones a rule allows; and what the record says was decided is what happened
\* (block: nothing transmitted; modify: the stages changed the body, unless
\* all that was flagged is repeated out of the redactor's reach; a request
\* forwarded as "continue" went out as it came in).
AuditTellsTheTruth ==
    \A r \in Requests : pc[r] = "done" /\ panicked[r] = {} =>
        \E a \in audit[r] :
            /\ a.decision = "block" => wire[r] = NoBody /\ a.status = 403
            /\ a.decision = "modify" =>
                  metaBody[r] # body[r].atoms \/ body[r].twins # {}
            /\ a.decision = "continue" /\ wire[r] # NoBody => wire[r] = body[r].atoms
            /\ wire[r] # NoBody =>
                  \A f \in SentFindings(r) :
                      f.atoms \subseteq wire[r] =>
                          \/ \E e \in a.secrets : e.finding = f
                          \/ /\ secretPol[r] # NoPolicy
                             /\ Decide(secretPol[r], f).action = "allow"

\* Every request the chain blocked gets its audit record with the 403.
BlockedIsAudited ==
    \A r \in Requests :
        decision[r] = "block" ~> \E a \in audit[r] : a.decision = "block" /\ a.status = 403

\* "the whole request sees a single consistent policy version even if a
\* reload fires mid-pipeline" (decideWithPolicy): a request that was
\* forwarded without a panic could have been forwarded under one version.
OneVersionForwards ==
    \A r \in Requests : wire[r] # NoBody /\ panicked[r] = {} /\ active # NoPolicy =>
        \E p \in Policies : /\ ~PathsBlock(p, SentPaths(r))
                           /\ Blocking(p, SentFindings(r)) = {}

-----------------------------------------------------------------------------
(* The inductive invariant behind the three safety properties: for each    *)
(* place of the handler, what the stages behind it have established.       *)

PathDone(r) ==
    "pathscan" \notin panicked[r] /\ pathPol[r] # NoPolicy =>
        ~PathsBlock(pathPol[r], SentPaths(r))

\* The secret stage decided with the policy in secretPol, or by the flag.
SecretDecided(r) ==
    /\ body[r].parse # "panic"
    /\ IF SentFindings(r) = {}
         THEN secretPol[r] = NoPolicy /\ decision[r] = "continue"
                                     /\ metaBody[r] = body[r].atoms
       ELSE IF active = NoPolicy
         THEN /\ secretPol[r] = NoPolicy
              /\ decision[r] = "continue"
              /\ metaBody[r] = body[r].atoms
              /\ secretFound[r] = {[finding |-> f, rule |-> NoName] : f \in SentFindings(r)}
              /\ BlockOnDetect => \A f \in SentFindings(r) : f.severity # "high"
         ELSE /\ secretPol[r] # NoPolicy
              /\ Blocking(secretPol[r], SentFindings(r)) = {}
              /\ secretFound[r] = Kept(secretPol[r], SentFindings(r))
              /\ IF Redacting(secretPol[r], SentFindings(r)) = {}
                   THEN decision[r] = "continue" /\ metaBody[r] = body[r].atoms
                   ELSE /\ decision[r] = "modify"
                        /\ metaBody[r] \subseteq body[r].atoms
                        /\ metaBody[r] \cap MaskedAtoms(secretPol[r], SentFindings(r))
                              \subseteq body[r].twins

SecretDone(r) ==
    IF "secretscan" \in panicked[r]
      THEN decision[r] = "continue" /\ metaBody[r] = body[r].atoms
      ELSE SecretDecided(r)

\* No stage has decided anything yet; nor has the secret stage read a policy.
Undecided(r) ==
    /\ decision[r] = "continue"
    /\ wire[r] = NoBody
    /\ "secretscan" \notin panicked[r]

Untouched(r) == Undecided(r) /\ secretPol[r] = NoPolicy

\* How a handler can have come to its deferred function.
Ended(r) ==
    \/ metaBody[r] = NoBody /\ Untouched(r)
    \/ /\ decision[r] = "block" /\ status[r] = 403 /\ wire[r] = NoBody
       /\ body[r].parse # "panic"
    \/ /\ wire[r] \in {NoBody, metaBody[r]}
       /\ PathDone(r) /\ SecretDone(r)

HandlerInv(r) ==
    /\ pc[r] \in {"idle", "read"} => metaBody[r] = NoBody /\ Untouched(r)
    /\ pc[r] = "pathscan"   => metaBody[r] = body[r].atoms /\ Untouched(r)
    /\ pc[r] = "secretscan" =>
          metaBody[r] = body[r].atoms /\ Untouched(r) /\ PathDone(r)
    /\ pc[r] = "decide" =>
          /\ metaBody[r] = body[r].atoms /\ Undecided(r) /\ PathDone(r)
          /\ Raw(r) # {} /\ active # NoPolicy
    /\ pc[r] = "forward" => wire[r] = NoBody /\ PathDone(r) /\ SecretDone(r)
    /\ pc[r] \in {"wait", "stream"} =>
          wire[r] = metaBody[r] /\ PathDone(r) /\ SecretDone(r)
    /\ pc[r] \in {"deferred", "done"} => Ended(r)
    /\ pc[r] = "done" /\ panicked[r] = {} => AuditRecord(r) \in audit[r]

Inv ==
    /\ TypeOK
    /\ \A r \in Requests : HandlerInv(r)
=============================================================================
