# Runveil: a TLA+ model of the proxy

Runveil is a local HTTPS proxy for AI coding tools. It decrypts the requests
that go to AI vendors, looks for secrets in their text and for sensitive paths
in their tool calls, decides with a policy whether to let a request through,
mask the secrets or answer 403, forwards it, and writes an audit record. This
directory holds TLA+ modules for the parts whose correctness depends on
interleavings, partial failures or data that a unit test hardly reaches, the
TLC configurations that check them, and TLAPS proofs of the main results.

Paths below are relative to the repository.

## 1. Inventory

| Component | State | Operations | Interacts with |
|---|---|---|---|
| policy evaluation, `internal/policy/policy.go`, `match.go` | none | `Decide`, `DecidePath` | called by both stages |
| policy loading, `load.go` | none | `LoadFromBytes` | watcher, remote source, startup |
| policy provider, `provider.go` | one atomic pointer | `Get`, `Set` | stages read, sources write |
| policy file watcher, `watcher.go` | debounce timer, one-slot channel, fsnotify queue | `Start`, `run`, `loadAndDispatch`, `Close` | calls `onAccept`/`onReject` |
| remote source, `remote.go` | ETag, Last-Modified, disk cache | `Fetch`, `poll`, `Close` | the same callbacks |
| server and interception, `internal/proxy/server.go`, `intercept.go` | connections | `Serve`, `handleConn`, `handleIntercepted` | CA, handler |
| request handler, `upstream.go` | locals of one request, metadata map | `newHandler` | chain, vendor, audit |
| stage chain, `internal/pipeline` | decision so far | `Run`, `runStage` | stages |
| path stage, secret stage, `internal/stage/*` | findings in the metadata | `Process` | parser, detectors, provider, redactor |
| parser and redactor, `internal/parser` | the body being rebuilt, the `applied` flags | `ParseRequest`, `RedactRequest` | secret stage |
| audit file writer, `internal/audit/writer.go` | two channels, closed flag, done channel | `Log`, `Event`, `Close`, `run` | handlers, sources, shutdown |
| SIEM sink, `httpsink.go` | channel, current batch, retry buffer, backoff, timers | `Log`, `Event`, `Close`, `run`, `finalDrain` | collector |
| tee, identity, metrics, `multi.go` | counters | `Log`, `Event` | wraps the sinks |
| proxy command, `cmd/runveil/proxy.go` | signal context, deferred calls | start, signal, shutdown | everything above |
| certificate authority, `internal/ca` | two files, leaf cache | `GenerateOrLoad`, `MintLeaf` | interception |
| logs command, `cmd/runveil/logs.go` | file offset, scanner | follow loop | the audit file |
| enrollment, config, sources, init, service, status, trust | files | one-shot | start of the proxy |

What makes them correct, and what is hard about it:

* **The request path.** A request that the policy blocks never reaches the
  vendor; a secret that the policy redacts never does; the audit record says
  what happened. Hard: the policy is swapped while requests are under way, a
  stage can panic at any point and the chain then goes on, redaction can fail,
  the handler has many exits, and the record is written from what they leave.
* **Redaction.** It works on offsets into text that it is changing, with spans
  of several detectors that overlap, and walks a body that another piece of
  code has parsed, by rules that are not the same.
* **The audit file.** `Log` checks a flag and sends on a channel in two steps
  while `Close` takes four; nothing queued in time may be lost, and nothing
  written after `Close`.
* **The SIEM sink.** The retry timer, the retrying flag and the retry buffer
  have to stay in step, or delivery stops; a POST can fail although the
  collector has the batch; the shutdown has a time budget.
* **The policy.** Documents are edited while the proxy runs; rules for secrets
  and for paths share one list; the first match decides.
* **The policy file.** Editors save in several steps, the kernel's queue can
  overflow, a debounce timer can be stopped too late: no change may be
  forgotten, and what loads must be in force in the end.
* **The remote policy.** The validators must never run ahead of the policy, or
  a 304 hides an update; the cache is written between accepting a policy and
  putting it in force, and the process can crash at any of these steps.
* **Shutdown.** `Serve` returns while connections are still open, the source
  reports until it is closed, and the two sinks are closed one after the other:
  what was reported before the signal must not meet a closed sink or be left
  behind in its channel, and the process must end whatever its clients do.
* **The root certificate.** Its two files are written one after the other by
  whichever of `init` and `proxy` comes first, and the trust store keeps a copy:
  a root that was once in use must survive every crash, or clients break.
* **Following the log.** The file grows, shrinks, is renamed and replaced
  between two looks at it: no line may come twice or too late, and new ones
  should come at all.

`PROJECT.json` lists each hazard at its line with the properties that cover it.

## 2. Modules

| Module | Models | Rests on |
|---|---|---|
| `Policy` | policies, matching, first match, loading | |
| `PolicyEdits` | a policy document as an operator extends and repairs it | `Policy` |
| `RequestPipeline` | requests through handler, chain and stages, with reloads | `Policy` |
| `Redact` | one request's redaction list and its application | |
| `PolicyWatcher` | the policy file, its editors, the watcher and its `Close` | |
| `RemotePolicy` | the policy server, the remote source, its cache, crashes and restarts | |
| `LossyLog` | what a sink of the audit log promises: the abstract specification | |
| `AuditWriter` | the audit file writer and its callers | implements `LossyLog` |
| `HTTPSink` | the SIEM sink, its callers and the collector | implements `LossyLog` |
| `ProxyRun` | starts, crashes and shutdown of the process: CA files, connections, source, both sinks | two instances of `LossyLog` |
| `LogsFollow` | `runveil logs --follow` and the file it follows | |
| `*Proofs` | theorems | the module of that name; `RequestPipelineProofs` also `Policy` and `PolicyEdits` |
| `MC*` | constants for TLC | the module of that name |

The composition goes through the abstract log: `AuditWriter` and `HTTPSink` are
shown to implement `LossyLog`, and `ProxyRun` uses two instances of it instead
of the two sinks, so that its safety properties hold of the process with the real
ones. The refinement promises steps, not progress: the fairness that `ProxyRun` asks
of its sinks is what `CloseReturns` shows of each.

### Policy, PolicyEdits

A glob is the set of names it matches, a nilable condition a set with at most
one member. `Decide` and `DecidePath` are `FirstMatch` over the indices of the
matching rules. A document carries the strings of the YAML file; `Loadable` is
the conjunction of the error returns of `LoadFromBytes` and the functions below
it, `LoadFromBytes` the policy it returns. `PolicyEdits` starts from an empty
document and appends any of a set of rules, good and bad. `Only(p, I)` is the
policy that keeps the rules of `p` whose index is in `I`, in file order.

### RequestPipeline

One handler per element of `Requests`; `pc[r]` is its place in `newHandler`
and in `Chain.Run`. The actions in order: `Accept`, `ReadBody` or
`ReadBodyFails` (400, 413), `PathScan` or `PathScanPanics`, one of
`SecretScanClean`, `SecretScanFlag`, `SecretScanPanics` or `SecretScanReads`,
which reads the provider and goes on to `SecretScanPolicy` or `RedactPanics`,
then `Send` or `ResolveFails` (502), `Respond`, `StreamEnds`, `DoFails` (502,
before or after the body was transmitted), and the deferred `Log` or
`LogPanics`. `Reload` swaps `active`, the provider's pointer, at any time. The
path stage is one action, because it reads shared state once, the
provider, and all else it touches belongs to its request. The secret stage reads
the provider and then decides (`DecideUnder`) with what it has read; a reload
can come between the two.

A body is a parse result, a set of atoms (bytes of interest) and the paths its
tool calls name; a finding covers a set of atoms, so that two findings can
share bytes. A redaction that succeeds removes the masked atoms and perhaps
others, and adds nothing, except that it leaves the body's `twins`: atoms in
text that the redactor does not reach although it reaches the same text
elsewhere in the message. `Redact` shows of the real masking that this is all
that can be left (`OnlyTwinsForwarded`), and that it can be (`redact_twin`). A
body whose keys are spelled as in the schema has no twins. A panic of the parser
is a property of the body, which `vendorAndEndpoint` meets again in the deferred
function, where nothing recovers it; other panics of a stage can come at any
time. `pathPol`, `secretPol` and `panicked` are history variables.

### Redact

A body is the sequence of its leaves: JSON strings and argument objects, each
with its kind, message index and decoded content. `Collect` builds the
redactions of `decideWithPolicy`, keyed by (message, content). `OpenLeaf` and
`PassLeaf` are the two outcomes of `maybeRedact`'s search for a redaction of one
leaf; `MaskSpan` is one round of the loop of `applySpans`, on the text that the
rounds before have left (`text`) and with the spans still to do (`todo`), taken in
any order that the unstable `sort.Slice` can give (`NextSpans`); `CloseLeaf` puts
the text into the body, after `json.Valid` for arguments; `MaskEnd` is the check of the
`applied` flags. The sets of kinds that each parser extracts and each redactor
reaches are taken from the two sides of the code.

`respelled` are the leaves behind a key in another case than the schema's:
`encoding/json` finds them when it fills the parser's structs, and the redactor,
which looks keys up in a map, does not. Each key is looked up by itself. So of two
tool calls in a chat message one can be reached and the other not, while the
blocks of one content are reached together (`SharesKeys`). A leaf that is not
reached while another with the same text in the same message is, is a `Twin`:
one `Redaction` stands for both, and masking one of them sets its `applied`
flag. Assumptions: no object has a key twice, and a finding is at least as long
as the mask (the shortest match of any pattern has ten bytes, `[REDACTED]` too). Bytes of a content are distinct so
that each can be traced. The comment at `redact.go:122`, that `function_call`
items are left untouched, is out of date: the code below it (192-207) masks
their arguments, and so does the model.

### PolicyWatcher, RemotePolicy

A policy is the content it was loaded from; `Good` are the contents that
`LoadFromBytes` accepts, which is the subject of `Policy`.

In `PolicyWatcher`, `resolvePolicy` and `Start` are two steps of `runProxy`,
and the editors act between them. `Replace` is a save by rename, `BeginWrite`
and `EndWrite` a save in place, `Remove` the rest. `fsq` is fsnotify's channel
with the kernel's queue behind it; `timer` says that the `AfterFunc` is armed,
`sending` counts functions that run and have not yet sent, so that a `Stop` that
comes too late is a behaviour. `run` is `RecvEvent`, `ReadFile` and `Dispatch`
(two steps, as the file can change in between) and `Return`. `stale` and
`unnoticed` are history: they say whether the file has changed since it was
read, and whether that raised an event. Left out: events of other files in the
directory and of attributes, and fsnotify's errors, which change no state.

In `RemotePolicy` the steps of a request (`Answer`, `RequestFails`,
`KeepPolicy`, `Accept`), of `writeCache` (`WriteOpens` truncates the file,
`WriteEnds`, `WriteFails`) and the `Swap` are the same for `Fetch` and `poll`;
`proc` says which of them runs, and decides what an error leads to. `tag` stands
for ETag and Last-Modified, which are always assigned together, and is taken to
name one document. `Crash` and `Exit` keep the cache and nothing else; `Boot`
starts the next process. `Parts(d)` is what a write that fails midway can leave.

### LossyLog, AuditWriter, HTTPSink

`LossyLog` is the promise of a `Logger`. A call passes the closed check
(`Call`) and is accepted or dropped; what was accepted is settled later, kept or
lost, in the order of each goroutine's calls; `Finish`, the return of `Close`,
waits for everything that was accepted before `Shut`. An item has one outcome,
nothing vanishes, and nothing is settled after `Close` has returned. It leaves
open when an item is lost, which is where the two sinks differ.

In both sinks each step that another goroutine can observe is an action: the
closed check, the send, each receive, the done case, the four steps of `Close`
and, in the SIEM sink, each POST. `AuditWriter` also has the callers that wait in
`Once.Do`. In `HTTPSink` the collector goes down and up at any time; a POST that
fails may have been received. `early` holds what was queued before `closed` was
set. Both refinement mappings give an item its place: in `AuditWriter`, pending is
what is on a channel, kept what is in the file, lost what could not be written;
in `HTTPSink`, kept is what the collector has received, lost what was evicted or
abandoned without that, and pending the rest. So a POST whose answer is lost
settles its batch, and the second delivery of the batch is a stutter.

### ProxyRun

`pc` is the place of the main goroutine: `GenerateOrLoad` with its four writes,
the trust store, the sinks, the source, the listener, `Serve`, and the deferred
calls in reverse order. A start is one of `proxy` or `init`; `Killed` ends the
process at any step and leaves `cert`, `key` and `trusted`, the files and the
trust store, as they are. `StartFails` stands for the error exits between:
`os.Exit(1)` skips the deferred calls, so that nothing is closed. A connection goes from `Accept`
through CONNECT and the minted leaf (`Intercept`) to its end. A handler ends with
its deferred function, which hands a record over (`Respond`) or panics in the
parser, where nothing recovers it, and leaves none (`RespondPanics`). A handler
with a record and the policy source report to the tee, which calls the writer and then the SIEM sink
(`CallFile`, `SendFile`, `CallSiem`, `SendSiem`), and other goroutines and the
shutdown act between these steps. `WriteFile` and `DeliverSiem` settle items of
the two instances. Handlers of one HTTP/2 connection that run at once are
several members of `Conns`.

A file is absent, cut off (`Torn`), or complete and then named by the
generation that wrote it. A crash during the first generation leaves files
that no later start can read, and it reports so (`exit = "noRoot"`): the code
checks that both files are there and does not make them anew. That is stated
by the guard of `UsableRootStays`, which speaks of roots that have been usable.

### LogsFollow

`files` are the files that have been at the path, in order; the last is there
now. `Open`, `ReadAll` and `SeekEnd` print the last lines and go to the end; a
tick is `Reopen` or `ReopenFails` for a smaller file and, for a larger one,
`Grown`, `ScanLine` and `ScanEnd`. The proxy appends, and lumberjack rotates,
between any two of them; a truncation in place is there too, as by
`copytruncate`. `fresh` says that the Scanner has not yet met the end of the file.

## 3. Runs

| Run | Module, cfg | What it asks |
|---|---|---|
| `policy_edits` | `MCPolicyEdits` | Loader and first match over all documents of up to three rules out of those in `MCYamlRules` |
| `request_policy` | `MCRequestPipeline.cfg` | One request, with and without a policy, reloads and panics; safety and liveness |
| `request_versions` | `MCRequestVersions.cfg` | Violation: two versions judge one request |
| `audit_writer` | `MCAuditWriter.cfg` | A handler, a source and two closers, capacity two; safety and liveness |
| `http_sink` | `MCHTTPSink.cfg` | Four calls, batches of two, a retry buffer of two; safety and liveness |
| `redact` | `MCRedact.cfg` | Bodies of up to two leaves, up to two findings per content |
| `redact_twin` | `MCRedactTwin.cfg` | Violation: a secret goes out in a second copy that is not reached |
| `policy_watcher` | `MCPolicyWatcher.cfg` | Four changes of the file, lost events, Close at any step; safety and liveness |
| `policy_watcher_gap` | `MCPolicyWatcherGap.cfg` | Violation: a save before the watch begins is not applied |
| `remote_policy` | `MCRemotePolicy.cfg` | Two new documents, an unreliable server, two crashes, failing writes; safety and liveness |
| `proxy_run` | `MCProxyRun.cfg` | Three starts of `proxy` or `init` with a crash at any step, a connection, a source, both sinks; safety and liveness |
| `logs_follow` | `MCLogsFollow.cfg` | Violation: a line that is appended later is not streamed |

What they show:

* `BlockEnforced`: blocking holds against the policy that each stage read, in
  every interleaving; only a panic of a stage opens it, which is what `chain.go`
  says it does (fail-open). `RedactionEnforced`: of what that policy redacts,
  only a body's twins are forwarded, nothing else is added, and a body in
  which nothing is redacted goes out unchanged.
* `AuditTellsTheTruth`, `BlockedIsAudited`: a handler that ended without a
  panic left a record that agrees with what was transmitted, and every block is
  recorded. A body on which the parser panics leaves none (`LogPanics`).
* `RulesDoNotInterfere`, `AppendDecidesOnlyUndecided`, `DecidingRuleIdentified`,
  `RejectionIsSticky`: what an operator relies on when extending a policy.
* `OnlyTwinsForwarded`: whatever the overlaps and the order of the spans, a
  flagged byte is forwarded only in a twin; text that the redactor reaches
  nowhere blocks the request. `ExactWhenSeparate`: if no two spans of a key
  overlap, exactly the spans are replaced. `RedactsWhenItCan`: prose with such
  spans is not blocked.
* `ImplementsLossyLog` (twice), `CloseFlushesEarlyItems`,
  `EarlyItemsReachTheFile` for the file; `DeliveredInOrder`, `RetryPending`,
  `CloseDelivers`, `EventuallyDelivered` for the SIEM sink; `CloseReturns` for
  both.
* The three properties of the shutdown say that a sink has *settled* an item: it
  is in the log, or the sink dropped it on a full channel, failed to write it or
  gave up on a silent collector. What they exclude is that the order of the
  deferred calls loses it: that it is refused by a sink that is already
  closed, or left behind by the `Close` of one. They do not say that it is in the log.
  `FileStillHasIt`: what the shutdown of the SIEM sink cuts off met an open
  file, because the file is closed last (`httpsink.go:226-228`).
  `ReloadsReachOpenSinks`, `RecordsReachOpenSinks`: every reload, and every
  record reported before the signal, met both sinks open and was not left
  behind in either. A request that is under way at that time may have no record, as `Serve` does not wait for it, and one
  on which the parser panics has none at all.
  `ShutdownEnds`: nothing that a client does keeps the process alive.
* `UsableRootStays`, `TrustedRootSigns`: a root that was usable once is loaded by
  every later start, and every leaf is signed by the root in the trust store.
* `ChangeIsPending`, `InForceWhenQuiet`, `EventuallyInForce`: the watcher
  forgets no change that raised an event, and enforces what the file says once
  it has read it. `ValidatorsNameActive` and `EventuallyInForce` say the same of
  the remote source. `OfflineStartContinues`: a start from the cache does not
  fall back behind the policy that was in force. `NoReloadAfterClose`,
  `CloseReturns`: both sources end.

The four violations are disagreements of code and documentation:

1. `decideWithPolicy` (`internal/stage/secretscan/stage.go:179`) promises that
   the whole request sees one policy version. The path stage reads the provider
   by itself. `request_versions` finds a request that both versions block, one
   for its path and one for its secret, and that is forwarded because of a
   reload between the stages.
2. `README.md:128` says that `redact` strips the matched secret, or blocks.
   `redact_twin` finds a chat message with the same text twice, as its content,
   behind a key in another case (`"Content"`), and as the arguments of a tool
   call. The parser's structs (`openai.go:12-27`) take the first, `redactOpenAIChat`
   reaches and masks only the second (`redact.go:78-97`); that is enough for the check at
   `redact.go:112-116`, and the secret goes out in the first. Two tool calls
   with equal arguments, one of them keyed `"Arguments"`, go the same way
   (`redact.go:446-482`).
3. `docs/policy-guide.md:55` says that a policy file is watched and re-applied
   on change. `runProxy` loads the file before the watcher adds the directory,
   and the watcher does not read it when it starts. `policy_watcher_gap` finds a
   save in between: nobody notices it until the next save.
4. `cmd/runveil/logs.go:27` says of `--follow` that new records are streamed
   as they arrive, and `README.md:204` offers it "for live". The Scanner is made
   once (`logs.go:86`), and a `bufio.Scanner` that has met the end of its input
   reads no more. `logs_follow` finds a line that is printed, and the one
   appended after it that never is.

A fact of `Redact` worth knowing: `README.md:128` goes on that the rest is
forwarded, and spans that overlap take more. Two findings of one span
(`openai_api_key` also matches a key that starts with `sk-ant-`), or two equal
text blocks of one message, make `applySpans` (`redact.go:231`) cut twice, the
second time with an offset from before the first: bytes behind the secret that no
finding covers are lost, or, at the end of the text, the request is blocked.
`ExactWhenSeparate` and `RedactsWhenItCan` exclude these cases by name.

A fact of `RemotePolicy` worth knowing: `writeCache` rewrites the file in place, and
a failure is only logged. What a broken-off write leaves may load
(`Parts`), and an offline start then enforces the beginning of a policy.
`OfflineStartContinues` holds because it excludes this case; a crash between
truncation and write leaves an empty file, with which an offline start ends the
process (`CacheDoesNotLoad`).

## 4. Bounds

* Handlers share only the provider, which none of them writes, so the run has
  one handler and every reload around it; the proofs cover any number. Three
  rules are enough for a rule before and one after the deciding rule.
* `MaxCalls`, `MaxReceived`, `MaxRules`, `MaxFindings` bound what a goroutine,
  the collector, the operator or a detector can do. Capacities of one and two
  make channels and the retry buffer overflow.
* `MaxSaves = 4` is a save in place with a removal and a save by rename around
  it. `MaxChanges = MaxCrashes = 2` let the server go back to a document that
  was in force, and a second crash meet what the first one left. Polls, restarts
  and failures of the server are not bounded.
* `Redact` needs two leaves for a key shared by two leaves, two findings for an
  overlap, and a content longer than two masks for bytes left of, between and
  right of the spans.
* `MCProxyRun`: three starts let a crash leave half a root, a second start meet
  it, and a third meet what the second made of it, with `init` and `proxy` in any
  order. One connection with one request and one reload meet the shutdown at
  every step, in 163164 states; two connections take more than a million and only
  repeat this, as connections share nothing but the sinks. The proofs cover any
  number.
* `MCLogsFollow`: three lines, of which two can come in two batches after the
  command begins to follow, and no rotation, which is the simplest violation; `TailInOrder`,
  about rotations and truncations, is proved instead.
* TLC's deadlock check says nothing here. The runs stop by themselves when every
  request has ended, every bound is reached or every `Close` has returned, and in
  the sink's run, which has it on, the collector can always change. That nobody
  waits for ever is what `CloseReturns`, `EventuallyDelivered`,
  `BlockedIsAudited` and `ShutdownEnds` show.

## 5. Fairness

* `RequestPipeline`: a handler that waits for nobody is scheduled again
  (`WF` of its own steps). Nothing is assumed of the client, the vendor or a
  resolver: `newHandler`'s client has no overall timeout.
* `AuditWriter`: the goroutine, and a call or a `Close` that has begun, go on.
* `HTTPSink`: the same; a POST ends (`http.Client.Timeout`), armed timers fire,
  and each case of the `select` has strong fairness, because Go chooses among
  the ready cases at random.

* `PolicyWatcher`: goroutines are scheduled and timers fire. Nobody has to save
  or to stop. Liveness asks nothing of a change that raised no event.
* `RemotePolicy`: the same; a request ends (`client.Timeout`) and the ticker
  fires. `Return` has strong fairness, because `select` may take the ticker
  although the context is cancelled. The server owes nothing; convergence is
  conditional on its staying up.

* `ProxyRun`: the main goroutine goes on through start and shutdown, calls of
  `Log` and `Event` do not block, the writer writes, the source's goroutine
  ends its report, and a SIEM sink that is being closed settles what it has:
  `Close` has a time budget and abandons the rest. Nothing is assumed of
  connections and handlers, nor that the signal comes.
* `LogsFollow`: the command gets through its initial output, and its ticker fires.

## 6. Proofs

`tlapm` checks, for every value of the constants that meets the modules'
`ASSUME`:

* `RequestPipelineProofs!AppendKeepsDecisions`: appending a rule to a policy
  changes no decision that an earlier rule took. It rests on `FirstMatchExtends`.
* `RequestPipelineProofs!SelectionDecides`: in a sequence of rules of any length,
  leaving out rules that do not match changes no decision. `Enumeration` shows
  by well-founded induction that `Only` keeps the rules in file order, and
  `FirstMatchOfSelection` that the least matching index of the selection is that
  of the whole.
* `RequestPipelineProofs!DecidingRuleIdentifiedAlways`,
  `AppendDecidesOnlyUndecidedAlways`, `RejectionIsStickyAlways`,
  `RulesDoNotInterfereAlways`: the properties of `PolicyEdits`, for any rules an
  operator may write and documents of any length. The first rests on
  `MinIndexIsFirst`, the second on `AppendKeepsDecisions` and on `CompiledAppend`
  (compiling a longer document appends to the compiled rules), the last on
  `SelectionDecides`.
* `RequestPipelineProofs!TypeCorrect`, `BlockEnforcedAlways`,
  `RedactionEnforcedAlways`, `AuditTellsTheTruthAlways`: the three safety
  properties of the request path, for any number of requests, any policies and
  any findings.

The properties of the request path are not inductive. `Inv` in `RequestPipeline` adds, for
every place of a handler, what the stages behind it have established
(`HandlerInv`): until the secret stage has decided the metadata still hold the
body that was sent (`Undecided`), and while it decides, `secretPol` is the policy it
read; after it, either the stage panicked and changed nothing, or
`SecretDecided` relates decision, findings and body to the policy it read; a
request that is being forwarded transmits exactly the metadata's body; and a
handler that reached its deferred function did so in one of three ways
(`Ended`). It also rests on `Reload`'s replacing only a policy by a policy:
flag mode is for ever. `Invariance` proves `Inv` action by action, and
each theorem follows from `Inv`.

* `PolicyWatcherProofs!ChangeIsPendingAlways`, `InForceWhenQuietAlways`,
  `NoReloadAfterCloseAlways`: for any number of saves and any queue. `IInv`
  adds the phases of `runProxy`, that before the watch begins every change is an
  unnoticed one (`StartOK`), and what a load under way has read (`LoadOK`). The
  step that needs an argument is the receipt of an event: `TailQueues` says that
  it loses no change but the one received, which arms the timer.
* `RemotePolicyProofs!ValidatorsNameActiveAlways`,
  `OfflineStartContinuesAlways`, `NoReloadAfterCloseAlways`: for any documents
  and any number of crashes. `IInv` adds `TagOK` (between accepting and swapping
  the tag is already the new one) and `CacheOK` (unless the last write failed,
  the cache holds the policy that was in force or one accepted since).

* `AuditWriterProofs!TypeCorrect`, `CloseFlushesEarlyItemsAlways`,
  `WriterImplementsLossyLog`: for any number of goroutines, calls, closers and
  any capacity. `IInv` says where each item is and in which order (`ItemInv`),
  and how far a shutdown has come (`CloseInv`: only after `closed` is `done`
  closed, only then does the goroutine drain, and when it has exited no early
  item is on a channel). The refinement maps each receive with its write to a
  `Settle` of one item; its order condition is `ItemInv`.
* `HTTPSinkProofs!TypeCorrect`, `RetryPendingAlways`, `CloseDeliversAlways`,
  `DeliveredInOrderAlways`, `SinkImplementsLossyLog`: for any number of
  goroutines and calls, any batch size and capacities, and any behaviour of the
  collector. `RunInv` ties the goroutine's place to the timer and the flags,
  `KeptInv` says that every accepted line is somewhere, `SenderInv` and `EarlyInv`
  what is still to come, `HealthyInv` that nothing piles up while the collector
  is up. `OrderInv` orders the lines from the collector back to the channel; the
  collector may have the first batch of the retry buffer already, which is the
  one case of a second delivery. In the refinement each POST, each eviction and the
  end of the budget is a `Settle` of those lines that the collector does not
  have yet.
* `ProxyRunProofs!TypeCorrect`, `UsableRootStaysAlways`, `TrustedRootSignsAlways`,
  `FileStillHasItAlways`, `ReloadsReachOpenSinksAlways`,
  `RecordsReachOpenSinksAlways`: for any number of starts, connections, requests
  and reloads. `RootInv` follows the two files from the first write on.
  `OrderInv` gives the state of the sinks and the source at each deferred call.
  An item is safe in a sink when it has an outcome there or was accepted in time;
  `SafeInv` says which items are, and what is safe stays so. `DoneInv` turns safe
  into an outcome when `Finish` has passed.
* `LogsFollowProofs!TailInOrderAlways`: for any number of lines, rotations and
  truncations. `ShownInv` says that what the command may still print is newer
  than what it has shown: the rest of the open file, all of a later one, and all
  of the open one once it has been truncated. `PositionInv` ties the
  remembered offset to the position of the read: a file that is smaller than the
  offset has been truncated below what was shown, and may be read from its start.

* `RedactProofs!TypeCorrect`, `OnlyTwinsForwardedAlways`,
  `ExactWhenSeparateAlways`, `RedactsWhenItCanAlways`: for any bodies and
  contents, any mask, and any number of findings that overlap in any way.

None of the three says anything before the request is over, so `IInv` in
`RedactProofs` follows the work. `Collected` says what the redaction list holds,
`Walking` what has become of the leaves already passed, `Masking` what is true
of a leaf's text between two rounds of `applySpans`. It has two parts:

* `Clean`, which holds whatever overlaps: each byte of the text is the mask's, or
  a byte of the content that no finding masked so far covers; such a byte can only
  have moved to the left, and up to the leftmost of those findings none has
  moved. So what a round cuts, or covers with the mask, is at least the finding:
  its bytes are where they were, or gone already (`SpliceClean`; it is here
  that a finding must not be shorter than the mask).
* `Exact`, for findings that do not overlap: an increasing map takes the
  positions of the text onto those that the reference keeps (`Left`), with the
  reference's byte at each (`SpliceExact`). Then the next span is in range
  (`SeparateInRange`), so nothing is blocked, and at the end the text is `Masked`
  (`ExactIsMasked`, as such a map counts: `IncreasingCardinality`,
  `NthOfIncreasing`).

Only model-checked is liveness, which is out of the prover's reach:
`BlockedIsAudited` (a block leads to its record), `CloseReturns`
(four times), `EarlyItemsReachTheFile`, `EventuallyDelivered`,
`EventuallyInForce` (twice) and `ShutdownEnds`. Every other property that a
passing run checks is also proved. The proofs say nothing of the four
violations, which are counterexamples of TLC.

The type invariants are proved for every module with theorems, as a theorem of
their own or as part of the inductive invariant; `request_policy` and `http_sink`
check theirs with TLC too.

## 7. Not modelled

Nothing in these parts waits for more work unless it says so:

* The leaf cache and the seven days a leaf is valid: a matter of clock time.
* Two processes that generate a root at once. The comment at `ca.go:43` rules it
  out, and the model has one process at a time.
* Other programs in the CA directory, failing reads of complete files, and data
  that a power cut takes from a file the process has written.
* The tunnel of a host that is not intercepted, TLS, ALPN and the HTTP servers.
  Of a connection, `ProxyRun` has what shutdown and signing depend on.
* Path extraction, regular expressions and entropy of the detectors, JSON and
  YAML decoding: pure functions, which the repository's tests reach.
* Enrollment, configuration, sources: a sequential resolution of settings, in
  `ProxyRun` one step that can fail.
* `status`, `service`, `test-policy`, `version`, the tools of the trust stores:
  files and processes of the operating system, one call after the other.
* An error of `json.Marshal` in the SIEM sink (`httpsink.go:110-114`, `125-129`),
  which drops the record: a record of strings and numbers always encodes.
* Metrics and identity: counters nobody decides by, and a constant.

What could come next is a model of `logs --follow` with lines that the file has
only in part when the Scanner reads it.
