---------------------------- MODULE RemotePolicy ----------------------------
(***************************************************************************)
(* internal/policy/remote.go with the remote mode of runProxy: the policy  *)
(* is fetched once from a URL, or taken from a cache on disk if that fails; *)
(* then a goroutine polls the URL with the validators of the last accepted *)
(* answer.  A validated answer is written to the cache and put in force.   *)
(*                                                                         *)
(* The server changes what it serves and goes down at any time, the        *)
(* process crashes between any two steps and is started again, and writing *)
(* the cache can fail with a part of the file written.                     *)
(*                                                                         *)
(* The validators are strong: an answer's tag names its document.          *)
(***************************************************************************)
EXTENDS Naturals

CONSTANTS
    Good, Bad,     \* documents LoadFromBytes accepts, and rejects
    Empty,         \* the empty document, one it rejects
    Parts(_),      \* what a failed write can leave of a document
    NoPolicy,      \* the nil *Policy
    NoTag,         \* no ETag and no Last-Modified
    Unchanged,     \* the answer 304
    MaxChanges,    \* bound on the server's changes of the document
    MaxCrashes     \* bound on crashes

Documents == Good \cup Bad

ASSUME RemoteAssumption ==
    /\ Good \cap Bad = {} /\ Empty \in Bad
    /\ \A d \in Good : Parts(d) \subseteq Documents
    /\ {NoPolicy, NoTag, Unchanged} \cap Documents = {}
    /\ MaxChanges \in Nat /\ MaxCrashes \in Nat

VARIABLES
    served, up,        \* what the server serves, and whether it answers
    changes, crashes,  \* counters of the bounded events
    cache,             \* the cache file; Empty also if there is none
    proc,              \* the process: "down", "boot" (in Fetch), "serving"
    pc,                \* Fetch or run: "idle", "request", "answered", "write",
                       \* "writing", "swap", "fallback", "exited"
    tag,               \* etag and lastModified
    resp, respTag,     \* the answer, and the tag it came with
    active,            \* the provider's policy
    closing,           \* Close: "no", "wait", "returned"
    last,              \* history: the last policy in force, over restarts
    since,             \* history: documents validated since then
    writeFailed        \* history: the last write of the cache failed

serverVars  == <<served, up, changes>>
historyVars == <<last, since, writeFailed>>
vars == <<serverVars, crashes, cache, proc, pc, tag, resp, respTag, active, closing, historyVars>>

TypeOK ==
    /\ served \in Documents /\ up \in BOOLEAN
    /\ changes \in 0..MaxChanges /\ crashes \in 0..MaxCrashes
    /\ cache \in Documents
    /\ proc \in {"down", "boot", "serving"}
    /\ pc \in {"idle", "request", "answered", "write", "writing", "swap", "fallback", "exited"}
    /\ tag \in Good \cup {NoTag}
    /\ resp \in Documents \cup {Unchanged} /\ respTag \in Documents \cup {NoTag}
    /\ active \in Good \cup {NoPolicy}
    /\ closing \in {"no", "wait", "returned"}
    /\ since \subseteq Good
    /\ last \in Good \cup {NoPolicy} /\ writeFailed \in BOOLEAN

\* A process that does not run has no state but the cache.
Reset ==
    /\ proc' = "down" /\ pc' = "idle"
    /\ tag' = NoTag /\ resp' = Empty /\ respTag' = NoTag
    /\ active' = NoPolicy /\ closing' = "no"

Init ==
    /\ served \in Documents /\ up \in BOOLEAN
    /\ changes = 0 /\ crashes = 0
    /\ cache = Empty
    /\ proc = "down" /\ pc = "idle"
    /\ tag = NoTag /\ resp = Empty /\ respTag = NoTag
    /\ active = NoPolicy /\ closing = "no"
    /\ last = NoPolicy /\ since = {} /\ writeFailed = FALSE

-----------------------------------------------------------------------------
(* The server, and the life of the process.                                *)

Publish(d) ==
    /\ changes < MaxChanges
    /\ changes' = changes + 1
    /\ served' = d
    /\ UNCHANGED <<up, crashes, cache, proc, pc, tag, resp, respTag, active, closing, historyVars>>

ServerFlips ==
    /\ up' = ~up
    /\ UNCHANGED <<served, changes, crashes, cache, proc, pc, tag, resp, respTag, active,
                   closing, historyVars>>

\* NewRemoteSource and the call of Fetch.
Boot ==
    /\ proc = "down"
    /\ proc' = "boot"
    /\ pc' = "request"
    /\ UNCHANGED <<serverVars, crashes, cache, tag, resp, respTag, active, closing, historyVars>>

Crash ==
    /\ proc # "down"
    /\ crashes < MaxCrashes
    /\ crashes' = crashes + 1
    /\ Reset
    /\ UNCHANGED <<serverVars, cache, historyVars>>

\* runProxy returns, after the deferred Close.
Exit ==
    /\ closing = "returned"
    /\ Reset
    /\ UNCHANGED <<serverVars, crashes, cache, historyVars>>

-----------------------------------------------------------------------------
(* One request: doRequest, and the checks behind it.                       *)

\* Mutation: a poll that fails ends the goroutine.
GiveUpExits == pc' = IF proc = "boot" THEN "fallback" ELSE "exited"

\* Mutation: a poll that fails is repeated at once, whatever the context says.
GiveUpRetries == pc' = IF proc = "boot" THEN "fallback" ELSE "request"

\* Fetch returns an error, poll just returns.
GiveUp == pc' = IF proc = "boot" THEN "fallback" ELSE "idle"

\* The server answers a conditional GET.
Answer ==
    /\ pc = "request"
    /\ up /\ closing = "no"
    /\ pc' = "answered"
    /\ IF tag = served
         THEN resp' = Unchanged /\ respTag' = NoTag
         ELSE resp' = served /\ respTag' \in {NoTag, served}
    /\ UNCHANGED <<serverVars, crashes, cache, proc, tag, active, closing, historyVars>>

\* No answer, an error status, or a body that breaks off; Close cancels the
\* request.
RequestFails ==
    /\ pc \in {"request", "answered"}
    /\ ~up \/ closing # "no"
    /\ GiveUp
    /\ UNCHANGED <<serverVars, crashes, cache, proc, tag, resp, respTag, active, closing,
                   historyVars>>

\* 304, or a document that does not load (onReject).
KeepPolicy ==
    /\ pc = "answered"
    /\ resp \notin Good
    /\ GiveUp
    /\ UNCHANGED <<serverVars, crashes, cache, proc, tag, resp, respTag, active, closing,
                   historyVars>>

\* Mutation: validators that the answer does not have are not reset.
AcceptKeepsTag ==
    /\ pc = "answered"
    /\ resp \in Good
    /\ tag' = IF respTag = NoTag THEN tag ELSE respTag
    /\ pc' = "write"
    /\ since' = since \cup {resp}
    /\ UNCHANGED <<serverVars, crashes, cache, proc, resp, respTag, active, closing, last,
                   writeFailed>>

\* The document loads: its validators are kept.
Accept ==
    /\ pc = "answered"
    /\ resp \in Good
    /\ tag' = respTag
    /\ pc' = "write"
    /\ since' = since \cup {resp}
    /\ UNCHANGED <<serverVars, crashes, cache, proc, resp, respTag, active, closing, last,
                   writeFailed>>

-----------------------------------------------------------------------------
(* writeCache, and the swap.                                               *)

\* Mutation: only Fetch writes the cache.
WriteOpensAtBoot ==
    /\ pc = "write"
    /\ \/ proc = "boot" /\ pc' = "writing" /\ cache' = Empty
       \/ proc # "boot" /\ pc' = "swap" /\ UNCHANGED cache
    /\ UNCHANGED <<serverVars, crashes, proc, tag, resp, respTag, active, closing, historyVars>>

\* os.WriteFile truncates the file when it opens it.
WriteOpens ==
    /\ pc = "write"
    /\ pc' = "writing"
    /\ cache' = Empty
    /\ UNCHANGED <<serverVars, crashes, proc, tag, resp, respTag, active, closing, historyVars>>

WriteEnds ==
    /\ pc = "writing"
    /\ pc' = "swap"
    /\ cache' = resp
    /\ writeFailed' = FALSE
    /\ UNCHANGED <<serverVars, crashes, proc, tag, resp, respTag, active, closing,
                   last, since>>

\* The directory, the file or its space is missing; that is only logged.
WriteFails ==
    /\ \/ pc = "write" /\ UNCHANGED cache
       \/ pc = "writing" /\ cache' \in Parts(resp) \cup {Empty}
    /\ pc' = "swap"
    /\ writeFailed' = TRUE
    /\ UNCHANGED <<serverVars, crashes, proc, tag, resp, respTag, active, closing,
                   last, since>>

\* onAccept after a poll; after Fetch, NewProvider and Start.
Swap ==
    /\ pc = "swap"
    /\ active' = resp /\ last' = resp /\ since' = {}
    /\ proc' = "serving"
    /\ pc' = "idle"
    /\ UNCHANGED <<serverVars, crashes, cache, tag, resp, respTag, closing,
                   writeFailed>>

\* runProxy takes the cached policy and starts the poller ...
CacheLoads ==
    /\ pc = "fallback"
    /\ cache \in Good
    /\ active' = cache /\ last' = cache /\ since' = {}
    /\ proc' = "serving"
    /\ pc' = "idle"
    /\ UNCHANGED <<serverVars, crashes, cache, tag, resp, respTag, closing,
                   writeFailed>>

\* ... or ends.
CacheDoesNotLoad ==
    /\ pc = "fallback"
    /\ cache \notin Good
    /\ Reset
    /\ UNCHANGED <<serverVars, crashes, cache, historyVars>>

-----------------------------------------------------------------------------
(* run, and Close.                                                         *)

\* The ticker fires; select may take it although the context is cancelled.
Tick ==
    /\ proc = "serving"
    /\ pc = "idle"
    /\ pc' = "request"
    /\ UNCHANGED <<serverVars, crashes, cache, proc, tag, resp, respTag, active, closing,
                   historyVars>>

Return ==
    /\ pc = "idle"
    /\ closing # "no"
    /\ pc' = "exited"
    /\ UNCHANGED <<serverVars, crashes, cache, proc, tag, resp, respTag, active, closing,
                   historyVars>>

\* A signal cancels the context, and Close cancels the request.
CloseSignal ==
    /\ proc = "serving"
    /\ closing = "no"
    /\ closing' = "wait"
    /\ UNCHANGED <<serverVars, crashes, cache, proc, pc, tag, resp, respTag, active, historyVars>>

\* Mutation: Close does not wait for the goroutine.
CloseWaitNot ==
    /\ closing = "wait"
    /\ closing' = "returned"
    /\ UNCHANGED <<serverVars, crashes, cache, proc, pc, tag, resp, respTag, active, historyVars>>

\* wg.Wait
CloseWait ==
    /\ closing = "wait"
    /\ pc = "exited"
    /\ closing' = "returned"
    /\ UNCHANGED <<serverVars, crashes, cache, proc, pc, tag, resp, respTag, active, historyVars>>

-----------------------------------------------------------------------------
Request == Answer \/ RequestFails \/ KeepPolicy \/ Accept
Store   == WriteOpens \/ WriteEnds \/ WriteFails \/ Swap \/ CacheLoads \/ CacheDoesNotLoad
Close   == CloseSignal \/ CloseWait

Next == (\E d \in Documents : Publish(d)) \/ ServerFlips \/ Boot \/ Crash \/ Exit
        \/ Request \/ Store \/ Tick \/ Return \/ Close

Spec == Init /\ [][Next]_vars

\* Goroutines are scheduled, requests end (client.Timeout), the ticker fires;
\* select takes a cancelled context in the end, as it chooses at random.
FairSpec ==
    /\ Spec
    /\ WF_vars(Request) /\ WF_vars(Store) /\ WF_vars(Tick)
    /\ SF_vars(Return) /\ WF_vars(CloseWait)

-----------------------------------------------------------------------------
(* Properties.                                                             *)

\* The validators never run ahead of the policy: when the next conditional
\* request is built they name the policy in force, so that a 304 cannot hide
\* an update.
ValidatorsNameActive ==
    proc = "serving" /\ pc \in {"idle", "request", "answered"} /\ tag # NoTag => active = tag

\* A start without the server continues with the policy that was in force
\* last, or with a later one that a crash kept from being put in force, but
\* never with an older one, provided that the last write of the cache did not
\* fail.
OfflineStartContinues ==
    [][pc = "fallback" /\ proc' = "serving" /\ ~writeFailed => active' \in {last} \cup since]_vars

\* After Close has returned no poll changes the policy or the cache, until
\* the process has ended.
NoReloadAfterClose ==
    [][closing = "returned" /\ closing' = "returned" => UNCHANGED <<active, cache>>]_vars

\* A document that loads and stays is in force in the end, whatever was
\* served, cached, rejected or lost before, if the server stays reachable.
EventuallyInForce ==
    \A d \in Good :
        <>[](up /\ served = d /\ proc = "serving" /\ closing = "no") => <>[](active = d)

\* Close returns, whatever request or write it finds under way.
CloseReturns == closing = "wait" ~> closing # "wait"
=============================================================================
