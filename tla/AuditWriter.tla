---------------------------- MODULE AuditWriter -----------------------------
(***************************************************************************)
(* internal/audit/writer.go: the asynchronous file writer of the audit     *)
(* log.  Request handlers call Log and policy sources call Event, from any *)
(* number of goroutines; one goroutine (run) moves what they queued to the *)
(* file; Close stops it.                                                   *)
(*                                                                         *)
(* Log and Event read the closed flag and send on a bounded channel in two *)
(* steps, and Close takes four, so a call can overlap a shutdown anywhere. *)
(* Item <<p, n>> is the n-th call of goroutine p.                          *)
(***************************************************************************)
EXTENDS Naturals, Sequences, FiniteSets, Functions

CONSTANTS
    Handlers,    \* goroutines that call Log
    Sources,     \* goroutines that call Event
    Closers,     \* goroutines that call Close
    BufferSize,  \* capacity of each channel
    MaxCalls     \* bounds on the calls of a handler and of a source

ASSUME WriterAssumption ==
    /\ Handlers \cap Sources = {}
    /\ BufferSize \in Nat \ {0}
    /\ MaxCalls \in [{"handler", "source"} -> Nat]

Producers == Handlers \cup Sources
Bound(p)  == MaxCalls[IF p \in Handlers THEN "handler" ELSE "source"]
Items     == UNION {{p} \X (1..Bound(p)) : p \in Producers}

VARIABLES
    ch, evCh,    \* the two channels
    closed,      \* the atomic flag
    done,        \* whether the done channel is closed
    calls,       \* calls each producer has begun
    ppc,         \* "idle", or "send": past the closed check
    wpc,         \* run: "select", "drain" or "exited"
    once,        \* closeOnce: "free", "running" or "done"
    cpc,         \* each closer: "idle", "store", "signal", "wait", "flush",
                 \* "blocked" (in Once.Do) or "returned"
    file,        \* the lines in the audit file, in order
    refused, dropped, failed,  \* history: calls that left no line, and why
    early        \* history: the items queued before closed was set

vars == <<ch, evCh, closed, done, calls, ppc, wpc, once, cpc, file,
          refused, dropped, failed, early>>

TypeOK ==
    /\ ch \in Seq(Items) /\ Len(ch) <= BufferSize
    /\ evCh \in Seq(Items) /\ Len(evCh) <= BufferSize
    /\ closed \in BOOLEAN
    /\ done \in BOOLEAN
    /\ calls \in [Producers -> Nat]
    /\ \A p \in Producers : calls[p] <= Bound(p)
    /\ ppc \in [Producers -> {"idle", "send"}]
    /\ wpc \in {"select", "drain", "exited"}
    /\ once \in {"free", "running", "done"}
    /\ cpc \in [Closers -> {"idle", "store", "signal", "wait", "flush",
                            "blocked", "returned"}]
    /\ file \in Seq(Items)
    /\ refused \subseteq Items
    /\ dropped \subseteq Items
    /\ failed \subseteq Items
    /\ early \subseteq Items

Init ==
    /\ ch = <<>> /\ evCh = <<>>
    /\ closed = FALSE /\ done = FALSE
    /\ calls = [p \in Producers |-> 0]
    /\ ppc = [p \in Producers |-> "idle"]
    /\ wpc = "select"
    /\ once = "free"
    /\ cpc = [c \in Closers |-> "idle"]
    /\ file = <<>>
    /\ refused = {} /\ dropped = {} /\ failed = {} /\ early = {}

Item(p) == <<p, calls[p]>>

-----------------------------------------------------------------------------
(* Log and Event.                                                          *)

\* The closed check at the top of Log and Event.
Check(p) ==
    /\ ppc[p] = "idle"
    /\ calls[p] < Bound(p)
    /\ calls' = [calls EXCEPT ![p] = @ + 1]
    /\ IF closed
         THEN /\ refused' = refused \cup {<<p, calls[p] + 1>>}
              /\ UNCHANGED ppc
         ELSE /\ ppc' = [ppc EXCEPT ![p] = "send"]
              /\ UNCHANGED refused
    /\ UNCHANGED <<ch, evCh, closed, done, wpc, once, cpc, file, dropped, failed, early>>

\* The non-blocking send of Log: queued, or dropped when the channel is full.
LogSend(p) ==
    /\ ppc[p] = "send"
    /\ ppc' = [ppc EXCEPT ![p] = "idle"]
    /\ IF Len(ch) < BufferSize
         THEN /\ ch' = Append(ch, Item(p))
              /\ early' = IF closed THEN early ELSE early \cup {Item(p)}
              /\ UNCHANGED dropped
         ELSE /\ dropped' = dropped \cup {Item(p)}
              /\ UNCHANGED <<ch, early>>
    /\ UNCHANGED <<evCh, closed, done, calls, wpc, once, cpc, file, refused, failed>>

\* The same for Event and its channel.
EventSend(p) ==
    /\ ppc[p] = "send"
    /\ ppc' = [ppc EXCEPT ![p] = "idle"]
    /\ IF Len(evCh) < BufferSize
         THEN /\ evCh' = Append(evCh, Item(p))
              /\ early' = IF closed THEN early ELSE early \cup {Item(p)}
              /\ UNCHANGED dropped
         ELSE /\ dropped' = dropped \cup {Item(p)}
              /\ UNCHANGED <<evCh, early>>
    /\ UNCHANGED <<ch, closed, done, calls, wpc, once, cpc, file, refused, failed>>

-----------------------------------------------------------------------------
(* run.  Go's select takes any ready case.                                 *)

\* writeRecord and writeEvent: a line is added to the file, or marshalling
\* or writing fails and the item is logged as lost.
Write(item) ==
    \/ file' = Append(file, item) /\ UNCHANGED failed
    \/ failed' = failed \cup {item} /\ UNCHANGED file

\* Mutation: the newest record is written first.
RunRecordNewest ==
    /\ wpc \in {"select", "drain"}
    /\ ch # <<>>
    /\ ch' = SubSeq(ch, 1, Len(ch) - 1)
    /\ Write(ch[Len(ch)])
    /\ UNCHANGED <<evCh, closed, done, calls, ppc, wpc, once, cpc, refused, dropped, early>>

RunRecord ==
    /\ wpc \in {"select", "drain"}
    /\ ch # <<>>
    /\ ch' = Tail(ch)
    /\ Write(Head(ch))
    /\ UNCHANGED <<evCh, closed, done, calls, ppc, wpc, once, cpc, refused, dropped, early>>

RunEvent ==
    /\ wpc \in {"select", "drain"}
    /\ evCh # <<>>
    /\ evCh' = Tail(evCh)
    /\ Write(Head(evCh))
    /\ UNCHANGED <<ch, closed, done, calls, ppc, wpc, once, cpc, refused, dropped, early>>

\* Mutation: the goroutine returns on done without draining.
RunDoneExits ==
    /\ wpc = "select"
    /\ done
    /\ wpc' = "exited"
    /\ UNCHANGED <<ch, evCh, closed, done, calls, ppc, once, cpc, file,
                   refused, dropped, failed, early>>

\* The outer select takes the done case and enters the draining loop.
RunDone ==
    /\ wpc = "select"
    /\ done
    /\ wpc' = "drain"
    /\ UNCHANGED <<ch, evCh, closed, done, calls, ppc, once, cpc, file,
                   refused, dropped, failed, early>>

\* Mutation: the draining loop looks at the record channel only.
RunExitRecordsOnly ==
    /\ wpc = "drain"
    /\ ch = <<>>
    /\ wpc' = "exited"
    /\ UNCHANGED <<ch, evCh, closed, done, calls, ppc, once, cpc, file,
                   refused, dropped, failed, early>>

\* The draining loop finds both channels empty; wg.Done.
RunExit ==
    /\ wpc = "drain"
    /\ ch = <<>> /\ evCh = <<>>
    /\ wpc' = "exited"
    /\ UNCHANGED <<ch, evCh, closed, done, calls, ppc, once, cpc, file,
                   refused, dropped, failed, early>>

-----------------------------------------------------------------------------
(* Close, under closeOnce.                                                 *)

CloserStep(c, from, to) == cpc[c] = from /\ cpc' = [cpc EXCEPT ![c] = to]

\* Once.Do: the first caller runs the function, the others wait for it.
CloseCall(c) ==
    /\ CloserStep(c, "idle", IF once = "free" THEN "store" ELSE "blocked")
    /\ once' = IF once = "free" THEN "running" ELSE once
    /\ UNCHANGED <<ch, evCh, closed, done, calls, ppc, wpc, file,
                   refused, dropped, failed, early>>

CloseStore(c) ==
    /\ CloserStep(c, "store", "signal")
    /\ closed' = TRUE
    /\ UNCHANGED <<ch, evCh, done, calls, ppc, wpc, once, file,
                   refused, dropped, failed, early>>

\* Mutation: the done channel is never closed.
CloseSignalForgets(c) ==
    /\ CloserStep(c, "signal", "wait")
    /\ UNCHANGED <<ch, evCh, closed, done, calls, ppc, wpc, once, file,
                   refused, dropped, failed, early>>

CloseSignal(c) ==
    /\ CloserStep(c, "signal", "wait")
    /\ done' = TRUE
    /\ UNCHANGED <<ch, evCh, closed, calls, ppc, wpc, once, file,
                   refused, dropped, failed, early>>

\* wg.Wait
CloseWait(c) ==
    /\ wpc = "exited"
    /\ CloserStep(c, "wait", "flush")
    /\ UNCHANGED <<ch, evCh, closed, done, calls, ppc, wpc, once, file,
                   refused, dropped, failed, early>>

\* lj.Close; the Once is complete and Close returns.
CloseFlush(c) ==
    /\ CloserStep(c, "flush", "returned")
    /\ once' = "done"
    /\ UNCHANGED <<ch, evCh, closed, done, calls, ppc, wpc, file,
                   refused, dropped, failed, early>>

\* A later caller returns once the first one is through.
CloseUnblock(c) ==
    /\ once = "done"
    /\ CloserStep(c, "blocked", "returned")
    /\ UNCHANGED <<ch, evCh, closed, done, calls, ppc, wpc, once, file,
                   refused, dropped, failed, early>>

-----------------------------------------------------------------------------
Run == RunRecord \/ RunEvent \/ RunDone \/ RunExit

Send(p) == \/ p \in Handlers /\ LogSend(p)
           \/ p \in Sources /\ EventSend(p)

Produce(p) == Check(p) \/ Send(p)

CloseOn(c) == \/ CloseStore(c) \/ CloseSignal(c) \/ CloseWait(c)
              \/ CloseFlush(c) \/ CloseUnblock(c)

Next == \/ \E p \in Producers : Produce(p)
        \/ Run
        \/ \E c \in Closers : CloseCall(c) \/ CloseOn(c)

Spec == Init /\ [][Next]_vars

\* The run goroutine is always scheduled again, and so is a goroutine that
\* has begun a Log, an Event or a Close; nobody has to begin one.
Fairness == /\ WF_vars(Run)
            /\ \A p \in Producers : WF_vars(Send(p))
            /\ \A c \in Closers : WF_vars(CloseOn(c))

FairSpec == Spec /\ Fairness

-----------------------------------------------------------------------------
(* Properties.                                                             *)

Returned == \E c \in Closers : cpc[c] = "returned"

\* The writer as an abstract sink.
Calling == {Item(p) : p \in {q \in Producers : ppc[q] = "send"}}

Sink == INSTANCE LossyLog WITH
    calling <- Calling,
    pending <- Range(ch) \cup Range(evCh),
    kept    <- Range(file),
    lost    <- failed,
    refused <- refused \cup dropped,
    phase   <- IF Returned THEN "closed" ELSE IF closed THEN "closing" ELSE "open"

\* Log, Event, run and Close implement LossyLog, at every overlap of their
\* steps: each call has exactly one outcome (a line, a failed write, or a
\* refusal that a full channel or the shutdown explains), each goroutine's
\* items are written in the order of its calls although they pass through
\* two phases of run, Close returns only when everything queued before the
\* flag was set is settled, and nothing is written afterwards.
ImplementsLossyLog == Sink!Spec

\* Close loses nothing it was given in time: once any Close has returned,
\* everything that Log and Event queued before Close set the closed flag is
\* in the file, or its write failed.
CloseFlushesEarlyItems ==
    Returned => early \subseteq Range(file) \cup failed

\* Close returns, even while calls that passed the check keep arriving.
CloseReturns == \A c \in Closers : cpc[c] # "idle" ~> cpc[c] = "returned"

\* What was queued before the shutdown began reaches the file or fails.
EarlyItemsReachTheFile ==
    \A x \in Items : x \in early ~> x \in Range(file) \cup failed
=============================================================================
