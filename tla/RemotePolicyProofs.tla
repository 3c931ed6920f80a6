------------------------- MODULE RemotePolicyProofs -------------------------
(***************************************************************************)
(* The safety properties of the remote source, for all documents and any   *)
(* number of crashes and of changes at the server.                         *)
(***************************************************************************)
EXTENDS RemotePolicy, TLAPS

-----------------------------------------------------------------------------
(* The inductive invariant.                                                *)

Storing == pc \in {"write", "writing", "swap"}

\* Where the two phases are, and that Close joins the goroutine.
PhaseOK ==
    /\ proc = "down" => pc = "idle"
    /\ proc = "boot" => pc \in {"request", "answered", "write", "writing", "swap", "fallback"}
    /\ pc = "fallback" => proc = "boot"
    /\ closing # "no" => proc = "serving"
    /\ closing = "returned" => pc = "exited"

\* The tag is the answer's, and before the first answer there is none.
TagOK ==
    /\ pc = "answered" /\ resp \in Good => respTag \in {NoTag, resp}
    /\ Storing => resp \in Good /\ tag \in {NoTag, resp} /\ resp \in since
    /\ proc # "serving" /\ ~Storing => tag = NoTag

\* What the cache holds, unless the last write failed.
CacheOK ==
    ~writeFailed => /\ pc = "swap" => cache = resp
                    /\ cache \in Good => cache \in {last} \cup since

IInv == TypeOK /\ PhaseOK /\ TagOK /\ CacheOK /\ ValidatorsNameActive

-----------------------------------------------------------------------------
(* The steps.                                                              *)

LEMMA InitIInv == Init => IInv
<1> SUFFICES ASSUME Init PROVE IInv
  OBVIOUS
<1>1. changes \in 0..MaxChanges /\ crashes \in 0..MaxCrashes
  BY RemoteAssumption DEF Init
<1>2. TypeOK
  BY <1>1, RemoteAssumption DEF Init, TypeOK, Documents
<1>3. PhaseOK /\ TagOK /\ CacheOK /\ ValidatorsNameActive
  BY RemoteAssumption DEF Init, PhaseOK, TagOK, Storing, CacheOK, ValidatorsNameActive
<1> QED BY <1>2, <1>3 DEF IInv

\* The environment moves nothing but the server.
LEMMA ServerIInv ==
    ASSUME IInv, (\E d \in Documents : Publish(d)) \/ ServerFlips
    PROVE  IInv'
<1>1. /\ served' \in Documents /\ up' \in BOOLEAN
      /\ UNCHANGED <<crashes, cache, proc, pc, tag, resp, respTag, active, closing, historyVars>>
  BY DEF IInv, TypeOK, Publish, ServerFlips
<1>2. changes' \in 0..MaxChanges
  BY RemoteAssumption DEF IInv, TypeOK, Publish, ServerFlips
<1> QED BY <1>1, <1>2
    DEF IInv, TypeOK, PhaseOK, TagOK, Storing, CacheOK, ValidatorsNameActive, historyVars

\* The end of a process leaves the cache.
LEMMA ResetIInv ==
    ASSUME IInv, Reset, crashes' \in 0..MaxCrashes,
           UNCHANGED <<serverVars, cache, historyVars>>
    PROVE  IInv'
BY RemoteAssumption
DEF Reset, IInv, TypeOK, PhaseOK, TagOK, Storing, CacheOK, ValidatorsNameActive,
    serverVars, historyVars, Documents

LEMMA EndIInv == ASSUME IInv, Crash \/ Exit \/ CacheDoesNotLoad PROVE IInv'
<1>1. crashes' \in 0..MaxCrashes
  BY RemoteAssumption DEF IInv, TypeOK, Crash, Exit, CacheDoesNotLoad
<1>2. Reset /\ UNCHANGED <<serverVars, cache, historyVars>>
  BY DEF Crash, Exit, CacheDoesNotLoad
<1> QED BY <1>1, <1>2, ResetIInv

LEMMA RequestIInv == ASSUME IInv, Boot \/ Tick \/ Request PROVE IInv'
<1> USE RemoteAssumption
    DEF IInv, TypeOK, PhaseOK, TagOK, Storing, CacheOK, ValidatorsNameActive,
        serverVars, historyVars, Documents
<1>1. CASE Boot
  BY <1>1 DEF Boot
<1>2. CASE Tick
  BY <1>2 DEF Tick
<1>3. CASE Answer
  BY <1>3 DEF Answer
<1>4. CASE RequestFails
  BY <1>4 DEF RequestFails, GiveUp
<1>5. CASE KeepPolicy
  BY <1>5 DEF KeepPolicy, GiveUp
<1>6. CASE Accept
  BY <1>6 DEF Accept
<1> QED BY <1>1, <1>2, <1>3, <1>4, <1>5, <1>6 DEF Request

LEMMA StoreIInv == ASSUME IInv, Store PROVE IInv'
<1> USE RemoteAssumption
    DEF IInv, TypeOK, PhaseOK, TagOK, Storing, CacheOK, ValidatorsNameActive,
        serverVars, historyVars, Documents
<1>1. CASE WriteOpens
  BY <1>1 DEF WriteOpens
<1>2. CASE WriteEnds
  BY <1>2 DEF WriteEnds
<1>3. CASE WriteFails
  BY <1>3 DEF WriteFails
<1>4. CASE Swap
  BY <1>4 DEF Swap
<1>5. CASE CacheLoads
  BY <1>5 DEF CacheLoads
<1>6. CASE CacheDoesNotLoad
  BY <1>6, EndIInv
<1> QED BY <1>1, <1>2, <1>3, <1>4, <1>5, <1>6 DEF Store

LEMMA CloseIInv == ASSUME IInv, Return \/ Close PROVE IInv'
<1> USE DEF IInv, TypeOK, PhaseOK, TagOK, Storing, CacheOK, ValidatorsNameActive,
            serverVars, historyVars
<1>1. CASE Return
  BY <1>1 DEF Return
<1>2. CASE CloseSignal
  BY <1>2 DEF CloseSignal
<1>3. CASE CloseWait
  BY <1>3 DEF CloseWait
<1> QED BY <1>1, <1>2, <1>3 DEF Close

LEMMA StutterIInv == ASSUME IInv, UNCHANGED vars PROVE IInv'
BY DEF IInv, TypeOK, PhaseOK, TagOK, Storing, CacheOK, ValidatorsNameActive, vars,
       serverVars, historyVars

LEMMA IInvAlways == Spec => []IInv
<1>1. IInv /\ [Next]_vars => IInv'
  BY ServerIInv, EndIInv, RequestIInv, StoreIInv, CloseIInv, StutterIInv DEF Next
<1> QED BY InitIInv, <1>1, PTL DEF Spec

-----------------------------------------------------------------------------
(* The theorems.                                                           *)

\* Whatever is served, rejected or lost, the validators sent with a poll name
\* the policy in force (poll, Fetch, doRequest).
THEOREM ValidatorsNameActiveAlways == Spec => []ValidatorsNameActive
BY IInvAlways, PTL DEF IInv

\* A start from the cache never goes back behind the policy that was in force
\* last, after any number of crashes, if the last write did not fail
\* (writeCache, and the fallback in runProxy).
THEOREM OfflineStartContinuesAlways == Spec => OfflineStartContinues
<1>1. ASSUME IInv, Next, pc = "fallback", proc' = "serving", ~writeFailed
      PROVE  active' \in {last} \cup since
  <2>1. CacheLoads
    BY <1>1
    DEF IInv, PhaseOK, Next, Publish, ServerFlips, Boot, Crash, Exit, Reset, Request, Answer,
        RequestFails, KeepPolicy, Accept, Store, WriteOpens, WriteEnds, WriteFails, Swap,
        CacheDoesNotLoad, Tick, Return, Close, CloseSignal, CloseWait
  <2> QED BY <1>1, <2>1 DEF IInv, CacheOK, CacheLoads
<1>2. IInv /\ [Next]_vars
      => [pc = "fallback" /\ proc' = "serving" /\ ~writeFailed => active' \in {last} \cup since]_vars
  BY <1>1
<1> QED BY IInvAlways, <1>2, PTL DEF Spec, OfflineStartContinues

\* Once Close has returned, the goroutine has ended: no poll changes the
\* policy or the cache.
THEOREM NoReloadAfterCloseAlways == Spec => NoReloadAfterClose
<1>1. ASSUME IInv, Next, closing = "returned", closing' = "returned"
      PROVE  UNCHANGED <<active, cache>>
  <2>1. pc = "exited" /\ proc = "serving"
    BY <1>1 DEF IInv, PhaseOK
  <2> QED BY <1>1, <2>1
      DEF Next, Publish, ServerFlips, Boot, Crash, Exit, Reset, Request, Answer,
          RequestFails, KeepPolicy, Accept, Store, WriteOpens, WriteEnds, WriteFails, Swap,
          CacheLoads, CacheDoesNotLoad, Tick, Return, Close, CloseSignal, CloseWait
<1>2. IInv /\ [Next]_vars
      => [closing = "returned" /\ closing' = "returned" => UNCHANGED <<active, cache>>]_vars
  BY <1>1
<1> QED BY IInvAlways, <1>2, PTL DEF Spec, NoReloadAfterClose
=============================================================================
