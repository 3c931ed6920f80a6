----------------------------- MODULE LogsFollow -----------------------------
(***************************************************************************)
(* cmd/runveil/logs.go: `runveil logs --follow`.  The command prints the   *)
(* last lines of the audit log, seeks to its end, and then looks at its    *)
(* size every 200 ms: a larger file is read with a bufio.Scanner, a        *)
(* smaller one is opened again.                                            *)
(*                                                                         *)
(* Lines are numbered in the order in which the proxy writes them.  A file *)
(* is the sequence of its lines; lumberjack's rotation renames it and      *)
(* starts another, and others may truncate it (logrotate's copytruncate,   *)
(* an operator).  Sizes and offsets count lines, and a line is written by  *)
(* one write call (Writer.writeRecord).                                    *)
(***************************************************************************)
EXTENDS Naturals, Sequences, Functions

CONSTANTS
    NumLines,     \* the -n flag
    MaxLines,     \* bound on the lines written
    MaxCuts       \* bound on rotations and truncations

VARIABLES
    files,    \* the files that have been at the path; the last one still is
    written,  \* lines written so far
    cuts,     \* rotations and truncations so far
    tpc,      \* "off", "opened", "read", "wait", "scan" or "done"
    fd,       \* the file f has open; 0 when it is nil
    offset,   \* the variable offset
    pos,      \* the read position of f
    fresh,    \* the scanner has not seen the end of the file
    shown     \* the lines printed, in order

diskVars == <<files, written, cuts>>
tailVars == <<tpc, fd, offset, pos, fresh, shown>>
vars     == <<diskVars, tailVars>>

AtPath      == Len(files)
Size(f)     == Len(files[f])
LastN(s, n) == IF Len(s) > n THEN SubSeq(s, Len(s) - n + 1, Len(s)) ELSE s

TypeOK ==
    /\ files \in Seq(Seq(1..MaxLines)) /\ files # <<>>
    /\ written \in 0..MaxLines /\ cuts \in 0..MaxCuts
    /\ tpc \in {"off", "opened", "read", "wait", "scan", "done"}
    /\ fd \in 0..AtPath /\ offset \in Nat /\ pos \in Nat
    /\ fresh \in BOOLEAN
    /\ shown \in Seq(1..MaxLines)

DiskInit == files = << <<>> >> /\ written = 0 /\ cuts = 0

TailInit ==
    /\ tpc = "off" /\ fd = 0 /\ offset = 0 /\ pos = 0
    /\ fresh = TRUE /\ shown = <<>>

Init == DiskInit /\ TailInit

-----------------------------------------------------------------------------
(* The proxy and others, on the file.                                      *)

AppendLine ==
    /\ written < MaxLines
    /\ written' = written + 1
    /\ files' = [files EXCEPT ![AtPath] = Append(@, written + 1)]
    /\ UNCHANGED <<cuts, tailVars>>

\* lumberjack renames the full file and creates another.
Rotate ==
    /\ cuts < MaxCuts
    /\ cuts' = cuts + 1
    /\ files' = Append(files, <<>>)
    /\ UNCHANGED <<written, tailVars>>

Truncate ==
    /\ cuts < MaxCuts
    /\ cuts' = cuts + 1
    /\ files' = [files EXCEPT ![AtPath] = <<>>]
    /\ UNCHANGED <<written, tailVars>>

-----------------------------------------------------------------------------
(* The initial output.                                                     *)

Open ==
    /\ tpc = "off"
    /\ tpc' = "opened"
    /\ fd' = AtPath
    /\ UNCHANGED <<diskVars, offset, pos, fresh, shown>>

\* io.ReadAll up to the end of the file, and the last -n lines printed.
ReadAll ==
    /\ tpc = "opened"
    /\ tpc' = "read"
    /\ shown' = LastN(files[fd], NumLines)
    /\ pos' = Size(fd)
    /\ UNCHANGED <<diskVars, fd, offset, fresh>>

\* f.Seek to the end, which may have moved since ReadAll; the scanner.
SeekEnd ==
    /\ tpc = "read"
    /\ tpc' = "wait"
    /\ offset' = Size(fd)
    /\ pos' = Size(fd)
    /\ fresh' = TRUE
    /\ UNCHANGED <<diskVars, fd, shown>>

-----------------------------------------------------------------------------
(* One tick of the follow loop.                                            *)

\* The file is smaller than before: close it and open the path again.
Reopen ==
    /\ tpc = "wait"
    /\ fd # 0
    /\ Size(fd) < offset
    /\ fd' = AtPath
    /\ offset' = 0 /\ pos' = 0
    /\ fresh' = TRUE
    /\ UNCHANGED <<diskVars, tpc, shown>>

\* The path cannot be opened: f is nil, and Stat of a nil file fails at
\* every later tick.
ReopenFails ==
    /\ tpc = "wait"
    /\ fd # 0
    /\ Size(fd) < offset
    /\ fd' = 0
    /\ UNCHANGED <<diskVars, tpc, offset, pos, fresh, shown>>

\* The file is larger than before.
Grown ==
    /\ tpc = "wait"
    /\ fd # 0
    /\ Size(fd) > offset
    /\ tpc' = "scan"
    /\ UNCHANGED <<diskVars, fd, offset, pos, fresh, shown>>

\* Scan finds a line behind the position, and it is printed.
ScanLine ==
    /\ tpc = "scan"
    /\ fresh
    /\ pos < Size(fd)
    /\ shown' = Append(shown, files[fd][pos + 1])
    /\ pos' = pos + 1
    /\ UNCHANGED <<diskVars, tpc, fd, offset, fresh>>

\* Scan meets the end of the file.  A Scanner remembers it: from now on
\* Scan returns false without reading (bufio.Scanner keeps io.EOF).
ScanEnd ==
    /\ tpc = "scan"
    /\ fresh => pos >= Size(fd)
    /\ fresh' = FALSE
    /\ tpc' = "wait"
    /\ offset' = pos
    /\ UNCHANGED <<diskVars, fd, pos, shown>>

\* SIGINT or SIGTERM.
Interrupt ==
    /\ tpc = "wait"
    /\ tpc' = "done"
    /\ UNCHANGED <<diskVars, fd, offset, pos, fresh, shown>>

-----------------------------------------------------------------------------
Begin == Open \/ ReadAll \/ SeekEnd
Tick  == Reopen \/ ReopenFails \/ Grown \/ ScanLine \/ ScanEnd
Disk  == AppendLine \/ Rotate \/ Truncate

Next == Disk \/ Begin \/ Tick \/ Interrupt

Spec == Init /\ [][Next]_vars

\* The ticker fires and the command is scheduled; nobody has to start it.
Fairness == WF_vars(ReadAll \/ SeekEnd) /\ WF_vars(Tick)
FairSpec == Spec /\ Fairness

-----------------------------------------------------------------------------
(* Properties.                                                             *)

\* Whatever is rotated, truncated and opened again, no line is printed
\* twice, and lines come in the order in which the proxy wrote them.
TailInOrder == \A i, j \in DOMAIN shown : i < j => shown[i] < shown[j]

Following == tpc \in {"wait", "scan"}

\* What the flag promises: "after the initial output, stream new records as they
\* arrive" (logs.go:27).
StreamsNewRecords ==
    \A l \in 1..MaxLines :
        (Following /\ written < l /\ <>(written >= l)) ~> (l \in Range(shown) \/ tpc = "done")
=============================================================================
