-------------------------- MODULE LogsFollowProofs --------------------------
(***************************************************************************)
(* A proof about `runveil logs --follow`: whatever is appended, rotated,   *)
(* truncated and opened again, it prints no line twice and none too late.  *)
(***************************************************************************)
EXTENDS LogsFollow, SequenceTheorems, TLAPS

Increasing(s) == \A i, j \in DOMAIN s : i < j => s[i] < s[j]

\* What is behind position n of file f.
Behind(f, n) == {files[f][i] : i \in {k \in DOMAIN files[f] : k > n}}

\* The lines of S were written after all that is shown.
New(S) == \A l \in Range(shown), k \in S : l < k

\* Lines are appended to the file at the path, in the order of their numbers.
DiskInv ==
    /\ \A f \in 1..AtPath : Increasing(files[f]) /\ \A l \in Range(files[f]) : l <= written
    /\ \A f, g \in 1..AtPath : f < g => \A l \in Range(files[f]), k \in Range(files[g]) : l < k

\* What the command may still print is new: the rest of the file it has open,
\* all of a later file, and all of the open file once it has been truncated.
ShownInv ==
    /\ Increasing(shown)
    /\ \A l \in Range(shown) : l <= written
    /\ fd # 0 => /\ New(Behind(fd, pos))
                 /\ \A g \in 1..AtPath : g > fd => New(Range(files[g]))
                 /\ Size(fd) < pos => New(Range(files[fd]))

PositionInv ==
    /\ tpc = "off" => shown = <<>> /\ pos = 0
    /\ tpc = "wait" /\ fd # 0 => offset = pos
    /\ tpc \in {"opened", "read", "scan"} => fd # 0
    /\ tpc = "opened" => shown = <<>> /\ pos = 0

IInv == TypeOK /\ DiskInv /\ ShownInv /\ PositionInv

\* runLogs exits unless the -n flag is positive (logs.go:32).
Flags == NumLines \in Nat \ {0} /\ MaxLines \in Nat /\ MaxCuts \in Nat

-----------------------------------------------------------------------------
(* Sequences of line numbers.                                              *)

LEMMA AppendLast ==
    ASSUME NEW S, NEW s \in Seq(S), NEW e \in S
    PROVE  /\ Append(s, e) \in Seq(S) /\ Len(Append(s, e)) = Len(s) + 1 /\ Len(s) \in Nat
           /\ DOMAIN s = 1..Len(s) /\ DOMAIN Append(s, e) = 1..(Len(s) + 1)
           /\ Append(s, e)[Len(s) + 1] = e /\ \A i \in DOMAIN s : Append(s, e)[i] = s[i]
           /\ Range(Append(s, e)) = Range(s) \cup {e}
<1> DEFINE a == Append(s, e)
<1>1. /\ a \in Seq(S) /\ Len(a) = Len(s) + 1 /\ Len(s) \in Nat
      /\ DOMAIN s = 1..Len(s) /\ DOMAIN a = 1..(Len(s) + 1)
      /\ a[Len(s) + 1] = e /\ \A i \in DOMAIN s : a[i] = s[i]
  OBVIOUS
<1> HIDE DEF a
<1>2. /\ \A i \in DOMAIN a : i \in DOMAIN s \/ i = Len(s) + 1
      /\ \A i \in DOMAIN s : i \in DOMAIN a
      /\ Len(s) + 1 \in DOMAIN a
  BY <1>1
<1>3. Range(a) = Range(s) \cup {e}
  <2>1. ASSUME NEW x \in Range(a) PROVE x \in Range(s) \cup {e}
    BY <1>1, <1>2, <2>1 DEF Range
  <2>2. ASSUME NEW x \in Range(s) PROVE x \in Range(a)
    BY <1>1, <1>2, <2>2 DEF Range
  <2>3. e \in Range(a)
    BY <1>1, <1>2 DEF Range
  <2> QED
    BY <2>1, <2>2, <2>3
<1> QED
  BY <1>1, <1>3 DEF a

\* A line with a larger number keeps a sequence increasing.
LEMMA IncreasingAppend ==
    ASSUME NEW s \in Seq(Nat), NEW e \in Nat, Increasing(s), \A l \in Range(s) : l < e
    PROVE  Increasing(Append(s, e))
<1> DEFINE a == Append(s, e)
<1>1. /\ Len(s) \in Nat /\ DOMAIN s = 1..Len(s) /\ DOMAIN a = 1..(Len(s) + 1)
      /\ a[Len(s) + 1] = e /\ \A i \in DOMAIN s : a[i] = s[i]
  BY AppendLast
<1> HIDE DEF a
<1> SUFFICES ASSUME NEW i \in DOMAIN a, NEW j \in DOMAIN a, i < j PROVE a[i] < a[j]
  BY DEF Increasing, a
<1>2. i \in DOMAIN s /\ a[i] = s[i] /\ s[i] \in Range(s) /\ (j \in DOMAIN s \/ j = Len(s) + 1)
  BY <1>1 DEF Range
<1> QED
  BY <1>1, <1>2 DEF Increasing

\* The last lines of an increasing sequence are one.
LEMMA LastNIncreasing ==
    ASSUME Flags, NEW s \in Seq(Nat), Increasing(s)
    PROVE  /\ LastN(s, NumLines) \in Seq(Nat) /\ Increasing(LastN(s, NumLines))
           /\ Range(LastN(s, NumLines)) \subseteq Range(s)
<1> DEFINE m == Len(s) - NumLines + 1
           t == SubSeq(s, m, Len(s))
<1>1. CASE ~(Len(s) > NumLines)
  BY <1>1 DEF LastN
<1>2. CASE Len(s) > NumLines
  <2>1. /\ Len(s) \in Nat /\ DOMAIN s = 1..Len(s) /\ NumLines \in Nat \ {0}
        /\ m \in 1..Len(s) /\ LastN(s, NumLines) = t
    BY <1>2 DEF LastN, Flags
  <2> HIDE DEF m
  <2>2. /\ t \in Seq(Nat) /\ DOMAIN t = 1..(Len(s) - m + 1)
        /\ \A i \in DOMAIN t : t[i] = s[m + i - 1]
    <3>1. m \in Int /\ Len(s) \in Int /\ m <= Len(s) /\ \A i \in m..Len(s) : s[i] \in Nat
      BY <2>1
    <3>2. /\ t \in Seq(Nat) /\ Len(t) = Len(s) - m + 1
          /\ \A i \in 1..(Len(s) - m + 1) : t[i] = s[m + i - 1]
      BY <3>1, SubSeqProperties
    <3> HIDE DEF t
    <3> QED
      BY <3>2
  <2> HIDE DEF t
  <2>3. \A i \in DOMAIN t : m + i - 1 \in DOMAIN s /\ i \in Nat
    <3> DEFINE n == Len(s)
    <3> SUFFICES ASSUME NEW i \in 1..(n - m + 1) PROVE m + i - 1 \in 1..n /\ i \in Nat
      BY <2>1, <2>2
    <3>1. n \in Nat /\ m \in 1..n
      BY <2>1
    <3> HIDE DEF n
    <3> QED
      BY <3>1
  <2>4. Increasing(t)
    <3> SUFFICES ASSUME NEW i \in DOMAIN t, NEW j \in DOMAIN t, i < j PROVE t[i] < t[j]
      BY DEF Increasing
    <3>1. m + i - 1 < m + j - 1
      BY <2>1, <2>3
    <3> QED
      BY <2>2, <2>3, <3>1 DEF Increasing
  <2>5. Range(t) \subseteq Range(s)
    BY <2>2, <2>3 DEF Range
  <2> QED
    BY <2>1, <2>2, <2>4, <2>5
<1> QED
  BY <1>1, <1>2

\* They are elements of the sequence.
LEMMA LastNTyped ==
    ASSUME Flags, NEW S, NEW s \in Seq(S)
    PROVE  LastN(s, NumLines) \in Seq(S)
<1> DEFINE m == Len(s) - NumLines + 1
<1>1. CASE ~(Len(s) > NumLines)
  BY <1>1 DEF LastN
<1>2. CASE Len(s) > NumLines
  <2>1. /\ LastN(s, NumLines) = SubSeq(s, m, Len(s)) /\ m \in 1..Len(s) /\ Len(s) \in Nat
    BY <1>2 DEF LastN, Flags
  <2> HIDE DEF m
  <2>2. m \in Int /\ Len(s) \in Int /\ \A i \in m..Len(s) : s[i] \in S
    BY <2>1
  <2> QED
    BY <2>1, <2>2, SubSeqProperties
<1> QED
  BY <1>1, <1>2

\* A sequence of elements of S is one of elements of a larger set.
LEMMA LargerSet ==
    ASSUME NEW S, NEW T, S \subseteq T, NEW s \in Seq(S)
    PROVE  s \in Seq(T)
<1>1. Len(s) \in Nat /\ s \in [1..Len(s) -> S]
  OBVIOUS
<1>2. s \in [1..Len(s) -> T]
  BY <1>1
<1> QED
  BY <1>1, <1>2

\* What is typed is a sequence of numbers.
LEMMA Typed ==
    ASSUME TypeOK, Flags
    PROVE  /\ files \in Seq(Seq(Nat)) /\ files # <<>> /\ AtPath \in Nat \ {0} /\ DOMAIN files = 1..AtPath
           /\ \A f \in 1..AtPath : files[f] \in Seq(Nat) /\ Size(f) \in Nat /\ DOMAIN files[f] = 1..Size(f)
           /\ written \in Nat /\ fd \in 0..AtPath /\ offset \in Nat /\ pos \in Nat
           /\ shown \in Seq(Nat) /\ Range(shown) \subseteq Nat
           /\ \A f \in 1..AtPath : Range(files[f]) \subseteq Nat
<1>1. 1..MaxLines \subseteq Nat
  BY DEF Flags
<1>2. /\ files \in Seq(Seq(1..MaxLines)) /\ files # <<>> /\ shown \in Seq(1..MaxLines)
      /\ written \in 0..MaxLines /\ fd \in 0..Len(files) /\ offset \in Nat /\ pos \in Nat
  BY DEF TypeOK, AtPath
<1>3. Seq(1..MaxLines) \subseteq Seq(Nat)
  BY <1>1, LargerSet
<1>4. files \in Seq(Seq(Nat)) /\ shown \in Seq(Nat) /\ Len(files) \in Nat \ {0} /\ DOMAIN files = 1..Len(files)
  BY <1>2, <1>3
<1>5. ASSUME NEW f \in 1..Len(files)
      PROVE  files[f] \in Seq(Nat) /\ Len(files[f]) \in Nat /\ DOMAIN files[f] = 1..Len(files[f])
             /\ Range(files[f]) \subseteq Nat
  <2>1. files[f] \in Seq(Nat)
    BY <1>4
  <2> QED
    BY <2>1 DEF Range
<1>6. written \in Nat /\ Range(shown) \subseteq Nat
  BY <1>2, <1>4 DEF Flags, Range
<1> QED
  BY <1>2, <1>4, <1>5, <1>6 DEF AtPath, Size

-----------------------------------------------------------------------------
(* Types.                                                                  *)

LEMMA InitInv == ASSUME Flags, Init PROVE IInv
<1> USE DEF Init, DiskInit, TailInit
<1>1. /\ files = << <<>> >> /\ AtPath = 1 /\ files[1] = <<>> /\ Range(files[1]) = {}
      /\ shown = <<>> /\ Range(shown) = {}
  BY DEF AtPath, Range
<1>2. TypeOK
  <2>1. files \in Seq(Seq(1..MaxLines)) /\ shown \in Seq(1..MaxLines) /\ files # <<>>
    BY <1>1
  <2> QED
    BY <1>1, <2>1 DEF TypeOK, Flags
<1>3. DiskInv
  BY <1>1 DEF DiskInv, Increasing
<1>4. ShownInv
  BY <1>1 DEF ShownInv, Increasing
<1>5. PositionInv
  BY DEF PositionInv
<1> QED
  BY <1>2, <1>3, <1>4, <1>5 DEF IInv

LEMMA StepType == ASSUME Flags, IInv, [Next]_vars PROVE TypeOK'
<1>0. /\ TypeOK /\ DiskInv /\ PositionInv
      /\ files \in Seq(Seq(1..MaxLines)) /\ files # <<>> /\ Len(files) \in Nat \ {0}
      /\ DOMAIN files = 1..Len(files) /\ AtPath = Len(files)
  BY DEF IInv, TypeOK, AtPath
<1>1. \A f \in 1..AtPath : Size(f) \in Nat /\ files[f] \in Seq(1..MaxLines)
  BY <1>0 DEF Size
<1> USE DEF diskVars, tailVars
<1>2. CASE AppendLine
  <2>1. /\ written < MaxLines /\ written' = written + 1 /\ written \in 0..MaxLines
        /\ files' = [files EXCEPT ![AtPath] = Append(@, written + 1)]
    BY <1>0, <1>2 DEF AppendLine, TypeOK
  <2>2. written + 1 \in 1..MaxLines /\ AtPath \in DOMAIN files
    BY <1>0, <2>1 DEF Flags
  <2>3. Append(files[AtPath], written + 1) \in Seq(1..MaxLines)
    BY <1>0, <1>1, <2>2, AppendLast
  <2>4. files' \in Seq(Seq(1..MaxLines)) /\ Len(files') = Len(files) /\ files' # <<>>
    BY <1>0, <2>1, <2>2, <2>3
  <2> QED
    BY <1>0, <1>2, <2>1, <2>2, <2>4 DEF AppendLine, TypeOK, AtPath
<1>3. CASE Rotate
  <2>1. files' = Append(files, <<>>) /\ <<>> \in Seq(1..MaxLines) /\ cuts' = cuts + 1 /\ cuts < MaxCuts
    BY <1>3 DEF Rotate
  <2>2. files' \in Seq(Seq(1..MaxLines)) /\ Len(files') = Len(files) + 1 /\ files' # <<>>
    BY <1>0, <2>1
  <2>3. cuts' \in 0..MaxCuts
    BY <1>0, <2>1 DEF TypeOK, Flags
  <2> QED
    BY <1>0, <1>3, <2>2, <2>3 DEF Rotate, TypeOK, AtPath
<1>4. CASE Truncate
  <2>1. files' = [files EXCEPT ![AtPath] = <<>>] /\ <<>> \in Seq(1..MaxLines)
        /\ cuts' = cuts + 1 /\ cuts < MaxCuts
    BY <1>4 DEF Truncate
  <2>2. files' \in Seq(Seq(1..MaxLines)) /\ Len(files') = Len(files) /\ files' # <<>>
    BY <1>0, <2>1
  <2>3. cuts' \in 0..MaxCuts
    BY <1>0, <2>1 DEF TypeOK, Flags
  <2> QED
    BY <1>0, <1>4, <2>2, <2>3 DEF Truncate, TypeOK, AtPath
<1>5. CASE Open
  <2>1. AtPath \in 0..AtPath
    BY <1>0
  <2> QED
    BY <1>0, <1>5, <2>1 DEF Open, TypeOK, AtPath
<1>6. CASE ReadAll
  <2>1. fd \in 1..AtPath
    BY <1>0, <1>6 DEF ReadAll, PositionInv, TypeOK
  <2>2. LastN(files[fd], NumLines) \in Seq(1..MaxLines)
    BY <1>1, <2>1, LastNTyped
  <2>3. Size(fd) \in Nat
    BY <1>1, <2>1
  <2> QED
    BY <1>0, <1>6, <2>2, <2>3 DEF ReadAll, TypeOK, AtPath
<1>7. CASE SeekEnd
  <2>1. Size(fd) \in Nat
    BY <1>0, <1>1, <1>7 DEF SeekEnd, PositionInv, TypeOK
  <2> QED
    BY <1>0, <1>7, <2>1 DEF SeekEnd, TypeOK, AtPath
<1>8. CASE Reopen \/ ReopenFails
  <2>1. 0 \in 0..AtPath /\ AtPath \in 0..AtPath /\ 0 \in Nat
    BY <1>0
  <2>2. CASE Reopen
    <3>1. fd' = AtPath /\ offset' = 0 /\ pos' = 0 /\ fresh' = TRUE
          /\ UNCHANGED <<files, written, cuts, tpc, shown>>
      BY <2>2 DEF Reopen
    <3> QED
      BY <1>0, <2>1, <3>1 DEF TypeOK, AtPath
  <2>3. CASE ReopenFails
    <3>1. fd' = 0 /\ UNCHANGED <<files, written, cuts, tpc, shown, offset, pos, fresh>>
      BY <2>3 DEF ReopenFails
    <3> QED
      BY <1>0, <2>1, <3>1 DEF TypeOK, AtPath
  <2> QED
    BY <1>8, <2>2, <2>3
<1>9. CASE Grown \/ Interrupt \/ ScanEnd \/ UNCHANGED vars
  BY <1>0, <1>9 DEF Grown, Interrupt, ScanEnd, TypeOK, AtPath, vars
<1>10. CASE ScanLine
  <2>1. fd \in 1..AtPath /\ pos \in Nat /\ pos < Size(fd)
    BY <1>0, <1>10 DEF ScanLine, PositionInv, TypeOK
  <2>2. files[fd] \in Seq(1..MaxLines) /\ pos + 1 \in 1..Len(files[fd])
    BY <1>1, <2>1 DEF Size
  <2>3. files[fd][pos + 1] \in 1..MaxLines
    BY <2>2, ElementOfSeq
  <2>4. shown' \in Seq(1..MaxLines)
    BY <1>0, <1>10, <2>3, AppendLast DEF ScanLine, TypeOK
  <2> QED
    BY <1>0, <1>10, <2>1, <2>4 DEF ScanLine, TypeOK, AtPath
<1> QED
  BY <1>2, <1>3, <1>4, <1>5, <1>6, <1>7, <1>8, <1>9, <1>10 DEF Next, Disk, Begin, Tick

LEMMA StepPosition == ASSUME Flags, IInv, [Next]_vars PROVE PositionInv'
<1>0. PositionInv /\ fd \in 0..AtPath /\ AtPath \in Nat \ {0}
  BY Typed DEF IInv
<1>1. AtPath # 0
  BY <1>0
<1> USE DEF diskVars, tailVars
<1>2. CASE Disk \/ Interrupt \/ Grown \/ UNCHANGED vars
  BY <1>0, <1>2 DEF Disk, AppendLine, Rotate, Truncate, Interrupt, Grown, vars, PositionInv
<1>3. CASE Open \/ Reopen \/ ReopenFails
  BY <1>0, <1>1, <1>3 DEF Open, Reopen, ReopenFails, PositionInv
<1>4. CASE ReadAll \/ SeekEnd \/ ScanLine \/ ScanEnd
  BY <1>0, <1>4 DEF ReadAll, SeekEnd, ScanLine, ScanEnd, PositionInv
<1> QED
  BY <1>2, <1>3, <1>4 DEF Next, Begin, Tick

-----------------------------------------------------------------------------
(* The files, and what of them is still to be printed.                     *)

\* A new content of the file at the path leaves the other files alone.
LEMMA PathWritten ==
    ASSUME files \in Seq(Seq(Nat)), files # <<>>, NEW c \in Seq(Nat), files' = [files EXCEPT ![AtPath] = c]
    PROVE  /\ AtPath' = AtPath /\ files'[AtPath] = c
           /\ \A f \in 1..AtPath : f # AtPath => files'[f] = files[f]
<1>1. Len(files) \in Nat \ {0} /\ DOMAIN files = 1..Len(files) /\ Len(files) \in 1..Len(files)
  OBVIOUS
<1>2. Len([files EXCEPT ![Len(files)] = c]) = Len(files)
  BY <1>1
<1> QED
  BY <1>1, <1>2 DEF AtPath

\* What the disk's steps do to the contents of the files.
LEMMA StepDisk == ASSUME Flags, IInv, [Next]_vars PROVE DiskInv'
<1>0. /\ DiskInv /\ files \in Seq(Seq(Nat)) /\ AtPath = Len(files) /\ AtPath \in Nat \ {0} /\ written \in Nat
      /\ \A f \in 1..AtPath : files[f] \in Seq(Nat) /\ Range(files[f]) \subseteq Nat
      /\ DOMAIN files = 1..AtPath
  BY Typed DEF IInv, AtPath
<1> USE DEF diskVars, tailVars
<1>1. CASE AppendLine
  <2> DEFINE e == written + 1
             s == files[AtPath]
  <2>1. written' = e /\ files' = [files EXCEPT ![AtPath] = Append(s, e)] /\ e \in Nat /\ AtPath \in 1..AtPath
    BY <1>0, <1>1 DEF AppendLine
  <2>2. /\ AtPath' = AtPath /\ files'[AtPath] = Append(s, e)
        /\ \A f \in 1..AtPath : f # AtPath => files'[f] = files[f]
    <3>1. s \in Seq(Nat)
      BY <1>0, <2>1
    <3> HIDE DEF e, s
    <3>2. Append(s, e) \in Seq(Nat)
      BY <2>1, <3>1, AppendLast
    <3> QED
      BY <1>0, <2>1, <3>2, PathWritten
  <2>3. s \in Seq(Nat) /\ Increasing(s) /\ \A l \in Range(s) : l < e
    <3>1. s \in Seq(Nat) /\ Increasing(s) /\ \A l \in Range(s) : l <= written
      BY <1>0, <2>1 DEF DiskInv
    <3>2. Range(s) \subseteq Nat
      BY <1>0, <2>1
    <3> HIDE DEF s
    <3> QED
      BY <1>0, <3>1, <3>2
  <2>4. Increasing(Append(s, e)) /\ Range(Append(s, e)) = Range(s) \cup {e}
    BY <2>1, <2>3, AppendLast, IncreasingAppend
  <2> HIDE DEF s
  <2>5. \A f \in 1..AtPath : Increasing(files'[f]) /\ \A l \in Range(files'[f]) : l <= e
    <3> SUFFICES ASSUME NEW f \in 1..AtPath PROVE Increasing(files'[f]) /\ \A l \in Range(files'[f]) : l <= e
      OBVIOUS
    <3>1. CASE f = AtPath
      <4>1. \A l \in Range(s) : l \in Nat /\ l <= e
        <5>1. Range(s) \subseteq Nat
          BY <1>0 DEF s
        <5> HIDE DEF e
        <5> QED
          BY <2>1, <2>3, <5>1
      <4>2. files'[f] = Append(s, e) /\ e <= e
        BY <2>1, <2>2, <3>1
      <4> HIDE DEF e
      <4> QED
        BY <2>4, <4>1, <4>2
    <3>2. CASE f # AtPath
      <4>1. /\ files'[f] = files[f] /\ Increasing(files[f])
            /\ \A l \in Range(files[f]) : l \in Nat /\ l <= written
        BY <1>0, <2>2, <3>2 DEF DiskInv
      <4> QED
        BY <1>0, <4>1
    <3> QED
      BY <3>1, <3>2
  <2>6. ASSUME NEW f \in 1..AtPath, NEW g \in 1..AtPath, f < g, NEW l \in Range(files'[f]), NEW k \in Range(files'[g])
        PROVE  l < k
    <3>1. f # AtPath /\ l \in Range(files[f]) /\ l <= written /\ l \in Nat
      BY <1>0, <2>2, <2>6 DEF DiskInv
    <3>2. CASE g # AtPath
      BY <1>0, <2>2, <2>6, <3>1, <3>2 DEF DiskInv
    <3>3. CASE g = AtPath
      <4>1. k \in Range(s) \/ k = written + 1
        BY <2>2, <2>4, <2>6, <3>3
      <4>2. k \in Range(s) => l < k
        BY <1>0, <2>6, <3>1, <3>3 DEF DiskInv, s
      <4> QED
        BY <1>0, <3>1, <4>1, <4>2
    <3> QED
      BY <3>2, <3>3
  <2> QED
    BY <2>1, <2>2, <2>5, <2>6 DEF DiskInv
\* The other steps leave every file alone, or empty one.
<1>2. ASSUME written' = written, AtPath' >= AtPath, AtPath' \in Nat,
             \A f \in 1..AtPath' : files'[f] = <<>> \/ (f \in 1..AtPath /\ files'[f] = files[f])
      PROVE  DiskInv'
  <2>1. Increasing(<<>>) /\ Range(<<>>) = {}
    BY DEF Increasing, Range
  <2>2. \A f \in 1..AtPath' : Increasing(files'[f]) /\ \A l \in Range(files'[f]) : l <= written
    BY <1>0, <1>2, <2>1 DEF DiskInv
  <2>3. ASSUME NEW f \in 1..AtPath', NEW g \in 1..AtPath', f < g, NEW l \in Range(files'[f]), NEW k \in Range(files'[g])
        PROVE  l < k
    <3>1. f \in 1..AtPath /\ g \in 1..AtPath /\ files'[f] = files[f] /\ files'[g] = files[g]
      BY <1>2, <2>1, <2>3
    <3> QED
      BY <1>0, <2>3, <3>1 DEF DiskInv
  <2> QED
    BY <1>2, <2>2, <2>3 DEF DiskInv
<1>3. CASE Rotate
  <2>1. files' = Append(files, <<>>) /\ written' = written /\ <<>> \in Seq(Nat)
    BY <1>3 DEF Rotate
  <2>2. AtPath' = AtPath + 1 /\ files'[AtPath + 1] = <<>> /\ \A f \in 1..AtPath : files'[f] = files[f]
    BY <1>0, <2>1, AppendLast DEF AtPath
  <2>3. \A f \in 1..(AtPath + 1) : f \in 1..AtPath \/ f = AtPath + 1
    BY <1>0
  <2> QED
    BY <1>0, <1>2, <2>1, <2>2, <2>3
<1>4. CASE Truncate
  <2>1. files' = [files EXCEPT ![AtPath] = <<>>] /\ written' = written
    BY <1>4 DEF Truncate
  <2>2. AtPath' = AtPath /\ \A f \in 1..AtPath : files'[f] = <<>> \/ files'[f] = files[f]
    BY <1>0, <2>1 DEF AtPath
  <2> QED
    BY <1>0, <1>2, <2>1, <2>2
<1>5. CASE Begin \/ Tick \/ Interrupt \/ UNCHANGED vars
  <2>1. files' = files /\ written' = written
    BY <1>5 DEF Begin, Tick, Open, ReadAll, SeekEnd, Reopen, ReopenFails, Grown, ScanLine, ScanEnd,
                Interrupt, vars
  <2> QED
    BY <1>0, <2>1 DEF DiskInv, AtPath
<1> QED
  BY <1>1, <1>3, <1>4, <1>5 DEF Next, Disk

\* What is behind a position is part of the file.
LEMMA BehindWithin == ASSUME NEW f, NEW n PROVE Behind(f, n) \subseteq Range(files[f])
BY DEF Behind, Range

LEMMA StepShown == ASSUME Flags, IInv, [Next]_vars PROVE ShownInv'
<1>0. /\ DiskInv /\ ShownInv /\ PositionInv
      /\ files \in Seq(Seq(Nat)) /\ AtPath = Len(files) /\ AtPath \in Nat \ {0} /\ DOMAIN files = 1..AtPath
      /\ \A f \in 1..AtPath : /\ files[f] \in Seq(Nat) /\ Size(f) \in Nat /\ DOMAIN files[f] = 1..Size(f)
                              /\ Range(files[f]) \subseteq Nat
      /\ written \in Nat /\ fd \in 0..AtPath /\ offset \in Nat /\ pos \in Nat
      /\ shown \in Seq(Nat) /\ Range(shown) \subseteq Nat
  BY Typed DEF IInv, AtPath
<1> USE DEF diskVars, tailVars
<1>1. CASE AppendLine
  <2> DEFINE e == written + 1
             s == files[AtPath]
  <2>1. /\ written' = e /\ files' = [files EXCEPT ![AtPath] = Append(s, e)] /\ e \in Nat /\ AtPath \in 1..AtPath
        /\ UNCHANGED <<shown, fd, pos>>
    BY <1>0, <1>1 DEF AppendLine
  <2>2. /\ AtPath' = AtPath /\ files'[AtPath] = Append(s, e)
        /\ \A f \in 1..AtPath : f # AtPath => files'[f] = files[f]
    <3>1. s \in Seq(Nat)
      BY <1>0, <2>1
    <3> HIDE DEF e, s
    <3>2. Append(s, e) \in Seq(Nat)
      BY <2>1, <3>1, AppendLast
    <3> QED
      BY <1>0, <2>1, <3>2, PathWritten
  <2>3. /\ s \in Seq(Nat) /\ Range(Append(s, e)) = Range(s) \cup {e}
        /\ Len(Append(s, e)) = Len(s) + 1 /\ Len(s) \in Nat /\ DOMAIN s = 1..Len(s)
        /\ DOMAIN Append(s, e) = 1..(Len(s) + 1)
        /\ Append(s, e)[Len(s) + 1] = e /\ \A i \in DOMAIN s : Append(s, e)[i] = s[i]
    <3>1. s \in Seq(Nat)
      BY <1>0, <2>1
    <3> HIDE DEF e, s
    <3> QED
      BY <2>1, <3>1, AppendLast
  <2>4. New({e})
    BY <1>0 DEF ShownInv, New
  <2> HIDE DEF e, s
  <2>5. \A f \in 1..AtPath : New(Range(files[f])) => New(Range(files'[f]))
    BY <2>2, <2>3, <2>4 DEF New, s
  <2>6. fd # 0 => New(Behind(fd, pos)')
    <3> SUFFICES ASSUME fd # 0 PROVE New(Behind(fd, pos)')
      OBVIOUS
    <3>1. New(Behind(fd, pos)) /\ fd \in 1..AtPath
      BY <1>0 DEF ShownInv
    <3>2. CASE fd = AtPath
      <4>1. Behind(fd, pos)' \subseteq Behind(fd, pos) \cup {e}
        <5> SUFFICES ASSUME NEW i \in DOMAIN Append(s, e), i > pos
                     PROVE  Append(s, e)[i] \in Behind(fd, pos) \cup {e}
          BY <2>1, <2>2, <3>2 DEF Behind
        <5>1. i \in DOMAIN s \/ i = Len(s) + 1
          BY <2>3
        <5> QED
          BY <2>3, <3>2, <5>1 DEF Behind, s
      <4> QED
        BY <2>4, <3>1, <4>1 DEF New
    <3>3. CASE fd # AtPath
      <4>1. Behind(fd, pos)' = Behind(fd, pos)
        BY <2>1, <2>2, <3>1, <3>3 DEF Behind
      <4> QED
        BY <3>1, <4>1
    <3> QED
      BY <3>2, <3>3
  <2>7. fd # 0 => Size(fd)' >= Size(fd) /\ Size(fd)' \in Nat
    <3>1. CASE fd = AtPath
      <4>1. Size(fd) = Len(s) /\ Size(fd)' = Len(Append(s, e))
        BY <2>1, <2>2, <3>1 DEF Size, s
      <4> QED
        BY <2>3, <4>1
    <3>2. CASE fd # AtPath /\ fd # 0
      <4>1. Size(fd)' = Size(fd) /\ fd \in 1..AtPath
        BY <1>0, <2>1, <2>2, <3>2 DEF Size
      <4> QED
        BY <1>0, <4>1
    <3> QED
      BY <3>1, <3>2
  <2>8. \A S : New(S)' <=> New(S')
    BY <2>1 DEF New
  <2>9. (Increasing(shown) /\ \A l \in Range(shown) : l <= written)'
    BY <1>0, <2>1 DEF ShownInv, e
  <2>10. fd # 0 => \A g \in 1..AtPath : g > fd => New(Range(files'[g]))
    BY <1>0, <2>5 DEF ShownInv
  <2>11. fd # 0 /\ Size(fd)' < pos => New(Range(files'[fd]))
    <3> SUFFICES ASSUME fd # 0, Size(fd)' < pos PROVE New(Range(files'[fd]))
      OBVIOUS
    <3>1. Size(fd) < pos /\ fd \in 1..AtPath
      BY <1>0, <2>7
    <3> QED
      BY <1>0, <2>5, <3>1 DEF ShownInv
  <2> QED
    BY <2>1, <2>2, <2>6, <2>9, <2>10, <2>11 DEF ShownInv, New
\* A file is emptied, or an empty one is created.
<1>2. ASSUME UNCHANGED <<written, shown, fd, pos>>, AtPath' >= AtPath, AtPath' \in Nat,
             \A f \in 1..AtPath' : files'[f] = <<>> \/ (f \in 1..AtPath /\ files'[f] = files[f])
      PROVE  ShownInv'
  <2>1. Range(<<>>) = {} /\ New({}) /\ DOMAIN <<>> = {}
    BY DEF New, Range
  <2>2. \A f \in 1..AtPath' : New(Range(files'[f])) \/ (f \in 1..AtPath /\ files'[f] = files[f])
    BY <1>2, <2>1
  <2>3. fd # 0 => fd \in 1..AtPath /\ fd \in 1..AtPath'
    BY <1>0, <1>2
  <2>4. fd # 0 => New(Behind(fd, pos)')
    <3> SUFFICES ASSUME fd # 0 PROVE New(Behind(fd, pos)')
      OBVIOUS
    <3>1. CASE files'[fd] = <<>>
      <4>1. Behind(fd, pos)' = {}
        BY <1>2, <2>1, <3>1 DEF Behind
      <4> QED
        BY <2>1, <4>1
    <3>2. CASE files'[fd] = files[fd]
      <4>1. Behind(fd, pos)' = Behind(fd, pos)
        BY <1>2, <3>2 DEF Behind
      <4> QED
        BY <1>0, <4>1 DEF ShownInv
    <3> QED
      BY <1>2, <2>3, <3>1, <3>2
  <2>5. fd # 0 => \A g \in 1..AtPath' : g > fd => New(Range(files'[g]))
    BY <1>0, <2>2 DEF ShownInv
  <2>6. fd # 0 /\ Size(fd)' < pos => New(Range(files'[fd]))
    BY <1>0, <1>2, <2>2, <2>3 DEF ShownInv, Size
  <2>7. (Increasing(shown) /\ \A l \in Range(shown) : l <= written)'
    BY <1>0, <1>2 DEF ShownInv
  <2> QED
    BY <1>2, <2>4, <2>5, <2>6, <2>7 DEF ShownInv, New
<1>3. CASE Rotate
  <2>1. files' = Append(files, <<>>) /\ UNCHANGED <<written, shown, fd, pos>> /\ <<>> \in Seq(Nat)
    BY <1>3 DEF Rotate
  <2>2. AtPath' = AtPath + 1 /\ files'[AtPath + 1] = <<>> /\ \A f \in 1..AtPath : files'[f] = files[f]
    BY <1>0, <2>1, AppendLast DEF AtPath
  <2>3. \A f \in 1..(AtPath + 1) : f \in 1..AtPath \/ f = AtPath + 1
    BY <1>0
  <2> QED
    BY <1>0, <1>2, <2>1, <2>2, <2>3
<1>4. CASE Truncate
  <2>1. files' = [files EXCEPT ![AtPath] = <<>>] /\ UNCHANGED <<written, shown, fd, pos>>
    BY <1>4 DEF Truncate
  <2>2. AtPath' = AtPath /\ \A f \in 1..AtPath : files'[f] = <<>> \/ files'[f] = files[f]
    BY <1>0, <2>1 DEF AtPath
  <2> QED
    BY <1>0, <1>2, <2>1, <2>2
\* The command moves to a position of a file and prints nothing.
<1>5. ASSUME UNCHANGED <<files, written, shown>>,
             fd' # 0 => /\ New(Behind(fd', pos'))
                        /\ \A g \in 1..AtPath : g > fd' => New(Range(files[g]))
                        /\ Len(files[fd']) < pos' => New(Range(files[fd']))
      PROVE  ShownInv'
  <2>1. AtPath' = AtPath /\ Behind(fd, pos)' = Behind(fd', pos') /\ Size(fd)' = Len(files[fd'])
    BY <1>5 DEF AtPath, Behind, Size
  <2> QED
    BY <1>0, <1>5, <2>1 DEF ShownInv, New
<1>6. CASE Open
  <2>1. UNCHANGED <<files, written, shown, pos>> /\ fd' = AtPath /\ shown = <<>>
    BY <1>0, <1>6 DEF Open, PositionInv
  <2>2. \A S : New(S)
    BY <2>1 DEF New, Range
  <2> QED
    BY <1>5, <2>1, <2>2
<1>7. CASE Reopen
  <2>1. /\ UNCHANGED <<files, written, shown>> /\ fd' = AtPath /\ pos' = 0
        /\ fd # 0 /\ Size(fd) < pos
    BY <1>0, <1>7 DEF Reopen, PositionInv
  <2>2. New(Range(files[AtPath]))
    <3>1. fd = AtPath \/ AtPath > fd
      BY <1>0
    <3> QED
      BY <1>0, <2>1, <3>1 DEF ShownInv
  <2>3. New(Behind(AtPath, 0))
    BY <2>2, BehindWithin DEF New
  <2>4. \A g \in 1..AtPath : ~(g > AtPath)
    BY <1>0
  <2> QED
    BY <1>0, <1>5, <2>1, <2>2, <2>3, <2>4
<1>8. CASE ReopenFails
  <2>1. UNCHANGED <<files, written, shown>> /\ fd' = 0
    BY <1>8 DEF ReopenFails
  <2> QED
    BY <1>5, <2>1
<1>9. CASE SeekEnd
  <2>1. /\ UNCHANGED <<files, written, shown, fd>> /\ pos' = Size(fd) /\ fd # 0 /\ fd \in 1..AtPath
    BY <1>0, <1>9 DEF SeekEnd, PositionInv
  <2>2. Size(fd) \in Nat /\ DOMAIN files[fd] = 1..Size(fd) /\ Size(fd) = Len(files[fd])
    BY <1>0, <2>1 DEF Size
  <2>3. Behind(fd, Size(fd)) = {}
    BY <2>2 DEF Behind
  <2>4. New({}) /\ ~(Size(fd) < Size(fd))
    BY <2>2 DEF New
  <2> QED
    BY <1>0, <1>5, <2>1, <2>2, <2>3, <2>4 DEF ShownInv
<1>10. CASE Grown \/ ScanEnd \/ Interrupt \/ UNCHANGED vars
  <2>1. UNCHANGED <<files, written, shown, fd, pos>>
    BY <1>10 DEF Grown, ScanEnd, Interrupt, vars
  <2> QED
    BY <1>0, <1>5, <2>1 DEF ShownInv, Size
\* The command prints: the rest of the open file and the later ones are new.
<1>11. CASE ReadAll
  <2> DEFINE s == files[fd]
  <2>1. /\ UNCHANGED <<files, written, fd>> /\ shown' = LastN(s, NumLines) /\ pos' = Size(fd)
        /\ fd # 0 /\ fd \in 1..AtPath
    BY <1>0, <1>11 DEF ReadAll, PositionInv
  <2>2. s \in Seq(Nat) /\ Increasing(s) /\ Size(fd) \in Nat /\ DOMAIN s = 1..Size(fd) /\ Size(fd) = Len(s)
    BY <1>0, <2>1 DEF DiskInv, Size
  <2> HIDE DEF s
  <2>3. Increasing(shown') /\ Range(shown') \subseteq Range(s)
    BY <2>1, <2>2, LastNIncreasing
  <2>4. \A l \in Range(shown') : l <= written
    BY <1>0, <2>1, <2>3 DEF DiskInv, s
  <2>5. \A g \in 1..AtPath : g > fd => \A l \in Range(shown'), k \in Range(files[g]) : l < k
    <3> SUFFICES ASSUME NEW g \in 1..AtPath, g > fd, NEW l \in Range(shown'), NEW k \in Range(files[g])
                 PROVE  l < k
      OBVIOUS
    <3>1. fd < g
      BY <1>0
    <3> QED
      BY <1>0, <2>1, <2>3, <3>1 DEF DiskInv, s
  <2>6. Behind(fd, Size(fd)) = {}
    BY <2>2 DEF Behind, s
  <2>7. ~(Size(fd) < Size(fd)) /\ AtPath' = AtPath /\ Size(fd)' = Size(fd) /\ Behind(fd, pos)' = {}
    BY <2>1, <2>2, <2>6 DEF AtPath, Size, Behind
  <2> QED
    BY <2>1, <2>3, <2>4, <2>5, <2>7 DEF ShownInv, New
<1>12. CASE ScanLine
  <2> DEFINE s == files[fd]
             e == s[pos + 1]
  <2>1. /\ UNCHANGED <<files, written, fd>> /\ shown' = Append(shown, e) /\ pos' = pos + 1
        /\ fd # 0 /\ fd \in 1..AtPath /\ pos < Size(fd)
    BY <1>0, <1>12 DEF ScanLine, PositionInv
  <2>2. /\ s \in Seq(Nat) /\ Increasing(s) /\ Size(fd) \in Nat /\ DOMAIN s = 1..Size(fd) /\ Size(fd) = Len(s)
        /\ \A l \in Range(s) : l <= written
    BY <1>0, <2>1 DEF DiskInv, Size
  <2>3. pos + 1 \in DOMAIN s /\ pos + 1 > pos /\ e \in Range(s) /\ e \in Nat /\ e <= written
    <3>1. pos + 1 \in DOMAIN s /\ pos + 1 > pos
      BY <1>0, <2>1, <2>2
    <3>2. e \in Range(s)
      BY <3>1 DEF Range
    <3> QED
      BY <1>0, <2>1, <2>2, <3>1, <3>2
  <2>4. e \in Behind(fd, pos)
    BY <2>3 DEF Behind
  <2>5. \A l \in Range(shown) : l < e
    BY <1>0, <2>1, <2>4 DEF ShownInv, New
  <2>6. \A i \in DOMAIN s : i > pos + 1 => e < s[i] /\ i > pos
    <3> HIDE DEF s
    <3>1. \A i \in DOMAIN s : i > pos + 1 => pos + 1 < i /\ i > pos
      BY <1>0, <2>2
    <3> QED
      BY <2>2, <2>3, <3>1 DEF Increasing
  <2> HIDE DEF e, s
  <2>7. Increasing(shown') /\ Range(shown') = Range(shown) \cup {e}
    <3>1. shown \in Seq(Nat) /\ Increasing(shown)
      BY <1>0 DEF ShownInv
    <3>2. Increasing(Append(shown, e))
      BY <2>3, <2>5, <3>1, IncreasingAppend
    <3>3. Range(Append(shown, e)) = Range(shown) \cup {e}
      BY <2>3, <3>1, AppendLast
    <3> QED
      BY <2>1, <3>2, <3>3
  <2>8. \A l \in Range(shown') : l <= written
    BY <1>0, <2>3, <2>7 DEF ShownInv
  <2>9. New(Behind(fd, pos))'
    <3> SUFFICES ASSUME NEW l \in Range(shown'), NEW i \in DOMAIN s, i > pos + 1
                 PROVE  l < s[i]
      BY <2>1 DEF New, Behind, s
    <3>1. s[i] \in Behind(fd, pos) /\ e < s[i]
      BY <2>6 DEF Behind, s
    <3> QED
      BY <1>0, <2>1, <2>7, <3>1 DEF ShownInv, New
  <2>10. \A g \in 1..AtPath : g > fd => \A l \in Range(shown'), k \in Range(files[g]) : l < k
    <3> SUFFICES ASSUME NEW g \in 1..AtPath, g > fd, NEW l \in Range(shown'), NEW k \in Range(files[g])
                 PROVE  l < k
      OBVIOUS
    <3>1. fd < g
      BY <1>0
    <3>2. e < k
      BY <1>0, <2>1, <2>3, <3>1 DEF DiskInv, s
    <3> QED
      BY <1>0, <2>1, <2>7, <3>1, <3>2 DEF ShownInv, New
  <2>11. ~(Size(fd)' < pos') /\ AtPath' = AtPath
    <3>1. Size(fd)' = Size(fd) /\ AtPath' = AtPath
      BY <2>1 DEF Size, AtPath
    <3> QED
      BY <1>0, <2>1, <2>2, <3>1
  <2> QED
    BY <2>1, <2>7, <2>8, <2>9, <2>10, <2>11 DEF ShownInv, New
<1> QED
  BY <1>1, <1>3, <1>4, <1>6, <1>7, <1>8, <1>9, <1>10, <1>11, <1>12 DEF Next, Disk, Begin, Tick

-----------------------------------------------------------------------------
(* The theorem.                                                            *)

\* Lines come in the order in which the proxy wrote them, none of them twice,
\* whatever is rotated, truncated and opened again meanwhile (logs.go:99-115).
THEOREM TailInOrderAlways == ASSUME Flags PROVE Spec => []TailInOrder
<1>1. Init => IInv
  BY InitInv
<1>2. IInv /\ [Next]_vars => IInv'
  BY StepType, StepDisk, StepShown, StepPosition DEF IInv
<1>3. IInv => TailInOrder
  BY DEF IInv, ShownInv, Increasing, TailInOrder
<1> QED
  BY <1>1, <1>2, <1>3, PTL DEF Spec
=============================================================================
