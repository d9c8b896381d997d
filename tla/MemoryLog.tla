------------------------------ MODULE MemoryLog ------------------------------
(***************************************************************************)
(* memorywriter/memorywriter.go: the first lines of the log are kept for   *)
(* ever, of the rest a window of the newest; an export writes both, line   *)
(* by line, to a writer that may fail.                                     *)
(*                                                                         *)
(* A line is its number in the order of the writes.  A write touches the   *)
(* lines only under the mutex, so it is one step; an export holds the      *)
(* mutex over many.                                                        *)
(***************************************************************************)
EXTENDS Integers, Sequences

CONSTANTS StartCount,             \* startCount
          MaxLineCount,           \* maxLineCount
          MaxWrites               \* bound: lines ever accepted

LogAssumption ==
  /\ StartCount \in Nat
  /\ MaxLineCount \in Nat \ {0}   \* 2000 and 90000 in trezord.go
  /\ MaxWrites \in Nat

VARIABLES written,                \* lines accepted so far
          startLines, lines,
          mutex,                  \* "free", or what the export that holds it writes next
          out                     \* what that export has written, 0 for "..."

vars == <<written, startLines, lines, mutex, out>>

Types ==
  /\ written \in 0 .. MaxWrites
  /\ startLines \in Seq(1 .. written)
  /\ lines \in Seq(1 .. written)
  /\ mutex \in {"free", "lines", "gap", "startLines", "done"}
  /\ out \in Seq(0 .. written)

TypeOK == Types /\ Len(startLines) <= StartCount /\ Len(lines) <= MaxLineCount

Init ==
  /\ written = 0
  /\ startLines = << >> /\ lines = << >>
  /\ mutex = "free" /\ out = << >>
-----------------------------------------------------------------------------
\* lines are cut off until there is room for one more
Rotated == IF Len(lines) >= MaxLineCount
           THEN SubSeq(lines, Len(lines) - MaxLineCount + 2, Len(lines)) ELSE lines

\* the slip of a write that does not take the mutex
WriteAnyTime ==
  /\ written < MaxWrites
  /\ written' = written + 1
  /\ IF Len(startLines) < StartCount
     THEN startLines' = Append(startLines, written') /\ UNCHANGED lines
     ELSE lines' = Append(Rotated, written') /\ UNCHANGED startLines
  /\ UNCHANGED <<mutex, out>>

Write ==
  /\ mutex = "free" /\ written < MaxWrites
  /\ written' = written + 1
  /\ IF Len(startLines) < StartCount
     THEN startLines' = Append(startLines, written') /\ UNCHANGED lines
     ELSE lines' = Append(Rotated, written') /\ UNCHANGED startLines
  /\ UNCHANGED <<mutex, out>>

\* the heading has been written
WriteTo ==
  /\ mutex = "free"
  /\ mutex' = "lines" /\ out' = << >>
  /\ UNCHANGED <<written, startLines, lines>>

\* newest line first
WriteLine ==
  /\ mutex = "lines"
  /\ IF Len(out) < Len(lines)
     THEN out' = Append(out, lines[Len(lines) - Len(out)]) /\ UNCHANGED mutex
     ELSE mutex' = "gap" /\ UNCHANGED out
  /\ UNCHANGED <<written, startLines, lines>>

WriteGap ==
  /\ mutex = "gap"
  /\ out' = Append(out, 0) /\ mutex' = "startLines"
  /\ UNCHANGED <<written, startLines, lines>>

StartLinesOut == Len(out) - Len(lines) - 1

WriteStartLine ==
  /\ mutex = "startLines"
  /\ IF StartLinesOut < Len(startLines)
     THEN /\ out' = Append(out, startLines[Len(startLines) - StartLinesOut])
          /\ UNCHANGED mutex
     ELSE mutex' = "done" /\ UNCHANGED out
  /\ UNCHANGED <<written, startLines, lines>>

\* the deferred unlock: at the end, or after any write that failed
Unlock ==
  /\ mutex # "free"
  /\ mutex' = "free"
  /\ UNCHANGED <<written, startLines, lines, out>>

Next == Write \/ WriteTo \/ WriteLine \/ WriteGap \/ WriteStartLine \/ Unlock

Spec == Init /\ [][Next]_vars
-----------------------------------------------------------------------------
LineOfExport(j) ==
  CASE j <= Len(lines)     -> written + 1 - j
    [] j = Len(lines) + 1 -> 0
    [] OTHER              -> Len(startLines) + Len(lines) + 2 - j

Least(a, b) == IF a < b THEN a ELSE b

(***************************************************************************)
(* The log keeps exactly the first StartCount lines and, of those that     *)
(* came after, the newest MaxLineCount, each once and in order: rotating   *)
(* loses nothing before the window is full and keeps nothing beyond it.    *)
(***************************************************************************)
KeepsFirstAndLast ==
  /\ Len(startLines) = Least(written, StartCount)
  /\ \A i \in 1 .. Len(startLines) : startLines[i] = i
  /\ Len(lines) = Least(written - Len(startLines), MaxLineCount)
  /\ \A i \in 1 .. Len(lines) : lines[i] = written - Len(lines) + i

(***************************************************************************)
(* An export in progress has written the newest lines, from the newest on, *)
(* then the gap, then the first lines: one moment's log, whatever is       *)
(* logged meanwhile.                                                       *)
(***************************************************************************)
ExportIsOneMoment ==
  mutex # "free" =>
    \A j \in 1 .. Len(out) : out[j] = LineOfExport(j)

(***************************************************************************)
(* Every line that is kept is in the export, once it is complete.          *)
(***************************************************************************)
ExportIsWhole ==
  mutex = "done" => Len(out) = Len(lines) + 1 + Len(startLines)
=============================================================================
