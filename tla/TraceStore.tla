----------------------------- MODULE TraceStore ------------------------------
(***************************************************************************)
(* append of mcp-trace-store/src/lib.rs: a record is written to the active *)
(* file, which is rotated first when it has grown too large, and scan      *)
(* reads the numbered files and the active one.                            *)
(*                                                                         *)
(* Rotation is a sequence of system calls: probe path.1, path.2, ... for   *)
(* the first that does not exist, rename each file before it to the next   *)
(* number from the highest down, and the active file to path.1.  A rename  *)
(* replaces a file that has the new name.  A writer keeps the file it has  *)
(* open, whatever its name becomes.  Writers may be several processes, and *)
(* any of them may die between two calls, or in the middle of a write.     *)
(*                                                                         *)
(* Slot 0 is the active path and slot n is path.n; a file is its number in *)
(* the order of creation, 0 for none.  The size of a file is counted in    *)
(* records, which are numbered in the order their appends began.           *)
(***************************************************************************)
EXTENDS Naturals, Sequences, FiniteSets

CONSTANTS
  Procs,        \* processes that append
  RotateAt,     \* TraceStoreConfig::rotate_at_bytes
  MayTear,      \* whether a process may die with half a record written
  MaxSlots,     \* bound on the numbered files
  MaxRecords,   \* bound on the appends begun
  MaxCrashes    \* bound on the processes that die

ASSUME TraceConstantsOK ==
  /\ RotateAt \in Nat /\ MayTear \in BOOLEAN
  /\ MaxSlots \in Nat \ {0} /\ MaxRecords \in Nat /\ MaxCrashes \in Nat

VARIABLES
  file,       \* the file each slot names
  content,    \* what each file holds: records, and Torn for half of one
  pc,         \* where each append is
  slot,       \* the number its rotation has come to
  fd,         \* the file it has open
  record,     \* the record it writes
  begun,      \* how many appends have begun
  acked,      \* the records whose append returned Ok
  crashes

disk == <<file, content>>
procVars == <<pc, slot, fd, record>>
vars == <<disk, procVars, begun, acked, crashes>>

Slots == 0..MaxSlots

Torn == 0

PCs == {"idle", "exists", "metadata", "probe", "shift", "open", "write"}

Init ==
  /\ file = [n \in Slots |-> 0] /\ content = <<>>
  /\ pc = [p \in Procs |-> "idle"]
  /\ slot = [p \in Procs |-> 0]
  /\ fd = [p \in Procs |-> 0]
  /\ record = [p \in Procs |-> 0]
  /\ begun = 0 /\ acked = {} /\ crashes = 0

-----------------------------------------------------------------------------
\* Rename slot a to slot b.
Renamed(a, b) == [file EXCEPT ![b] = file[a], ![a] = 0]

Goto(p, where) == pc' = [pc EXCEPT ![p] = where]

BeginAppend(p) ==
  /\ pc[p] = "idle"
  /\ begun < MaxRecords
  /\ begun' = begun + 1
  /\ record' = [record EXCEPT ![p] = begun']
  /\ Goto(p, "exists")
  /\ UNCHANGED <<disk, slot, fd, acked, crashes>>

\* rotate_if_needed: no active file, nothing to rotate.
Exists(p) ==
  /\ pc[p] = "exists"
  /\ Goto(p, IF file[0] = 0 THEN "open" ELSE "metadata")
  /\ UNCHANGED <<disk, slot, fd, record, begun, acked, crashes>>

\* A file that need not be rotated yet.
Fits(f) == Len(content[f]) < RotateAt

\* The append fails when the file is gone by now.
Metadata(p) ==
  /\ pc[p] = "metadata"
  /\ \/ file[0] = 0 /\ Goto(p, "idle")
     \/ file[0] # 0 /\ Fits(file[0]) /\ Goto(p, "open")
     \/ file[0] # 0 /\ ~Fits(file[0]) /\ Goto(p, "probe")
  /\ slot' = [slot EXCEPT ![p] = 0]
  /\ UNCHANGED <<disk, fd, record, begun, acked, crashes>>

\* Faulty: the search ends one file early.
IsHighestEarly(n) == file[n + 1] = 0 \/ (n + 2 \in Slots /\ file[n + 2] = 0)

IsHighest(n) == file[n + 1] = 0

\* Look for the highest existing rotation number, from 1 upwards.
Probe(p) ==
  /\ pc[p] = "probe"
  /\ slot[p] < MaxSlots
  /\ \/ IsHighest(slot[p]) /\ Goto(p, "shift") /\ UNCHANGED slot
     \/ ~IsHighest(slot[p]) /\ slot' = [slot EXCEPT ![p] = @ + 1] /\ UNCHANGED pc
  /\ UNCHANGED <<disk, fd, record, begun, acked, crashes>>

\* Faulty: the active file goes after the oldest.
NextSlotLast(n) ==
  IF n > 0 THEN n + 1
  ELSE CHOOSE m \in Slots \ {0} : /\ \A k \in Slots : k >= m => file[k] = 0
                                  /\ m > 1 => file[m - 1] # 0

\* Which slot takes the file of slot n.
NextSlot(n) == n + 1

\* The files from the highest number down to 1; the append fails at one that
\* is gone.
Shift(p) ==
  /\ pc[p] = "shift" /\ slot[p] > 0
  /\ \/ /\ file[slot[p]] # 0
        /\ file' = Renamed(slot[p], NextSlot(slot[p]))
        /\ slot' = [slot EXCEPT ![p] = @ - 1]
        /\ UNCHANGED pc
     \/ /\ file[slot[p]] = 0
        /\ Goto(p, "idle")
        /\ UNCHANGED <<file, slot>>
  /\ UNCHANGED <<content, fd, record, begun, acked, crashes>>

ShiftActive(p) ==
  /\ pc[p] = "shift" /\ slot[p] = 0
  /\ \/ /\ file[0] # 0
        /\ file' = Renamed(0, NextSlot(0))
        /\ Goto(p, "open")
     \/ /\ file[0] = 0
        /\ Goto(p, "idle")
        /\ UNCHANGED file
  /\ UNCHANGED <<content, slot, fd, record, begun, acked, crashes>>

\* Open the active file to append, or create it.
Open(p) ==
  /\ pc[p] = "open"
  /\ \/ file[0] # 0 /\ UNCHANGED disk
     \/ /\ file[0] = 0
        /\ content' = Append(content, <<>>)
        /\ file' = [file EXCEPT ![0] = Len(content')]
  /\ fd' = [fd EXCEPT ![p] = file'[0]]
  /\ Goto(p, "write")
  /\ UNCHANGED <<slot, record, begun, acked, crashes>>

\* write_all in one call: the record and the end of its line.
Write(p) ==
  /\ pc[p] = "write"
  /\ content' = [content EXCEPT ![fd[p]] = Append(@, record[p])]
  /\ acked' = acked \cup {record[p]}
  /\ Goto(p, "idle")
  /\ UNCHANGED <<file, slot, fd, record, begun, crashes>>

Die(p) ==
  /\ pc[p] # "idle"
  /\ crashes < MaxCrashes
  /\ crashes' = crashes + 1
  /\ Goto(p, "idle")
  /\ \/ UNCHANGED content
     \/ /\ MayTear /\ pc[p] = "write"
        /\ content' = [content EXCEPT ![fd[p]] = Append(@, Torn)]
  /\ UNCHANGED <<file, slot, fd, record, begun, acked>>

Next ==
  \E p \in Procs :
    \/ BeginAppend(p) \/ Exists(p) \/ Metadata(p) \/ Probe(p)
    \/ Shift(p) \/ ShiftActive(p) \/ Open(p) \/ Write(p) \/ Die(p)

Spec == Init /\ [][Next]_vars

-----------------------------------------------------------------------------
Files == 1..Len(content)

\* The records written to a file, those no reader finds included.
WrittenTo(f) == {content[f][i] : i \in 1..Len(content[f])} \ {Torn}

\* Faulty: a reader that stops at a corrupt line.
RecordsBeforeTorn(f) ==
  {content[f][i] : i \in {j \in 1..Len(content[f]) : \A k \in 1..j : content[f][k] # Torn}}

(***************************************************************************)
(* The records a reader finds in a file: one that follows half a record is *)
(* on the same line, which is corrupt and skipped.                         *)
(***************************************************************************)
RecordsIn(f) ==
  {content[f][i] : i \in {j \in 1..Len(content[f]) :
     content[f][j] # Torn /\ (j > 1 => content[f][j - 1] # Torn)}}

Occupied == {n \in Slots : file[n] # 0}

\* The records that were written to any of the files.
Kept == UNION {WrittenTo(file[n]) : n \in Occupied}

\* The records that can be read in any of the files.
Stored == UNION {RecordsIn(file[n]) : n \in Occupied}

\* Faulty: nothing is read when there is no active file.
ReachedFromActive == {n \in Occupied : \A m \in 0..n : m \in Occupied}

\* scan: path.1, path.2, ... until one does not exist, and the active path.
Reached == {n \in Occupied : \A m \in 1..n : m \in Occupied}

Scanned == UNION {RecordsIn(file[n]) : n \in Reached}

\* Numbers below an existing file that no file has.
Gaps == {n \in Slots \ (Occupied \cup {0}) : \E m \in Occupied : m > n}

(***************************************************************************)
(* No record that was acknowledged is ever lost: no rename of a rotation   *)
(* replaces a file, wherever rotations before it were interrupted.         *)
(***************************************************************************)
NothingLost == acked \subseteq Kept

(***************************************************************************)
(* A death in the middle of a write costs no more than one record that was *)
(* acknowledged: the one whose line it spoils.                             *)
(***************************************************************************)
OneLostPerTear == Cardinality(acked \ Stored) <= crashes

(***************************************************************************)
(* The files hold the records in order, the oldest in the highest number,  *)
(* in the middle of a rotation and after one that was interrupted as well. *)
(***************************************************************************)
FilesInOrder ==
  \A m, n \in Occupied : m < n =>
    \A r \in WrittenTo(file[m]), s \in WrittenTo(file[n]) : s < r

(***************************************************************************)
(* However often rotations are interrupted there is at most one gap in the *)
(* numbers of the files.                                                   *)
(***************************************************************************)
AtMostOneGap == \A m, n \in Gaps : m = n

(***************************************************************************)
(* What scan finds is in order, and what it misses stands behind one gap.  *)
(***************************************************************************)
FilesKept == FilesInOrder /\ AtMostOneGap

(***************************************************************************)
(* A rotation that is not interrupted closes the gap: scan finds every     *)
(* record again that can be read in any file.                              *)
(***************************************************************************)
RotationClosesGap ==
  [][\A p \in Procs : pc[p] = "shift" /\ pc'[p] = "open" =>
       Gaps' = {} /\ Scanned' = Stored']_vars
=============================================================================
