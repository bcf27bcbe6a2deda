-------------------------- MODULE TraceStoreProofs ---------------------------
(***************************************************************************)
(* The rotation of TraceStore, proved for any number of files, records and *)
(* interrupted rotations: one writer at a time loses nothing, keeps the    *)
(* files in order and leaves at most one gap in their numbers.             *)
(***************************************************************************)
EXTENDS TraceStore, FiniteSetTheorems, TLAPS

(***************************************************************************)
(* What the run that breaks NothingLost does without: one process appends  *)
(* at a time.                                                              *)
(***************************************************************************)
OneWriter == \A p, q \in Procs : p = q

-----------------------------------------------------------------------------
\* Types, as much of them as the proof needs.
Types ==
  /\ content \in Seq(Seq(Nat))
  /\ file \in [Slots -> Nat]
  /\ \A n \in Slots : file[n] <= Len(content)
  /\ pc \in [Procs -> PCs] /\ slot \in [Procs -> Slots]
  /\ fd \in [Procs -> Nat] /\ record \in [Procs -> Nat]
  /\ begun \in Nat /\ acked \subseteq Nat

\* A file has one name.
OneNamePerFile == \A m, n \in Occupied : file[m] = file[n] => m = n

\* A record in a file is older than the one being appended.
Older ==
  /\ \A n \in Occupied : \A r \in WrittenTo(file[n]) : r <= begun
  /\ \A p \in Procs : pc[p] # "idle" =>
       /\ record[p] = begun /\ begun > 0
       /\ \A n \in Occupied : \A r \in WrittenTo(file[n]) : r < begun

\* The search for the highest number has found every number before.
Searched == \A p \in Procs : pc[p] = "probe" => \A m \in 1..slot[p] : file[m] # 0

\* Above the slot that is renamed next is the only gap.
TargetFree ==
  \A p \in Procs : pc[p] = "shift" =>
    /\ slot[p] < MaxSlots
    /\ file[slot[p] + 1] = 0
    /\ \A m \in 1..slot[p] : file[m] # 0
    /\ Gaps \subseteq {slot[p] + 1}

\* The file that is open is the active one.
OpenActive == \A p \in Procs : pc[p] = "write" => fd[p] = file[0] /\ file[0] # 0

IInv ==
  /\ Types /\ OneNamePerFile /\ Older /\ Searched /\ TargetFree /\ OpenActive
  /\ NothingLost /\ FilesInOrder /\ AtMostOneGap

-----------------------------------------------------------------------------
\* The records of an occupied slot are numbers.
LEMMA RecordsTyped ==
  ASSUME Types, NEW n \in Occupied
  PROVE  /\ file[n] \in Files /\ n \in Slots
         /\ WrittenTo(file[n]) \subseteq Nat
<1>1. n \in Slots /\ file[n] \in Files
  BY DEF Types, Occupied, Files
<1>2. content[file[n]] \in Seq(Nat)
  BY <1>1 DEF Types, Files
<1> QED  BY <1>1, <1>2 DEF WrittenTo

\* A step that leaves the files alone.
LEMMA DiskKept ==
  ASSUME NothingLost, FilesInOrder, AtMostOneGap, UNCHANGED <<disk, acked>>
  PROVE  /\ NothingLost' /\ FilesInOrder' /\ AtMostOneGap'
         /\ Occupied' = Occupied /\ Gaps' = Gaps
         /\ \A f : WrittenTo(f)' = WrittenTo(f)
<1>1. file' = file /\ content' = content /\ acked' = acked
  BY DEF disk
<1>2. Occupied' = Occupied /\ Files' = Files
  BY <1>1 DEF Occupied, Files
<1>3. \A f : WrittenTo(f)' = WrittenTo(f)
  BY <1>1 DEF WrittenTo
<1>4. Gaps' = Gaps
  BY <1>2 DEF Gaps
<1>5. Kept' = Kept
  BY <1>1, <1>2, <1>3 DEF Kept
<1>7. NothingLost' /\ AtMostOneGap'
  BY <1>1, <1>4, <1>5 DEF NothingLost, AtMostOneGap
<1>8. FilesInOrder'
  BY <1>1, <1>2, <1>3 DEF FilesInOrder
<1> QED  BY <1>2, <1>3, <1>4, <1>7, <1>8

\* A rename to a free neighbour loses nothing and keeps the order.
LEMMA RenameKeeps ==
  ASSUME Types, NothingLost, FilesInOrder,
         NEW a \in Slots, a + 1 \in Slots, file[a] # 0, file[a + 1] = 0,
         file' = Renamed(a, a + 1), UNCHANGED <<content, acked>>
  PROVE  /\ NothingLost' /\ FilesInOrder'
         /\ Occupied' = (Occupied \ {a}) \cup {a + 1}
         /\ \A f : WrittenTo(f)' = WrittenTo(f)
         /\ \A n \in Slots : file'[n] = IF n = a + 1 THEN file[a]
                                        ELSE IF n = a THEN 0 ELSE file[n]
<1>0. a \in Nat /\ a # a + 1 /\ \A n \in Slots : n \in Nat
  BY DEF Slots
<1>1. \A n \in Slots : file'[n] = IF n = a + 1 THEN file[a]
                                  ELSE IF n = a THEN 0 ELSE file[n]
  BY <1>0 DEF Renamed, Types
<1>2. Occupied' = (Occupied \ {a}) \cup {a + 1}
  BY <1>0, <1>1 DEF Occupied
<1>3. \A f : WrittenTo(f)' = WrittenTo(f)
  BY DEF WrittenTo
<1>5. a \in Occupied
  BY DEF Occupied
<1> DEFINE Came(n) == IF n = a + 1 THEN a ELSE n
<1>6. \A n \in Occupied' : /\ Came(n) \in Occupied
                           /\ WrittenTo(file[n])' = WrittenTo(file[Came(n)])
  <2> TAKE n \in Occupied'
  <2>1. n \in Slots
    BY DEF Occupied
  <2>2. CASE n = a + 1
    BY <2>1, <2>2, <1>0, <1>1, <1>3, <1>5
  <2>3. CASE n # a + 1
    <3>1. n \in Occupied /\ n # a
      BY <2>3, <1>2
    <3>2. file'[n] = file[n]
      BY <2>1, <2>3, <3>1, <1>1
    <3> QED  BY <2>3, <3>1, <3>2, <1>3
  <2> QED  BY <2>2, <2>3
<1>7. NothingLost'
  <2> SUFFICES ASSUME NEW r \in acked PROVE r \in Kept'
    BY DEF NothingLost
  <2>1. PICK n \in Occupied : r \in WrittenTo(file[n])
    BY DEF NothingLost, Kept
  <2>2. n \in Slots /\ n # a + 1
    BY DEF Occupied
  <2>3. CASE n = a
    <3>1. a + 1 \in Occupied' /\ file'[a + 1] = file[a]
      BY <1>1, <1>2
    <3>2. r \in WrittenTo(file[a + 1])'
      BY <2>1, <2>3, <3>1, <1>3
    <3> QED  BY <3>1, <3>2 DEF Kept
  <2>4. CASE n # a
    <3>1. n \in Occupied' /\ file'[n] = file[n]
      BY <2>2, <2>4, <1>1, <1>2
    <3>2. r \in WrittenTo(file[n])'
      BY <2>1, <3>1, <1>3
    <3> QED  BY <3>1, <3>2 DEF Kept
  <2> QED  BY <2>3, <2>4
<1>8. FilesInOrder'
  <2> SUFFICES ASSUME NEW m \in Occupied', NEW n \in Occupied', m < n,
                      NEW r \in WrittenTo(file[m])', NEW s \in WrittenTo(file[n])'
               PROVE  s < r
    BY DEF FilesInOrder
  <2>1. m \in Slots /\ n \in Slots /\ m # a /\ n # a
    BY <1>0, <1>2 DEF Occupied
  <2>2. Came(m) < Came(n)
    BY <2>1, <1>0
  <2>3. /\ Came(m) \in Occupied /\ r \in WrittenTo(file[Came(m)])
        /\ Came(n) \in Occupied /\ s \in WrittenTo(file[Came(n)])
    BY <1>6
  <2> HIDE DEF Came
  <2> QED  BY <2>2, <2>3 DEF FilesInOrder
<1> QED  BY <1>1, <1>2, <1>3, <1>7, <1>8

\* Creating the active file adds an empty one.
LEMMA CreateKeeps ==
  ASSUME Types, NothingLost, FilesInOrder,
         file[0] = 0, content' = Append(content, <<>>),
         file' = [file EXCEPT ![0] = Len(content')], UNCHANGED acked
  PROVE  /\ NothingLost' /\ FilesInOrder'
         /\ Occupied' = Occupied \cup {0}
         /\ file'[0] # 0
         /\ \A n \in Slots \ {0} : file'[n] = file[n]
         /\ \A n \in Occupied : WrittenTo(file[n])' = WrittenTo(file[n])
         /\ WrittenTo(file[0])' = {}
<1>0. 0 \in Slots /\ Len(content) \in Nat
  BY TraceConstantsOK DEF Slots, Types
<1>1. /\ Len(content') = Len(content) + 1 /\ content'[Len(content) + 1] = <<>>
      /\ \A f \in Files : content'[f] = content[f]
  BY DEF Types, Files
<1>2. /\ file'[0] = Len(content) + 1 /\ file'[0] # 0
      /\ \A n \in Slots \ {0} : file'[n] = file[n]
  BY <1>0, <1>1 DEF Types
<1>3. Occupied' = Occupied \cup {0}
  BY <1>0, <1>2 DEF Occupied
<1>4. \A n \in Occupied : n # 0 /\ n \in Slots /\ file[n] \in Files
  BY RecordsTyped DEF Occupied
<1>5. \A n \in Occupied : WrittenTo(file[n])' = WrittenTo(file[n])
  <2> TAKE n \in Occupied
  <2>1. file'[n] = file[n] /\ content'[file[n]] = content[file[n]]
    BY <1>1, <1>2, <1>4
  <2> QED  BY <2>1 DEF WrittenTo
<1>6. WrittenTo(file[0])' = {}
  BY <1>1, <1>2 DEF WrittenTo
<1>8. NothingLost'
  <2> SUFFICES ASSUME NEW r \in acked PROVE r \in Kept'
    BY DEF NothingLost
  <2>1. PICK n \in Occupied : r \in WrittenTo(file[n])
    BY DEF NothingLost, Kept
  <2>2. n \in Occupied' /\ r \in WrittenTo(file[n])'
    BY <2>1, <1>3, <1>5
  <2> QED  BY <2>2 DEF Kept
<1>9. FilesInOrder'
  <2> SUFFICES ASSUME NEW m \in Occupied', NEW n \in Occupied', m < n,
                      NEW r \in WrittenTo(file[m])', NEW s \in WrittenTo(file[n])'
               PROVE  s < r
    BY DEF FilesInOrder
  <2>1. m # 0 /\ n # 0
    BY <1>6
  <2>2. m \in Occupied /\ n \in Occupied
    BY <2>1, <1>3
  <2>3. r \in WrittenTo(file[m]) /\ s \in WrittenTo(file[n])
    BY <2>2, <1>5
  <2> QED  BY <2>2, <2>3 DEF FilesInOrder
<1> QED  BY <1>2, <1>3, <1>5, <1>6, <1>8, <1>9

\* A newer record at the end of the active file.
LEMMA WriteKeeps ==
  ASSUME Types, NothingLost, FilesInOrder, NEW r \in Nat, r # Torn, file[0] # 0,
         \A n \in Occupied : \A s \in WrittenTo(file[n]) : s < r,
         content' = [content EXCEPT ![file[0]] = Append(@, r)],
         acked' = acked \cup {r}, UNCHANGED file, OneNamePerFile
  PROVE  /\ NothingLost' /\ FilesInOrder'
         /\ \A n \in Occupied : WrittenTo(file[n])' =
              IF n = 0 THEN WrittenTo(file[0]) \cup {r} ELSE WrittenTo(file[n])
<1>0. 0 \in Slots /\ 0 \in Occupied /\ file[0] \in Files /\ Occupied' = Occupied
  BY TraceConstantsOK, RecordsTyped DEF Slots, Types, Occupied
<1>1. /\ Files' = Files /\ content[file[0]] \in Seq(Nat)
      /\ \A f \in Files : content'[f] = IF f = file[0] THEN Append(content[f], r) ELSE content[f]
  BY <1>0 DEF Types, Files
<1>3. WrittenTo(file[0])' = WrittenTo(file[0]) \cup {r}
  <2>1. content'[file[0]] = Append(content[file[0]], r)
    BY <1>0, <1>1
  <2>2. /\ 1..Len(content'[file[0]]) = 1..Len(content[file[0]]) \cup {Len(content[file[0]]) + 1}
        /\ \A i \in 1..Len(content[file[0]]) : content'[file[0]][i] = content[file[0]][i]
        /\ content'[file[0]][Len(content[file[0]]) + 1] = r
    BY <1>1, <2>1
  <2>3. {content'[file[0]][i] : i \in 1..Len(content'[file[0]])} =
          {content[file[0]][i] : i \in 1..Len(content[file[0]])} \cup {r}
    BY <2>2
  <2>4. file'[0] = file[0]
    OBVIOUS
  <2>5. WrittenTo(file[0])' =
          {content'[file[0]][i] : i \in 1..Len(content'[file[0]])} \ {Torn}
    BY <2>4, Zenon DEF WrittenTo, Torn
  <2>6. WrittenTo(file[0]) =
          {content[file[0]][i] : i \in 1..Len(content[file[0]])} \ {Torn}
    BY Zenon DEF WrittenTo
  <2> DEFINE written == {content[file[0]][i] : i \in 1..Len(content[file[0]])}
  <2>7. (written \cup {r}) \ {Torn} = (written \ {Torn}) \cup {r}
    <3> HIDE DEF written
    <3> QED  OBVIOUS
  <2> QED  BY <2>3, <2>5, <2>6, <2>7, Zenon
<1>4. \A n \in Occupied : n # 0 => WrittenTo(file[n])' = WrittenTo(file[n])
  <2> SUFFICES ASSUME NEW n \in Occupied, n # 0 PROVE WrittenTo(file[n])' = WrittenTo(file[n])
    OBVIOUS
  <2>1. file[n] \in Files /\ file[n] # file[0]
    BY <1>0, RecordsTyped DEF OneNamePerFile
  <2>2. content'[file[n]] = content[file[n]]
    BY <2>1, <1>1
  <2> QED  BY <2>2 DEF WrittenTo
<1>5. NothingLost'
  <2>1. Kept \cup {r} \subseteq Kept'
    BY <1>0, <1>3, <1>4 DEF Kept
  <2> QED  BY <2>1 DEF NothingLost
<1>6. FilesInOrder'
  <2> SUFFICES ASSUME NEW m \in Occupied, NEW n \in Occupied, m < n,
                      NEW q \in WrittenTo(file[m])', NEW s \in WrittenTo(file[n])'
               PROVE  s < q
    BY <1>0 DEF FilesInOrder
  <2>1. n # 0
    BY RecordsTyped DEF Slots
  <2>2. s \in WrittenTo(file[n])
    BY <2>1, <1>4
  <2>3. CASE q = r
    BY <2>2, <2>3
  <2>4. CASE q # r
    <3>1. q \in WrittenTo(file[m])
      BY <2>4, <1>3, <1>4
    <3> QED  BY <2>2, <3>1 DEF FilesInOrder
  <2> QED  BY <2>3, <2>4
<1> QED  BY <1>0, <1>3, <1>4, <1>5, <1>6

-----------------------------------------------------------------------------
LEMMA Initial == Init => IInv
<1> SUFFICES ASSUME Init PROVE IInv
  OBVIOUS
<1>1. Occupied = {} /\ Files = {} /\ 0 \in Slots
  BY TraceConstantsOK DEF Init, Occupied, Files, Slots
<1>2. Types
  <2>1. content \in Seq(Seq(Nat)) /\ Len(content) = 0
    BY DEF Init
  <2> QED  BY <1>1, <2>1 DEF Init, Types, PCs
<1>3. OneNamePerFile /\ NothingLost /\ FilesInOrder /\ AtMostOneGap
  BY <1>1 DEF Init, OneNamePerFile, NothingLost, FilesInOrder, AtMostOneGap, Gaps
<1>4. Older /\ Searched /\ TargetFree /\ OpenActive
  BY <1>1 DEF Init, Older, Searched, TargetFree, OpenActive
<1> QED  BY <1>2, <1>3, <1>4 DEF IInv

\* What a step of the search, or one that fails, leaves alone.
LEMMA StepsOffDisk ==
  ASSUME OneWriter, IInv, NEW p \in Procs,
         UNCHANGED disk, UNCHANGED <<fd, acked>>,
         Types', Older',
         pc'[p] # "write",
         pc'[p] = "probe" => \A m \in 1..slot'[p] : file[m] # 0,
         pc'[p] = "shift" =>
           /\ slot'[p] < MaxSlots
           /\ file[slot'[p] + 1] = 0
           /\ \A m \in 1..slot'[p] : file[m] # 0
           /\ Gaps \subseteq {slot'[p] + 1}
  PROVE  IInv'
<1>1. \A q \in Procs : q = p
  BY DEF OneWriter
<1>2. file' = file /\ content' = content
  BY DEF disk
<1>3. /\ NothingLost' /\ FilesInOrder' /\ AtMostOneGap'
      /\ Occupied' = Occupied /\ Gaps' = Gaps
  BY DiskKept DEF IInv
<1>4. OneNamePerFile'
  BY <1>2, <1>3 DEF IInv, OneNamePerFile
<1>5. Searched' /\ TargetFree' /\ OpenActive'
  BY <1>1, <1>2, <1>3 DEF Searched, TargetFree, OpenActive
<1> QED  BY <1>3, <1>4, <1>5 DEF IInv

\* Older when neither the files nor the counter move.
LEMMA OlderKept ==
  ASSUME Older, NothingLost, FilesInOrder, AtMostOneGap,
         UNCHANGED disk, UNCHANGED <<record, begun, acked>>,
         \A p \in Procs : pc'[p] # "idle" => pc[p] # "idle"
  PROVE  Older'
<1>1. Occupied' = Occupied /\ (\A f : WrittenTo(f)' = WrittenTo(f)) /\ file' = file
  BY DiskKept DEF disk
<1>2. \A n \in Occupied' : WrittenTo(file[n])' = WrittenTo(file[n])
  BY <1>1
<1> QED  BY <1>1, <1>2 DEF Older

LEMMA AppendBegins ==
  ASSUME OneWriter, IInv, NEW p \in Procs, BeginAppend(p)
  PROVE  IInv'
<1>1. /\ pc[p] = "idle" /\ begun' = begun + 1
      /\ record' = [record EXCEPT ![p] = begun + 1]
      /\ pc' = [pc EXCEPT ![p] = "exists"]
      /\ UNCHANGED <<disk, slot, fd, acked>> /\ file' = file /\ content' = content
  BY DEF BeginAppend, Goto, disk
<1>2. Types'
  BY <1>1 DEF IInv, Types, PCs
<1>3. pc'[p] = "exists" /\ record'[p] = begun' /\ begun \in Nat /\ begun' > begun
  BY <1>1 DEF IInv, Types
<1>4. Older'
  <2>1. Occupied' = Occupied /\ (\A f : WrittenTo(f)' = WrittenTo(f))
    BY <1>1, DiskKept DEF IInv
  <2>2. \A n \in Occupied' : WrittenTo(file[n])' = WrittenTo(file[n])
    BY <1>1, <2>1
  <2>3. \A n \in Occupied : \A r \in WrittenTo(file[n]) : r \in Nat /\ r <= begun
    BY RecordsTyped DEF IInv, Older
  <2>4. \A n \in Occupied : \A r \in WrittenTo(file[n]) : r < begun'
    BY <1>1, <1>3, <2>3
  <2>5. \A n \in Occupied' : \A r \in WrittenTo(file[n])' : r < begun' /\ r <= begun'
    <3> SUFFICES ASSUME NEW n \in Occupied', NEW r \in WrittenTo(file[n])'
                 PROVE  r < begun' /\ r <= begun'
      OBVIOUS
    <3>1. n \in Occupied /\ r \in WrittenTo(file[n])
      BY <2>1, <2>2
    <3>2. r \in Nat /\ r <= begun
      BY <3>1, <2>3
    <3> QED  BY <3>2, <1>1, <1>3
  <2>6. begun' > 0 /\ \A q \in Procs : record'[q] = begun'
    BY <1>1, <1>3 DEF OneWriter
  <2> QED  BY <2>5, <2>6 DEF Older
<1> QED  BY <1>1, <1>2, <1>3, <1>4, StepsOffDisk

LEMMA ExistsChecked ==
  ASSUME OneWriter, IInv, NEW p \in Procs, Exists(p)
  PROVE  IInv'
<1>1. /\ pc[p] = "exists" /\ UNCHANGED <<disk, slot, fd, record, begun, acked>>
      /\ pc' = [pc EXCEPT ![p] = IF file[0] = 0 THEN "open" ELSE "metadata"]
      /\ file' = file /\ content' = content
  BY DEF Exists, Goto, disk
<1>2. Types' /\ pc'[p] \in {"open", "metadata"}
  BY <1>1 DEF IInv, Types, PCs
<1>3. Older'
  BY <1>1, OlderKept DEF IInv, Types
<1> QED  BY <1>1, <1>2, <1>3, StepsOffDisk

LEMMA SizeChecked ==
  ASSUME OneWriter, IInv, NEW p \in Procs, Metadata(p)
  PROVE  IInv'
<1>1. PICK where \in {"idle", "open", "probe"} :
        /\ pc[p] = "metadata" /\ UNCHANGED <<disk, fd, record, begun, acked>>
        /\ pc' = [pc EXCEPT ![p] = where] /\ slot' = [slot EXCEPT ![p] = 0]
        /\ file' = file /\ content' = content
  BY DEF Metadata, Goto, disk
<1>2. Types' /\ pc'[p] = where /\ slot'[p] = 0
  BY <1>1, TraceConstantsOK DEF IInv, Types, PCs, Slots
<1>3. Older'
  BY <1>1, OlderKept DEF IInv, Types
<1>4. 1..slot'[p] = {}
  BY <1>2
<1> QED  BY <1>1, <1>2, <1>3, <1>4, StepsOffDisk

LEMMA Probed ==
  ASSUME OneWriter, IInv, NEW p \in Procs, Probe(p)
  PROVE  IInv'
<1>1. /\ pc[p] = "probe" /\ slot[p] < MaxSlots /\ UNCHANGED <<disk, fd, record, begun, acked>>
      /\ file' = file /\ content' = content
  BY DEF Probe, disk
<1>2. slot[p] \in Nat /\ slot[p] + 1 \in Slots /\ \A m \in 1..slot[p] : file[m] # 0
  BY <1>1, TraceConstantsOK DEF IInv, Types, Slots, Searched
<1>3. CASE IsHighest(slot[p]) /\ Goto(p, "shift") /\ UNCHANGED slot
  <2>1. /\ file[slot[p] + 1] = 0 /\ pc' = [pc EXCEPT ![p] = "shift"] /\ slot' = slot
    BY <1>3 DEF IsHighest, Goto
  <2>2. Types' /\ pc'[p] = "shift"
    BY <1>1, <2>1 DEF IInv, Types, PCs
  <2>3. Older'
    BY <1>1, <2>1, OlderKept DEF IInv, Types
  <2>4. Gaps \subseteq {slot[p] + 1}
    <3> SUFFICES ASSUME NEW g \in Gaps PROVE g = slot[p] + 1
      OBVIOUS
    <3>1. g \in Slots \ {0} /\ g \notin Occupied
      BY DEF Gaps
    <3>2. PICK m \in Occupied : m > g
      BY DEF Gaps
    <3>3. g > slot[p]
      BY <1>2, <3>1 DEF Occupied, Slots
    <3>4. SUFFICES ASSUME g # slot[p] + 1 PROVE FALSE
      OBVIOUS
    <3>5. slot[p] + 1 \in Gaps
      <4>1. slot[p] + 1 \in Slots \ {0} /\ slot[p] + 1 \notin Occupied
        BY <1>2, <2>1 DEF Occupied
      <4>2. m \in Nat /\ g \in Nat /\ m > slot[p] + 1
        BY <1>2, <3>1, <3>2, <3>3, <3>4, RecordsTyped DEF IInv, Slots
      <4> QED  BY <4>1, <4>2 DEF Gaps
    <3> QED  BY <3>4, <3>5 DEF IInv, AtMostOneGap
  <2> QED  BY <1>1, <1>2, <2>1, <2>2, <2>3, <2>4, StepsOffDisk
<1>4. CASE ~IsHighest(slot[p]) /\ slot' = [slot EXCEPT ![p] = @ + 1] /\ UNCHANGED pc
  <2>1. file[slot[p] + 1] # 0 /\ slot'[p] = slot[p] + 1 /\ pc'[p] = "probe"
    BY <1>1, <1>4 DEF IsHighest, IInv, Types
  <2>2. Types'
    BY <1>1, <1>2, <1>4 DEF IInv, Types
  <2>3. Older'
    BY <1>1, <1>4, OlderKept DEF IInv
  <2>4. \A m \in 1..slot'[p] : file[m] # 0
    BY <1>2, <2>1
  <2> QED  BY <1>1, <2>1, <2>2, <2>3, <2>4, StepsOffDisk
<1> QED  BY <1>3, <1>4 DEF Probe

\* The gap moves down to the slot whose file was renamed.
LEMMA GapMoves ==
  ASSUME Types, NEW a \in Slots, a + 1 \in Slots, file[a] # 0,
         Gaps \subseteq {a + 1}, \A m \in 1..a : file[m] # 0,
         Occupied' = (Occupied \ {a}) \cup {a + 1}
  PROVE  Gaps' \subseteq {a} \ {0}
<1> SUFFICES ASSUME NEW g \in Gaps', g # a PROVE FALSE
  BY DEF Gaps
<1>1. a \in Nat /\ g \in Nat /\ g \in Slots \ {0} /\ g \notin Occupied'
  BY DEF Gaps, Slots
<1>2. PICK m \in Occupied' : m > g
  BY DEF Gaps
<1>3. m \in Nat /\ g # a + 1 /\ g \notin Occupied
  BY <1>1, <1>2, RecordsTyped DEF Slots
<1>4. g > a + 1
  BY <1>1, <1>3 DEF Occupied
<1>5. m \in Occupied
  BY <1>1, <1>2, <1>3, <1>4
<1> QED  BY <1>1, <1>2, <1>3, <1>5 DEF Gaps

LEMMA Shifted ==
  ASSUME OneWriter, IInv, NEW p \in Procs, Shift(p)
  PROVE  IInv'
<1>1. /\ pc[p] = "shift" /\ slot[p] > 0 /\ UNCHANGED <<content, fd, record, begun, acked>>
      /\ slot[p] \in Slots /\ slot[p] \in Nat /\ \A q \in Procs : q = p
  BY DEF Shift, IInv, Types, Slots, OneWriter
<1>2. /\ slot[p] + 1 \in Slots /\ file[slot[p] + 1] = 0 /\ file[slot[p]] # 0
      /\ \A m \in 1..slot[p] : file[m] # 0
      /\ Gaps \subseteq {slot[p] + 1}
  BY <1>1, TraceConstantsOK DEF IInv, TargetFree, Slots
<1>3. /\ file' = Renamed(slot[p], slot[p] + 1) /\ pc' = pc
      /\ slot' = [slot EXCEPT ![p] = @ - 1]
  BY <1>2 DEF Shift, NextSlot
<1>4. /\ NothingLost' /\ FilesInOrder'
      /\ Occupied' = (Occupied \ {slot[p]}) \cup {slot[p] + 1}
      /\ \A f : WrittenTo(f)' = WrittenTo(f)
      /\ \A n \in Slots : file'[n] = IF n = slot[p] + 1 THEN file[slot[p]]
                                     ELSE IF n = slot[p] THEN 0 ELSE file[n]
  <2>1. UNCHANGED <<content, acked>>
    BY <1>1
  <2> QED  BY <1>1, <1>2, <1>3, <2>1, RenameKeeps DEF IInv
<1>5. /\ slot'[p] = slot[p] - 1 /\ slot'[p] \in Slots /\ pc'[p] = "shift"
  BY <1>1, <1>3, TraceConstantsOK DEF IInv, Types, Slots
<1>6. Types'
  <2>1. file' \in [Slots -> Nat]
    BY <1>3 DEF IInv, Types, Renamed
  <2>2. \A n \in Slots : file'[n] <= Len(content')
    BY <1>1, <1>2, <1>4 DEF IInv, Types
  <2>3. slot' \in [Procs -> Slots]
    BY <1>1, <1>3, <1>5 DEF IInv, Types
  <2> QED  BY <1>1, <1>3, <2>1, <2>2, <2>3 DEF IInv, Types
<1>7. \A n \in Occupied' : \E m \in Occupied : file'[n] = file[m]
  <2> TAKE n \in Occupied'
  <2>1. n \in Slots /\ slot[p] \in Occupied
    BY <1>1, <1>2 DEF Occupied
  <2>2. CASE n = slot[p] + 1
    BY <2>1, <2>2, <1>4
  <2>3. CASE n # slot[p] + 1
    BY <2>1, <2>3, <1>4
  <2> QED  BY <2>2, <2>3
<1>8. OneNamePerFile'
  <2> SUFFICES ASSUME NEW m \in Occupied', NEW n \in Occupied', file'[m] = file'[n]
               PROVE  m = n
    BY DEF OneNamePerFile
  <2>1. m \in Slots /\ n \in Slots /\ slot[p] \in Occupied /\ slot[p] # slot[p] + 1
    BY <1>1, <1>2 DEF Occupied
  <2>2. m # slot[p] /\ n # slot[p]
    BY <1>4, <2>1
  <2>3. (m # slot[p] + 1 => m \in Occupied) /\ (n # slot[p] + 1 => n \in Occupied)
    BY <1>4, <2>2
  <2> QED  BY <2>1, <2>2, <2>3, <1>4 DEF IInv, OneNamePerFile
<1>9. Older'
  <2>1. \A n \in Occupied' : \A r \in WrittenTo(file[n])' : r <= begun /\ r < begun
    <3> SUFFICES ASSUME NEW n \in Occupied', NEW r \in WrittenTo(file[n])'
                 PROVE  r <= begun /\ r < begun
      OBVIOUS
    <3>1. PICK m \in Occupied : file'[n] = file[m]
      BY <1>7
    <3>2. r \in WrittenTo(file[m])
      BY <3>1, <1>4
    <3> QED  BY <3>2, <1>1 DEF IInv, Older
  <2> QED  BY <2>1, <1>1, <1>3 DEF IInv, Older
<1>10. Gaps' \subseteq {slot[p]}
  BY <1>1, <1>2, <1>4, GapMoves DEF IInv
<1>11. AtMostOneGap'
  BY <1>10 DEF AtMostOneGap
<1>12. TargetFree'
  <2>1. file'[slot[p]] = 0 /\ \A m \in 1..slot'[p] : file'[m] # 0
    <3>1. file'[slot[p]] = 0
      BY <1>1, <1>4
    <3>2. \A m \in 1..slot'[p] : m \in Slots /\ m < slot[p] /\ m \in 1..slot[p]
      BY <1>1, <1>5, TraceConstantsOK DEF Slots
    <3>3. \A m \in 1..slot'[p] : file'[m] = file[m]
      BY <1>1, <3>2, <1>4
    <3> QED  BY <3>1, <3>2, <3>3, <1>2
  <2>2. slot'[p] < MaxSlots /\ slot'[p] + 1 = slot[p]
    BY <1>1, <1>2, <1>5, TraceConstantsOK DEF Slots
  <2> QED  BY <2>1, <2>2, <1>1, <1>10 DEF TargetFree
<1>13. Searched' /\ OpenActive'
  BY <1>1, <1>5 DEF Searched, OpenActive
<1> QED  BY <1>4, <1>6, <1>8, <1>9, <1>11, <1>12, <1>13 DEF IInv

LEMMA ActiveShifted ==
  ASSUME OneWriter, IInv, NEW p \in Procs, ShiftActive(p)
  PROVE  /\ IInv'
         /\ pc'[p] = "open" => Gaps' = {}
<1>1. /\ pc[p] = "shift" /\ slot[p] = 0
      /\ UNCHANGED <<content, slot, fd, record, begun, acked>>
      /\ 0 \in Slots /\ 0 + 1 \in Slots /\ file[0 + 1] = 0 /\ Gaps \subseteq {0 + 1}
      /\ \A q \in Procs : q = p
  BY TraceConstantsOK DEF ShiftActive, IInv, TargetFree, Slots, OneWriter
<1>2. CASE file[0] # 0 /\ file' = Renamed(0, NextSlot(0)) /\ Goto(p, "open")
  <2>1. file' = Renamed(0, 0 + 1) /\ file[0] # 0 /\ pc' = [pc EXCEPT ![p] = "open"]
    BY <1>2 DEF NextSlot, Goto
  <2>2. pc'[p] = "open"
    BY <2>1 DEF IInv, Types
  <2>3. /\ NothingLost' /\ FilesInOrder'
        /\ Occupied' = (Occupied \ {0}) \cup {0 + 1}
        /\ \A f : WrittenTo(f)' = WrittenTo(f)
        /\ \A n \in Slots : file'[n] = IF n = 0 + 1 THEN file[0]
                                       ELSE IF n = 0 THEN 0 ELSE file[n]
    <3>1. UNCHANGED <<content, acked>>
      BY <1>1
    <3> QED  BY <1>1, <2>1, <3>1, RenameKeeps DEF IInv
  <2>4. Types'
    <3>1. file' \in [Slots -> Nat]
      BY <1>1, <2>1 DEF IInv, Types, Renamed
    <3>2. \A n \in Slots : file'[n] <= Len(content')
      BY <1>1, <2>3 DEF IInv, Types
    <3> QED  BY <1>1, <2>1, <3>1, <3>2 DEF IInv, Types, PCs
  <2>5. 0 \in Occupied /\ \A n \in Occupied' : n \in Slots /\ n # 0
    BY <1>1, <2>1, <2>3 DEF Occupied
  <2>6. OneNamePerFile'
    <3> SUFFICES ASSUME NEW m \in Occupied', NEW n \in Occupied', file'[m] = file'[n]
                 PROVE  m = n
      BY DEF OneNamePerFile
    <3>1. m \in Slots /\ n \in Slots /\ m # 0 /\ n # 0
      BY <2>5
    <3>2. (m # 0 + 1 => m \in Occupied) /\ (n # 0 + 1 => n \in Occupied)
      BY <2>3, <3>1
    <3> QED  BY <3>1, <3>2, <2>3, <2>5 DEF IInv, OneNamePerFile
  <2>7. Older'
    <3>1. \A n \in Occupied' : \A r \in WrittenTo(file[n])' : r <= begun /\ r < begun
      <4> SUFFICES ASSUME NEW n \in Occupied', NEW r \in WrittenTo(file[n])'
                   PROVE  r <= begun /\ r < begun
        OBVIOUS
      <4>1. PICK m \in Occupied : file'[n] = file[m]
        BY <2>3, <2>5
      <4>2. r \in WrittenTo(file[m])
        BY <4>1, <2>3
      <4> QED  BY <4>2, <1>1 DEF IInv, Older
    <3> QED  BY <3>1, <1>1, <2>1 DEF IInv, Older
  <2>8. Gaps' = {}
    <3>1. \A m \in 1..0 : file[m] # 0
      OBVIOUS
    <3>2. Gaps' \subseteq {0} \ {0}
      BY <1>1, <2>1, <2>3, <3>1, GapMoves DEF IInv
    <3> QED  BY <3>2
  <2>9. Searched' /\ TargetFree' /\ OpenActive' /\ AtMostOneGap'
    BY <1>1, <2>2, <2>8 DEF Searched, TargetFree, OpenActive, AtMostOneGap
  <2> QED  BY <2>3, <2>4, <2>6, <2>7, <2>8, <2>9 DEF IInv
<1>3. CASE file[0] = 0 /\ Goto(p, "idle") /\ UNCHANGED file
  <2>1. pc' = [pc EXCEPT ![p] = "idle"] /\ UNCHANGED disk
    BY <1>1, <1>3 DEF Goto, disk
  <2>2. Types' /\ pc'[p] = "idle"
    BY <1>1, <1>3, <2>1 DEF IInv, Types, PCs
  <2>3. Older'
    BY <1>1, <2>1, <2>2, OlderKept DEF IInv
  <2> QED  BY <1>1, <2>1, <2>2, <2>3, StepsOffDisk
<1> QED  BY <1>2, <1>3 DEF ShiftActive

LEMMA Opened ==
  ASSUME OneWriter, IInv, NEW p \in Procs, Open(p)
  PROVE  IInv'
<1>1. /\ pc[p] = "open" /\ UNCHANGED <<slot, record, begun, acked>>
      /\ fd' = [fd EXCEPT ![p] = file'[0]] /\ pc' = [pc EXCEPT ![p] = "write"]
      /\ 0 \in Slots /\ \A q \in Procs : q = p
  BY TraceConstantsOK DEF Open, Goto, Slots, OneWriter
<1>2. pc'[p] = "write" /\ fd'[p] = file'[0]
  BY <1>1 DEF IInv, Types
<1>3. CASE file[0] # 0 /\ UNCHANGED disk
  <2>1. file' = file /\ content' = content
    BY <1>3 DEF disk
  <2>2. /\ NothingLost' /\ FilesInOrder' /\ AtMostOneGap'
        /\ Occupied' = Occupied /\ Gaps' = Gaps
    BY <1>1, <1>3, DiskKept DEF IInv
  <2>3. Types'
    BY <1>1, <2>1 DEF IInv, Types, PCs
  <2>4. Older'
    BY <1>1, <1>3, OlderKept DEF IInv
  <2>5. OneNamePerFile'
    BY <2>1, <2>2 DEF IInv, OneNamePerFile
  <2>6. Searched' /\ TargetFree' /\ OpenActive'
    BY <1>1, <1>2, <1>3, <2>1 DEF Searched, TargetFree, OpenActive
  <2> QED  BY <2>2, <2>3, <2>4, <2>5, <2>6 DEF IInv
<1>4. CASE /\ file[0] = 0
           /\ content' = Append(content, <<>>)
           /\ file' = [file EXCEPT ![0] = Len(content')]
  <2>1. /\ NothingLost' /\ FilesInOrder'
        /\ Occupied' = Occupied \cup {0}
        /\ file'[0] # 0
        /\ \A n \in Slots \ {0} : file'[n] = file[n]
        /\ \A n \in Occupied : WrittenTo(file[n])' = WrittenTo(file[n])
        /\ WrittenTo(file[0])' = {}
    <3>1. UNCHANGED acked
      BY <1>1
    <3> QED  BY <1>4, <3>1, CreateKeeps DEF IInv
  <2>2. Len(content) \in Nat /\ Len(content') = Len(content) + 1 /\ file'[0] = Len(content) + 1
    BY <1>1, <1>4 DEF IInv, Types
  <2>3. Types'
    <3>1. content' \in Seq(Seq(Nat))
      BY <1>4 DEF IInv, Types
    <3>2. file' \in [Slots -> Nat]
      BY <1>4, <2>2 DEF IInv, Types
    <3>3. \A n \in Slots : file'[n] <= Len(content')
      <4> TAKE n \in Slots
      <4>1. CASE n = 0
        BY <2>2, <4>1
      <4>2. CASE n # 0
        BY <2>1, <2>2, <4>2 DEF IInv, Types
      <4> QED  BY <4>1, <4>2
    <3> QED  BY <1>1, <2>2, <3>1, <3>2, <3>3 DEF IInv, Types, PCs
  <2>4. Older'
    <3>1. \A n \in Occupied' : \A r \in WrittenTo(file[n])' :
            n \in Occupied /\ r \in WrittenTo(file[n])
      <4> SUFFICES ASSUME NEW n \in Occupied', NEW r \in WrittenTo(file[n])'
                   PROVE  n \in Occupied /\ r \in WrittenTo(file[n])
        OBVIOUS
      <4>1. n # 0
        BY <2>1
      <4> QED  BY <4>1, <2>1
    <3> QED  BY <3>1, <1>1 DEF IInv, Older
  <2>5. OneNamePerFile'
    <3> SUFFICES ASSUME NEW m \in Occupied', NEW n \in Occupied', file'[m] = file'[n], m # n
                 PROVE  FALSE
      BY DEF OneNamePerFile
    <3>1. m \in Slots /\ n \in Slots
      BY DEF Occupied
    <3>2. CASE m # 0 /\ n # 0
      BY <2>1, <3>1, <3>2 DEF IInv, OneNamePerFile
    <3>3. CASE m = 0
      <4>1. n # 0 /\ n \in Slots /\ file'[n] = file[n]
        BY <2>1, <3>1, <3>3
      <4>2. file[n] <= Len(content) /\ file[n] \in Nat
        BY <4>1 DEF IInv, Types
      <4> QED  BY <2>2, <3>3, <4>1, <4>2
    <3>4. CASE n = 0
      <4>1. m # 0 /\ m \in Slots /\ file'[m] = file[m]
        BY <2>1, <3>1, <3>4
      <4>2. file[m] <= Len(content) /\ file[m] \in Nat
        BY <4>1 DEF IInv, Types
      <4> QED  BY <2>2, <3>4, <4>1, <4>2
    <3> QED  BY <3>2, <3>3, <3>4
  <2>6. Gaps' \subseteq Gaps
    <3> SUFFICES ASSUME NEW g \in Gaps' PROVE g \in Gaps
      OBVIOUS
    <3>1. g \in Slots \ {0} /\ g \notin Occupied /\ g \in Nat
      BY <2>1 DEF Gaps, Slots
    <3>2. PICK m \in Occupied' : m > g
      BY DEF Gaps
    <3>3. m # 0
      BY <3>1, <3>2
    <3> QED  BY <2>1, <3>1, <3>2, <3>3 DEF Gaps
  <2>7. AtMostOneGap'
    BY <2>6 DEF IInv, AtMostOneGap
  <2>8. Searched' /\ TargetFree' /\ OpenActive'
    BY <1>1, <1>2, <2>1 DEF Searched, TargetFree, OpenActive
  <2> QED  BY <2>1, <2>3, <2>4, <2>5, <2>7, <2>8 DEF IInv
<1> QED  BY <1>3, <1>4 DEF Open

LEMMA Written ==
  ASSUME OneWriter, IInv, NEW p \in Procs, Write(p)
  PROVE  IInv'
<1>1. /\ pc[p] = "write" /\ UNCHANGED <<file, slot, fd, record, begun>>
      /\ pc' = [pc EXCEPT ![p] = "idle"] /\ \A q \in Procs : q = p
  BY DEF Write, Goto, OneWriter
<1>2. /\ fd[p] = file[0] /\ file[0] # 0 /\ record[p] = begun
      /\ begun \in Nat /\ begun # Torn /\ file[0] \in Nat
      /\ \A n \in Occupied : \A s \in WrittenTo(file[n]) : s < begun
  BY <1>1, TraceConstantsOK DEF IInv, OpenActive, Older, Types, Torn, Slots
<1>3. /\ content' = [content EXCEPT ![file[0]] = Append(@, begun)]
      /\ acked' = acked \cup {begun}
  BY <1>2 DEF Write
<1>4. /\ NothingLost' /\ FilesInOrder'
      /\ \A n \in Occupied : WrittenTo(file[n])' =
           IF n = 0 THEN WrittenTo(file[0]) \cup {begun} ELSE WrittenTo(file[n])
  <2>1. UNCHANGED file
    BY <1>1
  <2> QED  BY <1>2, <1>3, <2>1, WriteKeeps DEF IInv
<1>5. pc'[p] = "idle" /\ Occupied' = Occupied
  BY <1>1 DEF IInv, Types, Occupied
<1>6. Types'
  <2>1. content' \in Seq(Seq(Nat)) /\ Len(content') = Len(content)
    <3>1. file[0] \in Files
      BY <1>2, TraceConstantsOK DEF IInv, Types, Files, Slots
    <3>2. Append(content[file[0]], begun) \in Seq(Nat)
      BY <1>2, <3>1 DEF IInv, Types, Files
    <3> QED  BY <1>3, <3>1, <3>2 DEF IInv, Types, Files
  <2> QED  BY <1>1, <1>2, <1>3, <2>1 DEF IInv, Types, PCs
<1>7. Older'
  <2>1. \A n \in Occupied' : \A r \in WrittenTo(file[n])' : r <= begun'
    <3> SUFFICES ASSUME NEW n \in Occupied, NEW r \in WrittenTo(file[n])'
                 PROVE  r <= begun
      BY <1>1, <1>5
    <3>1. r \in WrittenTo(file[n]) \/ r = begun
      BY <1>4
    <3> QED  BY <1>2, <3>1 DEF IInv, Older
  <2> QED  BY <2>1, <1>1, <1>5 DEF Older
<1>8. OneNamePerFile' /\ AtMostOneGap'
  BY <1>1, <1>5 DEF IInv, OneNamePerFile, AtMostOneGap, Gaps
<1>9. Searched' /\ TargetFree' /\ OpenActive'
  BY <1>1, <1>5 DEF Searched, TargetFree, OpenActive
<1> QED  BY <1>4, <1>6, <1>7, <1>8, <1>9 DEF IInv

\* Half a record at the end of a file takes nothing from what was written.
LEMMA TornKeeps ==
  ASSUME Types, NothingLost, FilesInOrder, AtMostOneGap, NEW f \in Files,
         content' = [content EXCEPT ![f] = Append(@, Torn)], UNCHANGED <<file, acked>>
  PROVE  /\ NothingLost' /\ FilesInOrder' /\ AtMostOneGap'
         /\ Occupied' = Occupied /\ Gaps' = Gaps
         /\ content' \in Seq(Seq(Nat)) /\ Len(content') = Len(content)
         /\ \A n \in Occupied : WrittenTo(file[n])' = WrittenTo(file[n])
<1>1. /\ content[f] \in Seq(Nat) /\ f \in 1..Len(content) /\ Torn \in Nat
      /\ Append(content[f], Torn) \in Seq(Nat)
  BY DEF Types, Files, Torn
<1>2. /\ content' \in Seq(Seq(Nat)) /\ Len(content') = Len(content)
      /\ content'[f] = Append(content[f], Torn)
      /\ \A g \in Files : g # f => content'[g] = content[g]
  BY <1>1 DEF Types, Files
<1>3. \A g \in Files : WrittenTo(g)' = WrittenTo(g)
  <2> SUFFICES ASSUME NEW g \in Files PROVE WrittenTo(g)' = WrittenTo(g)
    OBVIOUS
  <2>1. CASE g # f
    BY <2>1, <1>2 DEF WrittenTo
  <2>2. CASE g = f
    <3>1. /\ 1..Len(content'[f]) = 1..Len(content[f]) \cup {Len(content[f]) + 1}
          /\ \A i \in 1..Len(content[f]) : content'[f][i] = content[f][i]
          /\ content'[f][Len(content[f]) + 1] = Torn
      BY <1>1, <1>2
    <3>2. {content'[f][i] : i \in 1..Len(content'[f])} =
            {content[f][i] : i \in 1..Len(content[f])} \cup {Torn}
      BY <3>1
    <3> QED  BY <2>2, <3>2 DEF WrittenTo
  <2> QED  BY <2>1, <2>2
<1>4. Occupied' = Occupied /\ Gaps' = Gaps
  BY DEF Occupied, Gaps
<1>5. \A n \in Occupied : WrittenTo(file[n])' = WrittenTo(file[n])
  <2> TAKE n \in Occupied
  <2>1. file[n] \in Files /\ file'[n] = file[n]
    BY RecordsTyped
  <2>2. content'[file'[n]] = content'[file[n]]
    BY <2>1
  <2> QED  BY <2>1, <2>2, <1>3 DEF WrittenTo
<1>6. Kept' = Kept
  BY <1>4, <1>5 DEF Kept
<1>7. NothingLost' /\ AtMostOneGap'
  BY <1>4, <1>6 DEF NothingLost, AtMostOneGap
<1>8. FilesInOrder'
  BY <1>4, <1>5 DEF FilesInOrder
<1> QED  BY <1>2, <1>4, <1>5, <1>7, <1>8

LEMMA Died ==
  ASSUME OneWriter, IInv, NEW p \in Procs, Die(p)
  PROVE  IInv'
<1>1. /\ pc[p] # "idle" /\ pc' = [pc EXCEPT ![p] = "idle"]
      /\ UNCHANGED <<file, slot, fd, record, begun, acked>>
      /\ \A q \in Procs : q = p
  BY DEF Die, Goto, OneWriter
<1>2. CASE UNCHANGED content
  <2>1. UNCHANGED disk
    BY <1>1, <1>2 DEF disk
  <2>2. Types' /\ pc'[p] = "idle"
    BY <1>1, <1>2 DEF IInv, Types, PCs
  <2>3. Older'
    BY <1>1, <2>1, <2>2, OlderKept DEF IInv
  <2> QED  BY <1>1, <2>1, <2>2, <2>3, StepsOffDisk
<1>3. CASE pc[p] = "write" /\ content' = [content EXCEPT ![fd[p]] = Append(@, Torn)]
  <2>1. fd[p] \in Files
    BY <1>3, TraceConstantsOK DEF IInv, OpenActive, Types, Slots, Files
  <2>2. /\ NothingLost' /\ FilesInOrder' /\ AtMostOneGap'
        /\ Occupied' = Occupied /\ Gaps' = Gaps
        /\ content' \in Seq(Seq(Nat)) /\ Len(content') = Len(content)
        /\ \A n \in Occupied : WrittenTo(file[n])' = WrittenTo(file[n])
    BY <1>1, <1>3, <2>1, TornKeeps DEF IInv
  <2>3. Types' /\ pc'[p] = "idle"
    BY <1>1, <2>2 DEF IInv, Types, PCs
  <2>4. OneNamePerFile'
    BY <1>1, <2>2 DEF IInv, OneNamePerFile
  <2>5. Older'
    <3>1. \A n \in Occupied' : \A r \in WrittenTo(file[n])' : r <= begun'
      BY <1>1, <2>2 DEF IInv, Older
    <3> QED  BY <3>1, <1>1, <2>3 DEF Older
  <2>6. Searched' /\ TargetFree' /\ OpenActive'
    BY <1>1, <2>3 DEF Searched, TargetFree, OpenActive
  <2> QED  BY <2>2, <2>3, <2>4, <2>5, <2>6 DEF IInv
<1> QED  BY <1>2, <1>3 DEF Die

\* Every step of one writer keeps the invariant.
LEMMA Inductive ==
  ASSUME OneWriter, IInv, [Next]_vars
  PROVE  IInv'
<1>1. CASE UNCHANGED vars
  <2>1. /\ UNCHANGED <<file, content, pc, slot, fd, record, begun, acked>>
        /\ UNCHANGED disk /\ UNCHANGED <<disk, acked>>
    BY <1>1 DEF vars, disk, procVars
  <2>2. /\ NothingLost' /\ FilesInOrder' /\ AtMostOneGap'
        /\ Occupied' = Occupied /\ Gaps' = Gaps
    BY <2>1, DiskKept DEF IInv
  <2>3. Older'
    BY <2>1, OlderKept DEF IInv
  <2>4. Types' /\ OneNamePerFile' /\ Searched' /\ TargetFree' /\ OpenActive'
    BY <2>1, <2>2 DEF IInv, Types, OneNamePerFile, Searched, TargetFree, OpenActive
  <2> QED  BY <2>2, <2>3, <2>4 DEF IInv
<1>2. CASE Next
  <2>1. PICK p \in Procs :
          \/ BeginAppend(p) \/ Exists(p) \/ Metadata(p) \/ Probe(p)
          \/ Shift(p) \/ ShiftActive(p) \/ Open(p) \/ Write(p) \/ Die(p)
    BY <1>2 DEF Next
  <2> QED  BY <2>1, AppendBegins, ExistsChecked, SizeChecked, Probed, Shifted,
              ActiveShifted, Opened, Written, Died
<1> QED  BY <1>1, <1>2

LEMMA Invariant == OneWriter => (Spec => []IInv)
<1> SUFFICES ASSUME OneWriter PROVE Spec => []IInv
  OBVIOUS
<1> QED  BY Initial, Inductive, PTL DEF Spec

-----------------------------------------------------------------------------
(***************************************************************************)
(* One writer loses no record it acknowledged, however large the store     *)
(* grows and wherever its rotations (rotate_if_needed) are interrupted.    *)
(***************************************************************************)
THEOREM RotationLosesNothing == OneWriter => (Spec => []NothingLost)
<1>1. IInv => NothingLost
  BY DEF IInv
<1> QED  BY <1>1, Invariant, PTL

(***************************************************************************)
(* Its files stay in the order of their numbers, which scan reads them in. *)
(***************************************************************************)
THEOREM RotationKeepsOrder == OneWriter => (Spec => []FilesInOrder)
<1>1. IInv => FilesInOrder
  BY DEF IInv
<1> QED  BY <1>1, Invariant, PTL

(***************************************************************************)
(* Interrupted rotations leave one gap in the numbers, never two.          *)
(***************************************************************************)
THEOREM RotationLeavesOneGap == OneWriter => (Spec => []AtMostOneGap)
<1>1. IInv => AtMostOneGap
  BY DEF IInv
<1> QED  BY <1>1, Invariant, PTL

\* With no gap scan reads every file.
LEMMA NoGapScansAll ==
  ASSUME Types, Gaps = {}
  PROVE  Scanned = Stored
<1>1. Reached = Occupied
  <2> SUFFICES ASSUME NEW n \in Occupied, NEW m \in 1..n PROVE m \in Occupied
    BY DEF Reached
  <2>1. n \in Slots /\ n \in Nat /\ m \in Slots \ {0} /\ m <= n
    BY TraceConstantsOK DEF Occupied, Slots
  <2>2. CASE m = n
    BY <2>2
  <2>3. CASE m # n
    BY <2>1, <2>3 DEF Gaps, Slots
  <2> QED  BY <2>2, <2>3
<1> QED  BY <1>1 DEF Scanned, Stored

(***************************************************************************)
(* The files stay in order with one gap at most.                           *)
(***************************************************************************)
THEOREM RotationKeepsFiles == OneWriter => (Spec => []FilesKept)
BY RotationKeepsOrder, RotationLeavesOneGap, PTL DEF FilesKept

(***************************************************************************)
(* A rotation that runs to its end closes the gap of the ones before, and  *)
(* scan finds every record again that any file holds readably.             *)
(***************************************************************************)
THEOREM RotationRestoresScan == OneWriter => (Spec => RotationClosesGap)
<1> SUFFICES ASSUME OneWriter PROVE Spec => RotationClosesGap
  OBVIOUS
<1> DEFINE Closes == \A p \in Procs : pc[p] = "shift" /\ pc'[p] = "open" =>
                       Gaps' = {} /\ Scanned' = Stored'
<1> DEFINE ScansAll == Gaps = {} => Scanned = Stored
<1>1. IInv => ScansAll
  BY NoGapScansAll DEF IInv
<1>2. IInv /\ ScansAll' /\ [Next]_vars => [Closes]_vars
  <2> SUFFICES ASSUME IInv, ScansAll', Next, NEW p \in Procs, pc[p] = "shift", pc'[p] = "open"
               PROVE  Gaps' = {} /\ Scanned' = Stored'
    OBVIOUS
  <2>1. PICK q \in Procs :
          \/ BeginAppend(q) \/ Exists(q) \/ Metadata(q) \/ Probe(q)
          \/ Shift(q) \/ ShiftActive(q) \/ Open(q) \/ Write(q) \/ Die(q)
    BY DEF Next
  <2>2. q = p
    BY DEF OneWriter
  <2>3. pc \in [Procs -> PCs]
    BY DEF IInv, Types
  <2>4. ShiftActive(p)
    <3>1. ~BeginAppend(p) /\ ~Exists(p) /\ ~Metadata(p) /\ ~Probe(p) /\ ~Open(p) /\ ~Write(p)
      BY DEF BeginAppend, Exists, Metadata, Probe, Open, Write
    <3>2. ~Shift(p)
      BY <2>3 DEF Shift, Goto
    <3>3. ~Die(p)
      BY <2>3 DEF Die, Goto
    <3> QED  BY <2>1, <2>2, <3>1, <3>2, <3>3
  <2>5. Gaps' = {}
    BY <2>4, ActiveShifted
  <2> QED  BY <2>5
<1>3. [][Closes]_vars => RotationClosesGap
  BY DEF RotationClosesGap
<1> QED  BY <1>1, <1>2, <1>3, Invariant, PTL DEF Spec

-----------------------------------------------------------------------------
(***************************************************************************)
(* What a death in the middle of a write may cost.  Half a record at the   *)
(* end of the active file is a debt: the next record written there is lost *)
(* for readers, once.  A file that is renamed takes its debt with it.      *)
(***************************************************************************)
EndsTorn(f) == Len(content[f]) > 0 /\ content[f][Len(content[f])] = Torn

Lost == acked \ Stored

Owed == IF file[0] # 0 /\ EndsTorn(file[0]) THEN 1 ELSE 0

TearsPaid ==
  /\ crashes \in Nat /\ IsFiniteSet(Lost)
  /\ Cardinality(Lost) + Owed <= crashes

\* Losing no more, owing no more.
LEMMA NoWorse ==
  ASSUME TearsPaid, Lost' \subseteq Lost, Owed' <= Owed, crashes' \in Nat, crashes' >= crashes
  PROVE  TearsPaid'
<1>1. IsFiniteSet(Lost') /\ Cardinality(Lost') <= Cardinality(Lost)
  BY FS_Subset DEF TearsPaid
<1>2. Cardinality(Lost) \in Nat /\ Cardinality(Lost') \in Nat
  BY <1>1, FS_CardinalityType DEF TearsPaid
<1>3. Owed \in Nat /\ Owed' \in Nat
  BY DEF Owed
<1> QED  BY <1>1, <1>2, <1>3 DEF TearsPaid

\* A step that leaves the files alone, or moves one to a free slot.
LEMMA SameFilesStored ==
  ASSUME UNCHANGED <<content, acked>>,
         \A n \in Occupied : \E m \in Occupied' : file'[m] = file[n]
  PROVE  Lost' \subseteq Lost
<1>1. \A f : RecordsIn(f)' = RecordsIn(f)
  BY DEF RecordsIn
<1>2. Stored \subseteq Stored'
  <2> SUFFICES ASSUME NEW r, r \in Stored PROVE r \in Stored'
    OBVIOUS
  <2>1. PICK n \in Occupied : r \in RecordsIn(file[n])
    BY DEF Stored
  <2>2. PICK m \in Occupied' : file'[m] = file[n]
    BY <2>1
  <2>3. r \in RecordsIn(file[m])'
    BY <2>1, <2>2 DEF RecordsIn
  <2> QED  BY <2>2, <2>3 DEF Stored
<1> QED  BY <1>2 DEF Lost

LEMMA DiskKeepsStored ==
  ASSUME UNCHANGED <<disk, acked>>
  PROVE  Lost' \subseteq Lost /\ Owed' = Owed
<1>1. file' = file /\ content' = content /\ acked' = acked
  BY DEF disk
<1>2. Occupied' = Occupied
  BY <1>1 DEF Occupied
<1>3. Lost' \subseteq Lost
  BY <1>1, <1>2, SameFilesStored
<1> QED  BY <1>1, <1>3 DEF Owed, EndsTorn

LEMMA RenameKeepsStored ==
  ASSUME Types, NEW a \in Slots, a + 1 \in Slots, file[a] # 0, file[a + 1] = 0,
         file' = Renamed(a, a + 1), UNCHANGED <<content, acked>>
  PROVE  Lost' \subseteq Lost /\ Owed' <= Owed
<1>0. a \in Nat /\ a # a + 1 /\ a + 1 # 0 /\ 0 \in Slots
  BY TraceConstantsOK DEF Slots
<1>1. \A n \in Slots : file'[n] = IF n = a + 1 THEN file[a]
                                  ELSE IF n = a THEN 0 ELSE file[n]
  BY <1>0 DEF Renamed, Types
<1>2. ASSUME NEW n \in Occupied PROVE \E m \in Occupied' : file'[m] = file[n]
  <2>1. CASE n = a
    <3>1. a + 1 \in Occupied' /\ file'[a + 1] = file[n]
      BY <1>1, <2>1 DEF Occupied
    <3> QED  BY <3>1
  <2>2. CASE n # a
    <3>1. n \in Occupied' /\ file'[n] = file[n]
      BY <1>1, <2>2 DEF Occupied
    <3> QED  BY <3>1
  <2> QED  BY <2>1, <2>2
<1>3. Lost' \subseteq Lost
  BY <1>2, SameFilesStored
<1>4. file'[0] = 0 \/ file'[0] = file[0]
  BY <1>0, <1>1
<1>5. Owed' <= Owed
  BY <1>4 DEF Owed, EndsTorn
<1> QED  BY <1>3, <1>5

LEMMA CreateKeepsStored ==
  ASSUME Types, file[0] = 0, content' = Append(content, <<>>),
         file' = [file EXCEPT ![0] = Len(content')], UNCHANGED acked
  PROVE  Lost' \subseteq Lost /\ Owed' <= Owed
<1>0. 0 \in Slots /\ Len(content) \in Nat
  BY TraceConstantsOK DEF Slots, Types
<1>1. /\ Len(content') = Len(content) + 1 /\ content'[Len(content) + 1] = <<>>
      /\ \A f \in Files : content'[f] = content[f]
  BY DEF Types, Files
<1>2. file'[0] = Len(content) + 1 /\ \A n \in Slots \ {0} : file'[n] = file[n]
  BY <1>0, <1>1 DEF Types
<1>3. ASSUME NEW n \in Occupied
      PROVE  n \in Occupied' /\ RecordsIn(file[n])' = RecordsIn(file[n])
  <2>1. n # 0 /\ n \in Slots /\ file[n] \in Files /\ file[n] # 0
    BY RecordsTyped DEF Occupied
  <2>2. file'[n] = file[n] /\ content'[file[n]] = content[file[n]]
    BY <1>1, <1>2, <2>1
  <2> QED  BY <2>1, <2>2 DEF RecordsIn, Occupied
<1>4. Stored \subseteq Stored'
  BY <1>3 DEF Stored
<1>5. Owed' = 0
  BY <1>1, <1>2 DEF Owed, EndsTorn
<1> QED  BY <1>4, <1>5 DEF Lost, Owed

\* Something at the end of a file leaves what readers found in it.
LEMMA AppendReads ==
  ASSUME Types, NEW f \in Files, NEW r \in Nat,
         content' = [content EXCEPT ![f] = Append(@, r)]
  PROVE  /\ \A g \in Files : g # f => RecordsIn(g)' = RecordsIn(g)
         /\ RecordsIn(f) \subseteq RecordsIn(f)'
         /\ r # Torn /\ ~EndsTorn(f) => r \in RecordsIn(f)'
         /\ EndsTorn(f)' <=> r = Torn
<1>1. /\ content[f] \in Seq(Nat) /\ Len(content[f]) \in Nat
      /\ \A g \in Files : content'[g] = IF g = f THEN Append(content[f], r) ELSE content[g]
  BY DEF Types, Files
<1> DEFINE n == Len(content[f])
<1>2. /\ Len(content'[f]) = n + 1 /\ content'[f][n + 1] = r
      /\ \A i \in 1..n : content'[f][i] = content[f][i]
  <2>1. content'[f] = Append(content[f], r)
    BY <1>1
  <2> QED  BY <1>1, <2>1
<1>3. \A g \in Files : g # f => RecordsIn(g)' = RecordsIn(g)
  BY <1>1 DEF RecordsIn
<1> DEFINE Good(c, j) == c[j] # Torn /\ (j > 1 => c[j - 1] # Torn)
<1>4. ASSUME NEW i \in 1..n, Good(content[f], i)
      PROVE  i \in 1..Len(content'[f]) /\ Good(content'[f], i)
  <2>1. i \in 1..(n + 1) /\ (i > 1 => i - 1 \in 1..n)
    BY <1>1
  <2> QED  BY <1>2, <1>4, <2>1
<1>5. RecordsIn(f) \subseteq RecordsIn(f)'
  <2> SUFFICES ASSUME NEW i \in 1..n, Good(content[f], i)
               PROVE  content[f][i] \in RecordsIn(f)'
    BY DEF RecordsIn
  <2>1. i \in 1..Len(content'[f]) /\ Good(content'[f], i) /\ content'[f][i] = content[f][i]
    BY <1>2, <1>4
  <2> QED  BY <2>1 DEF RecordsIn
<1>6. ASSUME r # Torn, ~EndsTorn(f) PROVE r \in RecordsIn(f)'
  <2>1. n > 0 => content[f][n] # Torn
    BY <1>6 DEF EndsTorn
  <2>2. n + 1 \in 1..Len(content'[f]) /\ (n + 1 > 1 => content'[f][n] # Torn)
    BY <1>1, <1>2, <2>1
  <2>3. (n + 1) - 1 = n
    BY <1>1
  <2>4. Good(content'[f], n + 1)
    BY <1>2, <1>6, <2>2, <2>3
  <2> QED  BY <1>2, <2>2, <2>4 DEF RecordsIn
<1>7. EndsTorn(f)' <=> r = Torn
  BY <1>1, <1>2 DEF EndsTorn
<1> QED  BY <1>3, <1>5, <1>6, <1>7

\* The record that pays a debt is the only one a write adds to the lost.
LEMMA WritePays ==
  ASSUME OneWriter, IInv, TearsPaid, NEW p \in Procs, Write(p)
  PROVE  TearsPaid'
<1>1. /\ UNCHANGED <<file, crashes>> /\ acked' = acked \cup {record[p]}
      /\ file[0] # 0 /\ fd[p] = file[0] /\ record[p] \in Nat /\ record[p] # Torn
      /\ content' = [content EXCEPT ![file[0]] = Append(@, record[p])]
  <2>1. pc[p] = "write" /\ UNCHANGED <<file, crashes>> /\ acked' = acked \cup {record[p]}
        /\ content' = [content EXCEPT ![fd[p]] = Append(@, record[p])]
    BY DEF Write
  <2>2. file[0] # 0 /\ fd[p] = file[0]
    BY <2>1 DEF IInv, OpenActive
  <2>3. record[p] \in Nat /\ record[p] # Torn
    <3>1. record[p] = begun /\ begun > 0
      BY <2>1 DEF IInv, Older
    <3>2. begun \in Nat
      BY DEF IInv, Types
    <3> QED  BY <3>1, <3>2 DEF Torn
  <2> QED  BY <2>1, <2>2, <2>3
<1>2. 0 \in Occupied /\ file[0] \in Files /\ Occupied' = Occupied
  BY <1>1, TraceConstantsOK, RecordsTyped DEF IInv, Slots, Occupied
<1>3. /\ \A g \in Files : g # file[0] => RecordsIn(g)' = RecordsIn(g)
      /\ RecordsIn(file[0]) \subseteq RecordsIn(file[0])'
      /\ ~EndsTorn(file[0]) => record[p] \in RecordsIn(file[0])'
      /\ ~EndsTorn(file[0])'
  <2>1. PICK f \in Files : f = file[0]
    BY <1>2
  <2>2. content' = [content EXCEPT ![f] = Append(@, record[p])] /\ file'[0] = f
    BY <1>1, <2>1
  <2>3. PICK r \in Nat : r = record[p]
    BY <1>1
  <2>4. /\ \A g \in Files : g # f => RecordsIn(g)' = RecordsIn(g)
        /\ RecordsIn(f) \subseteq RecordsIn(f)'
        /\ r # Torn /\ ~EndsTorn(f) => r \in RecordsIn(f)'
        /\ EndsTorn(f)' <=> r = Torn
    BY <2>2, <2>3, AppendReads DEF IInv
  <2>5. /\ RecordsIn(f)' = RecordsIn(file[0])' /\ RecordsIn(f) = RecordsIn(file[0])
        /\ EndsTorn(f)' = EndsTorn(file[0])' /\ EndsTorn(f) = EndsTorn(file[0])
    BY <2>1, <2>2 DEF RecordsIn, EndsTorn
  <2> QED  BY <1>1, <2>1, <2>3, <2>4, <2>5
<1>4. Stored \subseteq Stored' /\ (~EndsTorn(file[0]) => record[p] \in Stored')
  BY <1>1, <1>2, <1>3, RecordsTyped DEF IInv, Stored
<1>5. Owed' = 0
  BY <1>1, <1>3 DEF Owed
<1>6. CASE EndsTorn(file[0])
  <2>1. Owed = 1
    BY <1>1, <1>6 DEF Owed
  <2>2. Lost' \subseteq Lost \cup {record[p]}
    BY <1>1, <1>4 DEF Lost
  <2>3. /\ IsFiniteSet(Lost \cup {record[p]})
        /\ Cardinality(Lost \cup {record[p]}) <= Cardinality(Lost) + 1
        /\ Cardinality(Lost) \in Nat
    BY FS_AddElement, FS_CardinalityType DEF TearsPaid
  <2>4. /\ IsFiniteSet(Lost') /\ Cardinality(Lost') <= Cardinality(Lost \cup {record[p]})
        /\ Cardinality(Lost') \in Nat /\ Cardinality(Lost \cup {record[p]}) \in Nat
    BY <2>2, <2>3, FS_Subset, FS_CardinalityType
  <2> QED  BY <1>1, <1>5, <2>1, <2>3, <2>4 DEF TearsPaid
<1>7. CASE ~EndsTorn(file[0])
  <2>1. Lost' \subseteq Lost
    BY <1>1, <1>4, <1>7 DEF Lost
  <2> QED  BY <1>1, <1>5, <2>1, NoWorse DEF TearsPaid, Owed
<1> QED  BY <1>6, <1>7

LEMMA TearAdds ==
  ASSUME OneWriter, IInv, TearsPaid, NEW p \in Procs, Die(p)
  PROVE  TearsPaid'
<1>1. UNCHANGED <<file, acked>> /\ crashes' = crashes + 1 /\ crashes \in Nat
  BY DEF Die, TearsPaid
<1>2. CASE UNCHANGED content
  <2>1. Lost' \subseteq Lost /\ Owed' = Owed
    BY <1>1, <1>2, DiskKeepsStored DEF disk
  <2> QED  BY <1>1, <2>1, NoWorse DEF Owed
<1>3. CASE pc[p] = "write" /\ content' = [content EXCEPT ![fd[p]] = Append(@, Torn)]
  <2>1. file[0] # 0 /\ fd[p] = file[0] /\ file[0] \in Files
    BY <1>3, TraceConstantsOK DEF IInv, OpenActive, Types, Slots, Files
  <2>2. PICK f \in Files : f = file[0]
    BY <2>1
  <2>3. content' = [content EXCEPT ![f] = Append(@, Torn)] /\ Torn \in Nat
    BY <1>3, <2>1, <2>2 DEF Torn
  <2>4. /\ \A g \in Files : g # f => RecordsIn(g)' = RecordsIn(g)
        /\ RecordsIn(f) \subseteq RecordsIn(f)'
    BY <2>3, AppendReads DEF IInv
  <2>5. \A n \in Occupied : RecordsIn(file[n]) \subseteq RecordsIn(file[n])'
    <3> TAKE n \in Occupied
    <3>1. PICK g \in Files : g = file[n]
      BY RecordsTyped DEF IInv
    <3>2. RecordsIn(g) \subseteq RecordsIn(g)'
      BY <2>4
    <3>3. RecordsIn(g)' = RecordsIn(file[n])' /\ RecordsIn(g) = RecordsIn(file[n])
      BY <1>1, <3>1 DEF RecordsIn
    <3> QED  BY <3>2, <3>3
  <2>6. Occupied' = Occupied
    BY <1>1 DEF Occupied
  <2>7. Lost' \subseteq Lost
    BY <1>1, <2>5, <2>6 DEF Lost, Stored
  <2>8. IsFiniteSet(Lost') /\ Cardinality(Lost') <= Cardinality(Lost)
    BY <2>7, FS_Subset DEF TearsPaid
  <2>9. Cardinality(Lost) \in Nat /\ Cardinality(Lost') \in Nat
    BY <2>8, FS_CardinalityType DEF TearsPaid
  <2>10. Owed \in {0, 1} /\ Owed' \in {0, 1}
    BY DEF Owed
  <2> QED  BY <1>1, <2>8, <2>9, <2>10 DEF TearsPaid
<1> QED  BY <1>2, <1>3 DEF Die

LEMMA TearsInductive ==
  ASSUME OneWriter, IInv, TearsPaid, [Next]_vars
  PROVE  TearsPaid'
<1>0. crashes \in Nat /\ Owed <= Owed
  BY DEF TearsPaid, Owed
<1>1. ASSUME UNCHANGED <<disk, acked, crashes>> PROVE TearsPaid'
  <2>1. Lost' \subseteq Lost /\ Owed' = Owed
    BY <1>1, DiskKeepsStored
  <2> QED  BY <1>0, <1>1, <2>1, NoWorse DEF Owed
<1>2. CASE UNCHANGED vars
  BY <1>1, <1>2 DEF vars
<1>3. ASSUME NEW p \in Procs,
             BeginAppend(p) \/ Exists(p) \/ Metadata(p) \/ Probe(p)
      PROVE  TearsPaid'
  BY <1>1, <1>3 DEF BeginAppend, Exists, Metadata, Probe
<1>4. ASSUME NEW p \in Procs, Shift(p) PROVE TearsPaid'
  <2>1. CASE UNCHANGED <<file, content>>
    BY <1>1, <1>4, <2>1 DEF Shift, disk
  <2>2. CASE file[slot[p]] # 0 /\ file' = Renamed(slot[p], NextSlot(slot[p]))
    <3>1. PICK a \in Slots : a = slot[p]
      BY DEF IInv, Types
    <3>2. a + 1 \in Slots /\ file[a + 1] = 0 /\ UNCHANGED <<content, acked, crashes>>
      BY <1>4, <3>1, TraceConstantsOK DEF Shift, IInv, TargetFree, Slots
    <3>3. file[a] # 0 /\ file' = Renamed(a, a + 1)
      BY <2>2, <3>1 DEF NextSlot
    <3>4. Lost' \subseteq Lost /\ Owed' <= Owed
      BY <3>2, <3>3, RenameKeepsStored DEF IInv
    <3> QED  BY <1>0, <3>2, <3>4, NoWorse
  <2> QED  BY <1>4, <2>1, <2>2 DEF Shift
<1>5. ASSUME NEW p \in Procs, ShiftActive(p) PROVE TearsPaid'
  <2>1. CASE UNCHANGED <<file, content>>
    BY <1>1, <1>5, <2>1 DEF ShiftActive, disk
  <2>2. CASE file[0] # 0 /\ file' = Renamed(0, NextSlot(0))
    <3>1. 0 \in Slots /\ 0 + 1 \in Slots /\ file[0 + 1] = 0
          /\ UNCHANGED <<content, acked, crashes>>
      BY <1>5, TraceConstantsOK DEF ShiftActive, IInv, TargetFree, Slots
    <3>2. file' = Renamed(0, 0 + 1)
      BY <2>2 DEF NextSlot
    <3>3. Lost' \subseteq Lost /\ Owed' <= Owed
      BY <2>2, <3>1, <3>2, RenameKeepsStored DEF IInv
    <3> QED  BY <1>0, <3>1, <3>3, NoWorse
  <2> QED  BY <1>5, <2>1, <2>2 DEF ShiftActive
<1>6. ASSUME NEW p \in Procs, Open(p) PROVE TearsPaid'
  <2>1. CASE UNCHANGED disk
    BY <1>1, <1>6, <2>1 DEF Open
  <2>2. CASE /\ file[0] = 0 /\ content' = Append(content, <<>>)
             /\ file' = [file EXCEPT ![0] = Len(content')]
    <3>1. UNCHANGED <<acked, crashes>>
      BY <1>6 DEF Open
    <3>2. Lost' \subseteq Lost /\ Owed' <= Owed
      BY <2>2, <3>1, CreateKeepsStored DEF IInv
    <3> QED  BY <1>0, <3>1, <3>2, NoWorse
  <2> QED  BY <1>6, <2>1, <2>2 DEF Open
<1> QED  BY <1>2, <1>3, <1>4, <1>5, <1>6, WritePays, TearAdds DEF Next

(***************************************************************************)
(* However often a writer dies in the middle of a write, each death costs  *)
(* readers one acknowledged record at most: the one whose line it spoils.  *)
(***************************************************************************)
THEOREM OneRecordPerTear == OneWriter => (Spec => []OneLostPerTear)
<1> SUFFICES ASSUME OneWriter PROVE Spec => []OneLostPerTear
  OBVIOUS
<1>1. Init => TearsPaid
  <2> SUFFICES ASSUME Init PROVE TearsPaid
    OBVIOUS
  <2>1. Lost = {} /\ crashes = 0 /\ file[0] = 0
    BY TraceConstantsOK DEF Init, Lost, Slots
  <2> QED  BY <2>1, FS_EmptySet DEF TearsPaid, Owed
<1>2. IInv /\ TearsPaid /\ [Next]_vars => TearsPaid'
  BY TearsInductive
<1>3. TearsPaid => OneLostPerTear
  <2> SUFFICES ASSUME TearsPaid PROVE OneLostPerTear
    OBVIOUS
  <2>1. Cardinality(Lost) \in Nat /\ Owed \in {0, 1}
    BY FS_CardinalityType DEF TearsPaid, Owed
  <2> QED  BY <2>1 DEF TearsPaid, OneLostPerTear, Lost
<1> QED  BY <1>1, <1>2, <1>3, Invariant, PTL DEF Spec
=============================================================================
