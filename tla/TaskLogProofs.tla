--------------------------- MODULE TaskLogProofs ---------------------------
(***************************************************************************)
(* Proofs about TaskLog, for any number of records and readers: the        *)
(* offsets are true whatever fails, what is acknowledged can be read       *)
(* unless an append fails halfway, each such append costs one record at    *)
(* most, and a replay returns exactly what there is to read, all of it     *)
(* that could be read when it started.  The writers rest on the lock:      *)
(* between looking up the end of the file and the end of its line nobody   *)
(* else writes.  The readers, who take no lock, rest on the file only      *)
(* growing, and on stopping at the end of a line.                          *)
(***************************************************************************)
EXTENDS TaskLog, FiniteSetTheorems, WellFoundedInduction, TLAPS

Cells == Records \X {"head", "tail"}

\* The calls that hold the lock.
Inside == {"seeking", "writing", "torn", "written"}

Stages == {"locking", "seeking", "writing", "torn", "written", "acknowledged", "failed"}

\* One call appends at a time.
Exclusive ==
  /\ \A r \in Records : appending[r] \in Inside => place[r] = "in"
  /\ \A r, q \in Records : place[r] = "in" /\ place[q] = "in" => r = q

\* Where the line of a call begins, if the call has looked for it.
Begins(r) ==
  /\ appending[r] = "writing" => offsetOf[r] = Len(file)
  /\ appending[r] \in {"torn", "written", "acknowledged"} =>
       offsetOf[r] + 1 \in DOMAIN file /\ file[offsetOf[r] + 1] = <<r, "head">>

LogInv == /\ file \in Seq(Cells)
          /\ place \in [Records -> Lock!Places]
          /\ appending \in [Records -> Stages]
          /\ offsetOf \in [Records -> Nat]
          /\ Exclusive
          /\ \A r \in Records : Begins(r)

\* What appending a cell does.
LEMMA AppendCell ==
  ASSUME NEW s \in Seq(Cells), NEW cell \in Cells
  PROVE  /\ Append(s, cell) \in Seq(Cells)
         /\ Len(Append(s, cell)) = Len(s) + 1
         /\ DOMAIN Append(s, cell) = 1 .. Len(s) + 1
         /\ DOMAIN s = 1 .. Len(s) /\ Len(s) \in Nat
         /\ \A i \in DOMAIN s : Append(s, cell)[i] = s[i]
         /\ Append(s, cell)[Len(s) + 1] = cell
OBVIOUS

LEMMA InitInv == Init => LogInv
<1> SUFFICES ASSUME Init PROVE LogInv
  OBVIOUS
<1>1. /\ file \in Seq(Cells) /\ place \in [Records -> Lock!Places]
      /\ appending \in [Records -> Stages] /\ offsetOf \in [Records -> Nat]
  BY DEF Init, Lock!Init, Lock!Places, Stages
<1>2. \A r \in Records : appending[r] = "locking" /\ place[r] = "out"
  BY DEF Init, Lock!Init
<1>3. QED BY <1>1, <1>2 DEF LogInv, Exclusive, Begins, Inside

\* A step that leaves the log and the calls alone.
LEMMA ReaderStep ==
  ASSUME LogInv, UNCHANGED <<file, place, appending, offsetOf>>
  PROVE  LogInv'
  BY DEF LogInv, Exclusive, Begins, Inside

\* A write: the call holds the lock, so no other call looks at the end.
LEMMA WriteStep ==
  ASSUME LogInv, NEW r \in Records, NEW part \in {"head", "tail"}, NEW at \in Inside,
         \/ appending[r] = "writing" /\ part = "head" /\ at = "torn"
         \/ appending[r] = "torn" /\ part = "tail" /\ at = "written",
         Write(<<r, part>>), AppendAt(r, at), UNCHANGED <<place, offsetOf>>
  PROVE  LogInv'
<1>1. <<r, part>> \in Cells  BY DEF Cells
<1>2. file' = Append(file, <<r, part>>)  BY DEF Write
<1>3. /\ file' \in Seq(Cells) /\ Len(file') = Len(file) + 1 /\ Len(file) \in Nat
      /\ DOMAIN file = 1 .. Len(file) /\ DOMAIN file' = 1 .. Len(file) + 1
      /\ \A i \in DOMAIN file : file'[i] = file[i]
      /\ file'[Len(file) + 1] = <<r, part>>
  BY <1>1, <1>2, AppendCell DEF LogInv
<1>4. appending' \in [Records -> Stages] /\ appending'[r] = at
      /\ \A q \in Records \ {r} : appending'[q] = appending[q]
  BY DEF LogInv, AppendAt, Inside, Stages
<1>5. place[r] = "in"  BY DEF LogInv, Exclusive, Inside
<1>6. Exclusive'  BY <1>4, <1>5 DEF LogInv, Exclusive, Inside
<1>7. ASSUME NEW q \in Records PROVE Begins(q)'
  <2>1. CASE q = r
    BY <2>1, <1>3, <1>4 DEF LogInv, Begins
  <2>2. CASE q # r
    <3>1. appending[q] \notin Inside  BY <2>2, <1>5 DEF LogInv, Exclusive
    <3>2. QED BY <2>2, <3>1, <1>3, <1>4 DEF LogInv, Begins, Inside
  <2>3. QED BY <2>1, <2>2
<1>8. QED BY <1>3, <1>4, <1>6, <1>7 DEF LogInv

\* Another step of a call, which keeps the exclusion.
LEMMA CallStep ==
  ASSUME LogInv, NEW r \in Records, NEW p \in Lock!Places, NEW at \in Stages, NEW n \in Nat,
         UNCHANGED file, place' = [place EXCEPT ![r] = p], AppendAt(r, at),
         offsetOf' = [offsetOf EXCEPT ![r] = n],
         at \in Inside => p = "in",
         p = "in" => (place[r] = "in" \/ \A q \in Records : place[q] # "in"),
         at = "writing" => n = Len(file),
         at \in {"torn", "written", "acknowledged"} =>
           n = offsetOf[r] /\ appending[r] \in {"torn", "written", "acknowledged"}
  PROVE  LogInv'
<1>1. /\ place' \in [Records -> Lock!Places] /\ appending' \in [Records -> Stages]
      /\ offsetOf' \in [Records -> Nat]
      /\ place'[r] = p /\ appending'[r] = at /\ offsetOf'[r] = n
      /\ \A q \in Records \ {r} : /\ place'[q] = place[q]
                                   /\ appending'[q] = appending[q]
                                   /\ offsetOf'[q] = offsetOf[q]
  BY DEF LogInv, AppendAt
<1>2. Exclusive'
  BY <1>1 DEF LogInv, Exclusive
<1>3. ASSUME NEW q \in Records PROVE Begins(q)'
  <2>1. CASE q = r  BY <2>1, <1>1 DEF LogInv, Begins
  <2>2. CASE q # r  BY <2>2, <1>1 DEF LogInv, Begins
  <2>3. QED BY <2>1, <2>2
<1>4. QED BY <1>1, <1>2, <1>3 DEF LogInv

LEMMA NextInv == LogInv /\ [Next]_vars => LogInv'
<1> SUFFICES ASSUME LogInv, [Next]_vars PROVE LogInv'
  OBVIOUS
<1>0. /\ Len(file) \in Nat
      /\ \A q \in Records :
           /\ offsetOf[q] \in Nat /\ offsetOf = [offsetOf EXCEPT ![q] = offsetOf[q]]
           /\ appending = [appending EXCEPT ![q] = appending[q]] /\ appending[q] \in Stages
           /\ place = [place EXCEPT ![q] = place[q]] /\ place[q] \in Lock!Places
  BY DEF LogInv
<1>1. ASSUME NEW r \in Records, LockTask(r) PROVE LogInv'
  <2>1. place[r] = "out" /\ place' = [place EXCEPT ![r] = "waiting"] /\ UNCHANGED <<file, appending, offsetOf>>
    BY <1>1 DEF LockTask, Lock!Ask, Lock!Goes
  <2>2. appending[r] \notin Inside  BY <2>1 DEF LogInv, Exclusive
  <2>3. "waiting" \in Lock!Places  BY DEF Lock!Places
  <2>4. offsetOf' = [offsetOf EXCEPT ![r] = offsetOf[r]]  BY <2>1, <1>0
  <2>5. AppendAt(r, appending[r])  BY <2>1, <1>0 DEF AppendAt
  <2>6. appending[r] # "writing"  BY <2>2 DEF Inside
  <2>7. QED BY <1>0, <2>1, <2>2, <2>3, <2>4, <2>5, <2>6, CallStep
<1>2. ASSUME NEW r \in Records, Open(r) PROVE LogInv'
  <2>1. UNCHANGED file /\ offsetOf' = [offsetOf EXCEPT ![r] = offsetOf[r]]
    BY <1>0, <1>2 DEF Open
  <2>2. CASE Locked(r) /\ AppendAt(r, "seeking")
    <3>1. (\A q \in Records : place[q] # "in") /\ place' = [place EXCEPT ![r] = "in"]
      BY <2>2 DEF Locked, Lock!Enter, Lock!Goes
    <3>2. "in" \in Lock!Places /\ "seeking" \in Stages  BY DEF Lock!Places, Stages
    <3>3. QED BY <1>0, <2>1, <2>2, <3>1, <3>2, CallStep
  <2>3. CASE Lock!GiveUp(r) /\ AppendAt(r, "failed")
    <3>1. place' = [place EXCEPT ![r] = "left"]
      BY <2>3 DEF Lock!GiveUp, Lock!Goes
    <3>2. "left" \in Lock!Places /\ "failed" \in Stages /\ "failed" \notin Inside
      BY DEF Lock!Places, Stages, Inside
    <3>3. QED BY <1>0, <2>1, <2>3, <3>1, <3>2, CallStep
  <2>4. QED BY <1>2, <2>2, <2>3 DEF Open
<1>3. ASSUME NEW r \in Records, Seek(r) PROVE LogInv'
  <2>1. place[r] = "in"  BY <1>3 DEF Seek, LogInv, Exclusive, Inside
  <2>2. place' = [place EXCEPT ![r] = "in"]  BY <1>0, <1>3, <2>1 DEF Seek
  <2>3. "in" \in Lock!Places /\ "writing" \in Stages  BY DEF Lock!Places, Stages
  <2>4. QED BY <1>0, <1>3, <2>1, <2>2, <2>3, CallStep DEF Seek
<1>4. ASSUME NEW r \in Records, WriteHead(r) PROVE LogInv'
  <2>1. "head" \in {"head", "tail"} /\ "torn" \in Inside  BY DEF Inside
  <2>2. /\ appending[r] = "writing" /\ Write(<<r, "head">>) /\ AppendAt(r, "torn")
        /\ UNCHANGED <<place, offsetOf>>
    BY <1>4 DEF WriteHead
  <2>3. QED BY <2>1, <2>2, WriteStep
<1>5. ASSUME NEW r \in Records, WriteTail(r) PROVE LogInv'
  <2>1. "tail" \in {"head", "tail"} /\ "written" \in Inside  BY DEF Inside
  <2>2. QED BY <1>5, <2>1, WriteStep DEF WriteTail
<1>6. ASSUME NEW r \in Records, Fail(r) \/ Acknowledge(r) PROVE LogInv'
  <2>1. /\ place' = [place EXCEPT ![r] = "left"] /\ UNCHANGED file
        /\ offsetOf' = [offsetOf EXCEPT ![r] = offsetOf[r]]
    BY <1>0, <1>6 DEF Fail, Acknowledge, Lock!Leave, Lock!Goes
  <2>2. PICK at \in {"failed", "acknowledged"} :
          AppendAt(r, at) /\ (at = "acknowledged" => appending[r] = "written")
    BY <1>6 DEF Fail, Acknowledge
  <2>3. "left" \in Lock!Places /\ at \in Stages /\ at \notin Inside
    BY DEF Lock!Places, Stages, Inside
  <2>4. QED BY <1>0, <2>1, <2>2, <2>3, CallStep
<1>7. ASSUME NEW r \in Records, Crash(r) PROVE LogInv'
  <2>1. place' = [place EXCEPT ![r] = "dead"]
    BY <1>0, <1>7 DEF Crash, Lock!Die, LogInv
  <2>2. "dead" \in Lock!Places /\ "failed" \in Stages /\ "failed" \notin Inside
    BY DEF Lock!Places, Stages, Inside
  <2>3. QED BY <1>0, <1>7, <2>1, <2>2, CallStep DEF Crash
<1>8. ASSUME NEW d \in Readers, Start(d) \/ ReadStep(d) PROVE LogInv'
  BY <1>8, ReaderStep DEF Start, ReadStep, Page, ReadLine, PageEnds, TakeBatch, ReadExpires
<1>9. CASE UNCHANGED vars
  BY <1>9, ReaderStep DEF vars
<1>10. QED
  BY <1>1, <1>2, <1>3, <1>4, <1>5, <1>6, <1>7, <1>8, <1>9 DEF Next, AppendStep

\* AppendLog returns the offset where the line of its record begins, also when
\* other appends fail or are cut off (the offset is looked up before the write,
\* task_store.go:156).
THEOREM OffsetsAreTrue == SafeSpec => []OffsetsTrue
<1>1. LogInv => OffsetsTrue
  BY DEF LogInv, Begins, OffsetsTrue, Acknowledged
<1>2. QED
  BY InitInv, NextInv, <1>1, PTL DEF SafeSpec

-----------------------------------------------------------------------------
Healthy == ~FsMayFail /\ ~MayCrash

\* Without failures the file ends with a complete line, or with the head of one
\* that is being written.
EndsWhole(n) == n = 0 \/ (n \in DOMAIN file /\ file[n][2] = "tail")

WholeLines ==
  /\ (\A r \in Records : appending[r] # "torn") => EndsWhole(Len(file))
  /\ \A r \in Records : appending[r] = "torn" =>
       /\ EndsWhole(Len(file) - 1)
       /\ Len(file) \in DOMAIN file /\ file[Len(file)] = <<r, "head">>
  /\ \A r \in Records : appending[r] \in {"written", "acknowledged"} => Readable(r)

\* What can be read stays so when the file grows.
LEMMA StaysReadable ==
  ASSUME file \in Seq(Cells), NEW cell \in Cells, file' = Append(file, cell),
         NEW q \in Records, Readable(q)
  PROVE  Readable(q)'
<1>1. PICK m \in DOMAIN file : EndsAt(q, m)  BY DEF Readable
<1>2. /\ DOMAIN file = 1 .. Len(file) /\ DOMAIN file' = 1 .. Len(file) + 1 /\ Len(file) \in Nat
      /\ \A i \in DOMAIN file : file'[i] = file[i]
  BY AppendCell
<1>3. m \in DOMAIN file' /\ m - 1 \in DOMAIN file /\ m \in Int /\ (m # 2 => m - 2 \in DOMAIN file)
  BY <1>1, <1>2 DEF EndsAt
<1>4. EndsAt(q, m)'
  BY <1>1, <1>2, <1>3 DEF EndsAt
<1>5. QED BY <1>3, <1>4 DEF Readable

LEMMA WholeStays ==
  ASSUME WholeLines, NEW r \in Records, NEW at \in Stages, at # "torn", appending[r] # "torn",
         at \in {"written", "acknowledged"} => appending[r] \in {"written", "acknowledged"},
         appending \in [Records -> Stages], AppendAt(r, at), file' = file
  PROVE  WholeLines'
<1>1. appending'[r] = at /\ \A q \in Records \ {r} : appending'[q] = appending[q]
  BY DEF AppendAt
<1>2. \A q \in Records : (appending'[q] = "torn") <=> (appending[q] = "torn")
  BY <1>1
<1>3. \A q \in Records : appending'[q] \in {"written", "acknowledged"} =>
                            appending[q] \in {"written", "acknowledged"}
  BY <1>1
<1>4. QED BY <1>2, <1>3 DEF WholeLines, EndsWhole, Readable, EndsAt

LEMMA NextWhole ==
  ASSUME Healthy, LogInv, WholeLines, [Next]_vars
  PROVE  WholeLines'
<1> USE DEF LogInv
<1>1. ASSUME NEW r \in Records, Open(r) \/ Seek(r) \/ Acknowledge(r) PROVE WholeLines'
  <2>0. "seeking" \in Stages /\ "writing" \in Stages /\ "failed" \in Stages /\ "acknowledged" \in Stages
    BY DEF Stages
  <2>1. CASE Open(r)
    <3>1. place[r] = "waiting"
      BY <2>1 DEF Open, Locked, Lock!Enter, Lock!GiveUp, Lock!Goes
    <3>2. appending[r] \notin Inside  BY <3>1 DEF Exclusive
    <3>3. appending[r] # "torn"  BY <3>2 DEF Inside
    <3>4. QED BY <2>0, <2>1, <3>3, WholeStays DEF Open
  <2>2. CASE Seek(r)  BY <2>0, <2>2, WholeStays DEF Seek
  <2>3. CASE Acknowledge(r)  BY <2>0, <2>3, WholeStays DEF Acknowledge
  <2>4. QED BY <1>1, <2>1, <2>2, <2>3
<1>2. ASSUME NEW r \in Records, WriteHead(r) PROVE WholeLines'
  <2>1. <<r, "head">> \in Cells /\ file' = Append(file, <<r, "head">>)
    BY <1>2 DEF Cells, WriteHead, Write
  <2>2. /\ Len(file') = Len(file) + 1 /\ Len(file) \in Nat
        /\ DOMAIN file = 1 .. Len(file) /\ DOMAIN file' = 1 .. Len(file) + 1
        /\ \A i \in DOMAIN file : file'[i] = file[i]
        /\ file'[Len(file) + 1] = <<r, "head">>
    BY <2>1, AppendCell
  <2>3. /\ appending[r] = "writing" /\ appending'[r] = "torn"
        /\ \A q \in Records \ {r} : appending'[q] = appending[q]
    BY <1>2 DEF WriteHead, AppendAt
  <2>4. \A q \in Records \ {r} : appending[q] # "torn"
    BY <2>3 DEF Exclusive, Inside
  <2>5. EndsWhole(Len(file))  BY <2>3, <2>4 DEF WholeLines
  <2>6. EndsWhole(Len(file) - 1)'
    BY <2>2, <2>5 DEF EndsWhole
  <2>7. \A q \in Records : appending'[q] = "torn" => q = r
    BY <2>3, <2>4
  <2>8. ASSUME NEW q \in Records, appending'[q] \in {"written", "acknowledged"} PROVE Readable(q)'
    BY <2>1, <2>3, <2>8, StaysReadable DEF WholeLines
  <2>9. QED BY <2>2, <2>3, <2>6, <2>7, <2>8 DEF WholeLines
<1>3. ASSUME NEW r \in Records, WriteTail(r) PROVE WholeLines'
  <2>1. <<r, "tail">> \in Cells /\ file' = Append(file, <<r, "tail">>)
    BY <1>3 DEF Cells, WriteTail, Write
  <2>2. /\ Len(file') = Len(file) + 1 /\ Len(file) \in Nat
        /\ DOMAIN file = 1 .. Len(file) /\ DOMAIN file' = 1 .. Len(file) + 1
        /\ \A i \in DOMAIN file : file'[i] = file[i]
        /\ file'[Len(file) + 1] = <<r, "tail">>
    BY <2>1, AppendCell
  <2>3. /\ appending[r] = "torn" /\ appending'[r] = "written"
        /\ \A q \in Records \ {r} : appending'[q] = appending[q]
    BY <1>3 DEF WriteTail, AppendAt
  <2>4. \A q \in Records \ {r} : appending[q] # "torn"
    BY <2>3 DEF Exclusive, Inside
  <2>5. \A q \in Records : appending'[q] # "torn"
    BY <2>3, <2>4
  <2>6. EndsWhole(Len(file))'
    BY <2>2 DEF EndsWhole
  <2>7. /\ EndsWhole(Len(file) - 1)
        /\ Len(file) \in DOMAIN file /\ file[Len(file)] = <<r, "head">>
    BY <2>3 DEF WholeLines
  <2>8. ASSUME NEW m, m = Len(file) + 1 PROVE m \in DOMAIN file' /\ EndsAt(r, m)'
    <3>1. m \in DOMAIN file' /\ m - 1 = Len(file) /\ m - 1 \in DOMAIN file'
      BY <2>2, <2>7, <2>8
    <3>2. file'[m] = <<r, "tail">> /\ file'[m - 1] = <<r, "head">>
      BY <2>2, <2>7, <2>8, <3>1
    <3>3. m = 2 \/ (m - 2 \in DOMAIN file /\ file[m - 2][2] = "tail")
      BY <2>2, <2>7, <2>8 DEF EndsWhole
    <3>4. m = 2 \/ file'[m - 2][2] = "tail"
      BY <2>2, <3>3
    <3>5. QED BY <3>1, <3>2, <3>4 DEF EndsAt
  <2>9. Readable(r)'
    BY <2>8 DEF Readable
  <2>10. ASSUME NEW q \in Records, appending'[q] \in {"written", "acknowledged"} PROVE Readable(q)'
    BY <2>1, <2>3, <2>9, <2>10, StaysReadable DEF WholeLines
  <2>11. QED BY <2>5, <2>6, <2>10 DEF WholeLines
<1>4. ASSUME UNCHANGED <<file, appending>> PROVE WholeLines'
  BY <1>4 DEF WholeLines, EndsWhole, Readable, EndsAt
<1>5. QED
  BY <1>1, <1>2, <1>3, <1>4 DEF Next, AppendStep, LockTask, Fail, Crash, Healthy, vars, Start,
     ReadStep, Page, ReadLine, PageEnds, TakeBatch, ReadExpires

\* A record whose AppendLog has returned can be read, as long as no append fails
\* halfway.
THEOREM AckedStayReadable == ASSUME Healthy PROVE SafeSpec => []AckedReadable
<1>1. Init => WholeLines
  BY DEF Init, WholeLines, EndsWhole
<1>2. LogInv /\ WholeLines /\ [Next]_vars => WholeLines'
  BY NextWhole
<1>3. WholeLines => AckedReadable
  BY DEF WholeLines, AckedReadable, Acknowledged
<1>4. QED
  BY InitInv, NextInv, <1>1, <1>2, <1>3, PTL DEF SafeSpec

-----------------------------------------------------------------------------
(* Where the cells of a record are. *)

\* The head of a record is in the file once, where its call has looked up the
\* end; behind it is the tail, unless the append is under way or has failed.
LinesFit ==
  /\ \A r \in Records : offsetOf[r] <= Len(file)
  /\ \A r \in Records : \A i \in DOMAIN file : file[i] = <<r, "head">> =>
       i = offsetOf[r] + 1 /\ appending[r] \notin {"locking", "seeking", "writing"}
  /\ \A r \in Records : appending[r] = "torn" => Len(file) = offsetOf[r] + 1
  /\ \A r \in Records : appending[r] \in {"written", "acknowledged"} =>
       offsetOf[r] + 2 \in DOMAIN file /\ file[offsetOf[r] + 2] = <<r, "tail">>

\* A call that has not entered has done nothing.
Entering == \A r \in Records : place[r] \in {"out", "waiting"} => appending[r] = "locking"

LEMMA InitLines == Init => LinesFit /\ Entering
<1> SUFFICES ASSUME Init PROVE LinesFit /\ Entering  OBVIOUS
<1>1. file = <<>> /\ \A r \in Records : appending[r] = "locking" /\ offsetOf[r] = 0
  BY DEF Init
<1>2. QED BY <1>1 DEF LinesFit, Entering

\* A cell is written by the call whose line the file ends with, or begins.
LEMMA LinesWritten ==
  ASSUME LogInv, LinesFit, NEW r \in Records, NEW part \in {"head", "tail"}, NEW at \in Inside,
         \/ appending[r] = "writing" /\ part = "head" /\ at = "torn"
         \/ appending[r] = "torn" /\ part = "tail" /\ at = "written",
         Write(<<r, part>>), AppendAt(r, at), UNCHANGED <<place, offsetOf>>
  PROVE  LinesFit'
<1>1. <<r, part>> \in Cells /\ file' = Append(file, <<r, part>>)  BY DEF Cells, Write
<1>2. /\ Len(file') = Len(file) + 1 /\ Len(file) \in Nat
      /\ DOMAIN file = 1 .. Len(file) /\ DOMAIN file' = 1 .. Len(file) + 1
      /\ \A i \in DOMAIN file : file'[i] = file[i]
      /\ file'[Len(file) + 1] = <<r, part>>
  BY <1>1, AppendCell DEF LogInv
<1>3. appending'[r] = at /\ \A q \in Records \ {r} : appending'[q] = appending[q]
  BY DEF LogInv, AppendAt
<1>4. \A q \in Records : q # r => appending[q] \notin Inside
  BY DEF LogInv, Exclusive, Inside
<1>5. \A q \in Records : offsetOf[q] \in Nat /\ offsetOf'[q] = offsetOf[q]
  BY DEF LogInv
<1>6. ASSUME NEW q \in Records PROVE offsetOf'[q] <= Len(file')
  BY <1>2, <1>5 DEF LinesFit
<1>7. ASSUME NEW q \in Records, NEW i \in DOMAIN file', file'[i] = <<q, "head">>
      PROVE  i = offsetOf'[q] + 1 /\ appending'[q] \notin {"locking", "seeking", "writing"}
  <2>1. CASE i = Len(file) + 1
    <3>1. q = r /\ part = "head" /\ appending[r] = "writing" /\ at = "torn"  BY <2>1, <1>2, <1>7
    <3>2. QED BY <2>1, <3>1, <1>3, <1>5 DEF LogInv, Begins
  <2>2. CASE i \in DOMAIN file
    <3>1. i = offsetOf[q] + 1 /\ appending[q] \notin {"locking", "seeking", "writing"}
      BY <2>2, <1>2, <1>7 DEF LinesFit
    <3>2. at \in {"torn", "written"}  OBVIOUS
    <3>3. QED BY <3>1, <3>2, <1>3, <1>5
  <2>3. QED BY <2>1, <2>2, <1>2
<1>8. ASSUME NEW q \in Records, appending'[q] = "torn" PROVE Len(file') = offsetOf'[q] + 1
  <2>1. q = r  BY <1>3, <1>4, <1>8 DEF Inside
  <2>2. appending[r] = "writing"  BY <2>1, <1>3, <1>8
  <2>3. QED BY <2>1, <2>2, <1>2, <1>5 DEF LogInv, Begins
<1>9. ASSUME NEW q \in Records, appending'[q] \in {"written", "acknowledged"}
      PROVE  offsetOf'[q] + 2 \in DOMAIN file' /\ file'[offsetOf'[q] + 2] = <<q, "tail">>
  <2>1. CASE q = r
    <3>1. appending[r] = "torn" /\ part = "tail"  BY <2>1, <1>3, <1>9
    <3>2. Len(file) = offsetOf[r] + 1  BY <3>1 DEF LinesFit
    <3>3. QED BY <2>1, <3>1, <3>2, <1>2, <1>5
  <2>2. CASE q # r
    <3>1. offsetOf[q] + 2 \in DOMAIN file /\ file[offsetOf[q] + 2] = <<q, "tail">>
      BY <2>2, <1>3, <1>9 DEF LinesFit
    <3>2. QED BY <3>1, <1>2, <1>5
  <2>3. QED BY <2>1, <2>2
<1>10. QED BY <1>6, <1>7, <1>8, <1>9 DEF LinesFit

\* Another step of a call: it looks up the end, or goes on with what it has.
LEMMA LinesStay ==
  ASSUME LogInv, LinesFit, NEW r \in Records, NEW at \in Stages, NEW n \in Nat,
         UNCHANGED file, AppendAt(r, at), offsetOf' = [offsetOf EXCEPT ![r] = n],
         at # "torn", at \in {"locking", "seeking", "writing"} => appending[r] \in {"locking", "seeking", "writing"},
         \/ n = offsetOf[r]
         \/ n = Len(file) /\ appending[r] = "seeking" /\ at = "writing",
         at \in {"written", "acknowledged"} => appending[r] \in {"written", "acknowledged"}
  PROVE  LinesFit'
<1>1. /\ appending'[r] = at /\ offsetOf'[r] = n
      /\ \A q \in Records \ {r} : appending'[q] = appending[q] /\ offsetOf'[q] = offsetOf[q]
  BY DEF LogInv, AppendAt
<1>2. Len(file) \in Nat  BY DEF LogInv
<1>3. ASSUME NEW q \in Records
      PROVE  /\ offsetOf'[q] <= Len(file)
             /\ appending'[q] = "torn" => Len(file) = offsetOf'[q] + 1
             /\ appending'[q] \in {"written", "acknowledged"} =>
                  offsetOf'[q] + 2 \in DOMAIN file /\ file[offsetOf'[q] + 2] = <<q, "tail">>
  BY <1>1, <1>2 DEF LinesFit
<1>4. ASSUME NEW q \in Records, NEW i \in DOMAIN file, file[i] = <<q, "head">>
      PROVE  i = offsetOf'[q] + 1 /\ appending'[q] \notin {"locking", "seeking", "writing"}
  <2>1. i = offsetOf[q] + 1 /\ appending[q] \notin {"locking", "seeking", "writing"}
    BY <1>4 DEF LinesFit
  <2>2. QED BY <1>1, <2>1
<1>5. QED BY <1>3, <1>4 DEF LinesFit

LEMMA NextEntering == LogInv /\ Entering /\ [Next]_vars => Entering'
<1> SUFFICES ASSUME LogInv, Entering, [Next]_vars PROVE Entering'
  OBVIOUS
<1>1. ASSUME NEW r \in Records, NEW p \in Lock!Places, place' = [place EXCEPT ![r] = p],
             \A q \in Records \ {r} : appending'[q] = appending[q],
             p \in {"out", "waiting"} => appending'[r] = "locking"
      PROVE  Entering'
  BY <1>1 DEF LogInv, Entering
<1>2. "waiting" \in Lock!Places /\ "in" \in Lock!Places /\ "left" \in Lock!Places /\ "dead" \in Lock!Places
  BY DEF Lock!Places
<1>3. ASSUME NEW r \in Records, LockTask(r) PROVE Entering'
  BY <1>1, <1>2, <1>3 DEF LockTask, Lock!Ask, Lock!Goes, Entering
<1>4. ASSUME NEW r \in Records, Open(r) PROVE Entering'
  <2>1. \A q \in Records \ {r} : appending'[q] = appending[q]
    BY <1>4 DEF Open, AppendAt, LogInv
  <2>2. place' = [place EXCEPT ![r] = "in"] \/ place' = [place EXCEPT ![r] = "left"]
    BY <1>4 DEF Open, Locked, Lock!Enter, Lock!GiveUp, Lock!Goes
  <2>3. QED BY <1>1, <1>2, <2>1, <2>2
<1>5. ASSUME NEW r \in Records, Fail(r) \/ Acknowledge(r) \/ Crash(r) PROVE Entering'
  <2>1. \A q \in Records \ {r} : appending'[q] = appending[q]
    BY <1>5 DEF Fail, Acknowledge, Crash, AppendAt, LogInv
  <2>2. place' = [place EXCEPT ![r] = "dead"] \/ place' = [place EXCEPT ![r] = "left"]
    BY <1>5 DEF Fail, Acknowledge, Crash, Lock!Leave, Lock!Die, Lock!Goes, LogInv
  <2>3. QED BY <1>1, <1>2, <2>1, <2>2
<1>6. ASSUME NEW r \in Records, Seek(r) \/ WriteHead(r) \/ WriteTail(r) PROVE Entering'
  <2>1. place[r] = "in" /\ place' = place
    BY <1>6 DEF Seek, WriteHead, WriteTail, LogInv, Exclusive, Inside
  <2>2. \A q \in Records \ {r} : appending'[q] = appending[q]
    BY <1>6 DEF Seek, WriteHead, WriteTail, AppendAt, LogInv
  <2>3. QED BY <2>1, <2>2 DEF Entering
<1>7. CASE UNCHANGED <<place, appending>>
  BY <1>7 DEF Entering
<1>8. QED
  BY <1>3, <1>4, <1>5, <1>6, <1>7 DEF Next, AppendStep, vars, Start,
     ReadStep, Page, ReadLine, PageEnds, TakeBatch, ReadExpires

LEMMA NextLines == LogInv /\ Entering /\ LinesFit /\ [Next]_vars => LinesFit'
<1> SUFFICES ASSUME LogInv, Entering, LinesFit, [Next]_vars PROVE LinesFit'
  OBVIOUS
<1>0. /\ Len(file) \in Nat
      /\ \A q \in Records :
           /\ offsetOf[q] \in Nat /\ offsetOf = [offsetOf EXCEPT ![q] = offsetOf[q]]
           /\ appending[q] \in Stages
  BY DEF LogInv
<1>1. "seeking" \in Stages /\ "writing" \in Stages /\ "failed" \in Stages /\ "acknowledged" \in Stages
  BY DEF Stages
<1>2. ASSUME NEW r \in Records, Open(r) PROVE LinesFit'
  <2>1. place[r] = "waiting" /\ UNCHANGED <<file, offsetOf>>
    BY <1>2 DEF Open, Locked, Lock!Enter, Lock!GiveUp, Lock!Goes
  <2>2. CASE AppendAt(r, "failed")
    BY <2>1, <2>2, <1>0, <1>1, LinesStay
  <2>3. CASE AppendAt(r, "seeking")
    BY <2>1, <2>3, <1>0, <1>1, LinesStay DEF Entering
  <2>4. QED BY <1>2, <2>2, <2>3 DEF Open
<1>3. ASSUME NEW r \in Records, Seek(r) PROVE LinesFit'
  BY <1>3, <1>0, <1>1, LinesStay DEF Seek
<1>4. ASSUME NEW r \in Records, WriteHead(r) PROVE LinesFit'
  <2>1. "head" \in {"head", "tail"} /\ "torn" \in Inside  BY DEF Inside
  <2>2. QED BY <1>4, <2>1, LinesWritten DEF WriteHead
<1>5. ASSUME NEW r \in Records, WriteTail(r) PROVE LinesFit'
  <2>1. "tail" \in {"head", "tail"} /\ "written" \in Inside  BY DEF Inside
  <2>2. QED BY <1>5, <2>1, LinesWritten DEF WriteTail
<1>6. ASSUME NEW r \in Records, Fail(r) \/ Crash(r) \/ Acknowledge(r) PROVE LinesFit'
  <2>1. UNCHANGED <<file, offsetOf>>  BY <1>6 DEF Fail, Crash, Acknowledge
  <2>2. CASE AppendAt(r, "failed")  BY <2>1, <2>2, <1>0, <1>1, LinesStay
  <2>3. CASE AppendAt(r, "acknowledged") /\ appending[r] = "written"
    BY <2>1, <2>3, <1>0, <1>1, LinesStay
  <2>4. QED BY <1>6, <2>2, <2>3 DEF Fail, Crash, Acknowledge
<1>7. CASE UNCHANGED <<file, appending, offsetOf>>
  BY <1>7 DEF LinesFit
<1>8. QED
  BY <1>2, <1>3, <1>4, <1>5, <1>6, <1>7 DEF Next, AppendStep, LockTask, vars, Start,
     ReadStep, Page, ReadLine, PageEnds, TakeBatch, ReadExpires

-----------------------------------------------------------------------------
(* What a torn line costs. *)

Failed == {r \in Records : appending[r] = "failed"}
Lost == {r \in Acknowledged : ~Readable(r)}

\* The line before that of a lost record was torn by an append that failed.
LEMMA LostToTorn ==
  ASSUME LogInv, LinesFit, NEW r \in Lost
  PROVE  \E q \in Failed : offsetOf[q] + 1 = offsetOf[r]
<1> DEFINE n == offsetOf[r]
<1>1. r \in Records /\ appending[r] = "acknowledged" /\ ~Readable(r)
  BY DEF Lost, Acknowledged
<1>2. /\ n \in Nat /\ Len(file) \in Nat /\ DOMAIN file = 1 .. Len(file)
      /\ \A i \in DOMAIN file : file[i] \in Cells
  BY <1>1 DEF LogInv
<1>3. /\ n + 1 \in DOMAIN file /\ file[n + 1] = <<r, "head">>
      /\ n + 2 \in DOMAIN file /\ file[n + 2] = <<r, "tail">>
  BY <1>1 DEF LogInv, Begins, LinesFit
<1>4. n \in DOMAIN file /\ file[n][2] # "tail"
  <2>1. ~EndsAt(r, n + 2)  BY <1>1, <1>3 DEF Readable
  <2>2. (n + 2) - 1 = n + 1 /\ (n + 2) - 2 = n /\ (n # 0 => n \in DOMAIN file)
    BY <1>2, <1>3
  <2>3. n + 2 # 2 /\ file[n][2] # "tail"  BY <2>1, <2>2, <1>3 DEF EndsAt
  <2>4. QED BY <2>2, <2>3, <1>2
<1>5. PICK q \in Records : file[n] = <<q, "head">>
  BY <1>2, <1>4 DEF Cells
<1>6. n = offsetOf[q] + 1 /\ appending[q] \notin {"locking", "seeking", "writing"}
  BY <1>4, <1>5 DEF LinesFit
<1>7. appending[q] \in Stages /\ offsetOf[q] \in Nat  BY DEF LogInv
<1>8. appending[q] # "torn"  BY <1>2, <1>3, <1>6, <1>7 DEF LinesFit
<1>9. appending[q] \notin {"written", "acknowledged"}
  <2>1. SUFFICES ASSUME appending[q] \in {"written", "acknowledged"} PROVE FALSE
    OBVIOUS
  <2>2. file[offsetOf[q] + 2] = <<q, "tail">>  BY <2>1 DEF LinesFit
  <2>3. offsetOf[q] + 2 = n + 1  BY <1>6, <1>7
  <2>4. QED BY <2>2, <2>3, <1>3
<1>10. QED BY <1>6, <1>7, <1>8, <1>9 DEF Failed, Stages

LEMMA LossIsBounded == LogInv /\ LinesFit => LossBounded
<1> SUFFICES ASSUME LogInv, LinesFit PROVE Cardinality(Lost) <= Cardinality(Failed)
  BY DEF LossBounded, Lost, Failed
<1> DEFINE torn == [r \in Lost |-> CHOOSE q \in Failed : offsetOf[q] + 1 = offsetOf[r]]
<1>1. \A r \in Lost : torn[r] \in Failed /\ offsetOf[torn[r]] + 1 = offsetOf[r]
  BY LostToTorn
<1>2. torn \in [Lost -> Failed]  BY <1>1
<1>3. ASSUME NEW a \in Lost, NEW b \in Lost, torn[a] = torn[b] PROVE a = b
  <2>1. offsetOf[a] = offsetOf[b]  BY <1>1, <1>3
  <2>2. file[offsetOf[a] + 1] = <<a, "head">> /\ file[offsetOf[b] + 1] = <<b, "head">>
    BY DEF LogInv, Begins, Lost, Acknowledged
  <2>3. QED BY <2>1, <2>2
<1>4. torn \in Injection(Lost, Failed)
  <2> HIDE DEF torn
  <2>1. IsInjective(torn)  BY <1>2, <1>3 DEF IsInjective
  <2>2. QED BY <1>2, <2>1 DEF Injection
<1>5. IsFiniteSet(Failed)  BY RecordsAssumption, FS_Subset DEF Failed
<1>6. QED BY <1>4, <1>5, FS_Injection

\* Every append that fails, or whose process dies, in the middle of its line
\* costs at most one acknowledged record, the one that is written behind it:
\* AppendLog does not end a torn line before it appends (task_store.go:156-166).
THEOREM LossIsOnePerFailure == SafeSpec => []LossBounded
<1>1. LogInv /\ Entering /\ LinesFit /\ [Next]_vars => Entering' /\ LinesFit'
  BY NextEntering, NextLines
<1>2. QED BY InitInv, NextInv, InitLines, LossIsBounded, <1>1, PTL DEF SafeSpec

-----------------------------------------------------------------------------
(* What WithNew computes, one record of the batch at a time. *)

\* A set of naturals has a least member.
LEMMA Least == ASSUME NEW S \in SUBSET Nat, S # {} PROVE \E n \in S : \A m \in S : n <= m
<1> DEFINE R == {ss \in Nat \X Nat : ss[1] < ss[2]}
<1>1. IsWellFoundedOn(R, Nat)  BY NatLessThanWellFounded DEF OpToRel
<1>2. \A x, y \in Nat : <<y, x>> \notin R => x <= y  OBVIOUS
<1> HIDE DEF R
<1>3. PICK x \in S : \A y \in S : ~ (<<y, x>> \in R)  BY <1>1, WFMin
<1>4. QED BY <1>2, <1>3

\* The function add of WithNew.
Added(add, log, batch, n) ==
  add = [i \in 0 .. n |->
          IF i = 0 THEN log
          ELSE IF EventOf[batch[i]] \in Events(add[i - 1]) THEN add[i - 1]
          ELSE Append(add[i - 1], batch[i])]

LEMMA AddedExists ==
  ASSUME NEW log, NEW batch, NEW n \in Nat
  PROVE  \E add : Added(add, log, batch, n)
<1> DEFINE Bad == {k \in Nat : ~\E add : Added(add, log, batch, k)}
<1> SUFFICES ASSUME Bad # {} PROVE FALSE  OBVIOUS
<1>1. PICK k \in Bad : \A m \in Bad : k <= m
  <2> HIDE DEF Bad
  <2>1. Bad \in SUBSET Nat  BY DEF Bad
  <2>2. QED BY <2>1, Least
<1>2. k # 0
  <2>1. Added([i \in 0 .. 0 |-> log], log, batch, 0)  BY DEF Added
  <2>2. QED BY <2>1
<1>3. PICK add : Added(add, log, batch, k - 1)
  BY <1>1, <1>2
<1> DEFINE last == IF EventOf[batch[k]] \in Events(add[k - 1]) THEN add[k - 1]
                   ELSE Append(add[k - 1], batch[k])
           more == [i \in 0 .. k |-> IF i = k THEN last ELSE add[i]]
<1>4. \A i \in 0 .. k - 1 : more[i] = add[i]  BY <1>2
<1>5. more[k] = last  BY <1>2
<1>6. \A i \in 0 .. k - 1 : add[i] = IF i = 0 THEN log
          ELSE IF EventOf[batch[i]] \in Events(add[i - 1]) THEN add[i - 1]
          ELSE Append(add[i - 1], batch[i])
  BY <1>3 DEF Added
<1> HIDE DEF last
<1>7. \A i \in 0 .. k : more[i] = IF i = 0 THEN log
          ELSE IF EventOf[batch[i]] \in Events(more[i - 1]) THEN more[i - 1]
          ELSE Append(more[i - 1], batch[i])
  <2> TAKE i \in 0 .. k
  <2>1. CASE i = k
    <3>1. k - 1 \in 0 .. k - 1  BY <1>2
    <3>2. more[i - 1] = add[k - 1]  BY <2>1, <3>1, <1>4
    <3> HIDE DEF more
    <3>3. QED BY <2>1, <3>2, <1>2, <1>5 DEF last
  <2>2. CASE i # k
    <3>1. i \in 0 .. k - 1 /\ (i # 0 => i - 1 \in 0 .. k - 1)  BY <2>2
    <3>2. more[i] = add[i] /\ (i # 0 => more[i - 1] = add[i - 1])  BY <3>1, <1>4
    <3> HIDE DEF more
    <3>3. QED BY <3>1, <3>2, <1>6
  <2>3. QED BY <2>1, <2>2
<1>8. Added(more, log, batch, k)
  <2>1. more = [i \in 0 .. k |-> more[i]]  OBVIOUS
  <2> HIDE DEF more
  <2>2. QED BY <2>1, <1>7 DEF Added
<1>9. QED BY <1>8

\* Two batches that agree on their first n records add the same up to there.
LEMMA AddedAgree ==
  ASSUME NEW log, NEW a, NEW b, NEW f, NEW g, NEW n \in Nat, NEW m \in Nat, n <= m,
         Added(f, log, a, n), Added(g, log, b, m), \A i \in 1 .. n : a[i] = b[i]
  PROVE  \A i \in 0 .. n : f[i] = g[i]
<1> DEFINE Bad == {i \in 0 .. n : f[i] # g[i]}
<1> SUFFICES ASSUME Bad # {} PROVE FALSE  OBVIOUS
<1>1. PICK k \in Bad : \A j \in Bad : k <= j
  <2> HIDE DEF Bad
  <2>1. Bad \in SUBSET Nat  BY DEF Bad
  <2>2. QED BY <2>1, Least
<1>2. k \in 0 .. n /\ k \in 0 .. m  OBVIOUS
<1>3. /\ f[k] = IF k = 0 THEN log
                ELSE IF EventOf[a[k]] \in Events(f[k - 1]) THEN f[k - 1] ELSE Append(f[k - 1], a[k])
      /\ g[k] = IF k = 0 THEN log
                ELSE IF EventOf[b[k]] \in Events(g[k - 1]) THEN g[k - 1] ELSE Append(g[k - 1], b[k])
  BY <1>2 DEF Added
<1>4. k # 0  BY <1>3
<1>5. k - 1 \in 0 .. n /\ k - 1 < k /\ k \in 1 .. n  BY <1>2, <1>4
<1>6. f[k - 1] = g[k - 1]  BY <1>1, <1>5
<1>7. QED BY <1>3, <1>5, <1>6

\* WithNew is the last value of such a function.
LEMMA WithNewIs ==
  ASSUME NEW log, NEW batch, Len(batch) \in Nat
  PROVE  \E add : Added(add, log, batch, Len(batch)) /\ WithNew(log, batch) = add[Len(batch)]
<1> DEFINE add == CHOOSE add : Added(add, log, batch, Len(batch))
<1>1. Added(add, log, batch, Len(batch))  BY AddedExists
<1>2. WithNew(log, batch) = add[Len(batch)]  BY DEF WithNew, Added
<1>3. QED BY <1>1, <1>2

LEMMA WithNothing == ASSUME NEW log PROVE WithNew(log, <<>>) = log
<1>1. Len(<<>>) = 0  OBVIOUS
<1>2. PICK add : Added(add, log, <<>>, 0) /\ WithNew(log, <<>>) = add[0]
  BY <1>1, WithNewIs
<1>3. QED BY <1>2 DEF Added

LEMMA WithOneMore ==
  ASSUME NEW log, NEW batch \in Seq(Records), NEW r \in Records
  PROVE  WithNew(log, Append(batch, r)) =
           IF EventOf[r] \in Events(WithNew(log, batch)) THEN WithNew(log, batch)
           ELSE Append(WithNew(log, batch), r)
<1> DEFINE b == Append(batch, r)
           n == Len(batch)
<1>1. /\ n \in Nat /\ Len(b) = n + 1 /\ b[n + 1] = r /\ \A i \in 1 .. n : batch[i] = b[i]
  OBVIOUS
<1> HIDE DEF b
<1>2. PICK f : Added(f, log, batch, n) /\ WithNew(log, batch) = f[n]
  BY <1>1, WithNewIs
<1>3. PICK g : Added(g, log, b, n + 1) /\ WithNew(log, b) = g[n + 1]
  <2>1. Len(b) \in Nat  BY <1>1
  <2>2. QED BY <2>1, <1>1, WithNewIs
<1> HIDE DEF n
<1>4. \A i \in 0 .. n : f[i] = g[i]
  BY <1>1, <1>2, <1>3, AddedAgree
<1>5. f[n] = g[n]  BY <1>1, <1>4
<1>6. n + 1 \in 0 .. n + 1 /\ n + 1 # 0 /\ (n + 1) - 1 = n  BY <1>1
<1>7. g[n + 1] = IF EventOf[b[n + 1]] \in Events(g[n]) THEN g[n] ELSE Append(g[n], b[n + 1])
  BY <1>3, <1>6 DEF Added
<1>8. QED BY <1>1, <1>2, <1>3, <1>5, <1>7 DEF b

-----------------------------------------------------------------------------
(* What a reader has read. *)

\* The cell that ends the line of a record, if the record has a whole one.
EndOf(r) == offsetOf[r] + 2
Whole(r) == EndOf(r) \in DOMAIN file /\ EndsAt(r, EndOf(r))

LEMMA EndsOnce ==
  ASSUME LogInv, LinesFit, NEW r \in Records, NEW m \in DOMAIN file, EndsAt(r, m)
  PROVE  m = EndOf(r) /\ Whole(r)
<1>1. DOMAIN file = 1 .. Len(file) /\ Len(file) \in Nat /\ offsetOf[r] \in Nat
  BY DEF LogInv
<1>2. m - 1 \in DOMAIN file /\ file[m - 1] = <<r, "head">>  BY DEF EndsAt
<1>3. m - 1 = offsetOf[r] + 1  BY <1>2 DEF LinesFit
<1>4. m = EndOf(r)  BY <1>1, <1>3 DEF EndOf
<1>5. QED BY <1>4 DEF Whole

LEMMA WholeReadable ==
  ASSUME LogInv, LinesFit, NEW r \in Records
  PROVE  Readable(r) <=> Whole(r)
  BY EndsOnce DEF Readable, Whole

\* Two records end at different cells.
LEMMA EndsApart ==
  ASSUME LogInv, NEW r \in Records, NEW q \in Records, Whole(r), Whole(q), EndOf(r) = EndOf(q)
  PROVE  r = q
  BY DEF Whole, EndsAt

\* The records that can be read up to cell n.
Upto(n) == {r \in Records : Whole(r) /\ EndOf(r) <= n}

\* A log has the first of each event id of them, in the order of the file.
LogFits(log, n) ==
  /\ log \in Seq(Records)
  /\ \A i \in 1 .. Len(log) :
       /\ log[i] \in Upto(n)
       /\ \A q \in Upto(n) : EventOf[q] = EventOf[log[i]] => EndOf(log[i]) <= EndOf(q)
  /\ \A q \in Upto(n) : \E i \in 1 .. Len(log) : EventOf[log[i]] = EventOf[q]
  /\ \A i, j \in 1 .. Len(log) : i < j => EndOf(log[i]) < EndOf(log[j])

\* What the reader returns if it stops here.
LogOf(s) == WithNew(s.replayed, s.batch)

Readings == [at : {"idle", "page", "lines", "batch", "done", "failed"},
             offset : Nat, next : Nat, batch : Seq(Records), replayed : Seq(Records)]

ReaderFits(s) ==
  /\ s \in Readings
  /\ EndsWhole(s.next) /\ s.offset <= s.next
  /\ s.at \notin {"lines", "batch"} => s.next = s.offset
  /\ s.batch # <<>> => s.offset < s.next
  /\ LogFits(LogOf(s), s.next)

ReadersFit == reader \in [Readers -> Readings] /\ \A d \in Readers : ReaderFits(reader[d])

\* Nothing that can be read is lost or moved.
Grows ==
  /\ Len(file') \in Nat /\ DOMAIN file' = 1 .. Len(file') /\ Len(file) <= Len(file')
  /\ \A i \in DOMAIN file : file'[i] = file[i]
  /\ \A r \in Records : offsetOf'[r] \in Nat
  /\ \A r \in Records : appending[r] \notin {"locking", "seeking", "writing"} => offsetOf'[r] = offsetOf[r]

LEMMA UptoStays ==
  ASSUME LogInv, LinesFit, Grows, NEW n \in Nat, n <= Len(file)
  PROVE  /\ Upto(n)' = Upto(n)
         /\ \A r \in Upto(n) : EndOf(r)' = EndOf(r)
<1>1. /\ DOMAIN file = 1 .. Len(file) /\ Len(file) \in Nat
      /\ DOMAIN file' = 1 .. Len(file') /\ Len(file') \in Nat /\ Len(file) <= Len(file')
      /\ \A i \in DOMAIN file : file'[i] = file[i] /\ i \in DOMAIN file'
  BY DEF Grows, LogInv
<1>2. ASSUME NEW r \in Records, NEW m \in DOMAIN file PROVE EndsAt(r, m) <=> EndsAt(r, m)'
  <2>1. m - 1 \in DOMAIN file <=> m - 1 \in DOMAIN file'  BY <1>1
  <2>2. m - 1 \in DOMAIN file => m = 2 \/ m - 2 \in DOMAIN file  BY <1>1
  <2>3. QED BY <1>1, <2>1, <2>2 DEF EndsAt
<1>3. ASSUME NEW r \in Upto(n) PROVE r \in Upto(n)' /\ EndOf(r)' = EndOf(r)
  <2>1. r \in Records /\ EndOf(r) \in DOMAIN file /\ EndsAt(r, EndOf(r)) /\ EndOf(r) <= n
    BY DEF Upto, Whole
  <2>2. EndOf(r) - 1 \in DOMAIN file /\ file[EndOf(r) - 1] = <<r, "head">>  BY <2>1 DEF EndsAt
  <2>3. offsetOf'[r] = offsetOf[r]  BY <2>1, <2>2 DEF LinesFit, Grows
  <2>4. EndOf(r)' = EndOf(r)  BY <2>3 DEF EndOf
  <2>5. EndsAt(r, EndOf(r))'  BY <2>1, <2>4, <1>2
  <2>6. QED BY <2>1, <2>4, <2>5, <1>1 DEF Upto, Whole
<1>4. ASSUME NEW r \in Upto(n)' PROVE r \in Upto(n)
  <2>1. r \in Records /\ EndOf(r)' \in DOMAIN file' /\ EndsAt(r, EndOf(r))' /\ EndOf(r)' <= n
    BY DEF Upto, Whole
  <2>2. EndOf(r)' \in DOMAIN file  BY <2>1, <1>1
  <2>3. \A m \in DOMAIN file : m = EndOf(r)' => EndsAt(r, m)
    <3> TAKE m \in DOMAIN file
    <3>1. HAVE m = EndOf(r)'
    <3>2. EndsAt(r, m)'  BY <2>1, <3>1 DEF EndsAt
    <3>3. QED BY <2>1, <3>2, <1>2
  <2>4. PICK m \in DOMAIN file : m = EndOf(r)' /\ EndsAt(r, m)  BY <2>2, <2>3
  <2>5. m = EndOf(r) /\ Whole(r)  BY <2>1, <2>4, EndsOnce
  <2>6. QED BY <2>1, <2>4, <2>5 DEF Upto
<1>5. QED BY <1>3, <1>4

LEMMA LogStays ==
  ASSUME NEW log, NEW n, LogFits(log, n), Upto(n)' = Upto(n),
         \A r \in Upto(n) : EndOf(r)' = EndOf(r)
  PROVE  LogFits(log, n)'
<1>1. \A i \in 1 .. Len(log) : log[i] \in Upto(n) /\ EndOf(log[i])' = EndOf(log[i])
  BY DEF LogFits
<1>2. QED BY <1>1 DEF LogFits

LEMMA FitsStay ==
  ASSUME LogInv, LinesFit, Grows, NEW s, ReaderFits(s)
  PROVE  ReaderFits(s)'
<1>1. s.next \in Nat /\ s.next <= Len(file)
  BY DEF ReaderFits, Readings, EndsWhole, LogInv
<1>2. /\ Upto(s.next)' = Upto(s.next)
      /\ \A r \in Upto(s.next) : EndOf(r)' = EndOf(r)
  BY <1>1, UptoStays
<1>3. EndsWhole(s.next)'
  <2>1. DOMAIN file \subseteq DOMAIN file'  BY DEF Grows, LogInv
  <2>2. QED BY <2>1 DEF Grows, EndsWhole, ReaderFits
<1>4. LogFits(LogOf(s), s.next)'
  BY <1>2, LogStays DEF ReaderFits, LogOf, WithNew, Events
<1>5. QED BY <1>3, <1>4 DEF ReaderFits

\* A line adds its record to what can be read up to its end, if it decodes.
LEMMA LineAdds ==
  ASSUME LogInv, LinesFit, NEW n \in Nat, EndsWhole(n), NEW m \in DOMAIN file, Line(n, m)
  PROVE  /\ n < m /\ EndsWhole(m)
         /\ Decodes(n, m) => /\ file[m][1] \in Records /\ EndOf(file[m][1]) = m
                             /\ Upto(m) = Upto(n) \cup {file[m][1]}
         /\ ~Decodes(n, m) => Upto(m) = Upto(n)
<1>1. /\ DOMAIN file = 1 .. Len(file) /\ Len(file) \in Nat
      /\ \A i \in DOMAIN file : file[i] \in Cells
      /\ \A r \in Records : offsetOf[r] \in Nat
  BY DEF LogInv
<1>2. /\ n < m /\ m \in Nat /\ file[m][2] = "tail"
      /\ \A i \in n + 1 .. m - 1 : file[i][2] = "head"
  BY <1>1 DEF Line
<1>3. EndsWhole(m)  BY <1>2 DEF EndsWhole
<1>4. ASSUME NEW r \in Records, Whole(r), EndOf(r) <= m, ~(EndOf(r) <= n)
      PROVE  Decodes(n, m) /\ r = file[m][1]
  <2>1. /\ EndOf(r) \in DOMAIN file /\ file[EndOf(r)] = <<r, "tail">>
        /\ EndOf(r) - 1 \in DOMAIN file /\ file[EndOf(r) - 1] = <<r, "head">>
        /\ EndOf(r) = 2 \/ file[EndOf(r) - 2][2] = "tail"
    BY <1>4 DEF Whole, EndsAt
  <2>2. EndOf(r) \in n + 1 .. m  BY <1>1, <1>4, <2>1
  <2>3. EndOf(r) = m
    <3>1. SUFFICES ASSUME EndOf(r) # m PROVE FALSE  OBVIOUS
    <3>2. EndOf(r) \in n + 1 .. m - 1  BY <2>2, <3>1, <1>2
    <3>3. file[EndOf(r)][2] = "head"  BY <1>2, <3>2
    <3>4. QED BY <2>1, <3>3
  <2>4. n # m - 1
    <3>1. SUFFICES ASSUME n = m - 1 PROVE FALSE  OBVIOUS
    <3>2. n \in DOMAIN file /\ file[n] = <<r, "head">>  BY <2>1, <2>3, <3>1
    <3>3. file[n][2] = "tail"  BY <1>1, <3>2 DEF EndsWhole
    <3>4. QED BY <3>2, <3>3
  <2>5. n = m - 2
    <3>1. SUFFICES ASSUME n # m - 2 PROVE FALSE  OBVIOUS
    <3>2. m - 2 \in n + 1 .. m - 1 /\ m # 2  BY <1>2, <2>4, <3>1
    <3>3. file[m - 2][2] = "head"  BY <1>2, <3>2
    <3>4. QED BY <2>1, <2>3, <3>2, <3>3
  <2>6. n + 1 = m - 1 /\ m = n + 2  BY <2>5, <1>2
  <2>7. file[m] = <<r, "tail">> /\ file[n + 1] = <<r, "head">>  BY <2>1, <2>3, <2>6
  <2>8. QED BY <2>6, <2>7 DEF Decodes
<1>5. ASSUME Decodes(n, m)
      PROVE  file[m][1] \in Records /\ EndOf(file[m][1]) = m /\ Whole(file[m][1])
  <2>1. PICK r \in Records : file[m] = <<r, "tail">>  BY <1>1, <1>2 DEF Cells
  <2>2. m = n + 2 /\ file[n + 1][1] = r  BY <1>5, <2>1 DEF Decodes
  <2>3. n + 1 \in DOMAIN file /\ n + 1 \in n + 1 .. m - 1  BY <1>1, <1>2, <2>2
  <2>4. file[n + 1] = <<r, "head">>  BY <1>1, <1>2, <2>2, <2>3 DEF Cells
  <2>5. m - 1 = n + 1 /\ m - 2 = n  BY <2>2
  <2>6. m = 2 \/ file[m - 2][2] = "tail"  BY <2>2, <2>5 DEF EndsWhole
  <2>7. EndsAt(r, m)  BY <2>1, <2>3, <2>4, <2>5, <2>6 DEF EndsAt
  <2>8. QED BY <2>1, <2>7, EndsOnce
<1>6. \A r \in Records : EndOf(r) \in Nat  BY <1>1 DEF EndOf
<1>7. Decodes(n, m) => Upto(m) = Upto(n) \cup {file[m][1]}
  <2>1. SUFFICES ASSUME Decodes(n, m) PROVE Upto(m) = Upto(n) \cup {file[m][1]}  OBVIOUS
  <2>2. \A r \in Upto(n) : r \in Upto(m)  BY <1>2, <1>6 DEF Upto
  <2>3. file[m][1] \in Upto(m)  BY <2>1, <1>5, <1>2 DEF Upto
  <2>4. \A r \in Upto(m) : r \in Upto(n) \/ r = file[m][1]  BY <1>4 DEF Upto
  <2>5. QED BY <2>2, <2>3, <2>4
<1>8. ~Decodes(n, m) => Upto(m) = Upto(n)
  <2>1. SUFFICES ASSUME ~Decodes(n, m) PROVE Upto(m) = Upto(n)  OBVIOUS
  <2>2. \A r \in Upto(n) : r \in Upto(m)  BY <1>2, <1>6 DEF Upto
  <2>3. \A r \in Upto(m) : r \in Upto(n)  BY <1>4, <2>1 DEF Upto
  <2>4. QED BY <2>2, <2>3
<1>9. QED BY <1>2, <1>3, <1>5, <1>7, <1>8

LEMMA LogTakes ==
  ASSUME LogInv, NEW log, NEW n \in Nat, NEW m \in Nat, n < m, LogFits(log, n),
         NEW r \in Records, EndOf(r) = m, Upto(m) = Upto(n) \cup {r}
  PROVE  LogFits(IF EventOf[r] \in Events(log) THEN log ELSE Append(log, r), m)
<1>1. /\ log \in Seq(Records) /\ DOMAIN log = 1 .. Len(log) /\ Len(log) \in Nat
      /\ \A q \in Records : EndOf(q) \in Nat
      /\ \A q \in Upto(n) : q \in Records /\ EndOf(q) <= n /\ EndOf(q) < m
  <2>1. \A q \in Records : EndOf(q) \in Nat  BY DEF LogInv, EndOf
  <2>2. QED BY <2>1 DEF LogFits, Upto
<1>2. CASE EventOf[r] \in Events(log)
  <2>1. PICK i \in 1 .. Len(log) : EventOf[log[i]] = EventOf[r]  BY <1>1, <1>2 DEF Events
  <2>2. \A j \in 1 .. Len(log) : EndOf(log[j]) <= EndOf(r)  BY <1>1 DEF LogFits
  <2>3. QED BY <1>1, <1>2, <2>1, <2>2 DEF LogFits
<1>3. CASE EventOf[r] \notin Events(log)
  <2> DEFINE more == Append(log, r)
  <2>1. /\ more \in Seq(Records) /\ Len(more) = Len(log) + 1 /\ more[Len(log) + 1] = r
        /\ \A i \in 1 .. Len(log) : more[i] = log[i]
    BY <1>1
  <2> HIDE DEF more
  <2>2. \A i \in 1 .. Len(log) : EventOf[log[i]] # EventOf[r]  BY <1>1, <1>3 DEF Events
  <2>3. \A q \in Upto(n) : EventOf[q] # EventOf[r]  BY <2>2 DEF LogFits
  <2>4. ASSUME NEW i \in 1 .. Len(more)
        PROVE  /\ more[i] \in Upto(m)
               /\ \A q \in Upto(m) : EventOf[q] = EventOf[more[i]] => EndOf(more[i]) <= EndOf(q)
    <3>1. CASE i = Len(log) + 1
      <4>1. more[i] = r  BY <3>1, <2>1
      <4>2. r \in Upto(m)  OBVIOUS
      <4>3. \A q \in Upto(m) : EventOf[q] = EventOf[r] => q = r  BY <2>3
      <4>4. QED BY <4>1, <4>2, <4>3, <1>1
    <3>2. CASE i \in 1 .. Len(log)
      <4>1. more[i] = log[i] /\ log[i] \in Upto(n)  BY <3>2, <2>1 DEF LogFits
      <4>2. \A q \in Upto(n) : EventOf[q] = EventOf[log[i]] => EndOf(log[i]) <= EndOf(q)
        BY <3>2 DEF LogFits
      <4>3. EventOf[r] # EventOf[log[i]]  BY <3>2, <2>2
      <4>4. QED BY <4>1, <4>2, <4>3
    <3>3. QED BY <3>1, <3>2, <2>1, <1>1
  <2>5. ASSUME NEW q \in Upto(m) PROVE \E i \in 1 .. Len(more) : EventOf[more[i]] = EventOf[q]
    <3>1. CASE q = r  BY <3>1, <2>1, <1>1
    <3>2. CASE q \in Upto(n)
      <4>1. PICK i \in 1 .. Len(log) : EventOf[log[i]] = EventOf[q]  BY <3>2 DEF LogFits
      <4>2. i \in 1 .. Len(more) /\ more[i] = log[i]  BY <2>1, <1>1
      <4>3. QED BY <4>1, <4>2
    <3>3. QED BY <3>1, <3>2
  <2>6. ASSUME NEW i \in 1 .. Len(more), NEW j \in 1 .. Len(more), i < j
        PROVE  EndOf(more[i]) < EndOf(more[j])
    <3>1. i \in 1 .. Len(log) /\ more[i] = log[i] /\ log[i] \in Upto(n)
      BY <2>1, <2>6, <1>1 DEF LogFits
    <3>2. CASE j = Len(log) + 1  BY <3>1, <3>2, <2>1, <1>1
    <3>3. CASE j \in 1 .. Len(log)  BY <3>1, <3>3, <2>1, <2>6 DEF LogFits
    <3>4. QED BY <3>2, <3>3, <2>1, <1>1
  <2>7. LogFits(more, m)  BY <2>1, <2>4, <2>5, <2>6 DEF LogFits
  <2>8. QED BY <1>3, <2>7 DEF more
<1>4. QED BY <1>2, <1>3

\* Each step of a reader keeps what it has right.
LEMMA LineFits ==
  ASSUME LogInv, LinesFit, NEW s, ReaderFits(s), s.at = "lines", NEW m \in DOMAIN file, Line(s.next, m)
  PROVE  ReaderFits([s EXCEPT !.next = m,
                              !.batch = IF Decodes(s.next, m) THEN Append(@, file[m][1]) ELSE @])
<1>1. /\ s \in Readings /\ s.next \in Nat /\ s.offset \in Nat /\ s.batch \in Seq(Records)
      /\ s.offset <= s.next /\ LogFits(LogOf(s), s.next) /\ EndsWhole(s.next)
  BY DEF ReaderFits, Readings
<1>2. m \in Nat /\ m = m + 0  BY DEF LogInv
<1>3. /\ s.next < m /\ EndsWhole(m)
      /\ Decodes(s.next, m) => /\ file[m][1] \in Records /\ EndOf(file[m][1]) = m
                               /\ Upto(m) = Upto(s.next) \cup {file[m][1]}
      /\ ~Decodes(s.next, m) => Upto(m) = Upto(s.next)
  BY <1>1, LineAdds
<1>4. CASE Decodes(s.next, m)
  <2>1. PICK r \in Records : r = file[m][1]  BY <1>3, <1>4
  <2>2. PICK b \in Seq(Records) : b = Append(s.batch, r)
    <3>1. PICK a \in Seq(Records) : a = s.batch  BY <1>1
    <3>2. Append(a, r) \in Seq(Records)  OBVIOUS
    <3>3. QED BY <3>1, <3>2
  <2>3. WithNew(s.replayed, b) = IF EventOf[r] \in Events(LogOf(s)) THEN LogOf(s) ELSE Append(LogOf(s), r)
    BY <1>1, <2>2, WithOneMore DEF LogOf
  <2>4. LogFits(WithNew(s.replayed, b), m)
    BY <1>1, <1>2, <1>3, <1>4, <2>1, <2>3, LogTakes
  <2> DEFINE u == [s EXCEPT !.next = m, !.batch = b]
  <2>5. ReaderFits(u)
    <3>1. u \in Readings /\ u.next = m /\ u.batch = b
          /\ u.replayed = s.replayed /\ u.at = "lines" /\ u.offset = s.offset
      BY <1>1, <1>2 DEF Readings
    <3> HIDE DEF u
    <3>2. u.offset <= u.next /\ u.offset < u.next  BY <1>1, <1>2, <1>3, <3>1
    <3>3. LogFits(LogOf(u), m)  BY <2>4, <3>1 DEF LogOf
    <3>4. QED BY <1>3, <3>1, <3>2, <3>3 DEF ReaderFits
  <2>6. QED BY <1>4, <2>1, <2>2, <2>5
<1>5. CASE ~Decodes(s.next, m)
  <2> DEFINE u == [s EXCEPT !.next = m, !.batch = @]
  <2>2. u \in Readings /\ u.next = m /\ u.batch = s.batch
        /\ u.replayed = s.replayed /\ u.at = s.at /\ u.offset = s.offset
    BY <1>1, <1>2 DEF Readings
  <2>3. LogOf(u) = LogOf(s)  BY <2>2 DEF LogOf
  <2>4. LogFits(LogOf(u), m)
    BY <1>1, <1>3, <1>5, <2>3 DEF LogFits
  <2>5. ReaderFits(u)
    <3> HIDE DEF u
    <3>1. u.offset <= u.next /\ u.offset < u.next  BY <1>1, <1>2, <1>3, <2>2
    <3>2. QED BY <1>3, <2>2, <2>4, <3>1 DEF ReaderFits
  <2>6. QED BY <1>5, <2>5
<1>6. QED BY <1>4, <1>5

LEMMA LogGrows == LogInv /\ LogInv' /\ [Next]_vars => Grows
<1> SUFFICES ASSUME LogInv, LogInv', [Next]_vars PROVE Grows
  OBVIOUS
<1>1. /\ Len(file) \in Nat /\ DOMAIN file = 1 .. Len(file)
      /\ Len(file') \in Nat /\ DOMAIN file' = 1 .. Len(file')
      /\ \A r \in Records : offsetOf'[r] \in Nat
  BY DEF LogInv
<1>2. ASSUME NEW r \in Records, WriteHead(r) \/ WriteTail(r) PROVE Grows
  <2>1. PICK cell \in Cells : file' = Append(file, cell)
    BY <1>2 DEF WriteHead, WriteTail, Write, Cells
  <2>2. Len(file') = Len(file) + 1 /\ \A i \in DOMAIN file : file'[i] = file[i]
    BY <2>1, AppendCell DEF LogInv
  <2>3. UNCHANGED offsetOf  BY <1>2 DEF WriteHead, WriteTail
  <2>4. QED BY <1>1, <2>2, <2>3 DEF Grows
<1>3. ASSUME NEW r \in Records, Seek(r) PROVE Grows
  BY <1>1, <1>3 DEF Grows, Seek, LogInv
<1>4. CASE UNCHANGED <<file, offsetOf>>
  BY <1>1, <1>4 DEF Grows
<1>5. QED
  BY <1>2, <1>3, <1>4 DEF Next, AppendStep, LockTask, Open, Fail, Acknowledge, Crash, vars,
     Start, ReadStep, Page, ReadLine, PageEnds, TakeBatch, ReadExpires

\* A batch is taken.
LEMMA TakeFits ==
  ASSUME NEW s, ReaderFits(s), s.at = "batch"
  PROVE  ReaderFits([s EXCEPT !.at = IF More(s) THEN "page" ELSE "done",
                              !.offset = IF More(s) THEN s.next ELSE s.offset,
                              !.batch = <<>>,
                              !.replayed = WithNew(@, s.batch)])
<1>1. /\ s \in Readings /\ s.next \in Nat /\ s.offset \in Nat
      /\ s.offset <= s.next /\ LogFits(WithNew(s.replayed, s.batch), s.next) /\ EndsWhole(s.next)
  BY DEF ReaderFits, Readings, LogOf
<1>2. PICK log \in Seq(Records) : log = WithNew(s.replayed, s.batch)
  BY <1>1 DEF LogFits
<1>3. More(s) <=> s.next # s.offset  BY <1>1 DEF More
<1> DEFINE u == [s EXCEPT !.at = IF More(s) THEN "page" ELSE "done",
                          !.offset = IF More(s) THEN s.next ELSE s.offset,
                          !.batch = <<>>, !.replayed = log]
<1>4. u \in Readings /\ u.next = s.next /\ u.offset = s.next /\ u.batch = <<>> /\ u.replayed = log
  <2>1. PICK at \in {"page", "done"} : at = IF More(s) THEN "page" ELSE "done"  OBVIOUS
  <2>2. (IF More(s) THEN s.next ELSE s.offset) = s.next  BY <1>1, <1>3
  <2>3. u = [s EXCEPT !.at = at, !.offset = s.next, !.batch = <<>>, !.replayed = log]
    BY <2>1, <2>2
  <2>4. <<>> \in Seq(Records)  OBVIOUS
  <2> HIDE DEF u
  <2>5. QED BY <1>1, <1>2, <2>3, <2>4 DEF Readings
<1>5. ReaderFits(u)
  <2> HIDE DEF u
  <2>1. LogOf(u) = log  BY <1>4, WithNothing DEF LogOf
  <2>2. QED BY <1>1, <1>2, <1>4, <2>1 DEF ReaderFits
<1>6. QED BY <1>2, <1>5

LEMMA IdleFits ==
  ASSUME LogInv, NEW at \in {"idle", "failed"}
  PROVE  ReaderFits([Idle EXCEPT !.at = at])
<1> DEFINE u == [Idle EXCEPT !.at = at]
<1>1. u \in Readings /\ u.next = 0 /\ u.offset = 0 /\ u.batch = <<>> /\ u.replayed = <<>> /\ u.at = at
  <2>1. <<>> \in Seq(Records)  OBVIOUS
  <2>2. QED BY <2>1 DEF Idle, Readings
<1> HIDE DEF u
<1>2. LogOf(u) = <<>>  BY <1>1, WithNothing DEF LogOf
<1>3. Upto(0) = {}  BY DEF Upto, EndOf, LogInv
<1>4. LogFits(<<>>, 0)  BY <1>3 DEF LogFits
<1>5. QED BY <1>1, <1>2, <1>4 DEF ReaderFits, EndsWhole, u

\* The other steps do not change what there is of the log.
LEMMA MovesFit ==
  ASSUME NEW s, ReaderFits(s), NEW u \in Readings, u.replayed = s.replayed, u.batch = s.batch,
         u.next = s.next, u.offset = s.offset,
         u.at \in {"lines", "batch"} \/ (s.next = s.offset /\ s.batch = <<>>)
  PROVE  ReaderFits(u)
  BY DEF ReaderFits, LogOf

\* What a reader has after its step.
Moved(d) == \E u : ReaderFits(u) /\ Read(d, u)

LEMMA ReaderMoves ==
  ASSUME LogInv, LinesFit, ReadersFit, NEW d \in Readers, Start(d) \/ ReadStep(d)
  PROVE  Moved(d)
<1>1. PICK s : s = reader[d]  OBVIOUS
<1>2. /\ ReaderFits(s) /\ s \in Readings
      /\ s.next \in Nat /\ s.offset \in Nat /\ s.offset <= s.next /\ EndsWhole(s.next)
      /\ s.at \notin {"lines", "batch"} => s.next = s.offset /\ s.batch = <<>>
  <2>1. ReaderFits(s)  BY <1>1 DEF ReadersFit
  <2>2. s \in Readings /\ s.next \in Nat /\ s.offset \in Nat  BY <2>1 DEF ReaderFits, Readings
  <2>3. QED BY <2>1, <2>2 DEF ReaderFits
<1>3. CASE Start(d)
  <2> DEFINE u == [s EXCEPT !.at = "page"]
  <2>1. s.at = "idle" /\ Read(d, u)  BY <1>1, <1>3 DEF Start
  <2>2. ReaderFits(u)  BY <1>2, <2>1, MovesFit DEF Readings
  <2>3. QED BY <2>1, <2>2 DEF Moved
<1>4. CASE Page(d)
  <2>0. s.at = "page" /\ s.next = s.offset /\ s.batch = <<>>  BY <1>1, <1>2, <1>4 DEF Page
  <2>1. CASE s.offset >= Len(file)
    <3> DEFINE u == [s EXCEPT !.at = "batch", !.next = Len(file), !.batch = <<>>]
    <3>1. Len(file) \in Nat /\ DOMAIN file = 1 .. Len(file)  BY DEF LogInv
    <3>2. s.next = Len(file)  BY <1>2, <2>0, <2>1, <3>1 DEF EndsWhole
    <3>3. ReaderFits(u)  BY <1>2, <2>0, <3>2, MovesFit DEF Readings
    <3>4. Read(d, u)  BY <1>1, <1>4, <2>1 DEF Page
    <3>5. QED BY <3>3, <3>4 DEF Moved
  <2>2. CASE ~(s.offset >= Len(file))
    <3> DEFINE u == [s EXCEPT !.at = "lines", !.next = s.offset, !.batch = <<>>]
    <3>1. ReaderFits(u)  BY <1>2, <2>0, MovesFit DEF Readings
    <3>2. Read(d, u)  BY <1>1, <1>4, <2>2 DEF Page
    <3>3. QED BY <3>1, <3>2 DEF Moved
  <2>3. QED BY <2>1, <2>2
<1>5. CASE ReadLine(d)
  <2>1. s.at = "lines"  BY <1>1, <1>5 DEF ReadLine
  <2>2. PICK m \in DOMAIN file :
          /\ Line(s.next, m)
          /\ Read(d, [s EXCEPT !.next = m,
                               !.batch = IF Decodes(s.next, m) THEN Append(@, file[m][1]) ELSE @])
    BY <1>1, <1>5 DEF ReadLine
  <2>3. QED BY <1>2, <2>1, <2>2, LineFits DEF Moved
<1>6. CASE PageEnds(d)
  <2>1. s.at = "lines"  BY <1>1, <1>6 DEF PageEnds
  <2>2. PICK u \in Readings : Read(d, u) /\ u = [s EXCEPT !.at = "batch"]
    <3>1. [s EXCEPT !.at = "batch"] \in Readings  BY <1>2 DEF Readings
    <3>2. [s EXCEPT !.at = "batch", !.next = Pinned(@)] = [s EXCEPT !.at = "batch"]
      BY <1>2 DEF Readings, Pinned
    <3>3. Read(d, [s EXCEPT !.at = "batch"])
      BY <1>1, <1>6, <3>2 DEF PageEnds
    <3>4. QED BY <3>1, <3>3
  <2>3. ReaderFits(u)  BY <1>2, <2>2, MovesFit DEF Readings
  <2>4. QED BY <2>2, <2>3 DEF Moved
<1>7. CASE TakeBatch(d)
  BY <1>1, <1>2, <1>7, TakeFits DEF TakeBatch, Moved
<1>8. CASE ReadExpires(d)
  BY <1>8, IdleFits DEF ReadExpires, Moved
<1>9. QED BY <1>3, <1>4, <1>5, <1>6, <1>7, <1>8 DEF ReadStep

LEMMA NextReaders == LogInv /\ LogInv' /\ LinesFit /\ ReadersFit /\ [Next]_vars => ReadersFit'
<1> SUFFICES ASSUME LogInv, LogInv', LinesFit, ReadersFit, [Next]_vars PROVE ReadersFit'
  OBVIOUS
<1>1. Grows  BY LogGrows
<1>2. CASE UNCHANGED reader
  <2>1. ASSUME NEW d \in Readers PROVE ReaderFits(reader[d])'
    <3>1. PICK s : s = reader[d] /\ s = reader'[d]  BY <1>2
    <3>2. ReaderFits(s)'  BY <1>1, <3>1, FitsStay DEF ReadersFit
    <3>3. QED BY <3>1, <3>2
  <2>2. QED BY <1>2, <2>1 DEF ReadersFit
<1>3. ASSUME NEW d \in Readers, Moved(d) PROVE ReadersFit'
  <2>1. PICK u : ReaderFits(u) /\ reader' = [reader EXCEPT ![d] = u]
    BY <1>3 DEF Moved, Read
  <2>2. u \in Readings  BY <2>1 DEF ReaderFits
  <2>3. reader' \in [Readers -> Readings] /\ reader'[d] = u
        /\ \A e \in Readers \ {d} : reader'[e] = reader[e]
    BY <2>1, <2>2 DEF ReadersFit
  <2>4. ASSUME NEW e \in Readers PROVE ReaderFits(reader[e])'
    <3>1. PICK s : s = reader'[e] /\ ReaderFits(s)  BY <2>1, <2>3 DEF ReadersFit
    <3>2. ReaderFits(s)'  BY <1>1, <3>1, FitsStay
    <3>3. QED BY <3>1, <3>2
  <2>5. QED BY <2>3, <2>4 DEF ReadersFit
<1>4. QED
  BY <1>2, <1>3, ReaderMoves DEF Next, AppendStep, LockTask, Open, Seek, WriteHead, WriteTail, Fail,
     Acknowledge, Crash, vars

LEMMA InitReaders == Init => ReadersFit
<1> SUFFICES ASSUME Init PROVE ReadersFit  OBVIOUS
<1>1. LogInv  BY InitInv
<1>2. Idle = [Idle EXCEPT !.at = "idle"]  BY DEF Idle
<1>3. ReaderFits(Idle)  BY <1>1, <1>2, IdleFits
<1>4. reader = [d \in Readers |-> Idle]  BY DEF Init
<1>5. QED BY <1>3, <1>4 DEF ReadersFit, ReaderFits

\* Every variable has its type.
LEMMA LogTyped == LogInv /\ LinesFit /\ ReadersFit => TypeOK
<1> SUFFICES ASSUME LogInv, LinesFit, ReadersFit PROVE TypeOK
  OBVIOUS
<1>1. offsetOf \in [Records -> 0 .. Len(file)]
  <2>1. \A r \in Records : offsetOf[r] \in 0 .. Len(file)  BY DEF LogInv, LinesFit
  <2>2. QED BY <2>1 DEF LogInv
<1>2. QED BY <1>1 DEF TypeOK, LogInv, ReadersFit, Readings, Cells, Stages

\* What LogFits says, in the words of ReplayExact.
Exact(log, n) ==
  LET before == {r \in Records : \E m \in 1 .. n : m \in DOMAIN file /\ EndsAt(r, m)}
      first == {r \in before : \E m \in DOMAIN file :
                  /\ EndsAt(r, m)
                  /\ \A q \in before, k \in 1 .. m - 1 : EndsAt(q, k) => EventOf[q] # EventOf[r]}
      posn(r) == CHOOSE m \in DOMAIN file : EndsAt(r, m)
  IN  /\ {log[i] : i \in DOMAIN log} = first
      /\ \A i, j \in DOMAIN log : i < j => posn(log[i]) < posn(log[j])

LEMMA ReplaysExactly ==
  ASSUME LogInv, LinesFit, NEW log, NEW n \in Nat, n <= Len(file), LogFits(log, n)
  PROVE  Exact(log, n)
<1> DEFINE before == {r \in Records : \E m \in 1 .. n : m \in DOMAIN file /\ EndsAt(r, m)}
           first == {r \in before : \E m \in DOMAIN file :
                       /\ EndsAt(r, m)
                       /\ \A q \in before, k \in 1 .. m - 1 : EndsAt(q, k) => EventOf[q] # EventOf[r]}
           posn(r) == CHOOSE m \in DOMAIN file : EndsAt(r, m)
<1>1. /\ DOMAIN file = 1 .. Len(file) /\ Len(file) \in Nat
      /\ log \in Seq(Records) /\ DOMAIN log = 1 .. Len(log)
      /\ \A i \in 1 .. Len(log) : log[i] \in Upto(n) /\ log[i] \in Records
  BY DEF LogInv, LogFits, Upto
<1>2. before = Upto(n)
  <2>1. ASSUME NEW r \in before PROVE r \in Upto(n)
    <3>1. PICK m \in DOMAIN file : m <= n /\ EndsAt(r, m)  OBVIOUS
    <3>2. QED BY <3>1, EndsOnce DEF Upto
  <2>2. ASSUME NEW r \in Upto(n) PROVE r \in before
    BY <1>1 DEF Upto, Whole
  <2>3. QED BY <2>1, <2>2
<1>3. ASSUME NEW r \in Upto(n)
      PROVE  /\ r \in Records /\ EndOf(r) \in DOMAIN file /\ EndOf(r) <= n /\ EndsAt(r, EndOf(r))
             /\ \A m \in DOMAIN file : EndsAt(r, m) => m = EndOf(r)
             /\ posn(r) = EndOf(r)
  <2>1. r \in Records /\ EndOf(r) \in DOMAIN file /\ EndOf(r) <= n /\ EndsAt(r, EndOf(r))
    BY DEF Upto, Whole
  <2>2. \A m \in DOMAIN file : EndsAt(r, m) => m = EndOf(r)  BY <2>1, EndsOnce
  <2>3. QED BY <2>1, <2>2
<1> HIDE DEF before, posn
<1>4. ASSUME NEW i \in 1 .. Len(log) PROVE log[i] \in first
  <2>1. log[i] \in Upto(n) /\ EndOf(log[i]) \in DOMAIN file /\ EndsAt(log[i], EndOf(log[i]))
    BY <1>1, <1>3
  <2>2. ASSUME NEW q \in Upto(n), NEW k \in 1 .. EndOf(log[i]) - 1, EndsAt(q, k)
        PROVE  EventOf[q] # EventOf[log[i]]
    <3>1. k \in DOMAIN file  BY <1>1, <2>1
    <3>2. k = EndOf(q)  BY <1>3, <2>2, <3>1
    <3>3. QED BY <1>1, <2>1, <3>1, <3>2 DEF LogFits
  <2>3. QED BY <1>2, <2>1, <2>2
<1>5. ASSUME NEW r \in first PROVE \E i \in 1 .. Len(log) : log[i] = r
  <2>1. PICK m \in DOMAIN file :
          /\ r \in Upto(n) /\ EndsAt(r, m)
          /\ \A q \in Upto(n), k \in 1 .. m - 1 : EndsAt(q, k) => EventOf[q] # EventOf[r]
    BY <1>2
  <2>2. m = EndOf(r)  BY <1>3, <2>1
  <2>3. PICK i \in 1 .. Len(log) : EventOf[log[i]] = EventOf[r]  BY <2>1 DEF LogFits
  <2>4. EndOf(log[i]) <= EndOf(r)  BY <2>1, <2>3 DEF LogFits
  <2>5. log[i] \in Upto(n) /\ EndOf(log[i]) \in DOMAIN file /\ EndsAt(log[i], EndOf(log[i]))
    BY <1>1, <1>3
  <2>6. EndOf(log[i]) \notin 1 .. m - 1  BY <2>1, <2>3, <2>5
  <2>7. EndOf(log[i]) = EndOf(r)  BY <1>1, <2>1, <2>2, <2>4, <2>5, <2>6
  <2>8. log[i] = r  BY <2>1, <2>5, <2>7, EndsApart DEF Upto
  <2>9. QED BY <2>8
<1>6. {log[i] : i \in DOMAIN log} = first
  <2> HIDE DEF first
  <2>1. QED BY <1>1, <1>4, <1>5
<1>7. \A i, j \in DOMAIN log : i < j => posn(log[i]) < posn(log[j])
  <2>1. \A i \in DOMAIN log : posn(log[i]) = EndOf(log[i])  BY <1>1, <1>3
  <2>2. QED BY <1>1, <2>1 DEF LogFits
<1>8. QED BY <1>6, <1>7 DEF Exact, before, posn

LEMMA ExactIs == LogInv /\ LinesFit /\ ReadersFit => ReplayExact
<1> SUFFICES ASSUME LogInv, LinesFit, ReadersFit PROVE ReplayExact
  OBVIOUS
<1>1. TypeOK  BY LogTyped
<1>2. ASSUME NEW d \in Readers
      PROVE  Exact(WithNew(reader[d].replayed, reader[d].batch), reader[d].next)
  <2>1. ReaderFits(reader[d])  BY DEF ReadersFit
  <2>2. LogFits(WithNew(reader[d].replayed, reader[d].batch), reader[d].next)
    BY <2>1 DEF ReaderFits, LogOf
  <2>3. reader[d].next \in Nat /\ reader[d].next <= Len(file)
    BY <2>1 DEF ReaderFits, Readings, EndsWhole, LogInv
  <2>4. QED BY <2>2, <2>3, ReplaysExactly
<1>3. QED BY <1>1, <1>2 DEF ReplayExact, Exact

AllFits == LogInv /\ Entering /\ LinesFit /\ ReadersFit

LEMMA AllInv == SafeSpec => []AllFits
<1>1. Init => AllFits
  BY InitInv, InitLines, InitReaders DEF AllFits
<1>2. AllFits /\ [Next]_vars => AllFits'
  BY NextInv, NextEntering, NextLines, NextReaders DEF AllFits
<1>3. QED BY <1>1, <1>2, PTL DEF SafeSpec

\* What a reader has is exactly what there is to read up to where it is, in the
\* order of the file and each event id once, wherever its pages end and whatever
\* the writers, torn lines and retried records do meanwhile (ReplayTaskLog).
THEOREM ReplayIsExact == SafeSpec => []ReplayExact
<1>1. AllFits => ReplayExact  BY ExactIs DEF AllFits
<1>2. QED BY AllInv, <1>1, PTL

-----------------------------------------------------------------------------
(* What a reader reads in the end. *)

\* The record could be read when the reader started.
Caught(d, r) ==
  LET s == reader[d]
  IN  /\ s.at # "idle" /\ Whole(r)
      /\ s.at = "done" \/ (s.at = "batch" /\ ~More(s)) => EndOf(r) <= s.next

\* A record behind n is behind a line.
LEMMA LineBefore ==
  ASSUME LogInv, NEW n \in Nat, NEW m \in DOMAIN file, n < m, file[m][2] = "tail"
  PROVE  \E k \in DOMAIN file : Line(n, k)
<1> DEFINE Tails == {k \in DOMAIN file : n < k /\ file[k][2] = "tail"}
<1>1. /\ DOMAIN file = 1 .. Len(file) /\ Len(file) \in Nat
      /\ \A i \in DOMAIN file : file[i][2] \in {"head", "tail"}
  BY DEF LogInv, Cells
<1>2. PICK k \in Tails : \A j \in Tails : k <= j
  <2>1. Tails \in SUBSET Nat /\ Tails # {}  BY <1>1
  <2> HIDE DEF Tails
  <2>2. QED BY <2>1, Least
<1>3. ASSUME NEW i \in n + 1 .. k - 1 PROVE file[i][2] = "head"
  <2>1. i \in DOMAIN file /\ n < i /\ i < k  BY <1>1
  <2>2. i \notin Tails  BY <1>1, <1>2, <2>1
  <2>3. QED BY <1>1, <2>1, <2>2
<1>4. QED BY <1>1, <1>3 DEF Line

LEMMA CaughtStays ==
  ASSUME AllFits, NEW d \in Readers, NEW r \in Records, Caught(d, r), [Next]_vars
  PROVE  Caught(d, r)'
<1>1. LogInv /\ LinesFit /\ ReadersFit /\ Grows
  BY NextInv, LogGrows DEF AllFits
<1>2. PICK s : s = reader[d] /\ ReaderFits(s)  BY <1>1 DEF ReadersFit
<1>3. /\ s.at # "idle" /\ Whole(r) /\ EndOf(r) \in DOMAIN file /\ file[EndOf(r)] = <<r, "tail">>
      /\ s.at = "done" \/ (s.at = "batch" /\ ~More(s)) => EndOf(r) <= s.next
  BY <1>2 DEF Caught, Whole, EndsAt
<1>4. /\ DOMAIN file = 1 .. Len(file) /\ Len(file) \in Nat /\ s \in Readings
      /\ s.next \in Nat /\ s.offset \in Nat /\ s.offset <= s.next
      /\ s.batch # <<>> => s.offset < s.next
  BY <1>1, <1>2 DEF LogInv, ReaderFits, Readings
<1>5. Whole(r)' /\ EndOf(r)' = EndOf(r)
  <2>1. r \in Upto(Len(file))  BY <1>3, <1>4 DEF Upto
  <2>2. r \in Upto(Len(file)) => r \in Records  OBVIOUS
  <2>3. PICK n \in Nat : n = Len(file)  BY <1>4
  <2>4. Upto(n)' = Upto(n) /\ EndOf(r)' = EndOf(r)
    BY <1>1, <2>1, <2>3, UptoStays
  <2>5. QED BY <2>1, <2>3, <2>4 DEF Upto
<1>6. ASSUME NEW u, reader'[d] = u, u.at # "idle",
             u.at = "done" \/ (u.at = "batch" /\ ~More(u)) => EndOf(r) <= u.next
      PROVE  Caught(d, r)'
  <2>1. /\ (reader[d].at # "idle")'
        /\ (reader[d].at = "done" \/ (reader[d].at = "batch" /\ ~More(reader[d])) => EndOf(r) <= reader[d].next)'
    BY <1>5, <1>6 DEF More
  <2>2. QED BY <1>5, <2>1 DEF Caught
<1>7. CASE reader'[d] = reader[d]
  BY <1>2, <1>3, <1>6, <1>7
<1>8. ASSUME NEW u, Read(d, u) PROVE reader'[d] = u
  BY <1>1, <1>8 DEF Read, ReadersFit
<1>9. CASE Page(d)
  <2>1. CASE s.offset >= Len(file)
    <3> DEFINE u == [s EXCEPT !.at = "batch", !.next = Len(file), !.batch = <<>>]
    <3>1. reader'[d] = u  BY <1>2, <1>8, <1>9, <2>1 DEF Page
    <3>2. u.at = "batch" /\ u.next = Len(file)  BY <1>4 DEF Readings
    <3>3. EndOf(r) <= Len(file)  BY <1>3, <1>4
    <3> HIDE DEF u
    <3>4. QED BY <1>6, <3>1, <3>2, <3>3
  <2>2. CASE ~(s.offset >= Len(file))
    <3> DEFINE u == [s EXCEPT !.at = "lines", !.next = s.offset, !.batch = <<>>]
    <3>1. reader'[d] = u  BY <1>2, <1>8, <1>9, <2>2 DEF Page
    <3>2. u.at = "lines"  BY <1>4 DEF Readings
    <3> HIDE DEF u
    <3>3. QED BY <1>6, <3>1, <3>2
  <2>3. QED BY <2>1, <2>2
<1>10. CASE ReadLine(d)
  <2>1. PICK u : reader'[d] = u /\ u.at = "lines"
    <3>1. PICK m \in DOMAIN file :
            Read(d, [s EXCEPT !.next = m,
                              !.batch = IF Decodes(s.next, m) THEN Append(@, file[m][1]) ELSE @])
      BY <1>2, <1>10 DEF ReadLine
    <3>2. s.at = "lines"  BY <1>2, <1>10 DEF ReadLine
    <3>3. [s EXCEPT !.next = m,
                    !.batch = IF Decodes(s.next, m) THEN Append(@, file[m][1]) ELSE @].at = "lines"
      BY <1>4, <3>2 DEF Readings
    <3>4. QED BY <1>8, <3>1, <3>3
  <2>2. QED BY <1>6, <2>1
<1>11. CASE PageEnds(d)
  <2>0. s.at = "lines"  BY <1>2, <1>11 DEF PageEnds
  <2>1. PICK u : reader'[d] = u /\ u.at = "batch" /\ u.next = s.next /\ u.offset = s.offset
    <3>1. [s EXCEPT !.at = "batch", !.next = Pinned(@)] = [s EXCEPT !.at = "batch"]
      BY <1>4 DEF Readings, Pinned
    <3>2. Read(d, [s EXCEPT !.at = "batch"])  BY <1>2, <1>11, <3>1 DEF PageEnds
    <3>3. QED BY <1>4, <1>8, <3>2 DEF Readings
  <2>2. CASE Len(s.batch) = PageSize
    <3>1. s.batch # <<>>  BY <2>2, PageAssumption
    <3>2. QED BY <1>4, <1>6, <2>1, <3>1 DEF More
  <2>3. CASE \A m \in DOMAIN file : ~Line(s.next, m)
    <3>1. EndOf(r) <= s.next
      <4>1. SUFFICES ASSUME s.next < EndOf(r) PROVE FALSE  BY <1>3, <1>4
      <4>2. file[EndOf(r)][2] = "tail"  BY <1>3
      <4>3. QED BY <1>1, <1>3, <1>4, <2>3, <4>1, <4>2, LineBefore
    <3>2. QED BY <1>6, <2>1, <3>1
  <2>4. QED BY <1>2, <1>11, <2>2, <2>3 DEF PageEnds
<1>12. CASE TakeBatch(d)
  <2>1. s.at = "batch"  BY <1>2, <1>12 DEF TakeBatch
  <2>2. PICK u : reader'[d] = u /\ u.next = s.next /\ u.at = (IF More(s) THEN "page" ELSE "done")
    <3> DEFINE u == [s EXCEPT !.at = IF More(s) THEN "page" ELSE "done",
                              !.offset = IF More(s) THEN s.next ELSE s.offset,
                              !.batch = <<>>,
                              !.replayed = WithNew(@, s.batch)]
    <3>1. Read(d, u)  BY <1>2, <1>12 DEF TakeBatch
    <3>2. u.next = s.next /\ u.at = (IF More(s) THEN "page" ELSE "done")  BY <1>4 DEF Readings
    <3> HIDE DEF u
    <3>3. QED BY <1>8, <3>1, <3>2
  <2>3. QED BY <1>3, <1>6, <2>1, <2>2
<1>13. CASE ReadExpires(d)
  <2>1. reader'[d] = [Idle EXCEPT !.at = "failed"]  BY <1>8, <1>13 DEF ReadExpires
  <2>2. [Idle EXCEPT !.at = "failed"].at = "failed"  BY DEF Idle
  <2>3. QED BY <1>6, <2>1, <2>2
<1>14. ASSUME NEW e \in Readers, e # d, Start(e) \/ ReadStep(e) PROVE reader'[d] = reader[d]
  <2>1. PICK u : Read(e, u)
    BY <1>14 DEF Start, ReadStep, Page, ReadLine, PageEnds, TakeBatch, ReadExpires
  <2>2. QED BY <1>1, <1>14, <2>1 DEF Read, ReadersFit
<1>15. ~Start(d)  BY <1>2, <1>3 DEF Start
<1>16. QED
  BY <1>7, <1>9, <1>10, <1>11, <1>12, <1>13, <1>14, <1>15 DEF Next, AppendStep, ReadStep, LockTask, Open,
     Seek, WriteHead, WriteTail, Fail, Acknowledge, Crash, vars

LEMMA CaughtBegins ==
  ASSUME AllFits, NEW d \in Readers, NEW r \in Records, reader[d].at = "idle", Readable(r),
         [Next]_vars
  PROVE  (reader[d].at = "idle" /\ Readable(r))' \/ Caught(d, r)'
<1>1. LogInv /\ LinesFit /\ ReadersFit /\ Grows /\ Whole(r)
  BY NextInv, LogGrows, WholeReadable DEF AllFits
<1>2. LogInv' /\ LinesFit'
  BY NextInv, NextLines DEF AllFits
<1>3. Whole(r)'
  <2>1. PICK n \in Nat : n = Len(file)  BY <1>1 DEF LogInv
  <2>2. r \in Upto(n)  BY <1>1, <2>1 DEF Upto, Whole, LogInv
  <2>3. Upto(n)' = Upto(n)  BY <1>1, <2>1, UptoStays
  <2>4. QED BY <2>2, <2>3 DEF Upto
<1>4. Readable(r)'  BY <1>3 DEF Readable, Whole
<1>5. CASE reader'[d] = reader[d]  BY <1>4, <1>5
<1>6. CASE Start(d)
  <2>1. reader'[d] = [reader[d] EXCEPT !.at = "page"]
    BY <1>1, <1>6 DEF Start, Read, ReadersFit
  <2>2. [reader[d] EXCEPT !.at = "page"].at = "page"
    BY <1>1 DEF ReadersFit, Readings
  <2>3. (reader[d].at = "page")'  BY <2>1, <2>2
  <2>4. QED BY <1>3, <2>3 DEF Caught
<1>7. ~ReadStep(d)
  BY DEF ReadStep, Page, ReadLine, PageEnds, TakeBatch, ReadExpires
<1>8. ASSUME NEW e \in Readers, e # d, Start(e) \/ ReadStep(e) PROVE reader'[d] = reader[d]
  <2>1. PICK u : Read(e, u)
    BY <1>8 DEF Start, ReadStep, Page, ReadLine, PageEnds, TakeBatch, ReadExpires
  <2>2. QED BY <1>1, <1>8, <2>1 DEF Read, ReadersFit
<1>9. QED
  BY <1>5, <1>6, <1>7, <1>8 DEF Next, AppendStep, LockTask, Open,
     Seek, WriteHead, WriteTail, Fail, Acknowledge, Crash, vars

LEMMA CaughtTells ==
  ASSUME AllFits, NEW d \in Readers, NEW r \in Records, Caught(d, r), reader[d].at = "done"
  PROVE  EventOf[r] \in Events(reader[d].replayed)
<1>1. PICK s : s = reader[d] /\ ReaderFits(s)  BY DEF AllFits, ReadersFit
<1>2. s.at = "done" /\ EndOf(r) <= s.next /\ Whole(r)  BY <1>1 DEF Caught
<1>3. s.batch = <<>>  BY <1>1, <1>2 DEF ReaderFits, Readings
<1>4. LogOf(s) = s.replayed  BY <1>3, WithNothing DEF LogOf
<1>5. r \in Upto(s.next)  BY <1>2 DEF Upto
<1>6. s.replayed \in Seq(Records) /\ \E i \in 1 .. Len(s.replayed) : EventOf[s.replayed[i]] = EventOf[r]
  BY <1>1, <1>4, <1>5 DEF ReaderFits, LogFits
<1>7. QED BY <1>1, <1>6 DEF Events

\* Whatever could be read when a replay started is among what it returns, at
\* least as a record with the same event id: the replay ends only on a page
\* that has come to the end of the lines.
THEOREM ReplayIsComplete == SafeSpec => ReplayComplete
<1>1. ASSUME NEW d \in Readers, NEW r \in Records
      PROVE  SafeSpec => [](reader[d].at = "idle" /\ Readable(r) =>
                              [](reader[d].at = "done" => EventOf[r] \in Events(reader[d].replayed)))
  <2> DEFINE Before == reader[d].at = "idle" /\ Readable(r)
             After == Caught(d, r)
             Told == reader[d].at = "done" => EventOf[r] \in Events(reader[d].replayed)
  <2>1. AllFits /\ Before /\ [Next]_vars => Before' \/ After'  BY CaughtBegins
  <2>2. AllFits /\ After /\ [Next]_vars => After'  BY CaughtStays
  <2>3. AllFits /\ After => Told  BY CaughtTells
  <2>4. Before => Told  OBVIOUS
  <2> HIDE DEF Before, After, Told
  <2>5. SafeSpec => [](Before => []Told)
    BY AllInv, <2>1, <2>2, <2>3, <2>4, PTL DEF SafeSpec
  <2>6. QED BY <2>5 DEF Before, Told
<1>2. QED BY <1>1 DEF ReplayComplete
=============================================================================
