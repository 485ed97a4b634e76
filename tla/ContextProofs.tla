---------------------------- MODULE ContextProofs ----------------------------
(***************************************************************************)
(* Proofs about what the context of a local turn is made of.  A file the   *)
(* user selected, read while other programs change it as often as they     *)
(* like, is handed on as it was at one moment; the two halves of the       *)
(* invariant are the two reasons: either every write moved the file's time *)
(* (DatedRead), or the path never came back to a state it had left         *)
(* (PathStayed).  And the local workflows, whose jobs may die between any  *)
(* two steps, rest on what each job has established so far (JobSound).     *)
(* Origins are stored in order and never rewritten, and an assembly keeps  *)
(* which rules were in force while it ran (PackageSound).  A stream tells, *)
(* phase by phase, a known number of the chunks the server sent, whatever  *)
(* the server sends (CallSound).                                           *)
(* Of imports from elsewhere, a mapping holds what was staged and is never *)
(* rewritten, so that an approved plan may still rely on what it reuses    *)
(* when its transaction comes (PlanSound).                                 *)
(***************************************************************************)
EXTENDS SourceFiles, LocalWork, InstructionOrigins, RuntimeStream, ImportPublication,
        SequenceTheorems, FiniteSetTheorems, TLAPS

States == [ino : Inodes, size : 1 .. MaxSize + 1, mtime : 0 .. MaxClock]
Contents == Values \X Values
Versions == [state : States, text : Contents]

DocumentPhases == {"open", "read", "close"}
PassPhases == {"hash", "verify", "snapshot", "label", "rehash"}
BundlePhases == PassPhases \union {"restat"}
Phases == {"idle", "accepted", "refused"} \union DocumentPhases \union BundlePhases

Reads == [phase : Phases, kind : Kinds \union {Absent}, before : States \union {Absent},
          ino : Inodes \union {Absent}, opened : States \union {Absent},
          closed : States \union {Absent}, text : Seq(Values), pass : Seq(Seq(Values))]

(* Files are not younger than the clock; a read is of a document or of a   *)
(* bundle, and has done as many passes as its phase says.                  *)
FileTypes ==
    /\ path \in Inodes \union {Absent}
    /\ inode \in [Inodes -> Files]
    /\ clock \in 0 .. MaxClock
    /\ \A i \in Inodes : inode[i].mtime <= clock
    /\ reading \in Reads
    /\ unstamped \in BOOLEAN /\ returned \in BOOLEAN /\ changes \in Nat
    /\ had \subseteq Versions

PassesDone == CASE reading.phase = "hash" -> 0 [] reading.phase = "verify" -> 1
                [] reading.phase = "snapshot" -> 2 [] reading.phase = "label" -> 3 [] OTHER -> 4

ReadShape ==
    /\ Len(reading.text) <= 2
    /\ reading.phase \in DocumentPhases => reading.kind \in Documents
    /\ reading.phase = "open" => reading.ino = Absent /\ reading.text = <<>>
    /\ reading.phase = "read" => reading.ino \in Inodes /\ reading.opened \in States
    /\ reading.phase = "close" => Len(reading.text) = 2 /\ reading.ino = Absent
                                  /\ reading.opened \in States /\ reading.closed \in States
    /\ reading.phase \in BundlePhases => /\ reading.kind = "bundle"
                                         /\ Len(reading.pass) = PassesDone
    /\ reading.phase \in DocumentPhases => reading.pass = <<>>
    /\ reading.phase = "restat" => reading.ino = Absent
    /\ reading.phase = "rehash" => reading.closed \in States
    /\ Running => reading.before \in States
    /\ ~Running => reading.ino = Absent

(* History: the path's present version is among those it had. *)
Recorded == Running /\ path # Absent => Version(path, inode[path]) \in had

(* The beginning of a content that has been read. *)
Begins(s, w) == \A n \in 1 .. Len(s) : s[n] = w[n]

(* Every write moved the time: while the file is as old as when it was     *)
(* opened, it has the content it was opened with.                          *)
DatedRead ==
    /\ reading.phase = "read" => \E v \in had :
          /\ v.state = reading.opened
          /\ inode[reading.ino].mtime >= reading.opened.mtime
          /\ inode[reading.ino].mtime = reading.opened.mtime =>
                inode[reading.ino].text = v.text /\ Begins(reading.text, v.text)
    /\ reading.phase = "close" => \E v \in had :
          /\ v.state = reading.opened
          /\ reading.closed.mtime = reading.opened.mtime => reading.text = v.text

(* The path is as it was before: so is the file it names, and everything   *)
(* that was read came from that file.                                      *)
AsBefore(w) ==
    path # Absent /\ Current = reading.before =>
       /\ inode[path].text = w
       /\ reading.ino \in {path, Absent}
       /\ Begins(reading.text, w)
       /\ \A n \in 1 .. Len(reading.pass) : reading.pass[n] = w

(* The path never came back to a state it had left. *)
PathStayed ==
    Running => \E v \in had :
       /\ v.state = reading.before
       /\ AsBefore(v.text)
       /\ reading.phase = "rehash" /\ reading.closed = reading.before =>
             \A n \in 1 .. 4 : reading.pass[n] = v.text

FInv ==
    /\ FileTypes /\ ReadShape /\ Recorded
    /\ unstamped \/ DatedRead
    /\ returned \/ PathStayed
    /\ StableRead
-----------------------------------------------------------------------------
(* Two states no comparison tells apart are one. *)
LEMMA SameStates ==
    ASSUME NEW s \in States, NEW t \in States, SameState(s, t)
    PROVE  s = t
BY DEF States, SameState, SameIdentity

(* A content of which both halves have been read. *)
LEMMA TwoHalves ==
    ASSUME NEW s \in Seq(Values), Len(s) = 2, NEW w \in Contents, Begins(s, w)
    PROVE  s = w
<1>1. s[1] = w[1] /\ s[2] = w[2]
  BY DEF Begins
<1>2. w = <<w[1], w[2]>>
  BY DEF Contents
<1>3. s = <<s[1], s[2]>>
  <2>1. <<s[1], s[2]>> \in Seq(Values)
    <3>1. s[1] \in Values /\ s[2] \in Values
      OBVIOUS
    <3> QED
      BY <3>1
  <2>2. Len(<<s[1], s[2]>>) = 2
    OBVIOUS
  <2>3. \A n \in 1 .. 2 : s[n] = <<s[1], s[2]>>[n]
    OBVIOUS
  <2> QED
    BY <2>1, <2>2, <2>3, SeqEqual
<1> QED
  BY <1>1, <1>2, <1>3

(* Reading one more half of a content. *)
LEMMA OneMoreHalf ==
    ASSUME NEW s \in Seq(Values), Len(s) < 2, NEW w \in Contents
    PROVE  /\ Append(s, w[Len(s) + 1]) \in Seq(Values)
           /\ Len(Append(s, w[Len(s) + 1])) = Len(s) + 1
           /\ Begins(s, w) => Begins(Append(s, w[Len(s) + 1]), w)
<1>1. Len(s) + 1 \in 1 .. 2
  OBVIOUS
<1>2. w[Len(s) + 1] \in Values
  <2>1. w[1] \in Values /\ w[2] \in Values
    BY DEF Contents
  <2> QED
    BY <1>1, <2>1
<1>3. PICK x \in Values : x = w[Len(s) + 1]
  BY <1>2
<1>4. Append(s, x) \in Seq(Values) /\ Len(Append(s, x)) = Len(s) + 1
  OBVIOUS
<1>5. ASSUME Begins(s, w) PROVE Begins(Append(s, x), w)
  <2>1. SUFFICES ASSUME NEW n \in 1 .. Len(s) + 1 PROVE Append(s, x)[n] = w[n]
    BY <1>4 DEF Begins
  <2>2. CASE n = Len(s) + 1
    BY <2>2, <1>3
  <2>3. CASE n \in 1 .. Len(s)
    <3>1. Append(s, x)[n] = s[n]
      BY <2>3
    <3> QED
      BY <3>1, <2>3, <1>5 DEF Begins
  <2> QED
    BY <2>2, <2>3
<1> QED
  BY <1>3, <1>4, <1>5

(* What lstat tells, and what the history writes down. *)
LEMMA CurrentTyped ==
    ASSUME FileTypes, NEW i \in Inodes
    PROVE  StateOf(i, inode[i]) \in States /\ Version(i, inode[i]) \in Versions
<1>1. inode[i] \in Files
  BY DEF FileTypes
<1>2. inode[i].text \in Contents /\ inode[i].size \in 1 .. MaxSize + 1 /\ inode[i].mtime \in 0 .. MaxClock
  BY <1>1 DEF Files, Contents
<1> QED
  BY <1>2 DEF StateOf, Version, States, Versions
-----------------------------------------------------------------------------
(* Whatever other programs do to the files during a read, as long as a     *)
(* write to the file that is open moves its time or is remembered.         *)
LEMMA Disturbed ==
    ASSUME FInv, Running, Remember, reading' = reading, clock' = clock,
           path' \in Inodes \union {Absent}, inode' \in [Inodes -> Files],
           \A i \in Inodes : inode'[i].mtime <= clock,
           unstamped' \in BOOLEAN, unstamped => unstamped',
           reading.ino \in Inodes /\ ~unstamped' =>
              \/ inode'[reading.ino] = inode[reading.ino]
              \/ inode'[reading.ino].mtime > inode[reading.ino].mtime
    PROVE  FInv'
<1> USE DEF FInv
<1>r. Running'
  BY DEF Running
<1>1. FileTypes'
  <2>1. changes' \in Nat
    BY DEF FileTypes, Remember
  <2>2. returned' \in BOOLEAN
    BY DEF FileTypes, Remember
  <2>3. had' \subseteq Versions
    <3>1. ASSUME path' # Absent PROVE Version(path', inode'[path']) \in Versions
      <4>1. path' \in Inodes /\ inode'[path'] \in Files
        BY <3>1
      <4> QED
        BY <4>1 DEF Version, StateOf, Versions, States, Files, Contents
    <3> QED
      BY <3>1 DEF FileTypes, Remember
  <2> QED
    BY <2>1, <2>2, <2>3 DEF FileTypes
<1>2. ReadShape'
  BY <1>r DEF ReadShape, PassesDone, Running
<1>3. Recorded'
  BY <1>r DEF Recorded, Remember
<1>4. had \subseteq had'
  BY DEF Remember
<1>5. unstamped' \/ DatedRead'
  <2> SUFFICES ASSUME ~unstamped' PROVE DatedRead'
    OBVIOUS
  <2>1. DatedRead
    OBVIOUS
  <2>2. ASSUME reading.phase = "read"
        PROVE  \E v \in had' :
                  /\ v.state = reading.opened
                  /\ inode'[reading.ino].mtime >= reading.opened.mtime
                  /\ inode'[reading.ino].mtime = reading.opened.mtime =>
                        inode'[reading.ino].text = v.text /\ Begins(reading.text, v.text)
    <3>1. PICK v \in had :
                  /\ v.state = reading.opened
                  /\ inode[reading.ino].mtime >= reading.opened.mtime
                  /\ inode[reading.ino].mtime = reading.opened.mtime =>
                        inode[reading.ino].text = v.text /\ Begins(reading.text, v.text)
      BY <2>1, <2>2 DEF DatedRead
    <3>2. v \in had'
      BY <1>4
    <3>3. reading.ino \in Inodes /\ reading.opened \in States
      BY <2>2 DEF ReadShape
    <3>4. CASE inode'[reading.ino] = inode[reading.ino]
      BY <3>1, <3>2, <3>4
    <3>5. CASE inode'[reading.ino].mtime > inode[reading.ino].mtime
      <4>1. inode[reading.ino] \in Files /\ inode'[reading.ino] \in Files
        BY <3>3 DEF FileTypes
      <4>2. /\ inode[reading.ino].mtime \in Nat /\ inode'[reading.ino].mtime \in Nat
            /\ reading.opened.mtime \in Nat
        BY <4>1, <3>3, SizeAssumption DEF Files, States
      <4>3. inode'[reading.ino].mtime > reading.opened.mtime
        BY <4>2, <3>1, <3>5
      <4>4. /\ inode'[reading.ino].mtime >= reading.opened.mtime
            /\ inode'[reading.ino].mtime # reading.opened.mtime
        BY <4>2, <4>3
      <4> QED
        BY <3>1, <3>2, <4>4
    <3> QED
      BY <3>3, <3>4, <3>5
  <2>3. ASSUME reading.phase = "close"
        PROVE  \E v \in had' :
                  /\ v.state = reading.opened
                  /\ reading.closed.mtime = reading.opened.mtime => reading.text = v.text
    BY <2>1, <2>3, <1>4 DEF DatedRead
  <2> QED
    BY <2>2, <2>3 DEF DatedRead
<1>6. returned' \/ PathStayed'
  <2> SUFFICES ASSUME ~returned' PROVE PathStayed'
    OBVIOUS
  <2>1. ~returned
    BY DEF Remember
  <2>2. PICK v \in had :
           /\ v.state = reading.before
           /\ AsBefore(v.text)
           /\ reading.phase = "rehash" /\ reading.closed = reading.before =>
                 \A n \in 1 .. 4 : reading.pass[n] = v.text
    BY <2>1 DEF PathStayed
  <2>3. ASSUME path' # Absent, StateOf(path', inode'[path']) = reading.before
        PROVE  path' = path /\ inode'[path'] = inode[path]
    BY <2>2, <2>3 DEF Remember
  <2>4. PICK t : t = v.text
    OBVIOUS
  <2>5. AsBefore(t)
    BY <2>2, <2>4
  <2>6. AsBefore(t)'
    BY <2>3, <2>5 DEF AsBefore, Current, Begins
  <2>7. v \in had' /\ v.text = t /\ v.state = reading'.before
    BY <2>2, <2>4, <1>4
  <2>8. reading'.phase = "rehash" /\ reading'.closed = reading'.before =>
                 \A n \in 1 .. 4 : reading'.pass[n] = t
    BY <2>2, <2>4
  <2> QED
    BY <2>6, <2>7, <2>8 DEF PathStayed
<1>7. StableRead'
  BY <1>1, <1>r DEF StableRead, FilesTypeOK, FileTypes, Running, Reads
<1> QED
  BY <1>1, <1>2, <1>3, <1>5, <1>6, <1>7
-----------------------------------------------------------------------------
(* The other programs, one at a time. *)
LEMMA EditKeeps ==
    ASSUME FInv, NEW i \in Inodes, NEW h \in 1 .. 2, NEW v \in Values,
           NEW s \in 1 .. MaxSize + 1, Edit(i, h, v, s)
    PROVE  FInv'
<1>1. FileTypes
  BY DEF FInv
<1>2. inode[i] \in Files /\ inode[i].text \in Contents
  BY <1>1 DEF FileTypes, Files, Contents
<1>3. PICK t \in Contents : t = [inode[i].text EXCEPT ![h] = v]
  <2>1. PICK a \in Values, b \in Values : inode[i].text = <<a, b>>
    BY <1>2 DEF Contents
  <2>2. CASE h = 1
    <3>1. [<<a, b>> EXCEPT ![1] = v] = <<v, b>>
      OBVIOUS
    <3> QED
      BY <2>1, <2>2, <3>1 DEF Contents
  <2>3. CASE h = 2
    <3>1. [<<a, b>> EXCEPT ![2] = v] = <<a, v>>
      OBVIOUS
    <3> QED
      BY <2>1, <2>3, <3>1 DEF Contents
  <2> QED
    BY <2>2, <2>3
<1>4. PICK f : f = [text |-> t, size |-> s, mtime |-> clock]
  OBVIOUS
<1>5. f \in Files
  BY <1>4, <1>1 DEF Files, FileTypes, Contents
<1>6. inode' = [inode EXCEPT ![i] = f]
  BY <1>3, <1>4 DEF Edit
<1>7. inode' \in [Inodes -> Files]
  BY <1>1, <1>5, <1>6 DEF FileTypes
<1>8. \A j \in Inodes : inode'[j] = IF j = i THEN f ELSE inode[j]
  BY <1>1, <1>6 DEF FileTypes
<1>9. clock \in Nat /\ inode[i].mtime \in Nat /\ inode[i].mtime <= clock
  BY <1>1, <1>2, SizeAssumption DEF FileTypes, Files
<1>10. \A j \in Inodes : inode'[j].mtime <= clock
  BY <1>1, <1>4, <1>8, <1>9 DEF FileTypes
<1>11. unstamped' \in BOOLEAN /\ (unstamped => unstamped')
  BY <1>1 DEF Edit, FileTypes
<1>12. ASSUME reading.ino \in Inodes, ~unstamped'
       PROVE  \/ inode'[reading.ino] = inode[reading.ino]
              \/ inode'[reading.ino].mtime > inode[reading.ino].mtime
  <2>1. inode[i].mtime # clock
    BY <1>12 DEF Edit
  <2>2. f.mtime > inode[i].mtime
    BY <2>1, <1>4, <1>9
  <2> QED
    BY <2>2, <1>8, <1>12
<1>13. /\ Running /\ Remember /\ reading' = reading /\ clock' = clock
       /\ path' \in Inodes \union {Absent}
  BY <1>1 DEF Edit, Remember, FileTypes
<1> QED
  BY <1>7, <1>10, <1>11, <1>12, <1>13, Disturbed

LEMMA ReplaceKeeps ==
    ASSUME FInv, NEW i \in Inodes, NEW f \in Files, Replace(i, f)
    PROVE  FInv'
<1>1. FileTypes
  BY DEF FInv
<1>2. inode' \in [Inodes -> Files]
  BY <1>1 DEF Replace, FileTypes
<1>3. \A j \in Inodes : inode'[j] = IF j = i THEN f ELSE inode[j]
  BY <1>1 DEF Replace, FileTypes
<1>4. \A j \in Inodes : inode'[j].mtime <= clock
  BY <1>1, <1>3 DEF Replace, FileTypes
<1>5. reading.ino \in Inodes => inode'[reading.ino] = inode[reading.ino]
  BY <1>3 DEF Replace
<1>6. /\ Running /\ Remember /\ reading' = reading /\ clock' = clock
      /\ path' \in Inodes \union {Absent}
      /\ unstamped' \in BOOLEAN /\ (unstamped => unstamped')
  BY <1>1 DEF Replace, Remember, FileTypes
<1> QED
  BY <1>2, <1>4, <1>5, <1>6, Disturbed

LEMMA UnlinkKeeps ==
    ASSUME FInv, Unlink
    PROVE  FInv'
<1>1. FileTypes
  BY DEF FInv
<1>2. /\ inode' = inode /\ inode' \in [Inodes -> Files]
      /\ \A j \in Inodes : inode'[j].mtime <= clock
  BY <1>1 DEF Unlink, FileTypes
<1>3. /\ Running /\ Remember /\ reading' = reading /\ clock' = clock
      /\ path' \in Inodes \union {Absent}
      /\ unstamped' \in BOOLEAN /\ (unstamped => unstamped')
  BY <1>1 DEF Unlink, Remember, FileTypes
<1> QED
  BY <1>2, <1>3, Disturbed

LEMMA TickKeeps ==
    ASSUME FInv, Tick
    PROVE  FInv'
<1>1. FileTypes'
  <2>1. clock \in Nat /\ clock' = clock + 1 /\ clock' \in 0 .. MaxClock
    BY SizeAssumption DEF FInv, FileTypes, Tick
  <2>2. \A i \in Inodes : inode[i].mtime \in Nat
    <3>1. SUFFICES ASSUME NEW i \in Inodes PROVE inode[i].mtime \in Nat
      OBVIOUS
    <3>2. inode[i] \in Files
      BY DEF FInv, FileTypes
    <3> QED
      BY <3>2, SizeAssumption DEF Files
  <2>3. \A i \in Inodes : inode'[i].mtime <= clock'
    BY <2>1, <2>2 DEF FInv, FileTypes, Tick
  <2> QED
    BY <2>1, <2>3 DEF FInv, FileTypes, Tick
<1>2. ReadShape' /\ Recorded'
  BY DEF FInv, Tick, ReadShape, PassesDone, Running, Recorded
<1>3. unstamped' \/ DatedRead'
  BY DEF FInv, Tick, DatedRead
<1>4. returned' \/ PathStayed'
  BY DEF FInv, Tick, PathStayed, Running, AsBefore, Current
<1>5. StableRead'
  <2>1. FilesTypeOK' /\ reading'.phase # "accepted"
    BY <1>1 DEF FInv, Tick, StableRead, FilesTypeOK, FileTypes, Running
  <2> QED
    BY <2>1 DEF StableRead
<1> QED
  BY <1>1, <1>2, <1>3, <1>4, <1>5 DEF FInv
-----------------------------------------------------------------------------
(* The reader, one system call at a time. *)
LEMMA BeginKeeps ==
    ASSUME FInv, NEW k \in Kinds, BeginRead(k)
    PROVE  FInv'
<1>1. FileTypes /\ path \in Inodes
  BY DEF FInv, FileTypes, BeginRead
<1>2. PICK s \in States : s = Current
  BY <1>1, CurrentTyped DEF Current
<1>3. PICK p : p = IF k = "bundle" THEN "hash" ELSE "open"
  OBVIOUS
<1>4. PICK r : r = [phase |-> p, kind |-> k, before |-> s, ino |-> Absent,
                    opened |-> Absent, closed |-> Absent, text |-> <<>>, pass |-> <<>>]
  OBVIOUS
<1>5. reading' = r
  <2>1. PICK a : a = [Idle EXCEPT !.phase = p]
    OBVIOUS
  <2>2. PICK b : b = [a EXCEPT !.kind = k]
    OBVIOUS
  <2>3. PICK c : c = [b EXCEPT !.before = s]
    OBVIOUS
  <2>5. c = [Idle EXCEPT !.phase = p, !.kind = k, !.before = s]
    BY <2>1, <2>2, <2>3
  <2>6. reading' = c
    BY <1>2, <1>3, <2>5 DEF BeginRead
  <2>7. a = [phase |-> p, kind |-> Absent, before |-> Absent, ino |-> Absent,
             opened |-> Absent, closed |-> Absent, text |-> <<>>, pass |-> <<>>]
    BY <2>1 DEF Idle
  <2>8. b = [phase |-> p, kind |-> k, before |-> Absent, ino |-> Absent,
             opened |-> Absent, closed |-> Absent, text |-> <<>>, pass |-> <<>>]
    BY <2>2, <2>7
  <2>4. c = r
    BY <2>3, <2>8, <1>4
  <2> QED
    BY <2>6, <2>4
<1>6. r \in Reads
  <2>1. p \in Phases
    BY <1>3 DEF Phases, DocumentPhases, BundlePhases, PassPhases
  <2>2. PICK e : e = <<>>
    OBVIOUS
  <2>3. e \in Seq(Values) /\ e \in Seq(Seq(Values))
    BY <2>2
  <2> QED
    BY <2>1, <2>2, <2>3, <1>4 DEF Reads
<1>7. PICK v \in Versions : v = Version(path, inode[path])
  BY <1>1, CurrentTyped
<1>8. v.state = s /\ v.text = inode[path].text
  BY <1>2, <1>7 DEF Version, Current
<1>9. path' = path /\ inode' = inode /\ clock' = clock /\ changes' = changes
      /\ had' = {v} /\ unstamped' = FALSE /\ returned' = FALSE
  BY <1>7 DEF BeginRead
<1>10. FileTypes'
  BY <1>1, <1>5, <1>6, <1>9 DEF FileTypes
<1>11. ReadShape'
  BY <1>3, <1>4, <1>5, AbsentAssumption DEF ReadShape, Running, PassesDone, DocumentPhases,
     BundlePhases, PassPhases, Kinds
<1>12. Recorded'
  BY <1>7, <1>9 DEF Recorded, Version, StateOf
<1>13. DatedRead'
  BY <1>3, <1>4, <1>5 DEF DatedRead
<1>14. PathStayed'
  <2>1. v \in had' /\ v.state = reading'.before
    BY <1>4, <1>5, <1>8, <1>9
  <2>2. PICK t : t = v.text
    OBVIOUS
  <2>3. AsBefore(t)'
    BY <2>2, <1>4, <1>5, <1>8, <1>9 DEF AsBefore, Begins
  <2>4. reading'.phase # "rehash"
    BY <1>3, <1>4, <1>5
  <2> QED
    BY <2>1, <2>2, <2>3, <2>4 DEF PathStayed
<1>15. StableRead'
  <2>1. FilesTypeOK'
    BY <1>10 DEF FilesTypeOK, FileTypes, Reads
  <2> QED
    BY <2>1, <1>3, <1>4, <1>5 DEF StableRead
<1> QED
  BY <1>9, <1>10, <1>11, <1>12, <1>13, <1>14, <1>15 DEF FInv

(* A read that has ended, well or not, keeps what it has. *)
LEMMA Ended ==
    ASSUME FInv, Unmoved, NEW p \in {"accepted", "refused"},
           reading' = [reading EXCEPT !.phase = p, !.ino = Absent],
           p = "accepted" =>
             IF reading.kind # "bundle"
             THEN (unstamped /\ returned) \/ \E v \in had : v.text = reading.text
             ELSE returned \/ \A n \in 1 .. 4 : reading.pass[n] = reading.text
    PROVE  FInv'
<1>1. FileTypes /\ reading \in Reads
  BY DEF FInv, FileTypes
<1>2. PICK q : q = [reading EXCEPT !.phase = p]
  OBVIOUS
<1>3. q \in Reads
  BY <1>1, <1>2 DEF Reads, Phases
<1>4. reading' = [q EXCEPT !.ino = Absent]
  BY <1>1, <1>2 DEF Reads
<1>5. reading' \in Reads
  BY <1>3, <1>4 DEF Reads
<1>6. /\ q.kind = reading.kind /\ q.text = reading.text /\ q.pass = reading.pass /\ q.phase = p
  BY <1>1, <1>2 DEF Reads
<1>7. /\ reading'.kind = q.kind /\ reading'.text = q.text /\ reading'.pass = q.pass
      /\ reading'.phase = q.phase /\ reading'.ino = Absent
  BY <1>3, <1>4 DEF Reads
<1>8. FileTypes'
  BY <1>1, <1>5 DEF FileTypes, Unmoved
<1>9. ~Running' /\ reading'.phase \notin DocumentPhases \union BundlePhases
  BY <1>6, <1>7 DEF Running, DocumentPhases, BundlePhases, PassPhases
<1>10. ReadShape'
  BY <1>6, <1>7, <1>9 DEF FInv, ReadShape, DocumentPhases, BundlePhases, PassPhases
<1>11. Recorded' /\ PathStayed'
  BY <1>9 DEF Recorded, PathStayed
<1>12. DatedRead'
  BY <1>9 DEF DatedRead, DocumentPhases
<1>13. StableRead'
  <2>1. FilesTypeOK'
    BY <1>8 DEF FilesTypeOK, FileTypes, Reads
  <2>2. unstamped' = unstamped /\ returned' = returned /\ had' = had
    BY DEF Unmoved
  <2> QED
    BY <2>1, <2>2, <1>6, <1>7 DEF StableRead
<1> QED
  BY <1>8, <1>10, <1>11, <1>12, <1>13 DEF FInv

LEMMA RefuseKeeps ==
    ASSUME FInv, Unmoved, Refuse
    PROVE  FInv'
<1>1. reading' = [reading EXCEPT !.phase = "refused", !.ino = Absent]
  BY DEF Refuse
<1> QED
  BY <1>1, Ended
(* A step of the reader that opens, reads or closes and goes on: what is   *)
(* left to show of it. *)
LEMMA GoesOn ==
    ASSUME FInv, Running, Unmoved, reading' \in Reads, Running', ReadShape',
           reading'.before = reading.before,
           ~unstamped => DatedRead',
           \A w \in Contents : ~returned /\ AsBefore(w) => AsBefore(w)',
           reading'.phase = "rehash" /\ reading'.closed = reading.before =>
              /\ \A n \in 1 .. Len(reading'.pass) : reading'.pass[n] = reading.pass[n]
              /\ Len(reading'.pass) = 4
              /\ \/ reading.phase = "rehash" /\ reading.closed = reading'.closed
                 \/ path # Absent /\ Current = reading.before /\ Len(reading.pass) = 4
    PROVE  FInv'
<1>1. FileTypes'
  BY DEF FInv, FileTypes, Unmoved
<1>2. Recorded'
  BY DEF FInv, Recorded, Unmoved
<1>3. unstamped' \/ DatedRead'
  BY DEF FInv, Unmoved
<1>4. returned' \/ PathStayed'
  <2> SUFFICES ASSUME ~returned PROVE PathStayed'
    BY DEF Unmoved
  <2>1. PICK v \in had :
           /\ v.state = reading.before
           /\ AsBefore(v.text)
           /\ reading.phase = "rehash" /\ reading.closed = reading.before =>
                 \A n \in 1 .. 4 : reading.pass[n] = v.text
    BY DEF FInv, PathStayed
  <2>2. v \in Versions
    BY DEF FInv, FileTypes
  <2>3. PICK t \in Contents : t = v.text
    BY <2>2 DEF Versions
  <2>4. AsBefore(t) /\ AsBefore(t)'
    BY <2>1, <2>3
  <2>5. v \in had' /\ v.state = reading'.before
    BY <2>1 DEF Unmoved
  <2>6. ASSUME reading'.phase = "rehash", reading'.closed = reading'.before
        PROVE  \A n \in 1 .. 4 : reading'.pass[n] = t
    <3>1. CASE reading.phase = "rehash" /\ reading.closed = reading'.closed
      BY <2>1, <2>3, <2>6, <3>1
    <3>2. CASE path # Absent /\ Current = reading.before /\ Len(reading.pass) = 4
      BY <2>4, <2>6, <3>2 DEF AsBefore
    <3> QED
      BY <2>6, <3>1, <3>2
  <2> QED
    BY <2>3, <2>4, <2>5, <2>6 DEF PathStayed
<1>5. StableRead'
  BY <1>1 DEF StableRead, FilesTypeOK, FileTypes, Running, Reads
<1> QED
  BY <1>1, <1>2, <1>3, <1>4, <1>5 DEF FInv

LEMMA OpenKeeps ==
    ASSUME FInv, OpenSource
    PROVE  FInv'
<1>1. FileTypes /\ reading \in Reads /\ ReadShape /\ Recorded /\ Unmoved
  BY DEF FInv, FileTypes, OpenSource
<1>2. CASE Refuse
  BY <1>1, <1>2, RefuseKeeps
<1>3. CASE ~Refuse
  <2>1. path # Absent /\ path \in Inodes /\ SameIdentity(reading.before, Current)
    BY <1>1, <1>3 DEF OpenSource, FileTypes
  <2>2. PICK s \in States : s = Current
    BY <1>1, <2>1, CurrentTyped DEF Current
  <2>3. PICK q : q = [reading EXCEPT !.phase = "read"]
    OBVIOUS
  <2>4. q \in Reads
    BY <1>1, <2>3 DEF Reads, Phases, DocumentPhases
  <2>5. PICK r : r = [q EXCEPT !.ino = path]
    OBVIOUS
  <2>6. r \in Reads
    BY <2>1, <2>4, <2>5 DEF Reads
  <2>7. reading' = [r EXCEPT !.opened = s]
    BY <1>3, <2>1, <2>2, <2>3, <2>5 DEF OpenSource
  <2>8. reading' \in Reads
    BY <2>6, <2>7 DEF Reads
  <2>9. /\ q.phase = "read" /\ q.kind = reading.kind /\ q.before = reading.before
        /\ q.text = reading.text /\ q.pass = reading.pass
    BY <1>1, <2>3 DEF Reads
  <2>10. /\ r.phase = "read" /\ r.kind = reading.kind /\ r.before = reading.before
         /\ r.text = reading.text /\ r.pass = reading.pass /\ r.ino = path
    BY <2>4, <2>5, <2>9 DEF Reads
  <2>11. /\ reading'.phase = "read" /\ reading'.kind = reading.kind
         /\ reading'.before = reading.before
         /\ reading'.text = reading.text /\ reading'.pass = reading.pass
         /\ reading'.ino = path /\ reading'.opened = s
    BY <2>6, <2>7, <2>10 DEF Reads
  <2>12. /\ reading.phase = "open" /\ Running /\ Running'
         /\ reading.text = <<>> /\ reading.pass = <<>> /\ reading.kind \in Documents
    BY <1>1, <2>11 DEF OpenSource, ReadShape, Running, DocumentPhases
  <2>13. ReadShape'
    BY <1>1, <2>1, <2>11, <2>12 DEF ReadShape, DocumentPhases, BundlePhases, PassPhases
  <2>14. path' = path /\ inode' = inode /\ had' = had
    BY <1>1 DEF Unmoved
  <2>15. DatedRead'
    <3>1. PICK v \in had : v = Version(path, inode[path])
      BY <1>1, <2>1, <2>12 DEF Recorded
    <3>2. v.state = s /\ v.text = inode[path].text /\ s.mtime = inode[path].mtime
      BY <3>1, <2>2 DEF Version, Current, StateOf
    <3>3. inode[path] \in Files
      BY <1>1, <2>1 DEF FileTypes
    <3>4. inode[path].mtime >= s.mtime
      BY <3>2, <3>3, SizeAssumption DEF Files
    <3>5. PICK t : t = v.text
      OBVIOUS
    <3>6. Begins(reading.text, t)
      BY <2>12 DEF Begins
    <3> QED
      BY <3>2, <3>4, <3>5, <3>6, <2>11, <2>14 DEF DatedRead
  <2>16. ASSUME NEW w \in Contents, AsBefore(w) PROVE AsBefore(w)'
    BY <2>16, <2>11, <2>14 DEF AsBefore, Current, StateOf
  <2> QED
    BY <1>1, <2>8, <2>11, <2>12, <2>13, <2>15, <2>16, GoesOn
<1> QED
  BY <1>2, <1>3
LEMMA ReadKeeps ==
    ASSUME FInv, ReadHalf
    PROVE  FInv'
<1>1. FileTypes /\ reading \in Reads /\ ReadShape /\ Unmoved
  BY DEF FInv, FileTypes, ReadHalf
<1>2. reading.ino \in Inodes /\ reading.text \in Seq(Values) /\ Len(reading.text) < 2
  BY <1>1 DEF Reads, ReadHalf
<1>3. PICK c \in Contents : c = inode[reading.ino].text
  BY <1>1, <1>2 DEF FileTypes, Files, Contents
<1>4. PICK t : t = Append(reading.text, c[Len(reading.text) + 1])
  OBVIOUS
<1>5. /\ t \in Seq(Values) /\ Len(t) = Len(reading.text) + 1
      /\ Begins(reading.text, c) => Begins(t, c)
  BY <1>2, <1>4, OneMoreHalf
<1>6. reading' = [reading EXCEPT !.text = t]
  BY <1>3, <1>4 DEF ReadHalf
<1>7. reading' \in Reads
  BY <1>1, <1>5, <1>6 DEF Reads
<1>8. /\ reading'.phase = reading.phase /\ reading'.kind = reading.kind
      /\ reading'.before = reading.before /\ reading'.ino = reading.ino
      /\ reading'.opened = reading.opened /\ reading'.closed = reading.closed
      /\ reading'.pass = reading.pass /\ reading'.text = t
  BY <1>1, <1>6 DEF Reads
<1>9. Running /\ Running' /\ reading.phase \notin {"open", "close", "restat"}
  BY <1>1, <1>2, <1>8, AbsentAssumption DEF ReadShape, Running
<1>10. ReadShape'
  <2>1. Len(t) <= 2
    BY <1>2, <1>5
  <2>2. reading'.phase \notin {"open", "close", "restat"}
    BY <1>8, <1>9
  <2>3. PassesDone' = PassesDone
    BY <1>8 DEF PassesDone
  <2> QED
    BY <1>1, <1>8, <1>9, <2>1, <2>2, <2>3 DEF ReadShape
<1>11. path' = path /\ inode' = inode /\ had' = had
  BY <1>1 DEF Unmoved
<1>12. ASSUME ~unstamped PROVE DatedRead'
  <2>1. SUFFICES ASSUME reading.phase = "read"
        PROVE  \E v \in had' :
          /\ v.state = reading'.opened
          /\ inode'[reading'.ino].mtime >= reading'.opened.mtime
          /\ inode'[reading'.ino].mtime = reading'.opened.mtime =>
                inode'[reading'.ino].text = v.text /\ Begins(reading'.text, v.text)
    BY <1>8, <1>9 DEF DatedRead
  <2>2. DatedRead
    BY <1>12 DEF FInv
  <2>3. PICK v \in had :
          /\ v.state = reading.opened
          /\ inode[reading.ino].mtime >= reading.opened.mtime
          /\ inode[reading.ino].mtime = reading.opened.mtime =>
                inode[reading.ino].text = v.text /\ Begins(reading.text, v.text)
    BY <2>1, <2>2 DEF DatedRead
  <2>4. ASSUME inode[reading.ino].mtime = reading.opened.mtime
        PROVE  inode[reading.ino].text = v.text /\ Begins(t, v.text)
    BY <2>3, <2>4, <1>3, <1>5
  <2> QED
    BY <2>3, <2>4, <1>8, <1>11
<1>13. ASSUME NEW w \in Contents, AsBefore(w) PROVE AsBefore(w)'
  <2>1. SUFFICES ASSUME path # Absent, Current = reading.before
        PROVE  /\ inode[path].text = w
               /\ reading.ino \in {path, Absent}
               /\ Begins(t, w)
               /\ \A n \in 1 .. Len(reading.pass) : reading.pass[n] = w
    BY <1>8, <1>11 DEF AsBefore, Current, StateOf
  <2>2. /\ inode[path].text = w
        /\ reading.ino \in {path, Absent}
        /\ Begins(reading.text, w)
        /\ \A n \in 1 .. Len(reading.pass) : reading.pass[n] = w
    BY <1>13, <2>1 DEF AsBefore
  <2>3. c = w
    BY <2>2, <1>2, <1>3, AbsentAssumption
  <2> QED
    BY <2>2, <2>3, <1>5
<1>14. reading'.phase = "rehash" =>
          /\ \A n \in 1 .. Len(reading'.pass) : reading'.pass[n] = reading.pass[n]
          /\ Len(reading'.pass) = 4
          /\ reading.phase = "rehash" /\ reading.closed = reading'.closed
  BY <1>1, <1>8 DEF ReadShape, BundlePhases, PassPhases, PassesDone
<1> QED
  BY <1>1, <1>7, <1>8, <1>9, <1>10, <1>12, <1>13, <1>14, GoesOn

LEMMA CloseKeeps ==
    ASSUME FInv, CloseSource
    PROVE  FInv'
<1>1. FileTypes /\ reading \in Reads /\ ReadShape /\ Unmoved
  BY DEF FInv, FileTypes, CloseSource
<1>2. /\ reading.phase = "read" /\ Len(reading.text) = 2 /\ reading.ino \in Inodes
      /\ reading.opened \in States /\ reading.text \in Seq(Values)
  BY <1>1 DEF ReadShape, CloseSource, Reads
<1>3. PICK s \in States : s = StateOf(reading.ino, inode[reading.ino])
  BY <1>1, <1>2, CurrentTyped
<1>4. PICK q : q = [reading EXCEPT !.phase = "close"]
  OBVIOUS
<1>5. q \in Reads
  BY <1>1, <1>4 DEF Reads, Phases, DocumentPhases
<1>6. PICK r : r = [q EXCEPT !.ino = Absent]
  OBVIOUS
<1>7. r \in Reads
  BY <1>5, <1>6 DEF Reads
<1>8. reading' = [r EXCEPT !.closed = s]
  BY <1>3, <1>4, <1>6 DEF CloseSource
<1>9. reading' \in Reads
  BY <1>7, <1>8 DEF Reads
<1>10. /\ q.phase = "close" /\ q.kind = reading.kind /\ q.before = reading.before
       /\ q.opened = reading.opened
       /\ q.text = reading.text /\ q.pass = reading.pass
  BY <1>1, <1>4 DEF Reads
<1>11. /\ r.phase = "close" /\ r.kind = reading.kind /\ r.before = reading.before
       /\ r.opened = reading.opened
       /\ r.text = reading.text /\ r.pass = reading.pass /\ r.ino = Absent
  BY <1>5, <1>6, <1>10 DEF Reads
<1>12. /\ reading'.phase = "close" /\ reading'.kind = reading.kind
       /\ reading'.before = reading.before /\ reading'.opened = reading.opened
       /\ reading'.text = reading.text /\ reading'.pass = reading.pass
       /\ reading'.ino = Absent /\ reading'.closed = s
  BY <1>7, <1>8, <1>11 DEF Reads
<1>13. Running /\ Running'
  BY <1>2, <1>12 DEF Running
<1>14. ReadShape'
  BY <1>1, <1>2, <1>12, <1>13 DEF ReadShape, DocumentPhases, BundlePhases, PassPhases
<1>15. path' = path /\ inode' = inode /\ had' = had
  BY <1>1 DEF Unmoved
<1>16. ASSUME ~unstamped PROVE DatedRead'
  <2>1. DatedRead
    BY <1>16 DEF FInv
  <2>2. PICK v \in had :
          /\ v.state = reading.opened
          /\ inode[reading.ino].mtime >= reading.opened.mtime
          /\ inode[reading.ino].mtime = reading.opened.mtime =>
                inode[reading.ino].text = v.text /\ Begins(reading.text, v.text)
    BY <1>2, <2>1 DEF DatedRead
  <2>3. PICK t : t = v.text
    OBVIOUS
  <2>4. v \in Versions /\ t \in Contents
    BY <1>1, <2>3 DEF FileTypes, Versions
  <2>5. s.mtime = inode[reading.ino].mtime
    BY <1>3 DEF StateOf
  <2>6. s.mtime = reading.opened.mtime => reading.text = t
    BY <1>2, <2>2, <2>3, <2>4, <2>5, TwoHalves
  <2> QED
    BY <2>2, <2>3, <2>6, <1>12, <1>15 DEF DatedRead
<1>17. ASSUME NEW w \in Contents, AsBefore(w) PROVE AsBefore(w)'
  BY <1>17, <1>12, <1>15 DEF AsBefore, Current, StateOf
<1> QED
  BY <1>1, <1>9, <1>12, <1>13, <1>14, <1>16, <1>17, GoesOn

LEMMA FinishKeeps ==
    ASSUME FInv, NEW k \in Documents, FinishRead(k)
    PROVE  FInv'
<1>1. FileTypes /\ reading \in Reads /\ ReadShape /\ Unmoved
  BY DEF FInv, FileTypes, FinishRead
<1>2. CASE Refuse
  BY <1>1, <1>2, RefuseKeeps
<1>3. CASE StableFile /\ Accept
  <2>1. /\ reading.phase = "close" /\ reading.kind # "bundle" /\ Running
        /\ Len(reading.text) = 2 /\ reading.text \in Seq(Values)
        /\ reading.opened \in States /\ reading.closed \in States /\ reading.before \in States
    BY <1>1 DEF ReadShape, FinishRead, Reads, Documents, Running
  <2>2. path # Absent /\ path \in Inodes
    BY <1>1, <1>3 DEF StableFile, FileTypes
  <2>3. Current \in States
    BY <1>1, <2>2, CurrentTyped DEF Current
  <2>4. /\ SameState(reading.before, reading.opened) /\ SameState(reading.before, reading.closed)
        /\ SameState(reading.before, Current)
    BY <1>3 DEF StableFile
  <2>5. reading.opened = reading.before /\ reading.closed = reading.before /\ Current = reading.before
    BY <2>1, <2>3, <2>4, SameStates
  <2>6. ASSUME ~unstamped PROVE \E v \in had : v.text = reading.text
    BY <2>1, <2>5, <2>6 DEF FInv, DatedRead
  <2>7. ASSUME ~returned PROVE \E v \in had : v.text = reading.text
    <3>1. PICK v \in had : AsBefore(v.text)
      BY <2>1, <2>7 DEF FInv, PathStayed
    <3>2. PICK t : t = v.text
      OBVIOUS
    <3>3. v \in Versions /\ t \in Contents
      BY <1>1, <3>2 DEF FileTypes, Versions
    <3>4. Begins(reading.text, t)
      BY <2>2, <2>5, <3>1, <3>2 DEF AsBefore
    <3>5. reading.text = t
      BY <2>1, <3>3, <3>4, TwoHalves
    <3> QED
      BY <3>2, <3>5
  <2>8. reading' = [reading EXCEPT !.phase = "accepted", !.ino = Absent]
    BY <1>3 DEF Accept
  <2>9. unstamped \in BOOLEAN /\ returned \in BOOLEAN
    BY <1>1 DEF FileTypes
  <2>10. (unstamped /\ returned) \/ \E v \in had : v.text = reading.text
    BY <2>6, <2>7, <2>9
  <2> QED
    BY <1>1, <2>1, <2>8, <2>10, Ended
<1> QED
  BY <1>2, <1>3 DEF FinishRead
LEMMA OpenPassKeeps ==
    ASSUME FInv, OpenPass
    PROVE  FInv'
<1>1. FileTypes /\ reading \in Reads /\ ReadShape /\ Unmoved
  BY DEF FInv, FileTypes, OpenPass
<1>2. CASE Refuse
  BY <1>1, <1>2, RefuseKeeps
<1>3. CASE ~Refuse
  <2>1. path # Absent /\ path \in Inodes /\ reading.ino = Absent /\ reading.phase \in PassPhases
    BY <1>1, <1>3 DEF OpenPass, FileTypes, Passes, PassPhases
  <2>2. PICK e : e = <<>>
    OBVIOUS
  <2>3. e \in Seq(Values) /\ Len(e) = 0
    BY <2>2
  <2>4. PICK q : q = [reading EXCEPT !.ino = path]
    OBVIOUS
  <2>5. q \in Reads
    BY <1>1, <2>1, <2>4 DEF Reads
  <2>6. reading' = [q EXCEPT !.text = e]
    BY <1>3, <2>1, <2>2, <2>4 DEF OpenPass
  <2>7. reading' \in Reads
    BY <2>3, <2>5, <2>6 DEF Reads
  <2>8. /\ q.phase = reading.phase /\ q.kind = reading.kind /\ q.before = reading.before
        /\ q.closed = reading.closed /\ q.pass = reading.pass /\ q.ino = path
    BY <1>1, <2>4 DEF Reads
  <2>9. /\ reading'.phase = reading.phase /\ reading'.kind = reading.kind
        /\ reading'.before = reading.before /\ reading'.closed = reading.closed
        /\ reading'.pass = reading.pass /\ reading'.ino = path /\ reading'.text = e
    BY <2>5, <2>6, <2>8 DEF Reads
  <2>10. Running /\ Running'
    BY <2>1, <2>9 DEF Running, PassPhases
  <2>11. reading.phase \notin DocumentPhases \union {"restat"}
    BY <2>1 DEF DocumentPhases, PassPhases
  <2>12. PassesDone' = PassesDone
    BY <2>9 DEF PassesDone
  <2>13. ReadShape'
    BY <1>1, <2>3, <2>9, <2>10, <2>11, <2>12 DEF ReadShape, DocumentPhases
  <2>14. path' = path /\ inode' = inode
    BY <1>1 DEF Unmoved
  <2>15. DatedRead'
    BY <2>9, <2>11 DEF DatedRead, DocumentPhases
  <2>16. ASSUME NEW w \in Contents, AsBefore(w) PROVE AsBefore(w)'
    <3>1. Begins(e, w)
      BY <2>3 DEF Begins
    <3> QED
      BY <2>16, <2>9, <2>14, <3>1 DEF AsBefore, Current, StateOf
  <2>17. reading'.phase = "rehash" =>
          /\ \A n \in 1 .. Len(reading'.pass) : reading'.pass[n] = reading.pass[n]
          /\ Len(reading'.pass) = 4
          /\ reading.phase = "rehash" /\ reading.closed = reading'.closed
    BY <1>1, <2>9 DEF ReadShape, BundlePhases, PassPhases, PassesDone
  <2> QED
    BY <1>1, <2>7, <2>9, <2>10, <2>13, <2>15, <2>16, <2>17, GoesOn
<1> QED
  BY <1>2, <1>3

LEMMA ClosePassKeeps ==
    ASSUME FInv, ClosePass
    PROVE  FInv'
<1>1. FileTypes /\ reading \in Reads /\ ReadShape /\ Unmoved
  BY DEF FInv, FileTypes, ClosePass
<1>2. CASE Refuse
  BY <1>1, <1>2, RefuseKeeps
<1>3. CASE ~Refuse
  <2>1. /\ reading.phase \in {"hash", "verify", "snapshot", "label"}
        /\ reading.ino # Absent /\ Len(reading.text) = 2
        /\ reading.text \in Seq(Values) /\ reading.pass \in Seq(Seq(Values))
    BY <1>1 DEF ClosePass, Passes, Reads
  <2>2. PICK n : n = Len(reading.pass) + 1
    OBVIOUS
  <2>3. Len(reading.pass) = PassesDone
    BY <1>1, <2>1 DEF ReadShape, BundlePhases, PassPhases
  <2>4. PICK p : p = IF n = 4 THEN "restat" ELSE Passes[n + 1]
    OBVIOUS
  <2>5. \/ reading.phase = "hash" /\ n = 1 /\ p = "verify"
        \/ reading.phase = "verify" /\ n = 2 /\ p = "snapshot"
        \/ reading.phase = "snapshot" /\ n = 3 /\ p = "label"
        \/ reading.phase = "label" /\ n = 4 /\ p = "restat"
    <3>1. CASE reading.phase = "hash"
      BY <3>1, <2>2, <2>3, <2>4 DEF PassesDone, Passes
    <3>2. CASE reading.phase = "verify"
      <4>1. PassesDone = 1
        BY <3>2 DEF PassesDone
      <4>2. n = 2
        BY <4>1, <2>2, <2>3
      <4> QED
        BY <3>2, <4>2, <2>4 DEF Passes
    <3>3. CASE reading.phase = "snapshot"
      <4>1. PassesDone = 2
        BY <3>3 DEF PassesDone
      <4>2. n = 3
        BY <4>1, <2>2, <2>3
      <4> QED
        BY <3>3, <4>2, <2>4 DEF Passes
    <3>4. CASE reading.phase = "label"
      <4>1. PassesDone = 3
        BY <3>4 DEF PassesDone
      <4>2. n = 4
        BY <4>1, <2>2, <2>3
      <4> QED
        BY <3>4, <4>2, <2>4
    <3> QED
      BY <2>1, <3>1, <3>2, <3>3, <3>4
  <2>6. PICK a : a = Append(reading.pass, reading.text)
    OBVIOUS
  <2>7. /\ a \in Seq(Seq(Values)) /\ Len(a) = n /\ a[n] = reading.text
        /\ \A m \in 1 .. Len(reading.pass) : a[m] = reading.pass[m]
    BY <2>1, <2>2, <2>6
  <2>8. PICK q : q = [reading EXCEPT !.pass = a]
    OBVIOUS
  <2>9. q \in Reads
    BY <1>1, <2>7, <2>8 DEF Reads
  <2>10. PICK r : r = [q EXCEPT !.ino = Absent]
    OBVIOUS
  <2>11. r \in Reads
    BY <2>9, <2>10 DEF Reads
  <2>12. reading' = [r EXCEPT !.phase = p]
    BY <1>3, <2>2, <2>4, <2>6, <2>8, <2>10 DEF ClosePass
  <2>13. p \in Phases
    BY <2>5 DEF Phases, BundlePhases, PassPhases
  <2>14. reading' \in Reads
    BY <2>11, <2>12, <2>13 DEF Reads
  <2>15. /\ q.kind = reading.kind /\ q.before = reading.before /\ q.closed = reading.closed
         /\ q.text = reading.text /\ q.pass = a
    BY <1>1, <2>8 DEF Reads
  <2>16. /\ r.kind = reading.kind /\ r.before = reading.before /\ r.closed = reading.closed
         /\ r.text = reading.text /\ r.pass = a /\ r.ino = Absent
    BY <2>9, <2>10, <2>15 DEF Reads
  <2>17. /\ reading'.kind = reading.kind /\ reading'.before = reading.before
         /\ reading'.closed = reading.closed /\ reading'.text = reading.text
         /\ reading'.pass = a /\ reading'.ino = Absent /\ reading'.phase = p
    BY <2>11, <2>12, <2>16 DEF Reads
  <2>18. Running /\ Running' /\ p \notin DocumentPhases /\ p # "rehash"
    BY <2>1, <2>5, <2>17 DEF Running, DocumentPhases
  <2>19. PassesDone' = n
    BY <2>5, <2>17 DEF PassesDone
  <2>20. ReadShape'
    <3>1. reading.kind = "bundle" /\ reading.before \in States
      BY <1>1, <2>1, <2>18 DEF ReadShape, BundlePhases, PassPhases
    <3>2. Len(reading'.text) = 2 /\ Len(reading'.pass) = n
      BY <2>1, <2>7, <2>17
    <3>3. Len(reading'.text) <= 2 /\ Len(reading'.pass) = PassesDone'
      BY <3>2, <2>19
    <3> QED
      BY <3>1, <3>3, <2>17, <2>18, <2>1 DEF ReadShape, DocumentPhases
  <2>21. path' = path /\ inode' = inode
    BY <1>1 DEF Unmoved
  <2>22. DatedRead'
    BY <2>17, <2>18 DEF DatedRead, DocumentPhases
  <2>23. ASSUME NEW w \in Contents, AsBefore(w) PROVE AsBefore(w)'
    <3>1. SUFFICES ASSUME path # Absent, Current = reading.before
          PROVE  /\ inode[path].text = w
                 /\ Begins(reading.text, w)
                 /\ \A m \in 1 .. Len(a) : a[m] = w
      BY <2>17, <2>21 DEF AsBefore, Current, StateOf
    <3>2. /\ inode[path].text = w
          /\ Begins(reading.text, w)
          /\ \A m \in 1 .. Len(reading.pass) : reading.pass[m] = w
      BY <2>23, <3>1 DEF AsBefore
    <3>3. reading.text = w
      BY <2>1, <3>2, TwoHalves
    <3>4. ASSUME NEW m \in 1 .. Len(a) PROVE a[m] = w
      <4>1. m = n \/ m \in 1 .. Len(reading.pass)
        BY <2>1, <2>2, <2>7
      <4>2. CASE m = n
        BY <4>2, <3>3, <2>7
      <4>3. CASE m \in 1 .. Len(reading.pass)
        BY <4>3, <3>2, <2>7
      <4> QED
        BY <4>1, <4>2, <4>3
    <3> QED
      BY <3>2, <3>4
  <2> QED
    BY <1>1, <2>14, <2>17, <2>18, <2>20, <2>22, <2>23, GoesOn
<1> QED
  BY <1>2, <1>3

LEMMA RestatKeeps ==
    ASSUME FInv, RestatBundle
    PROVE  FInv'
<1>1. FileTypes /\ reading \in Reads /\ ReadShape /\ Unmoved
  BY DEF FInv, FileTypes, RestatBundle
<1>2. CASE Refuse
  BY <1>1, <1>2, RefuseKeeps
<1>3. CASE ~Refuse
  <2>1. path # Absent /\ path \in Inodes /\ reading.phase = "restat"
    BY <1>1, <1>3 DEF RestatBundle, FileTypes
  <2>2. PICK s \in States : s = Current
    BY <1>1, <2>1, CurrentTyped DEF Current
  <2>3. PICK q : q = [reading EXCEPT !.phase = "rehash"]
    OBVIOUS
  <2>4. q \in Reads
    BY <1>1, <2>3 DEF Reads, Phases, BundlePhases, PassPhases
  <2>5. reading' = [q EXCEPT !.closed = s]
    BY <1>3, <2>1, <2>2, <2>3 DEF RestatBundle
  <2>6. reading' \in Reads
    BY <2>4, <2>5 DEF Reads
  <2>7. /\ q.phase = "rehash" /\ q.kind = reading.kind /\ q.before = reading.before
        /\ q.text = reading.text /\ q.pass = reading.pass /\ q.ino = reading.ino
    BY <1>1, <2>3 DEF Reads
  <2>8. /\ reading'.phase = "rehash" /\ reading'.kind = reading.kind
        /\ reading'.before = reading.before /\ reading'.text = reading.text
        /\ reading'.pass = reading.pass /\ reading'.ino = reading.ino
        /\ reading'.closed = s
    BY <2>4, <2>5, <2>7 DEF Reads
  <2>9. Running /\ Running'
    BY <2>1, <2>8 DEF Running
  <2>10. Len(reading.pass) = 4 /\ reading.kind = "bundle" /\ reading.before \in States
    BY <1>1, <2>1, <2>9 DEF ReadShape, BundlePhases, PassesDone
  <2>11. PassesDone' = 4
    BY <2>8 DEF PassesDone
  <2>12. ReadShape'
    BY <1>1, <2>8, <2>9, <2>10, <2>11 DEF ReadShape, DocumentPhases
  <2>13. path' = path /\ inode' = inode
    BY <1>1 DEF Unmoved
  <2>14. DatedRead'
    BY <2>8 DEF DatedRead
  <2>15. ASSUME NEW w \in Contents, AsBefore(w) PROVE AsBefore(w)'
    BY <2>15, <2>8, <2>13 DEF AsBefore, Current, StateOf
  <2>16. reading'.closed = reading.before => Current = reading.before
    BY <2>2, <2>8
  <2> QED
    BY <1>1, <2>1, <2>6, <2>8, <2>9, <2>10, <2>12, <2>14, <2>15, <2>16, GoesOn
<1> QED
  BY <1>2, <1>3

LEMMA FinishBundleKeeps ==
    ASSUME FInv, FinishBundle
    PROVE  FInv'
<1>1. FileTypes /\ ReadShape /\ Unmoved
  BY DEF FInv, FinishBundle
<1>2. CASE Refuse
  BY <1>1, <1>2, RefuseKeeps
<1>3. CASE SameBundle /\ Accept
  <2>1. /\ reading.phase = "rehash" /\ reading.kind = "bundle" /\ Running
        /\ reading.before \in States /\ reading.closed \in States
    BY <1>1 DEF ReadShape, FinishBundle, BundlePhases, PassPhases, Running
  <2>2. reading.closed = reading.before /\ reading.pass[1] = reading.text
    BY <1>3, <2>1, SameStates DEF SameBundle
  <2>3. ASSUME ~returned PROVE \A n \in 1 .. 4 : reading.pass[n] = reading.text
    <3>1. PICK v \in had : \A n \in 1 .. 4 : reading.pass[n] = v.text
      BY <2>1, <2>2, <2>3 DEF FInv, PathStayed
    <3> QED
      BY <2>2, <3>1
  <2>4. reading' = [reading EXCEPT !.phase = "accepted", !.ino = Absent]
    BY <1>3 DEF Accept
  <2> QED
    BY <1>1, <2>1, <2>3, <2>4, Ended
<1> QED
  BY <1>2, <1>3 DEF FinishBundle
-----------------------------------------------------------------------------
LEMMA FilesInitInv == FilesInit => FInv
<1> SUFFICES ASSUME FilesInit PROVE FInv
  OBVIOUS
<1>1. PICK v \in Values : inode = [i \in Inodes |-> [text |-> <<v, v>>, size |-> 1, mtime |-> 0]]
  BY DEF FilesInit
<1>2. PICK f : f = [text |-> <<v, v>>, size |-> 1, mtime |-> 0]
  OBVIOUS
<1>3. f \in Files /\ f.mtime = 0
  BY <1>2, SizeAssumption DEF Files
<1>4. inode = [i \in Inodes |-> f]
  BY <1>1, <1>2
<1>5. PICK r : r = Idle
  OBVIOUS
<1>6. r \in Reads /\ r.phase = "idle" /\ r.ino = Absent /\ r.text = <<>>
  BY <1>5 DEF Idle, Reads, Phases
<1>7. FileTypes
  <2>1. inode \in [Inodes -> Files] /\ clock \in 0 .. MaxClock
    <3>1. 0 \in 0 .. MaxClock
      BY SizeAssumption
    <3> QED
      BY <1>3, <1>4, <3>1 DEF FilesInit
  <2>2. \A i \in Inodes : inode[i].mtime <= clock
    <3>1. SUFFICES ASSUME NEW i \in Inodes PROVE inode[i].mtime <= clock
      OBVIOUS
    <3>2. inode[i] = f /\ clock = 0
      BY <1>4 DEF FilesInit
    <3> QED
      BY <3>2, <1>3
  <2>3. reading \in Reads /\ path \in Inodes \union {Absent}
    BY <1>5, <1>6 DEF FilesInit
  <2>4. unstamped \in BOOLEAN /\ returned \in BOOLEAN /\ changes \in Nat /\ had \subseteq Versions
    BY DEF FilesInit
  <2> QED
    BY <2>1, <2>2, <2>3, <2>4 DEF FileTypes
<1>8. ~Running /\ reading.phase = "idle"
  BY <1>5, <1>6 DEF FilesInit, Running
<1>9. ReadShape
  BY <1>5, <1>6, <1>8 DEF FilesInit, ReadShape, DocumentPhases, BundlePhases, PassPhases
<1>10. Recorded /\ DatedRead /\ PathStayed
  BY <1>8 DEF Recorded, DatedRead, PathStayed
<1>11. StableRead
  BY <1>7, <1>8 DEF StableRead, FilesTypeOK, FileTypes, Reads
<1> QED
  BY <1>7, <1>9, <1>10, <1>11 DEF FInv

LEMMA FilesStep == FInv /\ [FilesNext]_fileVars => FInv'
<1> SUFFICES ASSUME FInv, [FilesNext]_fileVars PROVE FInv'
  OBVIOUS
<1>1. CASE UNCHANGED fileVars
  BY <1>1 DEF fileVars, FInv, FileTypes, ReadShape, PassesDone, Running, Recorded, DatedRead,
     PathStayed, AsBefore, Current, Begins, StableRead, FilesTypeOK
<1>2. CASE \E k \in Kinds : BeginRead(k)
  BY <1>2, BeginKeeps
<1>3. CASE OpenSource \/ ReadHalf \/ CloseSource
  BY <1>3, OpenKeeps, ReadKeeps, CloseKeeps
<1>4. CASE FinishDocument \/ FinishPdf \/ FinishCsv \/ FinishImage
  BY <1>4, FinishKeeps DEF FinishDocument, FinishPdf, FinishCsv, FinishImage, Documents
<1>5. CASE OpenPass \/ ClosePass \/ RestatBundle \/ FinishBundle
  BY <1>5, OpenPassKeeps, ClosePassKeeps, RestatKeeps, FinishBundleKeeps
<1>6. CASE \E i \in Inodes, h \in 1 .. 2, v \in Values, s \in 1 .. MaxSize + 1 : Edit(i, h, v, s)
  BY <1>6, EditKeeps
<1>7. CASE \E i \in Inodes, f \in Files : Replace(i, f)
  BY <1>7, ReplaceKeeps
<1>8. CASE Unlink \/ Tick
  BY <1>8, UnlinkKeeps, TickKeeps
<1> QED
  BY <1>1, <1>2, <1>3, <1>4, <1>5, <1>6, <1>7, <1>8 DEF FilesNext

(* What a reader of the user's files hands on is a content the file had at *)
(* one moment, however many files there are and however often they change, *)
(* unless a write did not move the file's time and the path came back too  *)
(* (_stable_read; ResumeBundleWritingContextService.plan).                 *)
THEOREM ReadsAlwaysStable == FilesSpec => []StableRead
<1>1. FInv => StableRead
  BY DEF FInv
<1> QED
  BY <1>1, FilesInitInv, FilesStep, PTL DEF FilesSpec
-----------------------------------------------------------------------------
(***************************************************************************)
(* The local workflows.  A job that looks at its records a second time     *)
(* compares them with a moment there was: the one at which it began to     *)
(* look, since a record only ever gains revisions (Rechecking).  What it   *)
(* stores afterwards names that moment.  An operation no two processes     *)
(* found unused at once has one open turn at most, and a job past its      *)
(* question means that nothing is stored under it yet (Alone).  What is    *)
(* stranded is part of no job that is past the check of its ids.           *)
(***************************************************************************)
Row == [rev : 1 .. MaxVersion, active : BOOLEAN, sens : 0 .. Secret]
Rows == UNION {[D -> Row] : D \in SUBSET Records}
Moment == UNION {[D -> Nat] : D \in SUBSET Records}
Ids ==
    ({"source"} \X Operations) \union ({"source"} \X Operations \X Nat) \union ({"retrieval"} \X Operations)
       \union ({"record"} \X Operations \X Records \X Nat) \union ({"review"} \X Operations \X Moment)
Turn == [outcome : {"completed", "failed"}, sens : 0 .. Secret]
Checked == {"recheck", "store", "turn", "open"}
Jobs == [op : Operations, phase : {"plan", "propose"} \union Checked, todo : SUBSET Records,
         rows : Rows, sens : 0 .. Secret, ids : SUBSET Ids, sources : Nat, nth : Nat]

WorkTypes ==
    /\ rec \in [Records -> Row]
    /\ made \subseteq Ids
    /\ turn \in [Operations -> Seq(Turn)]
    /\ opened \in [Operations -> Int]
    /\ item \in [Operations -> Seq([turn : Nat, sens : 0 .. Secret, needs : 0 .. Secret])]
    /\ job = [w \in Workers |-> job[w]]
    /\ moments \subseteq [Records -> Nat] /\ Revisions \in moments
    /\ stranded \subseteq made

(* Looking a second time: m is the moment the first look was complete. *)
Rechecking(j) == \E m \in moments : \A r \in DOMAIN j.rows :
    /\ j.rows[r].rev <= m[r] /\ m[r] <= rec[r].rev
    /\ r \notin j.todo => m[r] = j.rows[r].rev

(* What a proposal rests on: a completed turn nothing was proposed from. *)
Proposing(j) ==
    /\ Workflow[j.op] = "proposal"
    /\ j.nth \in 1 .. Len(turn[j.op]) /\ turn[j.op][j.nth].outcome = "completed"
    /\ turn[j.op][j.nth].sens = EffectiveSensitivity(j)
    /\ \A i \in DOMAIN item[j.op] : item[j.op][i].turn # j.nth

(* What the question whether the operation is used tells a job of it. *)
Alone(j) ==
    j.op \notin raced => /\ j.phase = "turn" => opened[j.op] = 0
                         /\ j.phase = "open" => Len(turn[j.op]) = 0 /\ opened[j.op] >= 1

JobSound(j) ==
    /\ j \in Jobs
    /\ \A r \in DOMAIN j.rows : j.rows[r].rev <= rec[r].rev
    /\ j.phase \in Checked => DerivedIds(j) \intersect stranded = {}
    /\ j.phase \in {"recheck", "store"} => j.ids \subseteq DerivedIds(j)
    /\ j.phase = "recheck" => Rechecking(j)
    /\ j.phase = "store" /\ Workflow[j.op] = "review" =>
          \E m \in moments : \A r \in DOMAIN j.rows : m[r] = j.rows[r].rev
    /\ j.phase = "propose" => Proposing(j)
    /\ Alone(j)

JobsSound == \A w \in Workers : \A j : j = job[w] /\ j # None => JobSound(j)

(* Two processes propose from different turns, and have a turn of one      *)
(* operation open only when they raced. *)
OneProposer ==
    \A v, w \in Workers : /\ job[v] # None /\ job[w] # None /\ job[v].op = job[w].op /\ v # w
        => /\ job[v].phase = "propose" /\ job[w].phase = "propose" => job[v].nth # job[w].nth
           /\ job[v].phase = "open" /\ job[w].phase = "open" => job[v].op \in raced

ItemsSound ==
    \A o \in Operations :
        /\ \A i \in DOMAIN item[o] :
              /\ item[o][i].turn \in DOMAIN turn[o]
              /\ turn[o][item[o][i].turn].outcome = "completed"
              /\ item[o][i].sens = turn[o][item[o][i].turn].sens
              /\ item[o][i].sens >= item[o][i].needs
        /\ \A i, k \in DOMAIN item[o] : item[o][i].turn = item[o][k].turn => i = k

TurnsSound == \A o \in Operations \ raced : Len(turn[o]) <= 1 /\ opened[o] >= Len(turn[o])

LInv == WorkTypes /\ JobsSound /\ OneProposer /\ ReviewIsOneMoment /\ ItemsSound /\ TurnsSound
          /\ RetryRefused
-----------------------------------------------------------------------------
(* The rows a job has read. *)
LEMMA RowsFacts ==
    ASSUME NEW f \in Rows
    PROVE  DOMAIN f \subseteq Records /\ \A r \in DOMAIN f : f[r] \in Row
<1>1. PICK D \in SUBSET Records : f \in [D -> Row]
  BY DEF Rows
<1> QED
  BY <1>1

LEMMA PutFacts ==
    ASSUME NEW f \in Rows, NEW r \in Records, NEW v \in Row
    PROVE  /\ Put(f, r, v) \in Rows
           /\ DOMAIN Put(f, r, v) = (DOMAIN f) \union {r}
           /\ \A x \in (DOMAIN f) \union {r} : Put(f, r, v)[x] = IF x = r THEN v ELSE f[x]
<1>1. DOMAIN f \subseteq Records /\ \A x \in DOMAIN f : f[x] \in Row
  BY RowsFacts
<1>2. PICK D \in SUBSET Records : D = (DOMAIN f) \union {r}
  BY <1>1
<1>3. Put(f, r, v) \in [D -> Row]
  BY <1>1, <1>2 DEF Put
<1>4. Put(f, r, v) \in Rows
  BY <1>3 DEF Rows
<1> QED
  BY <1>4 DEF Put

LEMMA NoRows == <<>> \in Rows /\ DOMAIN <<>> = {}
<1>1. PICK e : e = <<>>
  OBVIOUS
<1>2. e \in Seq(Row) /\ Len(e) = 0
  BY <1>1
<1>3. DOMAIN e = {} /\ e \in [{} -> Row]
  BY <1>2
<1>4. e \in Rows
  BY <1>3 DEF Rows
<1> QED
  BY <1>1, <1>3, <1>4

(* What the ids of a job's origins tell. *)
LEMMA DerivedFacts ==
    ASSUME NEW j \in Jobs
    PROVE  /\ DerivedIds(j) \subseteq Ids
           /\ \A id \in DerivedIds(j) : id[2] = j.op
           /\ \A id \in DerivedIds(j) : id[1] = "review" =>
                 /\ Workflow[j.op] = "review"
                 /\ id[3] = [r \in DOMAIN j.rows |-> j.rows[r].rev]
<1>1. j.op \in Operations /\ j.rows \in Rows
  BY DEF Jobs
<1>2. DOMAIN j.rows \subseteq Records /\ \A r \in DOMAIN j.rows : j.rows[r] \in Row
  BY <1>1, RowsFacts
<1>3. \A r \in DOMAIN j.rows : j.rows[r].rev \in Nat
  BY <1>2, WorkflowAssumption DEF Row
<1>4. ASSUME NEW id \in RecordIds(j)
      PROVE  id \in Ids /\ id[1] = "record" /\ id[2] = j.op
  <2>1. PICK r \in DOMAIN j.rows : id = <<"record", j.op, r, j.rows[r].rev>>
    BY <1>4 DEF RecordIds
  <2>2. r \in Records /\ j.rows[r].rev \in Nat
    BY <1>2, <1>3
  <2>3. id \in {"record"} \X Operations \X Records \X Nat
    BY <1>1, <2>1, <2>2
  <2> QED
    BY <2>1, <2>3 DEF Ids
<1>5. ASSUME NEW id \in GivenSources(j.op, j.sources)
      PROVE  id \in Ids /\ id[1] = "source" /\ id[2] = j.op
  <2>1. CASE j.sources = 1
    <3>1. id = <<"source", j.op>>
      BY <1>5, <2>1 DEF GivenSources
    <3>2. id \in {"source"} \X Operations
      BY <1>1, <3>1
    <3> QED
      BY <3>1, <3>2 DEF Ids
  <2>2. CASE j.sources # 1
    <3>1. PICK i \in 1 .. j.sources : id = <<"source", j.op, i>>
      BY <1>5, <2>2 DEF GivenSources
    <3>2. id \in {"source"} \X Operations \X Nat
      BY <1>1, <3>1
    <3> QED
      BY <3>1, <3>2 DEF Ids
  <2> QED
    BY <2>1, <2>2
<1>7. CASE Workflow[j.op] = "writing"
  <2>1. DerivedIds(j) = GivenSources(j.op, j.sources) \union RecordIds(j)
    BY <1>7 DEF DerivedIds
  <2> QED
    BY <2>1, <1>4, <1>5
<1>8. CASE Workflow[j.op] = "proposal"
  <2>1. DerivedIds(j) = RecordIds(j)
    BY <1>8 DEF DerivedIds
  <2> QED
    BY <2>1, <1>4
<1>9. CASE Workflow[j.op] = "replay"
  <2>1. PICK id : id = <<"retrieval", j.op>>
    OBVIOUS
  <2>2. DerivedIds(j) = {id}
    BY <1>9, <2>1 DEF DerivedIds
  <2>3. id \in {"retrieval"} \X Operations /\ id[1] = "retrieval" /\ id[2] = j.op
    BY <1>1, <2>1
  <2>4. id \in Ids
    BY <2>3 DEF Ids
  <2> QED
    BY <2>2, <2>3, <2>4
<1>10. CASE Workflow[j.op] = "review"
  <2>1. PICK f : f = [r \in DOMAIN j.rows |-> j.rows[r].rev]
    OBVIOUS
  <2>2. PICK id : id = <<"review", j.op, f>>
    OBVIOUS
  <2>3. DerivedIds(j) = {id}
    BY <1>10, <2>1, <2>2 DEF DerivedIds
  <2>4. f \in Moment
    <3>1. f \in [DOMAIN j.rows -> Nat]
      BY <1>3, <2>1
    <3> QED
      BY <3>1, <1>2 DEF Moment
  <2>5. id \in Ids
    <3>1. id \in {"review"} \X Operations \X Moment
      BY <1>1, <2>2, <2>4
    <3> QED
      BY <3>1 DEF Ids
  <2>6. id[1] = "review" /\ id[2] = j.op /\ id[3] = f
    BY <2>2
  <2> QED
    BY <1>10, <2>1, <2>3, <2>5, <2>6
<1>11. Workflow[j.op] \in {"writing", "proposal", "review", "replay"}
  BY <1>1, WorkflowAssumption
<1> QED
  BY <1>7, <1>8, <1>9, <1>10, <1>11

(* A bounded set of naturals has a largest member: the one at the least    *)
(* distance from the bound. *)
LEMMA LargestBelow ==
    ASSUME NEW S \in SUBSET (0 .. Secret), S # {}
    PROVE  Max(S) \in S /\ \A y \in S : Max(S) >= y
<1>1. S \subseteq Nat /\ \A x \in S : x <= Secret
  BY WorkflowAssumption
<1> DEFINE T == {Secret - x : x \in S}
<1>2. T \subseteq Nat
  <2>1. \A x \in S : Secret - x \in Nat
    BY <1>1, WorkflowAssumption
  <2> QED
    BY <2>1
<1>3. T # {}
  OBVIOUS
<1>4. PICK m \in T : \A y \in T : ~ (<<y, m>> \in OpToRel(<, Nat))
  <2> HIDE DEF T
  <2> QED
    BY <1>2, <1>3, NatLessThanWellFounded, WFMin
<1>5. \A y \in T : ~ (y < m)
  BY <1>2, <1>4 DEF OpToRel
<1>6. PICK x \in S : m = Secret - x
  BY <1>4
<1>7. ASSUME NEW y \in S PROVE x >= y
  <2>1. Secret - y \in T
    OBVIOUS
  <2>2. ~ (Secret - y < Secret - x)
    BY <2>1, <1>5, <1>6
  <2>3. x \in Nat /\ y \in Nat
    BY <1>1
  <2> QED
    BY <2>2, <2>3, WorkflowAssumption
<1> QED
  BY <1>7 DEF Max

(* The sensitivity a turn and a proposal get. *)
LEMMA SensitivityFacts ==
    ASSUME NEW j \in Jobs
    PROVE  /\ EffectiveSensitivity(j) \in 0 .. Secret
           /\ Max({0} \union {j.rows[r].sens : r \in DOMAIN j.rows}) \in 0 .. Secret
           /\ Workflow[j.op] # "replay" =>
                 EffectiveSensitivity(j) >= Max({0} \union {j.rows[r].sens : r \in DOMAIN j.rows})
<1>1. j.rows \in Rows /\ j.sens \in 0 .. Secret
  BY DEF Jobs
<1>2. \A r \in DOMAIN j.rows : j.rows[r] \in Row
  BY <1>1, RowsFacts
<1>3. \A r \in DOMAIN j.rows : j.rows[r].sens \in 0 .. Secret
  BY <1>2 DEF Row
<1>4. PICK S \in SUBSET (0 .. Secret) : S = {j.rows[r].sens : r \in DOMAIN j.rows}
  BY <1>3
<1>5. PICK A \in SUBSET (0 .. Secret) : A = {j.sens} \union S
  BY <1>1
<1>6. PICK B \in SUBSET (0 .. Secret) : B = {0} \union S
  <2>1. 0 \in 0 .. Secret
    BY WorkflowAssumption
  <2> QED
    BY <2>1
<1>7. Max(A) \in A /\ \A y \in A : Max(A) >= y
  BY <1>5, LargestBelow
<1>8. Max(B) \in B
  BY <1>6, LargestBelow
<1>9. Max(A) \in 0 .. Secret /\ Max(A) >= Max(B)
  <2>1. Max(A) \in 0 .. Secret
    BY <1>7
  <2>2. CASE Max(B) = 0
    BY <2>1, <2>2, WorkflowAssumption
  <2>3. CASE Max(B) \in S
    BY <2>1, <2>3, <1>5, <1>7
  <2> QED
    BY <2>1, <2>2, <2>3, <1>6, <1>8
<1>10. EffectiveSensitivity(j) = IF Workflow[j.op] = "replay" THEN j.sens ELSE Max(A)
  BY <1>4, <1>5 DEF EffectiveSensitivity
<1>11. Max({0} \union {j.rows[r].sens : r \in DOMAIN j.rows}) = Max(B)
  BY <1>4, <1>6
<1> QED
  BY <1>1, <1>6, <1>8, <1>9, <1>10, <1>11
-----------------------------------------------------------------------------
(* Revisions only grow, and a moment there was stays one. *)
Grows ==
    /\ \A r \in Records : rec[r].rev \in Nat /\ rec'[r].rev \in Nat /\ rec[r].rev <= rec'[r].rev
    /\ moments \subseteq moments' /\ moments' \subseteq [Records -> Nat]

LEMMA StillGrows ==
    ASSUME WorkTypes, rec' = rec, moments' = moments
    PROVE  Grows
<1>1. ASSUME NEW r \in Records PROVE rec[r].rev \in Nat
  BY WorkflowAssumption DEF WorkTypes, Row
<1>2. \A r \in Records : rec[r].rev \in Nat /\ rec'[r].rev \in Nat /\ rec[r].rev <= rec'[r].rev
  BY <1>1
<1> QED
  BY <1>2 DEF Grows, WorkTypes

(* A job nobody touches. *)
LEMMA JobKept ==
    ASSUME NEW j, JobSound(j), Grows,
           j.phase \in Checked => DerivedIds(j) \intersect stranded' = {},
           j.phase = "propose" => Proposing(j)', Alone(j)'
    PROVE  JobSound(j)'
<1>1. j \in Jobs /\ j.rows \in Rows
  BY DEF JobSound, Jobs
<1>2. DOMAIN j.rows \subseteq Records /\ \A r \in DOMAIN j.rows : j.rows[r].rev \in Nat
  <2>1. ASSUME NEW r \in DOMAIN j.rows PROVE j.rows[r].rev \in Nat
    <3>1. j.rows[r] \in Row
      BY <1>1, RowsFacts
    <3> QED
      BY <3>1, WorkflowAssumption DEF Row
  <2> QED
    BY <2>1, <1>1, RowsFacts
<1>3. ASSUME NEW r \in DOMAIN j.rows PROVE j.rows[r].rev <= rec'[r].rev
  <2>1. j.rows[r].rev <= rec[r].rev
    BY DEF JobSound
  <2> QED
    BY <2>1, <1>2 DEF Grows
<1>4. ASSUME j.phase = "recheck" PROVE Rechecking(j)'
  <2>1. PICK m \in moments : \A r \in DOMAIN j.rows :
           /\ j.rows[r].rev <= m[r] /\ m[r] <= rec[r].rev
           /\ r \notin j.todo => m[r] = j.rows[r].rev
    BY <1>4 DEF JobSound, Rechecking
  <2>2. m \in moments' /\ m \in [Records -> Nat]
    BY DEF Grows
  <2>3. ASSUME NEW r \in DOMAIN j.rows PROVE m[r] <= rec'[r].rev
    <3>1. r \in Records /\ m[r] \in Nat /\ m[r] <= rec[r].rev
      BY <1>2, <2>1, <2>2
    <3> QED
      BY <3>1 DEF Grows
  <2> QED
    BY <2>1, <2>2, <2>3 DEF Rechecking
<1>5. (DerivedIds(j))' = DerivedIds(j)
  BY DEF DerivedIds, RecordIds, GivenSources
<1>6. ASSUME j.phase = "store", Workflow[j.op] = "review"
      PROVE  \E m \in moments' : \A r \in DOMAIN j.rows : m[r] = j.rows[r].rev
  BY <1>6 DEF JobSound, Grows
<1>8. j.phase \in {"recheck", "store"} => j.ids \subseteq DerivedIds(j)
  BY DEF JobSound
<1> QED
  BY <1>1, <1>3, <1>4, <1>5, <1>6, <1>8 DEF JobSound

(* The same, when turns and work items stay. *)
LEMMA JobAside ==
    ASSUME NEW j, JobSound(j), Grows, stranded' = stranded,
           turn' = turn, item' = item, opened' = opened, raced' = raced
    PROVE  JobSound(j)'
<1>1. j.phase \in Checked => DerivedIds(j) \intersect stranded' = {}
  BY DEF JobSound
<1>2. (EffectiveSensitivity(j))' = EffectiveSensitivity(j)
  BY DEF EffectiveSensitivity
<1>3. j.phase = "propose" => Proposing(j)'
  BY <1>2 DEF JobSound, Proposing
<1>4. Alone(j)'
  BY DEF JobSound, Alone
<1> QED
  BY <1>1, <1>3, <1>4, JobKept

(* A process goes on: what is left to show of its new job, and of what it  *)
(* stored. *)
LEMMA Advances ==
    ASSUME LInv, NEW w \in Workers, NEW k, Step(w, k), UNCHANGED stranded,
           JobSound(k), k.phase \notin {"propose", "open"},
           made \subseteq made', made' \subseteq Ids, ReviewIsOneMoment'
    PROVE  LInv'
<1>1. /\ WorkTypes /\ JobsSound /\ OneProposer /\ ItemsSound /\ TurnsSound /\ RetryRefused
  BY DEF LInv
<1>2. /\ rec' = rec /\ turn' = turn /\ item' = item /\ moments' = moments /\ stranded' = stranded
      /\ opened' = opened /\ raced' = raced /\ spent' = spent
  BY DEF Step
<1>3. job' = [v \in Workers |-> IF v = w THEN k ELSE job[v]]
  BY <1>1 DEF Step, WorkTypes
<1>4. WorkTypes'
  <2>1. stranded' \subseteq made'
    BY <1>1, <1>2 DEF WorkTypes
  <2> QED
    BY <1>1, <1>2, <1>3, <2>1 DEF WorkTypes, Revisions
<1>5. Grows
  BY <1>1, <1>2, StillGrows
<1>6. JobsSound'
  <2> SUFFICES ASSUME NEW v \in Workers, NEW j, j = job'[v], j # None PROVE JobSound(j)'
    BY DEF JobsSound
  <2>2. JobSound(j)
    BY <1>1, <1>3 DEF JobsSound
  <2> QED
    BY <1>2, <1>5, <2>2, JobAside
<1>7. OneProposer'
  BY <1>1, <1>2, <1>3 DEF OneProposer
<1>8. ItemsSound' /\ TurnsSound' /\ RetryRefused'
  BY <1>1, <1>2 DEF ItemsSound, TurnsSound, RetryRefused
<1> QED
  BY <1>4, <1>6, <1>7, <1>8 DEF LInv

(* What an ending leaves behind is part of no job and of no turn. *)
LEMMA LeftBehind ==
    ASSUME LInv, NEW w \in Workers, job[w] # None, Leave(w)
    PROVE  /\ stranded' \subseteq made /\ stranded' \intersect spent = {}
           /\ \A v \in Workers \ {w} : \A j : /\ j = job[v] /\ j # None /\ j.phase \in Checked
                                             => DerivedIds(j) \intersect stranded' = {}
<1>1. /\ stranded' = stranded \union Abandoned(w) /\ stranded \subseteq made
      /\ stranded \intersect spent = {} /\ JobsSound
  BY DEF LInv, Leave, WorkTypes, RetryRefused
<1>2. Abandoned(w) \subseteq made /\ Abandoned(w) \intersect spent = {}
  BY DEF Abandoned
<1>3. ASSUME NEW v \in Workers \ {w}, NEW j, j = job[v], j # None, j.phase \in Checked
      PROVE  DerivedIds(j) \intersect stranded' = {}
  <2>1. JobSound(j) /\ j \in Jobs
    BY <1>1, <1>3 DEF JobsSound, JobSound
  <2>2. DerivedIds(j) \intersect stranded = {}
    BY <2>1, <1>3 DEF JobSound
  <2>3. CASE j.op = job[w].op
    <3>1. Abandoned(w) = {}
      BY <1>3, <2>3 DEF Abandoned
    <3> QED
      BY <1>1, <2>2, <3>1
  <2>4. CASE j.op # job[w].op
    <3>1. \A id \in Abandoned(w) : id[2] = job[w].op
      BY DEF Abandoned
    <3>2. \A id \in DerivedIds(j) : id[2] = j.op
      BY <2>1, DerivedFacts
    <3> QED
      BY <1>1, <2>2, <2>4, <3>1, <3>2
  <2> QED
    BY <2>3, <2>4
<1> QED
  BY <1>1, <1>2, <1>3

(* A process ends without a turn: what is left to show of the user's       *)
(* messages. *)
LEMMA Leaves ==
    ASSUME LInv, NEW w \in Workers, job[w] # None, Leave(w),
           opened' \in [Operations -> Int], TurnsSound',
           \A v \in Workers \ {w} : \A j : j = job[v] /\ j # None => Alone(j)'
    PROVE  LInv'
<1>1. /\ WorkTypes /\ JobsSound /\ OneProposer /\ ItemsSound /\ ReviewIsOneMoment
  BY DEF LInv
<1>2. /\ rec' = rec /\ turn' = turn /\ item' = item /\ moments' = moments /\ made' = made
      /\ raced' = raced /\ spent' = spent
  BY DEF Leave
<1>3. job' = [v \in Workers |-> IF v = w THEN None ELSE job[v]]
  BY <1>1 DEF Leave, WorkTypes
<1>4. /\ stranded' \subseteq made' /\ stranded' \intersect spent' = {}
      /\ \A v \in Workers \ {w} : \A j : /\ j = job[v] /\ j # None /\ j.phase \in Checked
                                        => DerivedIds(j) \intersect stranded' = {}
  BY <1>2, LeftBehind
<1>5. WorkTypes'
  BY <1>1, <1>2, <1>3, <1>4 DEF WorkTypes, Revisions
<1>6. Grows
  BY <1>1, <1>2, StillGrows
<1>7. JobsSound'
  <2> SUFFICES ASSUME NEW v \in Workers, NEW j, j = job'[v], j # None PROVE JobSound(j)'
    BY DEF JobsSound
  <2>1. v \in Workers \ {w} /\ j = job[v]
    BY <1>3
  <2>2. JobSound(j)
    BY <1>1, <2>1 DEF JobsSound
  <2>3. (EffectiveSensitivity(j))' = EffectiveSensitivity(j)
    BY DEF EffectiveSensitivity
  <2>4. j.phase = "propose" => Proposing(j)'
    BY <1>2, <2>2, <2>3 DEF JobSound, Proposing
  <2>5. Alone(j)'
    BY <2>1
  <2>6. j.phase \in Checked => DerivedIds(j) \intersect stranded' = {}
    BY <1>4, <2>1
  <2> QED
    BY <1>6, <2>2, <2>4, <2>5, <2>6, JobKept
<1>8. OneProposer'
  BY <1>1, <1>2, <1>3 DEF OneProposer
<1>9. ItemsSound' /\ ReviewIsOneMoment' /\ RetryRefused'
  BY <1>1, <1>2, <1>4 DEF ItemsSound, ReviewIsOneMoment, RetryRefused
<1> QED
  BY <1>5, <1>7, <1>8, <1>9 DEF LInv

LEMMA Quits ==
    ASSUME LInv, NEW w \in Workers, job[w] # None, Quit(w)
    PROVE  LInv'
<1>1. Leave(w) /\ opened' = opened /\ turn' = turn /\ raced' = raced
  BY DEF Quit, Leave
<1>2. TurnsSound' /\ opened' \in [Operations -> Int]
  BY <1>1 DEF LInv, TurnsSound, WorkTypes
<1>3. ASSUME NEW v \in Workers \ {w}, NEW j, j = job[v], j # None PROVE Alone(j)'
  <2>1. Alone(j)
    BY <1>3 DEF LInv, JobsSound, JobSound
  <2> QED
    BY <1>1, <2>1 DEF Alone
<1> QED
  BY <1>1, <1>2, <1>3, Leaves
-----------------------------------------------------------------------------
LEMMA ChangeRecordKeeps ==
    ASSUME LInv, NEW r \in Records, NEW a \in BOOLEAN, NEW z \in 0 .. Secret, ChangeRecord(r, a, z)
    PROVE  LInv'
<1>1. /\ WorkTypes /\ JobsSound /\ OneProposer /\ ItemsSound /\ TurnsSound /\ ReviewIsOneMoment
  BY DEF LInv
<1>2. /\ made' = made /\ turn' = turn /\ item' = item /\ job' = job /\ stranded' = stranded
      /\ opened' = opened /\ raced' = raced /\ spent' = spent
  BY DEF ChangeRecord
<1>3. PICK n : n = rec[r].rev
  OBVIOUS
<1>4. rec[r] \in Row /\ n \in 1 .. MaxVersion /\ n < MaxVersion
  BY <1>1, <1>3 DEF WorkTypes, Row, ChangeRecord
<1>5. PICK x : x = [rev |-> n + 1, active |-> a, sens |-> z]
  OBVIOUS
<1>6. n + 1 \in 1 .. MaxVersion
  BY <1>4, WorkflowAssumption
<1>7. x \in Row /\ x.rev = n + 1
  BY <1>5, <1>6 DEF Row
<1>8. rec' = [rec EXCEPT ![r] = x]
  BY <1>3, <1>5 DEF ChangeRecord
<1>9. rec' \in [Records -> Row] /\ \A q \in Records : rec'[q] = IF q = r THEN x ELSE rec[q]
  BY <1>1, <1>7, <1>8 DEF WorkTypes
<1>10. Revisions' = [Revisions EXCEPT ![r] = @ + 1]
  BY <1>3, <1>7, <1>9 DEF Revisions
<1>11. \A q \in Records : rec[q].rev \in Nat /\ rec'[q].rev \in Nat
  <2>1. SUFFICES ASSUME NEW q \in Records PROVE rec[q].rev \in Nat /\ rec'[q].rev \in Nat
    OBVIOUS
  <2>2. rec[q] \in Row /\ rec'[q] \in Row
    BY <1>1, <1>9 DEF WorkTypes
  <2> QED
    BY <2>2, WorkflowAssumption DEF Row
<1>12. Revisions' \in [Records -> Nat]
  BY <1>11 DEF Revisions
<1>13. moments' = moments \union {Revisions'}
  BY <1>10 DEF ChangeRecord
<1>14. ASSUME NEW q \in Records PROVE rec[q].rev <= rec'[q].rev
  BY <1>3, <1>4, <1>7, <1>9, <1>11
<1>15. Grows
  BY <1>1, <1>11, <1>12, <1>13, <1>14 DEF Grows, WorkTypes
<1>16. WorkTypes'
  BY <1>1, <1>2, <1>9, <1>12, <1>13 DEF WorkTypes
<1>17. JobsSound'
  <2> SUFFICES ASSUME NEW v \in Workers, NEW j, j = job'[v], j # None PROVE JobSound(j)'
    BY DEF JobsSound
  <2>1. JobSound(j)
    BY <1>1, <1>2 DEF JobsSound
  <2> QED
    BY <1>2, <1>15, <2>1, JobAside
<1>18. OneProposer' /\ ItemsSound' /\ TurnsSound'
  BY <1>1, <1>2 DEF OneProposer, ItemsSound, TurnsSound
<1>19. ReviewIsOneMoment' /\ RetryRefused'
  BY <1>1, <1>2, <1>13 DEF LInv, ReviewIsOneMoment, RetryRefused
<1> QED
  BY <1>16, <1>17, <1>18, <1>19 DEF LInv

LEMMA MadeAsBefore ==
    ASSUME LInv, made' = made, moments' = moments
    PROVE  made \subseteq made' /\ made' \subseteq Ids /\ ReviewIsOneMoment'
BY DEF LInv, WorkTypes, ReviewIsOneMoment

LEMMA WorkBeginKeeps ==
    ASSUME LInv, NEW w \in Workers, NEW o \in Operations, NEW s \in SUBSET Records,
           NEW z \in 0 .. Secret, NEW n \in 0 .. MaxSources, WorkBegin(w, o, s, z, n)
    PROVE  LInv'
<1>1. PICK e : e = <<>>
  OBVIOUS
<1>2. e \in Rows /\ DOMAIN e = {}
  BY <1>1, NoRows
<1>3. PICK k : k = [op |-> o, phase |-> "plan", todo |-> s, rows |-> e, sens |-> z, ids |-> {},
                    sources |-> n, nth |-> 0]
  OBVIOUS
<1>4. k \in Jobs /\ k.phase = "plan" /\ k.rows = e
  BY <1>2, <1>3, WorkflowAssumption DEF Jobs
<1>5. JobSound(k)
  BY <1>2, <1>4 DEF JobSound, Alone, Checked
<1>6. Step(w, k) /\ UNCHANGED stranded /\ made' = made /\ moments' = moments
  BY <1>1, <1>3 DEF WorkBegin, Step
<1> QED
  BY <1>4, <1>5, <1>6, MadeAsBefore, Advances

LEMMA PlanRecordKeeps ==
    ASSUME LInv, NEW w \in Workers, NEW r \in Records, PlanRecord(w, r)
    PROVE  LInv'
<1>1. PICK j : j = job[w]
  OBVIOUS
<1>2. /\ j # None /\ j.phase = "plan" /\ r \in j.todo /\ JobSound(j) /\ j \in Jobs
  BY <1>1 DEF PlanRecord, LInv, JobsSound, JobSound
<1>3. CASE Quit(w)
  BY <1>1, <1>2, <1>3, Quits
<1>4. CASE ~Quit(w)
  <2>1. rec[r] \in Row /\ rec[r].rev \in Nat
    <3>1. rec[r] \in Row
      BY DEF LInv, WorkTypes
    <3> QED
      BY <3>1, WorkflowAssumption DEF Row
  <2>2. PICK f : f = Put(j.rows, r, rec[r])
    OBVIOUS
  <2>3. /\ f \in Rows /\ DOMAIN f = (DOMAIN j.rows) \union {r}
        /\ \A x \in DOMAIN f : f[x] = IF x = r THEN rec[r] ELSE j.rows[x]
    <3>1. PICK g \in Rows : g = j.rows
      BY <1>2 DEF Jobs
    <3>2. PICK v \in Row : v = rec[r]
      BY <2>1
    <3>3. f = Put(g, r, v)
      BY <2>2, <3>1, <3>2
    <3>4. /\ Put(g, r, v) \in Rows
          /\ DOMAIN Put(g, r, v) = (DOMAIN g) \union {r}
          /\ \A x \in (DOMAIN g) \union {r} : Put(g, r, v)[x] = IF x = r THEN v ELSE g[x]
      BY PutFacts
    <3> QED
      BY <3>1, <3>2, <3>3, <3>4
  <2>4. PICK q : q = [j EXCEPT !.todo = @ \ {r}]
    OBVIOUS
  <2>5. q \in Jobs /\ q.phase = "plan" /\ q.op = j.op
    BY <1>2, <2>4 DEF Jobs
  <2>6. PICK k : k = [q EXCEPT !.rows = f]
    OBVIOUS
  <2>7. k \in Jobs /\ k.phase = "plan" /\ k.rows = f
    BY <2>3, <2>5, <2>6 DEF Jobs
  <2>8. /\ Step(w, [j EXCEPT !.todo = @ \ {r}, !.rows = Put(@, r, rec[r])])
        /\ made' = made /\ stranded' = stranded
    BY <1>1, <1>4 DEF PlanRecord
  <2>9. k = [j EXCEPT !.todo = @ \ {r}, !.rows = Put(@, r, rec[r])]
    <3>1. q.rows = j.rows
      BY <1>2, <2>4 DEF Jobs
    <3>2. k = [j EXCEPT !.todo = @ \ {r}, !.rows = f]
      BY <2>4, <2>6
    <3> QED
      BY <3>2, <2>2
  <2>10. \A x \in DOMAIN f : f[x].rev <= rec[x].rev
    BY <1>2, <2>1, <2>3 DEF JobSound
  <2>11. JobSound(k)
    BY <2>7, <2>10 DEF JobSound, Alone, Checked
  <2>12. Step(w, k) /\ moments' = moments
    BY <2>8, <2>9 DEF Step
  <2> QED
    BY <2>7, <2>8, <2>11, <2>12, MadeAsBefore, Advances
<1> QED
  BY <1>3, <1>4

LEMMA CheckUnusedKeeps ==
    ASSUME LInv, NEW w \in Workers, CheckUnused(w)
    PROVE  LInv'
<1>1. PICK j : j = job[w]
  OBVIOUS
<1>2. /\ j # None /\ j.phase = "plan" /\ JobSound(j) /\ j \in Jobs
  BY <1>1 DEF CheckUnused, LInv, JobsSound, JobSound
<1>3. CASE ~Unused(j)
  <2>1. Quit(w)
    BY <1>1, <1>3 DEF CheckUnused
  <2> QED
    BY <1>1, <1>2, <2>1, Quits
<1>4. CASE Unused(j)
  <2>1. PICK p : p = IF Workflow[j.op] = "review" THEN "recheck" ELSE "store"
    OBVIOUS
  <2>2. PICK t : t = IF Workflow[j.op] = "review" THEN DOMAIN j.rows ELSE {}
    OBVIOUS
  <2>3. PICK d : d = DerivedIds(j)
    OBVIOUS
  <2>4. /\ j.op \in Operations /\ j.rows \in Rows /\ DOMAIN j.rows \subseteq Records
        /\ t \in SUBSET Records /\ d \in SUBSET Ids /\ p \in {"recheck", "store"}
    BY <1>2, <2>1, <2>2, <2>3, RowsFacts, DerivedFacts DEF Jobs
  <2>5. PICK q : q = [j EXCEPT !.phase = p]
    OBVIOUS
  <2>6. q \in Jobs /\ q.phase = p /\ q.op = j.op /\ q.rows = j.rows /\ q.sources = j.sources
    BY <1>2, <2>4, <2>5 DEF Jobs, Checked
  <2>7. PICK u : u = [q EXCEPT !.todo = t]
    OBVIOUS
  <2>8. /\ u \in Jobs /\ u.phase = p /\ u.op = j.op /\ u.rows = j.rows /\ u.todo = t
        /\ u.sources = j.sources
    BY <2>4, <2>6, <2>7 DEF Jobs
  <2>9. PICK k : k = [u EXCEPT !.ids = d]
    OBVIOUS
  <2>10. /\ k \in Jobs /\ k.phase = p /\ k.op = j.op /\ k.rows = j.rows /\ k.todo = t /\ k.ids = d
         /\ k.sources = j.sources
    BY <2>4, <2>8, <2>9 DEF Jobs
  <2>11. k = [j EXCEPT !.phase = p, !.todo = t, !.ids = d]
    BY <2>5, <2>7, <2>9
  <2>12. Step(w, k) /\ made' = made /\ stranded' = stranded /\ moments' = moments
    BY <1>1, <1>4, <2>1, <2>2, <2>3, <2>11 DEF CheckUnused, Step
  <2>13. DerivedIds(k) = d
    BY <2>3, <2>10 DEF DerivedIds, RecordIds
  <2>14. d \intersect stranded = {}
    BY <1>4, <2>3 DEF Unused, LInv, WorkTypes
  <2>15. \A r \in DOMAIN j.rows : j.rows[r].rev <= rec[r].rev
    BY <1>2 DEF JobSound
  <2>16. ASSUME p = "recheck" PROVE Rechecking(k)
    <3>1. t = DOMAIN j.rows
      BY <2>1, <2>2, <2>16
    <3>2. PICK m \in moments : m = Revisions
      BY DEF LInv, WorkTypes
    <3>3. ASSUME NEW r \in DOMAIN j.rows PROVE m[r] = rec[r].rev /\ rec[r].rev \in Nat
      <4>1. r \in Records /\ rec[r] \in Row
        BY <2>4 DEF LInv, WorkTypes
      <4> QED
        BY <4>1, <3>2, WorkflowAssumption DEF Revisions, Row
    <3>4. \A r \in DOMAIN j.rows : /\ j.rows[r].rev <= m[r] /\ m[r] <= rec[r].rev
                                   /\ r \in t
      BY <3>1, <3>3, <2>15
    <3> QED
      BY <2>10, <3>4 DEF Rechecking
  <2>17. p = "store" => Workflow[k.op] # "review"
    BY <2>1, <2>10
  <2>18. JobSound(k) /\ k.phase \notin {"propose", "open"}
    BY <2>4, <2>10, <2>13, <2>14, <2>15, <2>16, <2>17 DEF JobSound, Alone
  <2> QED
    BY <2>12, <2>18, MadeAsBefore, Advances
<1> QED
  BY <1>3, <1>4
LEMMA RecheckKeeps ==
    ASSUME LInv, NEW w \in Workers, NEW r \in Records, Recheck(w, r)
    PROVE  LInv'
<1>1. PICK j : j = job[w]
  OBVIOUS
<1>2. /\ j # None /\ j.phase = "recheck" /\ r \in j.todo /\ JobSound(j) /\ j \in Jobs
  BY <1>1 DEF Recheck, LInv, JobsSound, JobSound
<1>3. CASE ~UnchangedRecord(j, r)
  <2>1. Quit(w)
    BY <1>1, <1>3 DEF Recheck
  <2> QED
    BY <1>1, <1>2, <2>1, Quits
<1>4. CASE UnchangedRecord(j, r)
  <2>1. PICK p : p = IF j.todo = {r} THEN "store" ELSE "recheck"
    OBVIOUS
  <2>2. PICK q : q = [j EXCEPT !.todo = @ \ {r}]
    OBVIOUS
  <2>3. /\ q \in Jobs /\ q.op = j.op /\ q.rows = j.rows /\ q.ids = j.ids
        /\ q.todo = j.todo \ {r} /\ q.sources = j.sources
    BY <1>2, <2>2 DEF Jobs
  <2>4. PICK k : k = [q EXCEPT !.phase = p]
    OBVIOUS
  <2>5. /\ k \in Jobs /\ k.op = j.op /\ k.rows = j.rows /\ k.ids = j.ids
        /\ k.todo = j.todo \ {r} /\ k.phase = p /\ k.sources = j.sources
    BY <2>1, <2>3, <2>4 DEF Jobs, Checked
  <2>6. k = [j EXCEPT !.todo = @ \ {r}, !.phase = p]
    BY <2>2, <2>4
  <2>7. Step(w, k) /\ made' = made /\ stranded' = stranded /\ moments' = moments
    BY <1>1, <1>4, <2>1, <2>6 DEF Recheck, Step
  <2>8. DerivedIds(k) = DerivedIds(j)
    BY <2>5 DEF DerivedIds, RecordIds
  <2>9. PICK m \in moments : \A x \in DOMAIN j.rows :
           /\ j.rows[x].rev <= m[x] /\ m[x] <= rec[x].rev
           /\ x \notin j.todo => m[x] = j.rows[x].rev
    BY <1>2 DEF JobSound, Rechecking
  <2>10. ASSUME r \in DOMAIN j.rows PROVE m[r] = j.rows[r].rev
    <3>1. rec[r] = j.rows[r]
      BY <1>4 DEF UnchangedRecord
    <3>2. m \in [Records -> Nat] /\ rec[r] \in Row
      BY DEF LInv, WorkTypes
    <3>3. m[r] \in Nat /\ rec[r].rev \in Nat
      BY <3>2, WorkflowAssumption DEF Row
    <3> QED
      BY <2>9, <2>10, <3>1, <3>3
  <2>11. \A x \in DOMAIN k.rows :
           /\ k.rows[x].rev <= m[x] /\ m[x] <= rec[x].rev
           /\ x \notin k.todo => m[x] = k.rows[x].rev
    BY <2>5, <2>9, <2>10
  <2>12. p = "store" => \A x \in DOMAIN k.rows : m[x] = k.rows[x].rev
    BY <2>1, <2>5, <2>11
  <2>13. JobSound(k) /\ k.phase \notin {"propose", "open"}
    <3>1. \A x \in DOMAIN k.rows : k.rows[x].rev <= rec[x].rev
      BY <1>2, <2>5 DEF JobSound
    <3>2. DerivedIds(k) \intersect stranded = {} /\ k.ids \subseteq DerivedIds(k)
      BY <1>2, <2>5, <2>8 DEF JobSound, Checked
    <3>3. Rechecking(k)
      BY <2>9, <2>11 DEF Rechecking
    <3>4. p \in {"store", "recheck"}
      BY <2>1
    <3> QED
      BY <2>5, <2>9, <2>12, <3>1, <3>2, <3>3, <3>4 DEF JobSound, Alone
  <2> QED
    BY <2>7, <2>13, MadeAsBefore, Advances
<1> QED
  BY <1>3, <1>4

LEMMA StoreKeeps ==
    ASSUME LInv, NEW w \in Workers, NEW id, id \in job[w].ids, Store(w, id)
    PROVE  LInv'
<1>1. PICK j : j = job[w]
  OBVIOUS
<1>2. /\ j # None /\ j.phase = "store" /\ id \in j.ids /\ JobSound(j) /\ j \in Jobs
  BY <1>1 DEF Store, LInv, JobsSound, JobSound
<1>3. PICK k : k = [j EXCEPT !.ids = @ \ {id}]
  OBVIOUS
<1>4. /\ k \in Jobs /\ k.op = j.op /\ k.rows = j.rows /\ k.phase = "store"
      /\ k.ids = j.ids \ {id} /\ k.sources = j.sources
  BY <1>2, <1>3 DEF Jobs
<1>5. DerivedIds(k) = DerivedIds(j)
  BY <1>4 DEF DerivedIds, RecordIds
<1>6. JobSound(k)
  BY <1>2, <1>4, <1>5 DEF JobSound, Alone
<1>7. Step(w, k) /\ UNCHANGED stranded /\ made' = made \union {id} /\ moments' = moments
  BY <1>1, <1>3 DEF Store, Step
<1>8. id \in DerivedIds(j) /\ id \in Ids
  BY <1>2, DerivedFacts DEF JobSound
<1>9. made \subseteq made' /\ made' \subseteq Ids
  BY <1>7, <1>8 DEF LInv, WorkTypes
<1>10. ReviewIsOneMoment'
  <2>2. ASSUME id[1] = "review"
        PROVE  \E v \in moments : \A r \in DOMAIN id[3] : v[r] = id[3][r]
    <3>1. /\ Workflow[j.op] = "review"
          /\ id[3] = [r \in DOMAIN j.rows |-> j.rows[r].rev]
      BY <1>2, <1>8, <2>2, DerivedFacts
    <3>2. PICK m \in moments : \A r \in DOMAIN j.rows : m[r] = j.rows[r].rev
      BY <1>2, <3>1 DEF JobSound
    <3> QED
      BY <3>1, <3>2
  <2> QED
    BY <1>7, <2>2 DEF LInv, ReviewIsOneMoment
<1> QED
  BY <1>4, <1>6, <1>7, <1>9, <1>10, Advances

LEMMA AskUnusedKeeps ==
    ASSUME LInv, NEW w \in Workers, AskUnused(w)
    PROVE  LInv'
<1>1. PICK j : j = job[w]
  OBVIOUS
<1>2. /\ j # None /\ j.phase = "store" /\ JobSound(j) /\ j \in Jobs
  BY <1>1 DEF AskUnused, LInv, JobsSound, JobSound
<1>3. CASE opened[j.op] # 0
  <2>1. Quit(w)
    BY <1>1, <1>3 DEF AskUnused
  <2> QED
    BY <1>1, <1>2, <2>1, Quits
<1>4. CASE opened[j.op] = 0
  <2>1. PICK k : k = [j EXCEPT !.phase = "turn"]
    OBVIOUS
  <2>2. k \in Jobs /\ k.op = j.op /\ k.rows = j.rows /\ k.phase = "turn" /\ k.sources = j.sources
    BY <1>2, <2>1 DEF Jobs, Checked
  <2>3. DerivedIds(k) = DerivedIds(j)
    BY <2>2 DEF DerivedIds, RecordIds
  <2>4. JobSound(k)
    BY <1>2, <1>4, <2>2, <2>3 DEF JobSound, Alone, Checked
  <2>5. Step(w, k) /\ UNCHANGED stranded /\ made' = made /\ moments' = moments
    BY <1>1, <1>4, <2>1 DEF AskUnused, Step
  <2> QED
    BY <2>2, <2>4, <2>5, MadeAsBefore, Advances
<1> QED
  BY <1>3, <1>4

LEMMA OpenTurnKeeps ==
    ASSUME LInv, NEW w \in Workers, OpenTurn(w)
    PROVE  LInv'
<1>1. PICK j : j = job[w]
  OBVIOUS
<1>2. /\ j # None /\ j.phase = "turn" /\ JobSound(j) /\ j \in Jobs /\ j.op \in Operations
  BY <1>1 DEF OpenTurn, LInv, JobsSound, JobSound, Jobs
<1>3. PICK o \in Operations : o = j.op
  BY <1>2
<1>4. /\ WorkTypes /\ JobsSound /\ OneProposer /\ ItemsSound /\ TurnsSound /\ ReviewIsOneMoment
      /\ RetryRefused
  BY DEF LInv
<1>5. PICK k : k = [j EXCEPT !.phase = "open"]
  OBVIOUS
<1>6. k \in Jobs /\ k.op = o /\ k.rows = j.rows /\ k.phase = "open" /\ k.sources = j.sources
  BY <1>2, <1>3, <1>5 DEF Jobs, Checked
<1>7. /\ rec' = rec /\ made' = made /\ turn' = turn /\ item' = item /\ moments' = moments
      /\ spent' = spent /\ stranded' = stranded
  BY DEF OpenTurn
<1>8. /\ opened' \in [Operations -> Int]
      /\ \A q \in Operations : opened'[q] = IF q = o THEN opened[o] + 1 ELSE opened[q]
  BY <1>1, <1>3, <1>4 DEF OpenTurn, WorkTypes
<1>9. job' = [v \in Workers |-> IF v = w THEN k ELSE job[v]]
  BY <1>1, <1>4, <1>5 DEF OpenTurn, WorkTypes
<1>10. /\ raced \subseteq raced' /\ raced' \subseteq raced \union {o}
       /\ o \notin raced' => \A v \in Workers \ {w} :
             ~(job[v] # None /\ job[v].phase = "turn" /\ job[v].op = o)
  BY <1>1, <1>3 DEF OpenTurn
<1>11. o \notin raced => opened[o] = 0 /\ Len(turn[o]) = 0
  <2>1. o \notin raced => opened[o] = 0
    BY <1>2, <1>3 DEF JobSound, Alone
  <2>2. o \notin raced => opened[o] >= Len(turn[o])
    BY <1>4 DEF TurnsSound
  <2>3. Len(turn[o]) \in Nat
    BY <1>4 DEF WorkTypes
  <2> QED
    BY <2>1, <2>2, <2>3
<1>12. Grows
  BY <1>4, <1>7, StillGrows
<1>13. WorkTypes'
  BY <1>4, <1>7, <1>8, <1>9 DEF WorkTypes, Revisions
<1>14. JobsSound'
  <2> SUFFICES ASSUME NEW v \in Workers, NEW i, i = job'[v], i # None PROVE JobSound(i)'
    BY DEF JobsSound
  <2>1. CASE v # w
    <3>1. i = job[v] /\ JobSound(i) /\ i.op \in Operations
      BY <2>1, <1>4, <1>9 DEF JobsSound, JobSound, Jobs
    <3>2. (EffectiveSensitivity(i))' = EffectiveSensitivity(i)
      BY DEF EffectiveSensitivity
    <3>3. i.phase = "propose" => Proposing(i)'
      BY <1>7, <3>1, <3>2 DEF JobSound, Proposing
    <3>4. Alone(i)'
      <4> SUFFICES ASSUME i.op \notin raced'
                   PROVE  /\ i.phase = "turn" => opened'[i.op] = 0
                          /\ i.phase = "open" => Len(turn'[i.op]) = 0 /\ opened'[i.op] >= 1
        BY DEF Alone
      <4>1. i.op \notin raced
        BY <1>10
      <4>2. Alone(i)
        BY <3>1 DEF JobSound
      <4>3. CASE i.op # o
        BY <4>1, <4>2, <4>3, <1>7, <1>8, <3>1 DEF Alone
      <4>4. CASE i.op = o
        <5>1. i.phase # "turn"
          BY <1>10, <2>1, <3>1, <4>4
        <5>2. i.phase # "open"
          BY <4>1, <4>2, <4>4, <1>11 DEF Alone
        <5> QED
          BY <5>1, <5>2
      <4> QED
        BY <4>3, <4>4
    <3>5. i.phase \in Checked => DerivedIds(i) \intersect stranded' = {}
      BY <1>7, <3>1 DEF JobSound
    <3> QED
      BY <1>12, <3>1, <3>3, <3>4, <3>5, JobKept
  <2>2. CASE v = w
    <3>1. i = k
      BY <2>2, <1>9
    <3>2. DerivedIds(k) = DerivedIds(j) /\ (DerivedIds(k))' = DerivedIds(k)
      BY <1>3, <1>6 DEF DerivedIds, RecordIds, GivenSources
    <3>3. DerivedIds(k) \intersect stranded' = {}
      BY <1>2, <1>7, <3>2 DEF JobSound, Checked
    <3>4. Alone(k)'
      BY <1>6, <1>7, <1>8, <1>10, <1>11 DEF Alone
    <3>5. \A r \in DOMAIN k.rows : k.rows[r].rev <= rec'[r].rev
      BY <1>2, <1>6, <1>7 DEF JobSound
    <3>6. JobSound(k)'
      BY <1>6, <3>2, <3>3, <3>4, <3>5 DEF JobSound
    <3> QED
      BY <3>1, <3>6
  <2> QED
    BY <2>1, <2>2
<1>15. ASSUME NEW v \in Workers, v # w, job[v] # None, job[v].op = o, job[v].phase = "open"
       PROVE  o \in raced'
  <2>1. JobSound(job[v])
    BY <1>4, <1>15 DEF JobsSound
  <2>2. o \notin raced => opened[o] >= 1
    BY <2>1, <1>15 DEF JobSound, Alone
  <2> QED
    BY <2>2, <1>10, <1>11
<1>16. OneProposer'
  <2> SUFFICES ASSUME NEW v \in Workers, NEW u \in Workers, v # u, job'[v] # None, job'[u] # None,
                      job'[v].op = job'[u].op
               PROVE  /\ job'[v].phase = "propose" /\ job'[u].phase = "propose" => job'[v].nth # job'[u].nth
                      /\ job'[v].phase = "open" /\ job'[u].phase = "open" => job'[v].op \in raced'
    BY DEF OneProposer
  <2>1. CASE v # w /\ u # w
    BY <2>1, <1>4, <1>9, <1>10 DEF OneProposer
  <2>2. CASE v = w
    BY <2>2, <1>6, <1>9, <1>15
  <2>3. CASE u = w
    BY <2>3, <1>6, <1>9, <1>15
  <2> QED
    BY <2>1, <2>2, <2>3
<1>17. TurnsSound'
  <2> SUFFICES ASSUME NEW q \in Operations \ raced'
               PROVE  Len(turn'[q]) <= 1 /\ opened'[q] >= Len(turn'[q])
    BY DEF TurnsSound
  <2>1. q \notin raced
    BY <1>10
  <2>2. CASE q = o
    BY <2>1, <2>2, <1>7, <1>8, <1>11
  <2>3. CASE q # o
    BY <2>1, <2>3, <1>4, <1>7, <1>8 DEF TurnsSound
  <2> QED
    BY <2>2, <2>3
<1>18. ItemsSound' /\ ReviewIsOneMoment' /\ RetryRefused'
  BY <1>4, <1>7 DEF ItemsSound, ReviewIsOneMoment, RetryRefused
<1> QED
  BY <1>13, <1>14, <1>16, <1>17, <1>18 DEF LInv

LEMMA RaiseTurnKeeps ==
    ASSUME LInv, NEW w \in Workers, RaiseTurn(w)
    PROVE  LInv'
<1>1. PICK j : j = job[w]
  OBVIOUS
<1>2. /\ j # None /\ j.phase = "open" /\ JobSound(j) /\ j.op \in Operations
  BY <1>1 DEF RaiseTurn, LInv, JobsSound, JobSound, Jobs
<1>3. PICK o \in Operations : o = j.op
  BY <1>2
<1>4. Leave(w) /\ turn' = turn /\ raced' = raced
  BY DEF RaiseTurn, Leave
<1>5. /\ WorkTypes /\ JobsSound /\ OneProposer /\ TurnsSound
  BY DEF LInv
<1>6. /\ opened' \in [Operations -> Int]
      /\ \A q \in Operations : opened'[q] = IF q = o THEN opened[o] - 1 ELSE opened[q]
  BY <1>1, <1>3, <1>5 DEF RaiseTurn, WorkTypes
<1>7. o \notin raced => Len(turn[o]) = 0 /\ opened[o] >= 1
  BY <1>2, <1>3 DEF JobSound, Alone
<1>8. TurnsSound'
  <2> SUFFICES ASSUME NEW q \in Operations \ raced
               PROVE  Len(turn[q]) <= 1 /\ opened'[q] >= Len(turn[q])
    BY <1>4 DEF TurnsSound
  <2>1. opened[o] \in Int
    BY <1>5 DEF WorkTypes
  <2>2. CASE q = o
    BY <2>1, <2>2, <1>6, <1>7
  <2>3. CASE q # o
    BY <2>3, <1>5, <1>6 DEF TurnsSound
  <2> QED
    BY <2>2, <2>3
<1>9. ASSUME NEW v \in Workers \ {w}, NEW i, i = job[v], i # None PROVE Alone(i)'
  <2> SUFFICES ASSUME i.op \notin raced
               PROVE  /\ i.phase = "turn" => opened'[i.op] = 0
                      /\ i.phase = "open" => Len(turn[i.op]) = 0 /\ opened'[i.op] >= 1
    BY <1>4 DEF Alone
  <2>1. JobSound(i) /\ i.op \in Operations /\ Alone(i)
    BY <1>5, <1>9 DEF JobsSound, JobSound, Jobs
  <2>2. CASE i.op # o
    BY <2>1, <2>2, <1>6 DEF Alone
  <2>3. CASE i.op = o
    <3>1. i.phase # "turn"
      BY <2>1, <2>3, <1>7 DEF Alone
    <3>2. i.phase # "open"
      BY <2>3, <1>1, <1>2, <1>3, <1>5, <1>9 DEF OneProposer
    <3> QED
      BY <3>1, <3>2
  <2> QED
    BY <2>2, <2>3
<1> QED
  BY <1>1, <1>2, <1>4, <1>6, <1>8, <1>9, Leaves

LEMMA RunTurnKeeps ==
    ASSUME LInv, NEW w \in Workers, NEW x \in {"completed", "failed"}, RunTurn(w, x)
    PROVE  LInv'
<1>1. PICK j : j = job[w]
  OBVIOUS
<1>2. /\ j # None /\ j.phase = "open" /\ JobSound(j) /\ j \in Jobs /\ j.op \in Operations
  BY <1>1 DEF RunTurn, LInv, JobsSound, JobSound, Jobs
<1>3. PICK o \in Operations : o = j.op
  BY <1>2
<1>4. /\ WorkTypes /\ JobsSound /\ OneProposer /\ ItemsSound /\ TurnsSound /\ ReviewIsOneMoment
      /\ RetryRefused
  BY DEF LInv
<1>5. PICK z \in 0 .. Secret : z = EffectiveSensitivity(j)
  BY <1>2, SensitivityFacts
<1>6. PICK t : t = [outcome |-> x, sens |-> z]
  OBVIOUS
<1>7. t \in Turn /\ t.outcome = x /\ t.sens = z
  BY <1>6 DEF Turn
<1>8. PICK n : n = Len(turn[o])
  OBVIOUS
<1>9. turn[o] \in Seq(Turn) /\ n \in Nat
  BY <1>4, <1>8 DEF WorkTypes
<1>10. /\ turn' \in [Operations -> Seq(Turn)]
       /\ turn'[o] = Append(turn[o], t) /\ \A q \in Operations \ {o} : turn'[q] = turn[q]
  <2>1. turn' = [turn EXCEPT ![o] = Append(@, t)]
    BY <1>1, <1>3, <1>5, <1>6 DEF RunTurn
  <2>2. Append(turn[o], t) \in Seq(Turn)
    BY <1>7, <1>9
  <2> QED
    BY <2>1, <2>2, <1>4 DEF WorkTypes
<1>11. /\ Len(turn'[o]) = n + 1 /\ turn'[o][n + 1] = t
       /\ \A i \in 1 .. n : turn'[o][i] = turn[o][i]
       /\ DOMAIN turn[o] = 1 .. n /\ DOMAIN turn'[o] = 1 .. n + 1
  BY <1>7, <1>8, <1>9, <1>10
<1>12. PICK b : b = [j EXCEPT !.phase = "propose"]
  OBVIOUS
<1>13. b \in Jobs /\ b.phase = "propose" /\ b.op = o /\ b.rows = j.rows /\ b.sens = j.sens
  BY <1>2, <1>3, <1>12 DEF Jobs
<1>14. PICK c : c = [b EXCEPT !.nth = n + 1]
  OBVIOUS
<1>15. /\ c \in Jobs /\ c.phase = "propose" /\ c.op = o /\ c.rows = j.rows /\ c.sens = j.sens
       /\ c.nth = n + 1
  BY <1>9, <1>13, <1>14 DEF Jobs
<1>16. PICK k : k = IF Workflow[j.op] = "proposal" /\ x = "completed" THEN c ELSE None
  OBVIOUS
<1>17. job' = [v \in Workers |-> IF v = w THEN k ELSE job[v]]
  <2>1. c = [j EXCEPT !.phase = "propose", !.nth = Len(turn[j.op]) + 1]
    BY <1>3, <1>8, <1>12, <1>14
  <2> QED
    BY <1>1, <1>4, <1>16, <2>1 DEF RunTurn, WorkTypes
<1>18. /\ rec' = rec /\ made' = made /\ item' = item /\ moments' = moments /\ stranded' = stranded
       /\ opened' = opened /\ raced' = raced
  BY DEF RunTurn
<1>19. spent' = spent \union DerivedIds(j) /\ DerivedIds(j) \intersect stranded = {}
  BY <1>1, <1>2 DEF RunTurn, JobSound, Checked
<1>20. WorkTypes'
  BY <1>4, <1>10, <1>17, <1>18 DEF WorkTypes, Revisions
<1>21. Grows
  BY <1>4, <1>18, StillGrows
<1>22. o \notin raced => n = 0 /\ opened[o] >= 1
  BY <1>2, <1>3, <1>8 DEF JobSound, Alone
<1>23. \A i \in DOMAIN item[o] : item[o][i].turn \in 1 .. n
  BY <1>4, <1>11 DEF ItemsSound
<1>24. JobsSound'
  <2> SUFFICES ASSUME NEW v \in Workers, NEW i, i = job'[v], i # None PROVE JobSound(i)'
    BY DEF JobsSound
  <2>1. CASE v # w
    <3>1. i = job[v] /\ JobSound(i) /\ i.op \in Operations
      BY <2>1, <1>4, <1>17 DEF JobsSound, JobSound, Jobs
    <3>2. (EffectiveSensitivity(i))' = EffectiveSensitivity(i)
      BY DEF EffectiveSensitivity
    <3>3. ASSUME i.phase = "propose" PROVE Proposing(i)'
      <4>1. Proposing(i)
        BY <3>1, <3>3 DEF JobSound
      <4>2. CASE i.op # o
        BY <4>1, <4>2, <3>1, <3>2, <1>10, <1>18 DEF Proposing
      <4>3. CASE i.op = o
        <5>1. i.nth \in 1 .. n /\ i.nth \in 1 .. n + 1 /\ turn'[o][i.nth] = turn[o][i.nth]
          BY <4>1, <4>3, <1>8, <1>9, <1>11 DEF Proposing
        <5> QED
          BY <4>1, <4>3, <5>1, <3>2, <1>11, <1>18 DEF Proposing
      <4> QED
        BY <4>2, <4>3
    <3>4. Alone(i)'
      <4>1. Alone(i)
        BY <3>1 DEF JobSound
      <4>2. CASE i.op # o
        BY <4>1, <4>2, <3>1, <1>10, <1>18 DEF Alone
      <4>3. CASE i.op = o
        <5>1. i.phase = "open" => o \in raced
          BY <2>1, <3>1, <4>3, <1>1, <1>2, <1>3, <1>4 DEF OneProposer
        <5> QED
          BY <4>1, <4>3, <5>1, <1>18 DEF Alone
      <4> QED
        BY <4>2, <4>3
    <3>5. i.phase \in Checked => DerivedIds(i) \intersect stranded' = {}
      BY <1>18, <3>1 DEF JobSound
    <3> QED
      BY <1>21, <3>1, <3>3, <3>4, <3>5, JobKept
  <2>2. CASE v = w
    <3>1. i = c /\ Workflow[j.op] = "proposal" /\ x = "completed"
      BY <2>2, <1>16, <1>17
    <3>2. EffectiveSensitivity(c) = z /\ (EffectiveSensitivity(c))' = EffectiveSensitivity(c)
      BY <1>3, <1>5, <1>15 DEF EffectiveSensitivity
    <3>3. \A y \in DOMAIN item'[o] : item'[o][y].turn # n + 1
      BY <1>9, <1>18, <1>23
    <3>4. Proposing(c)'
      BY <1>3, <1>7, <1>9, <1>11, <1>15, <3>1, <3>2, <3>3 DEF Proposing
    <3>5. \A r \in DOMAIN c.rows : c.rows[r].rev <= rec'[r].rev
      BY <1>2, <1>15, <1>18 DEF JobSound
    <3>6. JobSound(c)'
      BY <1>15, <3>4, <3>5 DEF JobSound, Alone, Checked
    <3> QED
      BY <3>1, <3>6
  <2> QED
    BY <2>1, <2>2
<1>25. ASSUME NEW v \in Workers, v # w, job[v] # None, job[v].op = o, job[v].phase = "propose"
       PROVE  job[v].nth # n + 1
  <2>1. PICK i : i = job[v]
    OBVIOUS
  <2>2. JobSound(i)
    BY <2>1, <1>4, <1>25 DEF JobsSound
  <2>3. i.nth \in 1 .. n
    BY <2>1, <2>2, <1>8, <1>25 DEF JobSound, Proposing
  <2> QED
    BY <2>1, <2>3, <1>9
<1>26. OneProposer'
  <2> SUFFICES ASSUME NEW v \in Workers, NEW u \in Workers, v # u, job'[v] # None, job'[u] # None,
                      job'[v].op = job'[u].op
               PROVE  /\ job'[v].phase = "propose" /\ job'[u].phase = "propose" => job'[v].nth # job'[u].nth
                      /\ job'[v].phase = "open" /\ job'[u].phase = "open" => job'[v].op \in raced'
    BY DEF OneProposer
  <2>1. CASE v # w /\ u # w
    BY <2>1, <1>4, <1>17, <1>18 DEF OneProposer
  <2>2. CASE v = w
    <3>1. job'[v] = c /\ job'[u] = job[u]
      BY <2>2, <1>16, <1>17
    <3> QED
      BY <2>2, <3>1, <1>15, <1>25
  <2>3. CASE u = w
    <3>1. job'[u] = c /\ job'[v] = job[v]
      BY <2>3, <1>16, <1>17
    <3> QED
      BY <2>3, <3>1, <1>15, <1>25
  <2> QED
    BY <2>1, <2>2, <2>3
<1>27. ItemsSound'
  <2>1. \A q \in Operations : \A i \in DOMAIN item[q] :
           /\ item[q][i].turn \in DOMAIN turn'[q]
           /\ turn'[q][item[q][i].turn] = turn[q][item[q][i].turn]
    <3> SUFFICES ASSUME NEW q \in Operations, NEW i \in DOMAIN item[q]
                 PROVE  /\ item[q][i].turn \in DOMAIN turn'[q]
                        /\ turn'[q][item[q][i].turn] = turn[q][item[q][i].turn]
      OBVIOUS
    <3>1. item[q][i].turn \in DOMAIN turn[q]
      BY <1>4 DEF ItemsSound
    <3>2. CASE q = o
      BY <3>1, <3>2, <1>9, <1>11
    <3>3. CASE q # o
      BY <3>1, <3>3, <1>10
    <3> QED
      BY <3>2, <3>3
  <2> QED
    BY <2>1, <1>4, <1>18 DEF ItemsSound
<1>28. TurnsSound'
  <2> SUFFICES ASSUME NEW q \in Operations \ raced
               PROVE  Len(turn'[q]) <= 1 /\ opened[q] >= Len(turn'[q])
    BY <1>18 DEF TurnsSound
  <2>1. CASE q = o
    BY <2>1, <1>11, <1>22
  <2>2. CASE q # o
    BY <2>2, <1>4, <1>10 DEF TurnsSound
  <2> QED
    BY <2>1, <2>2
<1>29. ReviewIsOneMoment' /\ RetryRefused'
  BY <1>4, <1>18, <1>19 DEF ReviewIsOneMoment, RetryRefused
<1> QED
  BY <1>20, <1>24, <1>26, <1>27, <1>28, <1>29 DEF LInv

LEMMA ProposeKeeps ==
    ASSUME LInv, NEW w \in Workers, Propose(w)
    PROVE  LInv'
<1>1. PICK j : j = job[w]
  OBVIOUS
<1>2. /\ j # None /\ j.phase = "propose" /\ JobSound(j) /\ j \in Jobs /\ j.op \in Operations
  BY <1>1 DEF Propose, LInv, JobsSound, JobSound, Jobs
<1>3. PICK o \in Operations : o = j.op
  BY <1>2
<1>4. /\ WorkTypes /\ JobsSound /\ OneProposer /\ ItemsSound /\ TurnsSound /\ ReviewIsOneMoment
      /\ RetryRefused
  BY DEF LInv
<1>5. Proposing(j)
  BY <1>2 DEF JobSound
<1>6. PICK i : i = [turn |-> j.nth, sens |-> EffectiveSensitivity(j),
                    needs |-> Max({0} \union {j.rows[r].sens : r \in DOMAIN j.rows})]
  OBVIOUS
<1> DEFINE Item == [turn : Nat, sens : 0 .. Secret, needs : 0 .. Secret]
<1>7. /\ i \in Item /\ i.sens >= i.needs /\ i.turn = j.nth
      /\ i.turn \in DOMAIN turn[o] /\ turn[o][i.turn].outcome = "completed"
      /\ i.sens = turn[o][i.turn].sens
  <2>1. i.sens = EffectiveSensitivity(j) /\ i.turn = j.nth
    BY <1>6
  <2>2. EffectiveSensitivity(j) \in 0 .. Secret /\ i.needs \in 0 .. Secret /\ i.sens >= i.needs
    BY <1>2, <1>5, <1>6, SensitivityFacts DEF Proposing
  <2>3. j.nth \in Nat /\ turn[o] \in Seq(Turn)
    BY <1>2, <1>4 DEF Jobs, WorkTypes
  <2>4. DOMAIN turn[o] = 1 .. Len(turn[o])
    BY <2>3
  <2>5. i \in Item
    BY <1>6, <2>1, <2>2, <2>3
  <2> QED
    BY <2>1, <2>2, <2>4, <2>5, <1>3, <1>5 DEF Proposing
<1>8. item[o] \in Seq(Item) /\ Len(item[o]) \in Nat
  <2>1. item[o] \in Seq(Item)
    BY <1>4 DEF WorkTypes
  <2> QED
    BY <2>1
<1>9. PICK n \in Nat : n = Len(item[o])
  BY <1>8
<1>10. /\ item' \in [Operations -> Seq(Item)]
       /\ item'[o] = Append(item[o], i) /\ \A q \in Operations \ {o} : item'[q] = item[q]
  <2>1. item' = [item EXCEPT ![o] = Append(@, i)]
    BY <1>1, <1>3, <1>6 DEF Propose
  <2>2. Append(item[o], i) \in Seq(Item)
    BY <1>7, <1>8
  <2> QED
    BY <2>1, <2>2, <1>4 DEF WorkTypes
<1>11. /\ DOMAIN item'[o] = 1 .. n + 1 /\ item'[o][n + 1] = i /\ DOMAIN item[o] = 1 .. n
       /\ \A y \in 1 .. n : item'[o][y] = item[o][y]
  BY <1>7, <1>8, <1>9, <1>10
<1>12. job' = [v \in Workers |-> IF v = w THEN None ELSE job[v]]
  BY <1>4 DEF Propose, WorkTypes
<1>13. /\ rec' = rec /\ made' = made /\ turn' = turn /\ moments' = moments /\ stranded' = stranded
       /\ opened' = opened /\ raced' = raced /\ spent' = spent
  BY DEF Propose
<1>14. WorkTypes'
  BY <1>4, <1>10, <1>12, <1>13 DEF WorkTypes, Revisions
<1>15. Grows
  BY <1>4, <1>13, StillGrows
<1>16. JobsSound'
  <2> SUFFICES ASSUME NEW v \in Workers, NEW k, k = job'[v], k # None PROVE JobSound(k)'
    BY DEF JobsSound
  <2>1. v # w /\ k = job[v] /\ JobSound(k) /\ k.op \in Operations
    BY <1>4, <1>12 DEF JobsSound, JobSound, Jobs
  <2>2. (EffectiveSensitivity(k))' = EffectiveSensitivity(k)
    BY DEF EffectiveSensitivity
  <2>3. ASSUME k.phase = "propose" PROVE Proposing(k)'
    <3>1. Proposing(k)
      BY <2>1, <2>3 DEF JobSound
    <3>2. CASE k.op # o
      BY <3>1, <3>2, <2>1, <2>2, <1>10, <1>13 DEF Proposing
    <3>3. CASE k.op = o
      <4>1. k.nth # j.nth
        BY <2>1, <2>3, <3>3, <1>1, <1>2, <1>3, <1>4 DEF OneProposer
      <4>2. \A y \in DOMAIN item'[o] : item'[o][y].turn # k.nth
        <5> SUFFICES ASSUME NEW y \in 1 .. n + 1 PROVE item'[o][y].turn # k.nth
          BY <1>11
        <5>1. CASE y = n + 1
          BY <4>1, <5>1, <1>7, <1>11
        <5>2. CASE y # n + 1
          <6>1. y \in 1 .. n
            BY <5>2
          <6> QED
            BY <6>1, <3>1, <3>3, <1>11 DEF Proposing
        <5> QED
          BY <5>1, <5>2
      <4> QED
        BY <3>1, <3>3, <4>2, <2>2, <1>13 DEF Proposing
    <3> QED
      BY <3>2, <3>3
  <2>4. Alone(k)'
    BY <2>1, <1>13 DEF JobSound, Alone
  <2>5. k.phase \in Checked => DerivedIds(k) \intersect stranded' = {}
    BY <2>1, <1>13 DEF JobSound
  <2> QED
    BY <1>15, <2>1, <2>3, <2>4, <2>5, JobKept
<1>17. OneProposer'
  BY <1>4, <1>12, <1>13 DEF OneProposer
<1>18. ItemsSound'
  <2> SUFFICES ASSUME NEW q \in Operations
               PROVE  /\ \A y \in DOMAIN item'[q] :
                            /\ item'[q][y].turn \in DOMAIN turn[q]
                            /\ turn[q][item'[q][y].turn].outcome = "completed"
                            /\ item'[q][y].sens = turn[q][item'[q][y].turn].sens
                            /\ item'[q][y].sens >= item'[q][y].needs
                      /\ \A y, k \in DOMAIN item'[q] : item'[q][y].turn = item'[q][k].turn => y = k
    BY <1>13 DEF ItemsSound
  <2>1. CASE q # o
    <3>1. item'[q] = item[q]
      BY <2>1, <1>10
    <3> QED
      BY <3>1, <1>4 DEF ItemsSound
  <2>2. CASE q = o
    <3>1. ASSUME NEW y \in 1 .. n + 1
          PROVE  /\ item'[o][y].turn \in DOMAIN turn[o]
                 /\ turn[o][item'[o][y].turn].outcome = "completed"
                 /\ item'[o][y].sens = turn[o][item'[o][y].turn].sens
                 /\ item'[o][y].sens >= item'[o][y].needs
      <4>1. CASE y = n + 1
        BY <4>1, <1>7, <1>11
      <4>2. CASE y # n + 1
        <5>1. y \in 1 .. n
          BY <4>2
        <5> QED
          BY <5>1, <1>4, <1>11 DEF ItemsSound
      <4> QED
        BY <4>1, <4>2
    <3>2. ASSUME NEW y \in 1 .. n PROVE item'[o][y].turn # i.turn
      BY <1>5, <1>3, <1>7, <1>11 DEF Proposing
    <3>3. ASSUME NEW y \in 1 .. n + 1, NEW k \in 1 .. n + 1, item'[o][y].turn = item'[o][k].turn
          PROVE  y = k
      <4>1. CASE y = n + 1 /\ k = n + 1
        BY <4>1
      <4>2. CASE y = n + 1 /\ k # n + 1
        <5>1. k \in 1 .. n
          BY <4>2
        <5> QED
          BY <5>1, <4>2, <3>2, <3>3, <1>11
      <4>3. CASE y # n + 1 /\ k = n + 1
        <5>1. y \in 1 .. n
          BY <4>3
        <5> QED
          BY <5>1, <4>3, <3>2, <3>3, <1>11
      <4>4. CASE y # n + 1 /\ k # n + 1
        <5>1. y \in 1 .. n /\ k \in 1 .. n
          BY <4>4
        <5> QED
          BY <5>1, <3>3, <1>4, <1>11 DEF ItemsSound
      <4> QED
        BY <4>1, <4>2, <4>3, <4>4
    <3> QED
      BY <2>2, <3>1, <3>3, <1>11
  <2> QED
    BY <2>1, <2>2
<1>19. TurnsSound' /\ ReviewIsOneMoment' /\ RetryRefused'
  BY <1>4, <1>13 DEF TurnsSound, ReviewIsOneMoment, RetryRefused
<1> QED
  BY <1>14, <1>16, <1>17, <1>18, <1>19 DEF LInv
-----------------------------------------------------------------------------
LEMMA WorkInitInv == WorkInit => LInv
<1> SUFFICES ASSUME WorkInit PROVE LInv
  OBVIOUS
<1>1. rec \in [Records -> Row] /\ \A r \in Records : rec[r].rev = 1
  <2>1. ASSUME NEW r \in Records PROVE rec[r] \in Row /\ rec[r].rev = 1
    <3>1. rec[r] \in [rev : {1}, active : {TRUE}, sens : 0 .. Secret - 1]
      BY DEF WorkInit
    <3>2. 1 \in 1 .. MaxVersion /\ \A z \in 0 .. Secret - 1 : z \in 0 .. Secret
      BY WorkflowAssumption
    <3> QED
      BY <3>1, <3>2 DEF Row
  <2>2. rec = [r \in Records |-> rec[r]]
    BY DEF WorkInit
  <2> QED
    BY <2>1, <2>2
<1>2. Revisions \in [Records -> Nat]
  BY <1>1 DEF Revisions
<1>3. WorkTypes
  BY <1>1, <1>2 DEF WorkInit, WorkTypes
<1>4. JobsSound /\ OneProposer /\ ItemsSound /\ TurnsSound
  BY DEF WorkInit, JobsSound, OneProposer, ItemsSound, TurnsSound
<1>5. ReviewIsOneMoment /\ RetryRefused
  BY DEF WorkInit, ReviewIsOneMoment, RetryRefused
<1> QED
  BY <1>3, <1>4, <1>5 DEF LInv

LEMMA WorkStep == LInv /\ [WorkNext]_workVars => LInv'
<1> SUFFICES ASSUME LInv, [WorkNext]_workVars PROVE LInv'
  OBVIOUS
<1>1. CASE UNCHANGED workVars
  <2>1. /\ rec' = rec /\ made' = made /\ turn' = turn /\ item' = item /\ job' = job
        /\ moments' = moments /\ stranded' = stranded /\ opened' = opened /\ raced' = raced
        /\ spent' = spent
    BY <1>1 DEF workVars
  <2>2. JobsSound'
    <3> SUFFICES ASSUME NEW v \in Workers, NEW j, j = job'[v], j # None PROVE JobSound(j)'
      BY DEF JobsSound
    <3>1. JobSound(j)
      BY <2>1 DEF LInv, JobsSound
    <3>2. Grows
      BY <2>1, StillGrows DEF LInv
    <3> QED
      BY <2>1, <3>1, <3>2, JobAside
  <2>3. WorkTypes'
    BY <2>1 DEF LInv, WorkTypes, Revisions
  <2>4. OneProposer' /\ ReviewIsOneMoment' /\ ItemsSound' /\ TurnsSound' /\ RetryRefused'
    BY <2>1 DEF LInv, OneProposer, ItemsSound, TurnsSound, RetryRefused, ReviewIsOneMoment
  <2> QED
    BY <2>2, <2>3, <2>4 DEF LInv
<1>2. CASE \E r \in Records, a \in BOOLEAN, z \in 0 .. Secret : ChangeRecord(r, a, z)
  BY <1>2, ChangeRecordKeeps
<1>3. ASSUME NEW w \in Workers,
             \E o \in Operations, s \in SUBSET Records, z \in 0 .. Secret - 1, n \in 0 .. MaxSources :
                WorkBegin(w, o, s, z, n)
      PROVE  LInv'
  <2>1. \A z \in 0 .. Secret - 1 : z \in 0 .. Secret
    BY WorkflowAssumption
  <2> QED
    BY <1>3, <2>1, WorkBeginKeeps
<1>4. ASSUME NEW w \in Workers, \E r \in Records : PlanRecord(w, r) \/ Recheck(w, r)
      PROVE  LInv'
  BY <1>4, PlanRecordKeeps, RecheckKeeps
<1>5. ASSUME NEW w \in Workers, CheckUnused(w) PROVE LInv'
  BY <1>5, CheckUnusedKeeps
<1>6. ASSUME NEW w \in Workers, \E id \in job[w].ids : Store(w, id) PROVE LInv'
  BY <1>6, StoreKeeps
<1>7. ASSUME NEW w \in Workers, \E x \in {"completed", "failed"} : RunTurn(w, x) PROVE LInv'
  BY <1>7, RunTurnKeeps
<1>8. ASSUME NEW w \in Workers, Propose(w) PROVE LInv'
  BY <1>8, ProposeKeeps
<1>9. ASSUME NEW w \in Workers, End(w) PROVE LInv'
  BY <1>9, Quits DEF End
<1>10. ASSUME NEW w \in Workers, AskUnused(w) \/ OpenTurn(w) \/ RaiseTurn(w) PROVE LInv'
  BY <1>10, AskUnusedKeeps, OpenTurnKeeps, RaiseTurnKeeps
<1> QED
  BY <1>1, <1>2, <1>3, <1>4, <1>5, <1>6, <1>7, <1>8, <1>9, <1>10 DEF WorkNext

LEMMA WorkImplied == LInv => WorkflowsSound
<1> SUFFICES ASSUME LInv PROVE WorkflowsSound
  OBVIOUS
<1>1. WorkTypeOK
  <2>1. ASSUME NEW r \in Records PROVE rec[r].rev \in 1 .. MaxVersion /\ rec[r].sens \in 0 .. Secret
    <3>1. rec[r] \in Row
      BY DEF LInv, WorkTypes
    <3> QED
      BY <3>1 DEF Row
  <2> QED
    BY <2>1 DEF WorkTypeOK, LInv, WorkTypes
<1>2. ProposalAfterTurn /\ OneTurnUnlessRaced
  BY DEF LInv, ItemsSound, ProposalAfterTurn, TurnsSound, OneTurnUnlessRaced
<1>3. ReviewIsOneMoment /\ RetryRefused
  BY DEF LInv
<1> QED
  BY <1>1, <1>2, <1>3 DEF WorkflowsSound

(* For any number of processes, operations and records, which change as    *)
(* often as they like: a review describes one moment, a work item is       *)
(* proposed once out of each completed turn and not below what it was made *)
(* from, an operation has a second turn only when two processes had both   *)
(* found it unused, and what a process left behind is in no turn           *)
(* (_require_unchanged; LocalWorkProposalService.execute;                  *)
(* _require_unused_operation; _require_unused_source_operation).           *)
THEOREM WorkflowsAlwaysSound == WorkSpec => []WorkflowsSound
<1> QED
  BY WorkInitInv, WorkStep, WorkImplied, PTL DEF WorkSpec
-----------------------------------------------------------------------------
(* Policies and callers; an origin is created in full, after those with    *)
(* smaller ids, and derives from an earlier one of no lower rank.          *)
PoliciesTyped ==
    /\ DOMAIN policy = Policies /\ DOMAIN doing = Callers /\ DOMAIN inForce = Callers
    /\ \A p \in Policies : policy[p] \in [rule : Rules, enabled : BOOLEAN, active : BOOLEAN,
                                          rev : 1 .. MaxRevision]

Stored(o) == origin[o] # Null
SourceSound(row) ==
    /\ row.class = "durable_user_policy" => row.policy \in Policies
    /\ row.parent # Null => Stored(row.parent) /\ MayDerive(row.class, row.parent)
RowInOrder(o) ==
    Stored(o) => /\ origin[o] \in OriginRows
                 /\ \A q \in Origins : q < o => Stored(q)
                 /\ origin[o].parent # Null => origin[o].parent < o
                 /\ SourceSound(origin[o])
OriginsInOrder == DOMAIN origin = Origins /\ \A o \in Origins : RowInOrder(o)

(* What a caller will create was checked against a parent that is there.   *)
Creating(c) == doing[c] # Null /\ doing[c].kind = "create"
CreationSound(c) == Creating(c) => doing[c].row \in OriginRows /\ SourceSound(doing[c].row)

(* A package has witnessed every rule in force since it began; the origin  *)
(* it looks at says what is stored, and an item that was placed has the    *)
(* authority of its class or none, and that of a durable policy only for   *)
(* a rule that was in force.                                               *)
Same(row, o) == \A f \in {"class", "content", "policy", "rev"} : row[f] = origin[o][f]
Witnessed(o, c) == <<origin[o].policy, origin[o].content>> \in inForce[c]
ItemSound(c, o, a) ==
    /\ Stored(o)
    /\ a \in {"unknown_data", "untrusted_data", Authority[origin[o].class]}
    /\ a = "durable_user_policy" => Witnessed(o, c)
LookingSound(c, row) == row # Null => row.id \in Origins /\ Stored(row.id) /\ Same(row.origin, row.id)
PackageSound(c) ==
    Packaging(c) =>
       /\ DOMAIN doing[c] = {"kind", "todo", "row", "items"}
       /\ RulesInForce \subseteq inForce[c]
       /\ doing[c].todo \subseteq Origins /\ \A o \in doing[c].todo : Stored(o)
       /\ LookingSound(c, doing[c].row)
       /\ \A o \in DOMAIN doing[c].items : o \in Origins /\ ItemSound(c, o, doing[c].items[o])

OriginsInv ==
    /\ PoliciesTyped /\ OriginsInOrder
    /\ \A c \in Callers : CreationSound(c) /\ PackageSound(c)

(* The authorities, their ranks and purposes.                              *)
LEMMA ClassFacts ==
    ASSUME NEW class \in Classes
    PROVE  /\ Authority[class] = "durable_user_policy" <=> class = "durable_user_policy"
           /\ Rank(Authority[class]) \in {0, 2, 3, 4}
           /\ class \in DataOnly <=> Rank(Authority[class]) = 0
           /\ Purposes(Authority[class]) # {} => class \notin DataOnly
           /\ Purposes("unknown_data") = {} /\ Purposes("untrusted_data") = {}
<1>1. class \in DOMAIN Authority  BY ClassesAssumption
<1>2. DataClasses = {"untrusted_data", "unknown_data", "model_proposal"}
  BY DEF DataClasses, DataOnly, Authority
<1> DEFINE a == Authority[class]
<1>3. \/ class = "durable_user_policy" /\ a = "durable_user_policy"
      \/ class = "system_policy" /\ a = "system_policy"
      \/ class \in {"current_user_instruction", "user_management_action"} /\ a = class
      \/ class \in DataOnly /\ a \in DataClasses
  <2>1. class \in {"system_policy", "current_user_instruction", "durable_user_policy",
                   "user_management_action"} \union DataOnly
    BY <1>1 DEF Authority, DataOnly
  <2>2. class \in DataOnly => a \in DataClasses  BY DEF DataClasses
  <2>3. QED  BY <2>1, <2>2 DEF Authority
<1>4. /\ Purposes("unknown_data") = {} /\ Purposes("untrusted_data") = {}
      /\ Purposes("model_proposal") = {}
  BY DEF Purposes
<1>5. CASE class \in DataOnly /\ a \in DataClasses
  <2>1. Rank(a) = 0  BY <1>2, <1>5 DEF Rank
  <2>2. Purposes(a) = {} /\ a # "durable_user_policy" /\ class # "durable_user_policy"
    BY <1>2, <1>4, <1>5 DEF DataOnly
  <2>3. QED  BY <1>4, <1>5, <2>1, <2>2
<1>6. CASE class = "durable_user_policy" /\ a = "durable_user_policy"
  BY <1>2, <1>4, <1>6 DEF Rank, DataOnly
<1>7. CASE class = "system_policy" /\ a = "system_policy"
  BY <1>2, <1>4, <1>7 DEF Rank, DataOnly
<1>8. CASE class \in {"current_user_instruction", "user_management_action"} /\ a = class
  BY <1>2, <1>4, <1>8 DEF Rank, DataOnly
<1>9. QED  BY <1>3, <1>5, <1>6, <1>7, <1>8

(* Nothing is stored and nobody is at work.                                *)
LEMMA OriginsInitInv == OriginsInit => OriginsInv
<1> SUFFICES ASSUME OriginsInit PROVE OriginsInv  OBVIOUS
<1>1. PoliciesTyped
  <2>1. 1 \in 1 .. MaxRevision  BY OriginsAssumption
  <2>2. QED  BY <2>1 DEF OriginsInit, PoliciesTyped
<1>2. OriginsInOrder  BY DEF OriginsInit, OriginsInOrder, RowInOrder, Stored
<1>3. \A c \in Callers : CreationSound(c) /\ PackageSound(c)
  BY DEF OriginsInit, CreationSound, PackageSound, Creating, Packaging
<1>4. QED  BY <1>1, <1>2, <1>3 DEF OriginsInv

(* A user's change of a policy leaves one.                                 *)
LEMMA PoliciesStep == OriginsInv /\ [OriginsNext]_originVars => PoliciesTyped'
<1> SUFFICES ASSUME OriginsInv, [OriginsNext]_originVars PROVE PoliciesTyped'  OBVIOUS
<1> USE DEF OriginsInv, PoliciesTyped
<1>1. ASSUME NEW p \in Policies, NEW r \in Rules, NEW e \in BOOLEAN, NEW a \in BOOLEAN,
             ChangePolicy(p, r, e, a)
      PROVE  PoliciesTyped'
  <2>1. policy[p].rev + 1 \in 1 .. MaxRevision
    BY <1>1, OriginsAssumption DEF ChangePolicy
  <2>2. QED  BY <1>1, <2>1 DEF ChangePolicy, Witness
<1>2. ASSUME NEW o \in Origins, ArchiveOrigin(o) PROVE PoliciesTyped'
  BY <1>2 DEF ArchiveOrigin
<1>3. ASSUME NEW c \in Callers,
             \/ \E class \in Classes, r \in Rules, p \in Policies \union {Null},
                   parent \in Origins \union {Null} : BeginCreate(c, class, r, p, parent)
             \/ CommitCreate(c) \/ PlaceItem(c) \/ EndPackage(c)
             \/ \E todo \in SUBSET Origins : BeginPackage(c, todo)
             \/ \E o \in Origins : ReadOrigin(c, o)
      PROVE  PoliciesTyped'
  BY <1>3 DEF BeginCreate, CommitCreate, PlaceItem, EndPackage, BeginPackage, ReadOrigin
<1>4. CASE UNCHANGED originVars  BY <1>4 DEF originVars
<1>5. QED  BY <1>1, <1>2, <1>3, <1>4 DEF OriginsNext

(* Stored origins are never rewritten, but for their status.               *)
Kept == \A o \in Origins : Stored(o) =>
    /\ Stored(o)'
    /\ \A f \in {"class", "content", "policy", "rev", "parent"} : origin'[o][f] = origin[o][f]

(* An origin is stored once, after those with smaller ids.                 *)
LEMMA OriginsStep ==
    OriginsInv /\ [OriginsNext]_originVars => OriginsInOrder' /\ Kept
<1> SUFFICES ASSUME OriginsInv, [OriginsNext]_originVars PROVE OriginsInOrder' /\ Kept  OBVIOUS
<1> USE DEF OriginsInv, Kept
<1>1. CASE UNCHANGED origin
  <2>1. \A o \in Origins : RowInOrder(o)'
    BY <1>1 DEF OriginsInOrder, RowInOrder, Stored, SourceSound, MayDerive
  <2>2. QED  BY <1>1, <2>1 DEF OriginsInOrder, Stored
<1>2. ASSUME NEW o \in Origins, ArchiveOrigin(o) PROVE OriginsInOrder' /\ Kept
  <2>1. Stored(o) /\ origin[o] \in OriginRows
    BY <1>2 DEF ArchiveOrigin, Stored, OriginsInOrder, RowInOrder
  <2> DEFINE new == [origin[o] EXCEPT !.active = FALSE]
  <2>2. origin' = [origin EXCEPT ![o] = new]  BY <1>2 DEF ArchiveOrigin
  <2>3. /\ new \in OriginRows /\ new.class = origin[o].class /\ new.content = origin[o].content
        /\ new.policy = origin[o].policy /\ new.rev = origin[o].rev
        /\ new.parent = origin[o].parent
    BY <2>1 DEF OriginRows
  <2>4. new # Null  BY <2>3, OriginsAssumption
  <2>5. origin'[o] = new /\ DOMAIN origin' = Origins
        /\ \A q \in Origins : q # o => origin'[q] = origin[q]
    BY <2>2 DEF OriginsInOrder
  <2>6. \A q \in Origins : Stored(q)' = Stored(q)  BY <2>1, <2>4, <2>5 DEF Stored
  <2>7. \A q \in Origins : Stored(q) => origin[q] \in OriginRows
    BY DEF OriginsInOrder, RowInOrder
  <2>8. Kept  BY <2>3, <2>5, <2>6
  <2>9. ASSUME NEW q \in Origins PROVE RowInOrder(q)'
    <3> SUFFICES ASSUME Stored(q) PROVE RowInOrder(q)'  BY <2>6 DEF RowInOrder
    <3>1. RowInOrder(q)  BY DEF OriginsInOrder
    <3>2. origin'[q] \in OriginRows /\ origin'[q].parent = origin[q].parent
          /\ origin'[q].class = origin[q].class /\ origin'[q].policy = origin[q].policy
      BY <2>3, <2>5, <2>7
    <3>3. origin[q].parent # Null => origin[q].parent \in Origins  BY <2>7 DEF OriginRows
    <3>4. SourceSound(origin[q])'
      BY <2>6, <2>8, <3>1, <3>2, <3>3 DEF SourceSound, RowInOrder, MayDerive
    <3>5. QED  BY <2>6, <3>1, <3>2, <3>4 DEF RowInOrder
  <2>10. QED  BY <2>5, <2>8, <2>9 DEF OriginsInOrder
<1>3. ASSUME NEW c \in Callers, CommitCreate(c) PROVE OriginsInOrder' /\ Kept
  <2>1. PICK o \in Origins : /\ origin[o] = Null /\ \A q \in Origins : q < o => origin[q] # Null
                             /\ origin' = [origin EXCEPT ![o] = doing[c].row]
    BY <1>3 DEF CommitCreate
  <2> PICK row : row = doing[c].row  OBVIOUS
  <2>2. row \in OriginRows /\ SourceSound(row)
    BY <1>3 DEF CommitCreate, CreationSound, Creating
  <2>3. \A q \in Origins : q # o => origin'[q] = origin[q]
    BY <2>1 DEF OriginsInOrder
  <2>4. origin'[o] = row /\ DOMAIN origin' = Origins  BY <2>1 DEF OriginsInOrder
  <2>5. Kept  BY <2>1, <2>3 DEF Stored
  <2>9. row # Null  BY <2>2, OriginsAssumption
  <2>10. \A q \in Origins : Stored(q)' <=> Stored(q) \/ q = o  BY <2>3, <2>4, <2>9 DEF Stored
  <2>11. \A q \in Origins : Stored(q) => origin'[q] = origin[q]  BY <2>1, <2>3 DEF Stored
  <2>12. ASSUME NEW r, r \in OriginRows, SourceSound(r) PROVE SourceSound(r)'
    <3>1. r.parent # Null => r.parent \in Origins /\ Stored(r.parent)
      BY <2>12 DEF OriginRows, SourceSound
    <3>2. QED  BY <2>10, <2>11, <2>12, <3>1 DEF SourceSound, MayDerive
  <2>6. ASSUME NEW q \in Origins, q # o PROVE RowInOrder(q)'
    <3> SUFFICES ASSUME Stored(q) PROVE RowInOrder(q)'  BY <2>6, <2>10 DEF RowInOrder
    <3>1. RowInOrder(q)  BY DEF OriginsInOrder
    <3> PICK r : r = origin[q]  OBVIOUS
    <3>4. SourceSound(r)'  BY <2>12, <3>1 DEF RowInOrder
    <3>2. SourceSound(origin[q])'  BY <2>11, <3>4
    <3>3. QED  BY <2>10, <2>11, <3>1, <3>2 DEF RowInOrder
  <2>7. RowInOrder(o)'
    <3>1. row.parent # Null => row.parent \in Origins /\ Stored(row.parent)
      BY <2>2 DEF OriginRows, SourceSound
    <3>2. ASSUME row.parent # Null PROVE row.parent < o
      <4>1. ~(o < row.parent)
        BY <2>1, <3>1, <3>2 DEF OriginsInOrder, RowInOrder, Stored
      <4>2. row.parent # o  BY <2>1, <3>1, <3>2 DEF Stored
      <4>3. row.parent \in Nat /\ o \in Nat  BY <3>1, <3>2, OriginsAssumption
      <4>4. QED  BY <4>1, <4>2, <4>3
    <3>3. SourceSound(row)'  BY <2>2, <2>12
    <3>4. \A q \in Origins : q < o => Stored(q)'  BY <2>1, <2>10 DEF Stored
    <3>5. QED  BY <2>2, <2>4, <3>2, <3>3, <3>4 DEF RowInOrder
  <2>8. QED  BY <2>4, <2>5, <2>6, <2>7 DEF OriginsInOrder
<1>4. QED
  BY <1>1, <1>2, <1>3 DEF OriginsNext, originVars, ChangePolicy, BeginCreate, PlaceItem,
     EndPackage, BeginPackage, ReadOrigin

(* A step of an assembly, written field by field.                          *)
LEMMA PackageFrame ==
    ASSUME DOMAIN doing = Callers, NEW c \in Callers, PackageSound(c)
    PROVE  /\ \A o : ReadOrigin(c, o) =>
                 /\ DOMAIN doing'[c] = DOMAIN doing[c] /\ doing'[c].kind = "package"
                 /\ doing'[c].row = [id |-> o, origin |-> origin[o]]
                 /\ doing'[c].todo = doing[c].todo /\ doing'[c].items = doing[c].items
           /\ PlaceItem(c) =>
                 /\ DOMAIN doing'[c] = DOMAIN doing[c] /\ doing'[c].kind = "package"
                 /\ doing'[c].row = Null
                 /\ doing'[c].todo = doing[c].todo \ {doing[c].row.id}
                 /\ doing'[c].items = Placed(doing[c].items, doing[c].row.id, Effective(doing[c].row.origin))
<1>1. ASSUME Packaging(c)
      PROVE  doing[c].kind = "package" /\ DOMAIN doing[c] = {"kind", "todo", "row", "items"}
  BY <1>1 DEF PackageSound, Packaging
<1>2. ASSUME NEW o, ReadOrigin(c, o)
      PROVE  /\ DOMAIN doing'[c] = DOMAIN doing[c] /\ doing'[c].kind = "package"
             /\ doing'[c].row = [id |-> o, origin |-> origin[o]]
             /\ doing'[c].todo = doing[c].todo /\ doing'[c].items = doing[c].items
  <2>1. PICK row : row = [id |-> o, origin |-> origin[o]]  OBVIOUS
  <2>2. doing'[c] = [doing[c] EXCEPT !.row = row]  BY <1>2, <2>1 DEF ReadOrigin
  <2>3. QED  BY <1>1, <1>2, <2>1, <2>2 DEF ReadOrigin
<1>3. ASSUME PlaceItem(c)
      PROVE  /\ DOMAIN doing'[c] = DOMAIN doing[c] /\ doing'[c].kind = "package"
             /\ doing'[c].row = Null
             /\ doing'[c].todo = doing[c].todo \ {doing[c].row.id}
             /\ doing'[c].items = Placed(doing[c].items, doing[c].row.id, Effective(doing[c].row.origin))
  <2>1. PICK items : items = Placed(doing[c].items, doing[c].row.id, Effective(doing[c].row.origin))
    OBVIOUS
  <2>2. PICK todo : todo = doing[c].todo \ {doing[c].row.id}  OBVIOUS
  <2>3. doing[c].kind = "package" /\ DOMAIN doing[c] = {"kind", "todo", "row", "items"}
    BY <1>1, <1>3 DEF PlaceItem
  <2>4. doing'[c] = [doing[c] EXCEPT !.row = Null, !.todo = todo, !.items = items]
    <3>1. doing' = [doing EXCEPT ![c] = [@ EXCEPT !.row = Null, !.todo = todo, !.items = items]]
      BY <1>3, <2>1, <2>2, <2>3 DEF PlaceItem
    <3>2. QED  BY <3>1
  <2>5. QED  BY <2>1, <2>2, <2>3, <2>4
<1>4. QED  BY <1>2, <1>3

(* What a caller checked of a parent is still true of it.                  *)
LEMMA CreationStep ==
    ASSUME OriginsInv, [OriginsNext]_originVars, NEW c \in Callers
    PROVE  CreationSound(c)'
<1>1. OriginsInOrder' /\ Kept  BY OriginsStep
<1>2. ASSUME NEW r, r \in OriginRows, SourceSound(r) PROVE SourceSound(r)'
  <2>1. r.parent # Null => r.parent \in Origins /\ Stored(r.parent)
    BY <1>2 DEF OriginRows, SourceSound
  <2>2. QED  BY <1>1, <1>2, <2>1 DEF SourceSound, MayDerive, Kept
<1>3. CASE doing'[c] = doing[c]
  BY <1>2, <1>3 DEF OriginsInv, CreationSound, Creating
<1>4. ASSUME NEW class \in Classes, NEW r \in Rules, NEW p \in Policies \union {Null},
             NEW parent \in Origins \union {Null}, BeginCreate(c, class, r, p, parent)
      PROVE  CreationSound(c)'
  <2> PICK row : row = [class |-> class, content |-> r, policy |-> p,
                        rev |-> IF p = Null THEN 0 ELSE policy[p].rev, parent |-> parent, active |-> TRUE]
    OBVIOUS
  <2>1. doing'[c] = [kind |-> "create", row |-> row]
    BY <1>4 DEF BeginCreate, OriginsInv, PoliciesTyped
  <2>2. row.rev \in Nat  BY OriginsAssumption DEF OriginsInv, PoliciesTyped
  <2>3. row \in OriginRows  BY <2>2 DEF OriginRows
  <2>4. SourceSound(row)  BY <1>4 DEF BeginCreate, SourceSound, Stored
  <2>5. SourceSound(row)'  BY <1>2, <2>3, <2>4
  <2>6. doing'[c].row = row  BY <2>1
  <2>7. QED  BY <2>3, <2>5, <2>6 DEF CreationSound
<1>5. CASE CommitCreate(c) \/ EndPackage(c)
  BY <1>5 DEF CommitCreate, EndPackage, OriginsInv, PoliciesTyped, CreationSound, Creating
<1>6. CASE PlaceItem(c) \/ (\E o \in Origins : ReadOrigin(c, o))
  <2>1. doing'[c].kind = "package"
    BY <1>6, PackageFrame DEF OriginsInv, PoliciesTyped
  <2>2. QED  BY <2>1 DEF CreationSound, Creating
<1>8. CASE \E todo \in SUBSET Origins : BeginPackage(c, todo)
  <2>1. doing'[c].kind = "package"
    BY <1>8 DEF BeginPackage, OriginsInv, PoliciesTyped
  <2>2. QED  BY <2>1 DEF CreationSound, Creating
<1>7. QED
  <2>1. ASSUME NEW d \in Callers, d # c,
               \/ \E class \in Classes, r \in Rules, p \in Policies \union {Null},
                     parent \in Origins \union {Null} : BeginCreate(d, class, r, p, parent)
               \/ CommitCreate(d) \/ PlaceItem(d) \/ EndPackage(d)
               \/ \E todo \in SUBSET Origins : BeginPackage(d, todo)
               \/ \E o \in Origins : ReadOrigin(d, o)
        PROVE  doing'[c] = doing[c]
    BY <2>1 DEF BeginCreate, CommitCreate, PlaceItem, EndPackage, BeginPackage, ReadOrigin,
                OriginsInv, PoliciesTyped
  <2>2. ASSUME \/ \E p \in Policies, r \in Rules, e, a \in BOOLEAN : ChangePolicy(p, r, e, a)
               \/ \E o \in Origins : ArchiveOrigin(o)
               \/ UNCHANGED originVars
        PROVE  doing'[c] = doing[c]
    BY <2>2 DEF ChangePolicy, ArchiveOrigin, originVars
  <2>3. QED  BY <1>3, <1>4, <1>5, <1>6, <1>8, <2>1, <2>2 DEF OriginsNext

(* What was witnessed stays so, and a rule is witnessed when it comes into *)
(* force.                                                                  *)
LEMMA WitnessStep ==
    ASSUME OriginsInv, [OriginsNext]_originVars, NEW c \in Callers, Packaging(c), doing'[c] = doing[c]
    PROVE  inForce[c] \subseteq inForce'[c] /\ RulesInForce' \subseteq inForce'[c]
<1>1. RulesInForce \subseteq inForce[c]  BY DEF OriginsInv, PackageSound
<1>2. CASE \E p \in Policies, r \in Rules, e, a \in BOOLEAN : ChangePolicy(p, r, e, a)
  <2>1. Witness  BY <1>2 DEF ChangePolicy
  <2>2. inForce'[c] = inForce[c] \union {<<p, policy'[p].rule>> : p \in {q \in Policies :
                                             policy'[q].active /\ policy'[q].enabled}}
    BY <2>1 DEF Witness
  <2>3. RulesInForce' = {<<p, policy'[p].rule>> : p \in {q \in Policies :
                                             policy'[q].active /\ policy'[q].enabled}}
    BY DEF RulesInForce, Live
  <2>4. QED  BY <2>2, <2>3
<1>3. CASE policy' = policy /\ inForce'[c] = inForce[c]
  BY <1>1, <1>3 DEF RulesInForce, Live
<1>4. ASSUME NEW d \in Callers, EndPackage(d) \/ \E todo \in SUBSET Origins : BeginPackage(d, todo)
      PROVE  policy' = policy /\ inForce'[c] = inForce[c]
  <2>1. d # c
    BY <1>4 DEF EndPackage, BeginPackage, OriginsInv, PoliciesTyped, Packaging
  <2>2. QED  BY <1>4, <2>1 DEF EndPackage, BeginPackage, OriginsInv, PoliciesTyped
<1>5. CASE UNCHANGED <<policy, inForce>>  BY <1>3, <1>5
<1>6. QED
  BY <1>2, <1>3, <1>4, <1>5 DEF OriginsNext, originVars, ArchiveOrigin, BeginCreate, CommitCreate,
     ReadOrigin, PlaceItem

(* What an item or the origin at hand is stays so.                         *)
LEMMA ItemKept ==
    ASSUME OriginsInv, Kept, NEW c \in Callers, inForce[c] \subseteq inForce'[c], NEW o \in Origins
    PROVE  /\ \A a : ItemSound(c, o, a) => ItemSound(c, o, a)'
           /\ Stored(o) => Stored(o)' /\ \A row : Same(row, o) => Same(row, o)'
<1>1. ASSUME Stored(o)
      PROVE  /\ Stored(o)' /\ origin'[o].class = origin[o].class /\ origin'[o].rev = origin[o].rev
             /\ origin'[o].content = origin[o].content /\ origin'[o].policy = origin[o].policy
  BY <1>1 DEF Kept
<1>2. ASSUME NEW a, ItemSound(c, o, a) PROVE ItemSound(c, o, a)'
  <2>1. Stored(o)  BY <1>2 DEF ItemSound
  <2>2. a = "durable_user_policy" => <<origin'[o].policy, origin'[o].content>> \in inForce'[c]
    BY <1>1, <1>2, <2>1 DEF ItemSound, Witnessed
  <2>3. QED  BY <1>1, <1>2, <2>1, <2>2 DEF ItemSound, Witnessed
<1>3. Stored(o) => \A row : Same(row, o) => Same(row, o)'
  BY <1>1 DEF Same
<1>4. QED  BY <1>1, <1>2, <1>3

(* An item is placed with the authority of the class that is stored.       *)
LEMMA PackageStep ==
    ASSUME OriginsInv, [OriginsNext]_originVars, NEW c \in Callers
    PROVE  PackageSound(c)'
<1> SUFFICES ASSUME Packaging(c)' PROVE PackageSound(c)'  BY DEF PackageSound
<1>1. Kept /\ OriginsInOrder'  BY OriginsStep
<1>2. CASE doing'[c] = doing[c]
  <2>1. Packaging(c) /\ PackageSound(c)  BY <1>2 DEF Packaging, OriginsInv
  <2>2. inForce[c] \subseteq inForce'[c] /\ RulesInForce' \subseteq inForce'[c]
    BY <1>2, <2>1, WitnessStep
  <2>3. ASSUME NEW o \in Origins
        PROVE  /\ \A a : ItemSound(c, o, a) => ItemSound(c, o, a)'
               /\ Stored(o) => Stored(o)' /\ \A row : Same(row, o) => Same(row, o)'
    BY <1>1, <2>2, ItemKept
  <2>4. /\ DOMAIN doing[c] = {"kind", "todo", "row", "items"}
        /\ doing[c].todo \subseteq Origins /\ \A o \in doing[c].todo : Stored(o)'
    BY <2>1, <2>3 DEF PackageSound
  <2>5. PICK row : row = doing[c].row  OBVIOUS
  <2>6. LookingSound(c, row)'  BY <2>1, <2>3, <2>5 DEF PackageSound, LookingSound
  <2>7. PICK items : items = doing[c].items  OBVIOUS
  <2>8. \A o \in DOMAIN items : o \in Origins /\ ItemSound(c, o, items[o])'
    BY <2>1, <2>3, <2>7 DEF PackageSound
  <2>9. doing'[c].row = row /\ doing'[c].items = items  BY <1>2, <2>5, <2>7
  <2>10. QED  BY <1>2, <2>2, <2>4, <2>6, <2>8, <2>9 DEF PackageSound
<1>3. ASSUME NEW todo \in SUBSET Origins, BeginPackage(c, todo) PROVE PackageSound(c)'
  <2>1. doing'[c] = [kind |-> "package", todo |-> todo, row |-> Null, items |-> [o \in {} |-> Null]]
        /\ inForce'[c] = RulesInForce
    BY <1>3 DEF BeginPackage, OriginsInv, PoliciesTyped
  <2>2. \A o \in todo : Stored(o)'  BY <1>3 DEF BeginPackage, Stored
  <2>3. RulesInForce' = RulesInForce  BY <1>3 DEF BeginPackage, RulesInForce, Live
  <2>4. QED  BY <2>1, <2>2, <2>3 DEF PackageSound, LookingSound
<1>4. ASSUME NEW o \in Origins, ReadOrigin(c, o) PROVE PackageSound(c)'
  <2>1. PackageSound(c) /\ Packaging(c) /\ o \in doing[c].todo /\ UNCHANGED <<policy, origin, inForce>>
    BY <1>4 DEF ReadOrigin, OriginsInv
  <2>2. /\ DOMAIN doing'[c] = DOMAIN doing[c] /\ doing'[c].row = [id |-> o, origin |-> origin[o]]
        /\ doing'[c].todo = doing[c].todo /\ doing'[c].items = doing[c].items
    BY <1>4, <2>1, PackageFrame DEF OriginsInv, PoliciesTyped
  <2>3. Stored(o) /\ origin[o] \in OriginRows
    BY <2>1 DEF PackageSound, OriginsInv, OriginsInOrder, RowInOrder
  <2> PICK row : row = [id |-> o, origin |-> origin[o]]  OBVIOUS
  <2>4. row.id = o /\ Same(row.origin, o)  BY <2>3 DEF Same
  <2>5. LookingSound(c, row)'  BY <2>1, <2>3, <2>4 DEF LookingSound, Stored, Same
  <2>6. \A x \in Origins : \A a : ItemSound(c, x, a)' = ItemSound(c, x, a)
    BY <2>1 DEF ItemSound, Stored, Witnessed
  <2>7. RulesInForce' = RulesInForce  BY <2>1 DEF RulesInForce, Live
  <2>8. \A x \in doing[c].todo : Stored(x)'  BY <2>1 DEF PackageSound, Stored
  <2>9. doing'[c].row = row  BY <2>2
  <2> PICK items : items = doing[c].items  OBVIOUS
  <2>10. \A x \in DOMAIN items : x \in Origins /\ ItemSound(c, x, items[x])'
    BY <2>1, <2>6 DEF PackageSound
  <2>11. doing'[c].items = items  BY <2>2
  <2>12. DOMAIN doing'[c] = {"kind", "todo", "row", "items"} /\ doing'[c].todo \subseteq Origins
    BY <2>1, <2>2 DEF PackageSound
  <2>13. RulesInForce' \subseteq inForce'[c]  BY <2>1, <2>7 DEF PackageSound
  <2>14. QED  BY <2>2, <2>5, <2>8, <2>9, <2>10, <2>11, <2>12, <2>13 DEF PackageSound
<1>5. ASSUME PlaceItem(c) PROVE PackageSound(c)'
  <2>1. PackageSound(c) /\ Packaging(c) /\ doing[c].row # Null /\ UNCHANGED <<policy, origin, inForce>>
    BY <1>5 DEF PlaceItem, OriginsInv
  <2> PICK id : id = doing[c].row.id  OBVIOUS
  <2> PICK row : row = doing[c].row.origin  OBVIOUS
  <2> PICK old : old = doing[c].items  OBVIOUS
  <2> PICK a : a = Effective(row)  OBVIOUS
  <2>2. /\ DOMAIN doing'[c] = DOMAIN doing[c] /\ doing'[c].row = Null
        /\ doing'[c].todo = doing[c].todo \ {id}
        /\ doing'[c].items = Placed(old, id, a)
    BY <1>5, <2>1, PackageFrame DEF OriginsInv, PoliciesTyped
  <2>3. id \in Origins /\ Stored(id) /\ Same(row, id)
    BY <2>1 DEF PackageSound, LookingSound
  <2> PICK o : o = id  OBVIOUS
  <2>4. origin[o] \in OriginRows /\ RowInOrder(o)  BY <2>3 DEF OriginsInv, OriginsInOrder, RowInOrder
  <2>5. row.class = origin[o].class /\ row.policy = origin[o].policy /\ row.content = origin[o].content
    BY <2>3 DEF Same
  <2>6. row.class \in Classes  BY <2>4, <2>5 DEF OriginRows
  <2>7. a \in {"unknown_data", "untrusted_data", Authority[row.class]}  BY DEF Effective
  <2>8. a = "durable_user_policy" => row.class = "durable_user_policy" /\ ReferenceCurrent(row)
    BY <2>6, <2>7, ClassFacts DEF Effective
  <2>9. row.class = "durable_user_policy" => row.policy \in Policies
    BY <2>3, <2>4, <2>5 DEF RowInOrder, SourceSound
  <2>10. ASSUME a = "durable_user_policy" PROVE <<row.policy, row.content>> \in inForce[c]
    <3>1. row.policy \in Policies /\ Live(row.policy) /\ policy[row.policy].rule = row.content
      BY <2>8, <2>9, <2>10 DEF ReferenceCurrent, PolicyMatches
    <3>2. <<row.policy, row.content>> \in RulesInForce  BY <3>1 DEF RulesInForce
    <3>3. QED  BY <2>1, <3>2 DEF PackageSound
  <2>11. ItemSound(c, o, a)  BY <2>3, <2>5, <2>7, <2>10 DEF ItemSound, Witnessed
  <2>12. \A x \in Origins : \A z : ItemSound(c, x, z)' = ItemSound(c, x, z)
    BY <2>1 DEF ItemSound, Stored, Witnessed
  <2>13. \A x \in DOMAIN old : x \in Origins /\ ItemSound(c, x, old[x])  BY <2>1 DEF PackageSound
  <2> PICK new : new = Placed(old, o, a)  OBVIOUS
  <2>14. DOMAIN new = {o} \union DOMAIN old /\ new[o] = a
         /\ \A x \in DOMAIN old : x # o => new[x] = old[x]
    BY DEF Placed
  <2>15. \A x \in DOMAIN new : x \in Origins /\ ItemSound(c, x, new[x])'
    BY <2>3, <2>11, <2>12, <2>13, <2>14
  <2>16. RulesInForce' = RulesInForce  BY <2>1 DEF RulesInForce, Live
  <2>17. \A x \in doing'[c].todo : x \in Origins /\ Stored(x)'
    BY <2>1, <2>2 DEF PackageSound, Stored
  <2>18. doing'[c].items = new  BY <2>2
  <2>19. QED  BY <2>1, <2>2, <2>15, <2>16, <2>17, <2>18 DEF PackageSound, LookingSound
<1>6. ASSUME NEW class \in Classes, NEW r \in Rules, NEW p \in Policies \union {Null},
             NEW parent \in Origins \union {Null}, BeginCreate(c, class, r, p, parent)
      PROVE  PackageSound(c)'
  BY <1>6 DEF BeginCreate, OriginsInv, PoliciesTyped, Packaging
<1>7. CASE CommitCreate(c) \/ EndPackage(c)
  BY <1>7 DEF CommitCreate, EndPackage, OriginsInv, PoliciesTyped, Packaging
<1>8. QED
  <2>1. ASSUME NEW d \in Callers, d # c,
               \/ \E class \in Classes, r \in Rules, p \in Policies \union {Null},
                     parent \in Origins \union {Null} : BeginCreate(d, class, r, p, parent)
               \/ CommitCreate(d) \/ PlaceItem(d) \/ EndPackage(d)
               \/ \E todo \in SUBSET Origins : BeginPackage(d, todo)
               \/ \E o \in Origins : ReadOrigin(d, o)
        PROVE  doing'[c] = doing[c]
    BY <2>1 DEF BeginCreate, CommitCreate, PlaceItem, EndPackage, BeginPackage, ReadOrigin,
                OriginsInv, PoliciesTyped
  <2>2. ASSUME \/ \E p \in Policies, r \in Rules, e, a \in BOOLEAN : ChangePolicy(p, r, e, a)
               \/ \E o \in Origins : ArchiveOrigin(o)
               \/ UNCHANGED originVars
        PROVE  doing'[c] = doing[c]
    BY <2>2 DEF ChangePolicy, ArchiveOrigin, originVars
  <2>3. QED  BY <1>2, <1>3, <1>4, <1>5, <1>6, <1>7, <2>1, <2>2 DEF OriginsNext

(* The ancestors of an origin with any authority are no data. *)
LEMMA NoDataAbove ==
    ASSUME OriginsInv, NEW o \in Origins, Stored(o), Rank(Authority[origin[o].class]) # 0,
           NEW q \in Ancestors(o)
    PROVE  origin[q].class \notin DataOnly
<1> DEFINE S == {r \in Origins : Stored(r) /\ Rank(Authority[origin[r].class]) # 0}
<1>1. ASSUME NEW r \in S PROVE ParentIn(r, S)
  <2>1. RowInOrder(r) /\ origin[r] \in OriginRows
    BY DEF OriginsInv, OriginsInOrder, RowInOrder
  <2>2. SUFFICES ASSUME origin[r].parent # Null PROVE origin[r].parent \in S  BY DEF ParentIn
  <2> PICK u : u = origin[r].parent  OBVIOUS
  <2>3. u \in Origins /\ Stored(u) /\ MayDerive(origin[r].class, u)
    BY <2>1, <2>2 DEF RowInOrder, SourceSound, OriginRows
  <2>4. origin[u].class \in Classes /\ origin[r].class \in Classes
    BY <2>1, <2>3 DEF OriginsInv, OriginsInOrder, RowInOrder, OriginRows
  <2>5. Rank(Authority[origin[r].class]) \in {2, 3, 4}  BY <2>4, ClassFacts
  <2>6. Rank(Authority[origin[u].class]) \in {0, 2, 3, 4}  BY <2>4, ClassFacts
  <2>7. Rank(Authority[origin[u].class]) # 0  BY <2>3, <2>5, <2>6 DEF MayDerive
  <2>8. QED  BY <2>3, <2>7
<1>2. ParentIn(o, S)  BY <1>1
<1>3. q \in S  BY <1>1, <1>2 DEF Ancestors
<1>4. origin[q].class \in Classes
  BY <1>3 DEF OriginsInv, OriginsInOrder, RowInOrder, OriginRows
<1>5. QED  BY <1>3, <1>4, ClassFacts

(* The property follows.                                                   *)
LEMMA OriginsGrounded == OriginsInv => AuthorityGrounded
<1> SUFFICES ASSUME OriginsInv PROVE AuthorityGrounded  OBVIOUS
<1>1. OriginsTypeOK
  BY DEF OriginsInv, OriginsInOrder, RowInOrder, Stored, OriginRows, PoliciesTyped, OriginsTypeOK
<1>2. ASSUME NEW o \in Origins, origin[o] # Null, origin[o].parent # Null
      PROVE  origin[o].parent < o /\ origin[origin[o].parent] # Null
  BY <1>2 DEF OriginsInv, OriginsInOrder, RowInOrder, Stored, SourceSound
<1>3. ASSUME NEW c \in Callers, Packaging(c), NEW o \in DOMAIN doing[c].items
      PROVE  LET a == doing[c].items[o]
             IN  /\ a = "durable_user_policy" => <<origin[o].policy, origin[o].content>> \in inForce[c]
                 /\ Purposes(a) # {} => \A q \in Ancestors(o) : origin[q].class \notin DataOnly
  <2>1. o \in Origins /\ ItemSound(c, o, doing[c].items[o])
    BY <1>3 DEF OriginsInv, PackageSound
  <2>2. Stored(o) /\ origin[o].class \in Classes
    BY <2>1 DEF ItemSound, OriginsInv, OriginsInOrder, RowInOrder, OriginRows
  <2>3. Purposes(doing[c].items[o]) # {} => Rank(Authority[origin[o].class]) # 0
    BY <2>1, <2>2, ClassFacts DEF ItemSound
  <2>4. QED  BY <2>1, <2>2, <2>3, NoDataAbove DEF ItemSound, Witnessed
<1>4. QED  BY <1>1, <1>2, <1>3 DEF AuthorityGrounded

(* Whatever callers create, package, and users change and archive, for     *)
(* any number of origins, policies and callers: authority is granted only  *)
(* where it is grounded (InstructionOriginService, PromptDefenseService).  *)
THEOREM AuthorityAlwaysGrounded == OriginsSpec => []AuthorityGrounded
<1>1. OriginsInv /\ [OriginsNext]_originVars => OriginsInv'
  BY PoliciesStep, OriginsStep, CreationStep, PackageStep DEF OriginsInv
<1>2. QED  BY <1>1, OriginsInitInv, OriginsGrounded, PTL DEF OriginsSpec
-----------------------------------------------------------------------------
Codes == {"adapter_not_configured", "unsupported_operation", "adapter_failure", "model_not_found",
          "runtime_unavailable", "cancelled", "timeout", "resource_limit", "invalid_response"}
Preparing == {"idle", "health", "tags", "post", "start"}
Streaming == {"event", "pull", "wait", "line", "end"}
Calls == [phase : Preparing \union Streaming \union {"result", "answered"},
          op : Requests \union {Nothing}, events : Seq(Events), made : Nat, chars : 0 .. MaxChars,
          lines : 0 .. MaxLines, line : Lines \union {Nothing}, event : Events \union {Nothing},
          done : BOOLEAN, outcome : {"completed", "failed", "timeout", "cancelled", Nothing},
          code : Codes \union {Nothing}, text : Texts \union {Nothing}, shown : Seq(Events)]
Servers == [chunks : Texts, done : BOOLEAN]

(* The events tell the first k of the chunks the server sent; a transcript *)
(* is closed by one terminal event.                                        *)
Tells(events, k, chunks) ==
    /\ k \in 0 .. Len(chunks) /\ events[1] = Start
    /\ \A n \in 1 .. k : chunks[n] \in Chunks /\ events[n + 1] = Event("delta", chunks[n])
Open(events, k, chunks) == Len(events) = k + 1 /\ Tells(events, k, chunks)
Closed(events, k, chunks) ==
    Len(events) = k + 2 /\ Tells(events, k, chunks) /\ events[k + 2].kind \in Terminal

(* The events taken so far tell k chunks; the completion may be taken too. *)
Standing(c, k, chunks) ==
    IF c.done THEN Closed(c.events, k, chunks) /\ c.events[k + 2] = Event("complete", NoText)
    ELSE Open(c.events, k, chunks)

(* The line at hand is the last the server sent.                           *)
Pending(l, s) ==
    /\ l.kind # "oversized"
    /\ l.kind = "chunk" => /\ l.done => s.done
                           /\ l.text # NoText => s.chunks # <<>> /\ s.chunks[Len(s.chunks)] = l.text
Before(l, s) == IF l.kind = "chunk" /\ l.text # NoText THEN Len(s.chunks) - 1 ELSE Len(s.chunks)

(* An event was made of the last line.                                     *)
EventMade(c, s) ==
    \/ /\ c.event = Start /\ c.events = <<>> /\ s.chunks = <<>>
       /\ c.line = Nothing /\ ~c.done
    \/ /\ s.chunks # <<>> /\ s.chunks[Len(s.chunks)] \in Chunks
       /\ c.event = Event("delta", s.chunks[Len(s.chunks)])
       /\ Open(c.events, Len(s.chunks) - 1, s.chunks)
       /\ ~c.done /\ (c.line # Nothing => s.done)
    \/ /\ c.event = Event("complete", NoText) /\ Open(c.events, Len(s.chunks), s.chunks)
       /\ c.line = Nothing /\ c.done

Going(c, s) ==
    /\ c.op = "stream" /\ c.text = Nothing /\ c.outcome = Nothing
    /\ c.done => s.done
    /\ c.phase = "event" => EventMade(c, s)
    /\ c.phase = "pull" => Standing(c, Len(s.chunks), s.chunks) /\ (c.line # Nothing => ~c.done /\ s.done)
    /\ c.phase = "wait" => Standing(c, Len(s.chunks), s.chunks) /\ c.line = Nothing
    /\ c.phase = "line" => /\ c.line # Nothing /\ Pending(c.line, s)
                           /\ Standing(c, Before(c.line, s), s.chunks)
    /\ c.phase = "end" => Standing(c, Len(s.chunks), s.chunks) /\ c.done

(* What a failure can be made of.                                          *)
Bounded(events, chunks) ==
    \/ events = <<>>
    \/ \E k \in 0 .. Len(chunks) : Open(events, k, chunks) \/ Closed(events, k, chunks)

(* Nothing has been asked of the model yet.                                *)
Prepared(c, s) ==
    /\ c.events = <<>> /\ c.line = Nothing /\ c.event = Nothing /\ c.text = Nothing
    /\ c.outcome = Nothing /\ ~c.done /\ s.chunks = <<>> /\ ~s.done
    /\ c.phase = "start" => c.op = "stream"
    /\ c.phase = "post" => c.op = "generate"
    /\ c.phase # "idle" => c.op # Nothing

(* The boundary's result, before the scan of its text.                     *)
Result(c, s) ==
    /\ c.outcome # Nothing
    /\ c.op = "stream" => /\ c.text = Nothing
                          /\ \E k \in 0 .. Len(s.chunks) :
                                /\ Closed(c.events, k, s.chunks)
                                /\ c.outcome = "completed" => k = Len(s.chunks) /\ s.done
    /\ c.op # "stream" => /\ c.text # Nothing <=> c.outcome = "completed" /\ c.op # "inventory"
                          /\ c.text # Nothing => s.done /\ c.text = s.chunks

(* What TranscriptFaithful says of an answer.                              *)
Answer(c, s) ==
    /\ c.op = "stream" =>
          /\ Head(c.shown) = Start /\ Last(c.shown).kind \in Terminal
          /\ \A n \in 1 .. Len(c.shown) - 1 : c.shown[n].kind \notin Terminal
          /\ Len(c.shown) <= MaxEvents
          /\ IsPrefix(Deltas(c.shown), s.chunks)
          /\ ~Contains(Deltas(c.shown), "secret")
    /\ c.text # Nothing <=> c.outcome = "completed" /\ c.op # "inventory"
    /\ c.text # Nothing => s.done /\ c.text = s.chunks

CallSound(c, s) ==
    /\ c \in Calls /\ s \in Servers /\ Len(c.events) <= MaxEvents
    /\ c.phase \in Preparing => Prepared(c, s)
    /\ c.phase \in Streaming => Going(c, s)
    /\ c.phase = "result" => Result(c, s)
    /\ c.phase = "answered" => Answer(c, s)

StreamInv == CallSound(call, server) /\ cancelled \in BOOLEAN /\ late \in BOOLEAN

(* A delta event carries its text.                                         *)
LEMMA DeltaEvent ==
  \A t : Event("delta", t).kind = "delta" /\ Event("delta", t).text = t
BY DEF Event

(* The text of a transcript that starts with k deltas after one other      *)
(* event, and ends there or with another one.                              *)
LEMMA TextsOf ==
    ASSUME NEW events \in Seq(Events), NEW k \in Nat, Len(events) \in {k + 1, k + 2},
           events[1].kind # "delta", \A n \in 1 .. k : events[n + 1].kind = "delta",
           Len(events) = k + 2 => events[k + 2].kind # "delta"
    PROVE  Deltas(events) = [n \in 1 .. k |-> events[n + 1].text]
<1> DEFINE at == {n \in DOMAIN events : events[n].kind = "delta"}
           nth(n) == CHOOSE x \in at : Cardinality({m \in at : m <= x}) = n
<1>1. DOMAIN events = 1 .. Len(events)  OBVIOUS
<1>2. at = 2 .. k + 1
  <2>1. ASSUME NEW n \in at PROVE n \in 2 .. k + 1
    <3>1. n \in 1 .. Len(events) /\ n # 1 /\ events[n].kind = "delta"  BY <1>1
    <3>2. n # k + 2  BY <3>1
    <3>3. QED  BY <3>1, <3>2
  <2>2. ASSUME NEW n \in 2 .. k + 1 PROVE n \in at
    <3>1. n - 1 \in 1 .. k /\ (n - 1) + 1 = n  OBVIOUS
    <3>2. events[n].kind = "delta"  BY <3>1
    <3>3. n \in 1 .. Len(events)  OBVIOUS
    <3>4. QED  BY <1>1, <3>2, <3>3
  <2>3. QED  BY <2>1, <2>2
<1>3. Cardinality(at) = k
  <2>1. Cardinality(2 .. k + 1) = k  BY FS_Interval
  <2>2. QED  BY <1>2, <2>1
<1>4. ASSUME NEW x \in 2 .. k + 1 PROVE Cardinality({m \in at : m <= x}) = x - 1
  <2>1. {m \in at : m <= x} = 2 .. x  BY <1>2
  <2>2. Cardinality(2 .. x) = x - 1  BY FS_Interval
  <2>3. QED  BY <2>1, <2>2
<1>5. ASSUME NEW n \in 1 .. k PROVE nth(n) = n + 1
  <2>1. n + 1 \in at /\ Cardinality({m \in at : m <= n + 1}) = n
    <3>1. n + 1 \in 2 .. k + 1  OBVIOUS
    <3>2. Cardinality({m \in at : m <= n + 1}) = (n + 1) - 1  BY <1>4, <3>1
    <3>3. QED  BY <1>2, <3>1, <3>2
  <2>2. ASSUME NEW x \in at, Cardinality({m \in at : m <= x}) = n PROVE x = n + 1
    <3>1. x \in 2 .. k + 1  BY <1>2
    <3>2. Cardinality({m \in at : m <= x}) = x - 1  BY <1>4, <3>1
    <3>3. QED  BY <2>2, <3>1, <3>2
  <2>3. QED  BY <2>1, <2>2
<1> HIDE DEF at, nth
<1>6. Deltas(events) = [n \in 1 .. Cardinality(at) |-> events[nth(n)].text]
  BY DEF Deltas, at, nth
<1>7. QED  BY <1>3, <1>5, <1>6

(* What a closed transcript shows is a prefix of what the server sent.     *)
LEMMA ClosedText ==
    ASSUME NEW chunks \in Texts, NEW events \in Seq(Events), NEW k \in 0 .. Len(chunks),
           Closed(events, k, chunks)
    PROVE  /\ Deltas(events) = [n \in 1 .. k |-> chunks[n]]
           /\ Deltas(events) \in Seq(Chunks) /\ Len(Deltas(events)) = k
           /\ IsPrefix(Deltas(events), chunks)
           /\ Head(events) = Start /\ Last(events).kind \in Terminal
           /\ \A n \in 1 .. Len(events) - 1 : events[n].kind \notin Terminal
<1>1. k \in Nat /\ Len(events) = k + 2 /\ Len(chunks) \in Nat
      /\ \A n \in 1 .. k : chunks[n] \in Chunks
  BY DEF Closed, Tells, Texts
<1>2. events[1].kind # "delta" /\ events[k + 2].kind # "delta" /\ events[1].kind \notin Terminal
  BY DEF Closed, Tells, Start, Event, Terminal
<1>3. ASSUME NEW n \in 1 .. k PROVE events[n + 1].kind = "delta" /\ events[n + 1].text = chunks[n]
  <2>1. events[n + 1] = Event("delta", chunks[n])  BY DEF Closed, Tells
  <2>2. QED  BY <2>1, DeltaEvent
<1>4. Deltas(events) = [n \in 1 .. k |-> events[n + 1].text]  BY <1>1, <1>2, <1>3, TextsOf
<1>5. Deltas(events) = [n \in 1 .. k |-> chunks[n]]  BY <1>3, <1>4
<1>6. Deltas(events) \in Seq(Chunks) /\ Len(Deltas(events)) = k  BY <1>1, <1>5
<1>7. IsPrefix(Deltas(events), chunks)
  <2>1. SubSeq(Deltas(events), 1, k) = Deltas(events)  BY <1>1, <1>5, <1>6
  <2>2. SubSeq(chunks, 1, k) = [n \in 1 .. k |-> chunks[n]]  BY <1>1 DEF Texts
  <2>3. QED  BY <1>1, <1>5, <1>6, <2>1, <2>2 DEF IsPrefix
<1>8. Head(events) = Start /\ Last(events).kind \in Terminal
  BY <1>1 DEF Closed, Tells, Last
<1>9. ASSUME NEW n \in 1 .. Len(events) - 1 PROVE events[n].kind \notin Terminal
  <2>1. CASE n = 1  BY <1>2, <2>1
  <2>2. CASE n # 1
    <3>1. n - 1 \in 1 .. k /\ (n - 1) + 1 = n  BY <1>1, <2>2
    <3>2. events[n].kind = "delta"  BY <1>3, <3>1
    <3>3. QED  BY <3>2 DEF Terminal
  <2>3. QED  BY <2>1, <2>2
<1>10. QED  BY <1>5, <1>6, <1>7, <1>8, <1>9

(* What a failure returns of the events taken so far is a closed           *)
(* transcript within the limit.                                            *)
LEMMA FailureClosed ==
    ASSUME NEW chunks \in Texts, NEW events \in Seq(Events), Len(events) <= MaxEvents, NEW code \in Codes,
           Bounded(events, chunks)
    PROVE  LET new == FailureEvents(events, code)
           IN  new \in Seq(Events) /\ Len(new) <= MaxEvents
               /\ \E j \in 0 .. Len(chunks) : Closed(new, j, chunks)
<1> DEFINE prefix == PrefixBeforeTerminal(events)
           len == IF Len(prefix) < MaxEvents THEN Len(prefix) ELSE MaxEvents - 1
           safe == SubSeq(prefix, 1, len)
           last == Event(IF code = "cancelled" THEN "cancelled" ELSE "error", NoText)
           shown == IF safe = <<>> THEN <<Start>> ELSE safe
<1>0. Len(chunks) \in Nat /\ MaxEvents \in Nat /\ MaxEvents >= 2 /\ Start \in Events
      /\ last \in Events /\ last.kind \in Terminal
  <2>1. Len(chunks) \in Nat  BY DEF Texts
  <2>2. MaxEvents \in Nat /\ MaxEvents >= 2  BY LimitsAssumption
  <2>3. Start \in Events  BY DEF Start, Event, Events
  <2>4. last \in Events /\ last.kind \in Terminal  BY DEF Event, Events, Terminal
  <2>5. QED  BY <2>1, <2>2, <2>3, <2>4
<1>1. \/ prefix = <<>>
      \/ \E k \in 0 .. Len(chunks) : Open(prefix, k, chunks) /\ prefix \in Seq(Events)
  <2> DEFINE ends == {n \in DOMAIN events : events[n].kind \in Terminal}
  <2>1. CASE events = <<>>
    <3>1. ends = {}  BY <2>1
    <3>2. QED  BY <2>1, <3>1 DEF PrefixBeforeTerminal
  <2>2. ASSUME NEW k \in 0 .. Len(chunks), Open(events, k, chunks) \/ Closed(events, k, chunks) PROVE <1>1!2
    <3>1. \A n \in 1 .. k + 1 : events[n].kind \notin Terminal
      <4>1. events[1].kind \notin Terminal  BY <2>2 DEF Open, Closed, Tells, Start, Event, Terminal
      <4>2. ASSUME NEW n \in 1 .. k PROVE events[n + 1].kind \notin Terminal
        <5>1. events[n + 1] = Event("delta", chunks[n])  BY <2>2 DEF Open, Closed, Tells
        <5>2. QED  BY <5>1, DeltaEvent DEF Terminal
      <4>3. ASSUME NEW n \in 1 .. k + 1, n # 1 PROVE events[n].kind \notin Terminal
        <5>1. n - 1 \in 1 .. k /\ (n - 1) + 1 = n  BY <1>0, <4>3
        <5>2. QED  BY <4>2, <5>1
      <4>4. QED  BY <4>1, <4>3
    <3>2. CASE Open(events, k, chunks)
      <4>1. DOMAIN events = 1 .. k + 1  BY <3>2 DEF Open
      <4>2. ends = {}  BY <3>1, <4>1
      <4>3. prefix = events  BY <4>2 DEF PrefixBeforeTerminal
      <4>4. QED  BY <3>2, <4>3
    <3>3. CASE Closed(events, k, chunks)
      <4>1. Len(events) = k + 2 /\ DOMAIN events = 1 .. k + 2  BY <3>3, <1>0 DEF Closed
      <4>2. ends = {k + 2}
        <5>1. \A n \in 1 .. k + 2 : n \in 1 .. k + 1 \/ n = k + 2  BY <1>0
        <5>2. k + 2 \in 1 .. k + 2  BY <1>0
        <5>3. QED  BY <3>1, <3>3, <4>1, <5>1, <5>2 DEF Closed
      <4>3. (CHOOSE n \in ends : \A x \in ends : n <= x) = k + 2  BY <1>0, <4>2
      <4>4. prefix = SubSeq(events, 1, k + 1)
        <5>1. prefix = SubSeq(events, 1, (CHOOSE n \in ends : \A x \in ends : n <= x) - 1)
          BY <4>2 DEF PrefixBeforeTerminal
        <5>2. (k + 2) - 1 = k + 1  BY <1>0
        <5>3. QED  BY <4>3, <5>1, <5>2
      <4>5. prefix \in Seq(Events) /\ Len(prefix) = k + 1
            /\ \A n \in 1 .. k + 1 : prefix[n] = events[n]
        BY <1>0, <4>1, <4>4
      <4>6. Tells(prefix, k, chunks)
        <5>1. 1 \in 1 .. k + 1 /\ \A n \in 1 .. k : n + 1 \in 1 .. k + 1  BY <1>0
        <5>2. QED  BY <3>3, <4>5, <5>1 DEF Closed, Tells
      <4>7. QED  BY <4>5, <4>6 DEF Open
    <3>4. QED  BY <2>2, <3>2, <3>3
  <2>3. QED  BY <2>1, <2>2 DEF Bounded
<1>2. \E k \in 0 .. Len(chunks) : /\ Open(shown, k, chunks) /\ shown \in Seq(Events)
                                   /\ Len(shown) <= MaxEvents - 1
  <2>1. CASE safe = <<>>
    <3>1. Tells(<<Start>>, 0, chunks) /\ Len(<<Start>>) = 1  BY <1>0 DEF Tells
    <3>2. Open(<<Start>>, 0, chunks)  BY <3>1 DEF Open
    <3>3. QED  BY <1>0, <2>1, <3>2
  <2>2. CASE safe # <<>>
    <3>1. prefix # <<>>
      <4>1. ASSUME prefix = <<>> PROVE FALSE
        <5>1. Len(prefix) = 0 /\ len = 0  BY <4>1, <1>0
        <5>2. safe = <<>>  BY <4>1, <5>1
        <5>3. QED  BY <2>2, <5>2
      <4>2. QED  BY <4>1
    <3>2. PICK k \in 0 .. Len(chunks) : Open(prefix, k, chunks) /\ prefix \in Seq(Events)
      BY <1>1, <3>1
    <3>3. Len(prefix) = k + 1 /\ len \in 1 .. k + 1 /\ len <= MaxEvents - 1
      BY <1>0, <3>2 DEF Open
    <3> HIDE DEF prefix, len
    <3>4. safe \in Seq(Events) /\ Len(safe) = len /\ \A n \in 1 .. len : safe[n] = prefix[n]
      BY <3>2, <3>3
    <3>5. len - 1 \in 0 .. Len(chunks) /\ len - 1 <= k  BY <1>0, <3>3
    <3>6. Tells(safe, len - 1, chunks)
      <4>1. 1 \in 1 .. len /\ \A n \in 1 .. len - 1 : n \in 1 .. k /\ n + 1 \in 1 .. len
        BY <1>0, <3>3
      <4>2. QED  BY <3>2, <3>4, <3>5, <4>1 DEF Open, Tells
    <3>7. Open(safe, len - 1, chunks)  BY <1>0, <3>3, <3>4, <3>6 DEF Open
    <3>8. QED  BY <2>2, <3>3, <3>4, <3>5, <3>7
  <2>3. QED  BY <2>1, <2>2
<1>3. FailureEvents(events, code) = Append(shown, last)
  BY DEF FailureEvents
<1> HIDE DEF shown, last
<1>4. PICK k \in 0 .. Len(chunks) : Open(shown, k, chunks) /\ shown \in Seq(Events)
                                     /\ Len(shown) <= MaxEvents - 1
  BY <1>2
<1> DEFINE new == Append(shown, last)
<1>5. new \in Seq(Events) /\ Len(new) = k + 2 /\ new[k + 2] = last /\ Len(new) <= MaxEvents
      /\ \A n \in 1 .. k + 1 : new[n] = shown[n]
  BY <1>0, <1>4 DEF Open
<1>6. Tells(new, k, chunks)
  <2>1. 1 \in 1 .. k + 1 /\ \A n \in 1 .. k : n + 1 \in 1 .. k + 1  BY <1>0
  <2>2. QED  BY <1>4, <1>5, <2>1 DEF Open, Tells
<1>7. Closed(new, k, chunks)  BY <1>0, <1>5, <1>6 DEF Closed
<1>8. QED  BY <1>3, <1>5, <1>7

(* The server's next chunk leaves what a transcript tells as it was.       *)
LEMMA TellsGrown ==
    ASSUME NEW chunks \in Texts, NEW t \in Chunks, NEW events, NEW k, Tells(events, k, chunks)
    PROVE  /\ Tells(events, k, Append(chunks, t)) /\ Append(chunks, t) \in Texts
           /\ Len(Append(chunks, t)) = Len(chunks) + 1 /\ Append(chunks, t)[Len(chunks) + 1] = t
<1> DEFINE new == Append(chunks, t)
<1>1. Len(chunks) \in Nat /\ k \in 0 .. Len(chunks)  BY DEF Texts, Tells
<1>2. new \in Texts /\ Len(new) = Len(chunks) + 1 /\ new[Len(chunks) + 1] = t
      /\ \A n \in 1 .. Len(chunks) : new[n] = chunks[n]
  BY DEF Texts
<1> HIDE DEF new
<1>3. ASSUME NEW n \in 1 .. k PROVE new[n] \in Chunks /\ events[n + 1] = Event("delta", new[n])
  <2>1. n \in 1 .. Len(chunks)  BY <1>1
  <2>2. new[n] = chunks[n]  BY <1>2, <2>1
  <2>3. QED  BY <2>2 DEF Tells
<1>4. k \in 0 .. Len(new)  BY <1>1, <1>2
<1>5. Tells(events, k, new)  BY <1>3, <1>4 DEF Tells
<1>6. QED  BY <1>2, <1>5 DEF new

(* An open transcript takes the next chunk, or is closed.                  *)
LEMMA OpenAppend ==
    ASSUME NEW chunks \in Texts, NEW events \in Seq(Events), NEW k \in Nat, Open(events, k, chunks)
    PROVE  /\ k + 1 \in 1 .. Len(chunks) /\ chunks[k + 1] \in Chunks =>
                 Open(Append(events, Event("delta", chunks[k + 1])), k + 1, chunks)
           /\ Closed(Append(events, Event("complete", NoText)), k, chunks)
           /\ Append(events, Event("complete", NoText))[k + 2] = Event("complete", NoText)
<1>1. Len(chunks) \in Nat  BY DEF Texts
<1>2. Len(events) = k + 1 /\ Tells(events, k, chunks)  BY DEF Open
<1>3. ASSUME NEW e \in Events
      PROVE  LET new == Append(events, e)
             IN  Len(new) = k + 2 /\ new[k + 2] = e /\ Tells(new, k, chunks)
  <2> DEFINE new == Append(events, e)
  <2>1. Len(new) = k + 2 /\ new[k + 2] = e /\ \A n \in 1 .. k + 1 : new[n] = events[n]  BY <1>2
  <2> HIDE DEF new
  <2>2. new[1] = Start
    <3>1. 1 \in 1 .. k + 1  OBVIOUS
    <3>2. QED  BY <1>2, <2>1, <3>1 DEF Tells
  <2>3. ASSUME NEW n \in 1 .. k PROVE chunks[n] \in Chunks /\ new[n + 1] = Event("delta", chunks[n])
    <3>1. n + 1 \in 1 .. k + 1  OBVIOUS
    <3>2. QED  BY <1>2, <2>1, <3>1 DEF Tells
  <2>4. Tells(new, k, chunks)  BY <1>2, <2>2, <2>3 DEF Tells
  <2>5. QED  BY <2>1, <2>4 DEF new
<1>4. ASSUME k + 1 \in 1 .. Len(chunks), chunks[k + 1] \in Chunks
      PROVE  Open(Append(events, Event("delta", chunks[k + 1])), k + 1, chunks)
  <2> DEFINE e == Event("delta", chunks[k + 1])
             new == Append(events, e)
  <2>1. e \in Events  BY <1>4 DEF Event, Events
  <2>2. Len(new) = k + 2 /\ new[k + 2] = e /\ Tells(new, k, chunks)  BY <1>3, <2>1
  <2> HIDE DEF new
  <2>3. ASSUME NEW n \in 1 .. k + 1 PROVE chunks[n] \in Chunks /\ new[n + 1] = Event("delta", chunks[n])
    <3>1. CASE n = k + 1
      <4>1. n + 1 = k + 2  BY <3>1
      <4>2. QED  BY <1>4, <2>2, <3>1, <4>1
    <3>2. CASE n # k + 1
      <4>1. n \in 1 .. k  BY <3>2
      <4>2. QED  BY <2>2, <4>1 DEF Tells
    <3>3. QED  BY <3>1, <3>2
  <2>4. k + 1 \in 0 .. Len(chunks)  BY <1>1, <1>4
  <2>5. Tells(new, k + 1, chunks)  BY <2>2, <2>3, <2>4 DEF Tells
  <2>6. Len(new) = (k + 1) + 1  BY <2>2
  <2>7. QED  BY <2>5, <2>6 DEF Open, new
<1>5. Closed(Append(events, Event("complete", NoText)), k, chunks)
      /\ Append(events, Event("complete", NoText))[k + 2] = Event("complete", NoText)
  <2> DEFINE e == Event("complete", NoText)
  <2>1. e \in Events /\ e.kind \in Terminal  BY DEF Event, Events, Terminal
  <2>2. QED  BY <1>3, <2>1 DEF Closed
<1>6. QED  BY <1>4, <1>5

(* Call c with event e for the boundary, and line l to go on with.         *)
Yielding(c, e, l) == [c EXCEPT !.phase = "event", !.event = e, !.made = @ + 1, !.line = l]

(* The record of a failed call, and of one with an event to take.          *)
LEMMA FailedTyped ==
    ASSUME NEW c \in Calls, NEW code \in Codes, NEW o \in {"failed", "timeout", "cancelled"},
           NEW new \in Seq(Events)
    PROVE  [c EXCEPT !.phase = "result", !.outcome = o, !.code = code, !.line = Nothing,
                     !.event = Nothing, !.events = new] \in Calls
<1> DEFINE f == [c EXCEPT !.phase = "result", !.outcome = o, !.code = code]
           d == [f EXCEPT !.line = Nothing, !.event = Nothing, !.events = new]
<1>1. f \in Calls  BY DEF Calls
<1>2. d = [c EXCEPT !.phase = "result", !.outcome = o, !.code = code, !.line = Nothing,
                    !.event = Nothing, !.events = new]
  OBVIOUS
<1> HIDE DEF f
<1>3. d \in Calls  BY <1>1 DEF Calls
<1> HIDE DEF d
<1>4. QED  BY <1>2, <1>3

(* An event for the boundary.                                              *)
LEMMA Yielded ==
    ASSUME NEW c \in Calls, NEW l \in Lines \union {Nothing}, NEW e \in Events
    PROVE  LET d == Yielding(c, e, l) IN
           /\ d \in Calls /\ d.phase = "event" /\ d.event = e /\ d.line = l
           /\ d.op = c.op /\ d.events = c.events /\ d.chars = c.chars /\ d.lines = c.lines
           /\ d.done = c.done /\ d.outcome = c.outcome /\ d.text = c.text
<1> DEFINE f == [c EXCEPT !.phase = "event", !.event = e]
           d == Yielding(c, e, l)
<1>1. PICK m \in Nat : m = c.made + 1  BY DEF Calls
<1>2. f \in Calls  BY DEF Calls, Streaming
<1>3. d = [f EXCEPT !.made = m, !.line = l]  BY <1>1 DEF Yielding
<1>4. d \in Calls
  <2> HIDE DEF d, f
  <2>1. QED  BY <1>2, <1>3 DEF Calls
<1>5. d.phase = "event" /\ d.event = e /\ d.line = l  BY DEF Calls, Yielding
<1>6. /\ d.op = c.op /\ d.events = c.events /\ d.chars = c.chars /\ d.lines = c.lines
      /\ d.done = c.done /\ d.outcome = c.outcome /\ d.text = c.text
  BY DEF Calls, Yielding
<1>7. QED  BY <1>4, <1>5, <1>6

(* The call fails with whatever it has taken so far.                       *)
LEMMA FailSound ==
    ASSUME NEW c \in Calls, NEW s \in Servers, c.op # Nothing, c.text = Nothing,
           Len(c.events) <= MaxEvents, Bounded(c.events, s.chunks), NEW code \in Codes
    PROVE  CallSound(Failed(c, code), s)
<1> DEFINE d == Failed(c, code)
           new == IF c.op = "stream" THEN FailureEvents(c.events, code) ELSE <<>>
<1>1. s.chunks \in Texts /\ c.events \in Seq(Events)  BY DEF Servers, Calls
<1>2. c.op = "stream" => /\ FailureEvents(c.events, code) \in Seq(Events)
                         /\ Len(FailureEvents(c.events, code)) <= MaxEvents
                         /\ \E k \in 0 .. Len(s.chunks) : Closed(FailureEvents(c.events, code), k, s.chunks)
  BY <1>1, FailureClosed
<1>3. new \in Seq(Events) /\ Len(new) <= MaxEvents  BY <1>2, LimitsAssumption
<1>4. OutcomeOf(code) \in {"failed", "timeout", "cancelled"}  BY DEF OutcomeOf
<1>5. d = [c EXCEPT !.phase = "result", !.outcome = OutcomeOf(code), !.code = code, !.line = Nothing,
                    !.event = Nothing, !.events = new]
  BY DEF Failed
<1> HIDE DEF d, new
<1>6. /\ d \in Calls /\ d.phase = "result" /\ d.outcome = OutcomeOf(code) /\ d.events = new
      /\ d.op = c.op /\ d.text = Nothing
  <2>1. d \in Calls  BY <1>3, <1>4, <1>5, FailedTyped
  <2>2. d.phase = "result" /\ d.outcome = OutcomeOf(code) /\ d.events = new  BY <1>5 DEF Calls
  <2>3. d.op = c.op /\ d.text = Nothing  BY <1>5 DEF Calls
  <2>4. QED  BY <2>1, <2>2, <2>3
<1>7. d.outcome # Nothing /\ d.outcome # "completed"  BY <1>4, <1>6, NothingAssumption
<1>8. ASSUME d.op = "stream" PROVE \E k \in 0 .. Len(s.chunks) : Closed(d.events, k, s.chunks)
  BY <1>2, <1>6, <1>8 DEF new
<1>9. Result(d, s)  BY <1>6, <1>7, <1>8 DEF Result
<1>10. CallSound(d, s)  BY <1>3, <1>6, <1>9 DEF CallSound, Preparing, Streaming
<1>11. QED  BY <1>10 DEF d

(* While a call runs, it can fail.                                         *)
LEMMA CanFail ==
    ASSUME NEW c, NEW s, CallSound(c, s), c.phase \in Preparing \union Streaming, c.phase # "idle"
    PROVE  c.op # Nothing /\ c.text = Nothing /\ Bounded(c.events, s.chunks)
<1>0. Len(s.chunks) \in Nat /\ c \in Calls  BY DEF CallSound, Servers, Texts
<1>1. CASE c.phase \in Preparing  BY <1>1 DEF CallSound, Prepared, Bounded
<1>2. CASE c.phase \in Streaming
  <2>1. Going(c, s)  BY <1>2 DEF CallSound
  <2>2. c.op # Nothing /\ c.text = Nothing  BY <2>1, NothingAssumption DEF Going, Requests
  <2>3. CASE c.phase = "event"
    <3>1. EventMade(c, s)  BY <2>1, <2>3 DEF Going
    <3>2. s.chunks # <<>> => Len(s.chunks) - 1 \in 0 .. Len(s.chunks)  BY <1>0 DEF CallSound, Servers, Texts
    <3>3. QED  BY <1>0, <2>2, <3>1, <3>2 DEF EventMade, Bounded
  <2>4. CASE c.phase \in {"pull", "wait", "end"}
    <3>1. Standing(c, Len(s.chunks), s.chunks)  BY <2>1, <2>4 DEF Going
    <3>2. QED  BY <1>0, <2>2, <3>1 DEF Standing, Bounded
  <2>5. CASE c.phase = "line"
    <3>1. Standing(c, Before(c.line, s), s.chunks) /\ Pending(c.line, s)  BY <2>1, <2>5 DEF Going
    <3>2. s.chunks # <<>> => Len(s.chunks) - 1 \in 0 .. Len(s.chunks)  BY <1>0 DEF CallSound, Servers, Texts
    <3>3. Before(c.line, s) \in 0 .. Len(s.chunks)  BY <1>0, <3>1, <3>2 DEF Before, Pending
    <3>4. QED  BY <2>2, <3>1, <3>3 DEF Standing, Bounded
  <2>6. QED  BY <1>2, <2>3, <2>4, <2>5 DEF Streaming
<1>3. QED  BY <1>1, <1>2

(* The context's failures are failures.                                    *)
LEMMA PostFailureCode == PostFailure # Nothing => PostFailure \in Codes
BY DEF PostFailure, Codes

(* The same as a step: whatever made a running call fail.                  *)
LEMMA FailStep ==
    ASSUME CallSound(call, server), NEW code \in Codes, Fail(code), server' = server,
           call.phase \in Preparing \union Streaming, call.phase # "idle"
    PROVE  CallSound(call', server')
<1>1. PICK c, s : c = call /\ s = server  OBVIOUS
<1>2. CallSound(c, s) /\ c.phase \in Preparing \union Streaming /\ c.phase # "idle"  BY <1>1
<1>3. c \in Calls /\ s \in Servers /\ Len(c.events) <= MaxEvents  BY <1>2 DEF CallSound
<1>4. c.op # Nothing /\ c.text = Nothing /\ Bounded(c.events, s.chunks)  BY <1>2, CanFail
<1>5. CallSound(Failed(c, code), s)  BY <1>3, <1>4, FailSound
<1>6. call' = Failed(c, code) /\ server' = s  BY <1>1 DEF Fail
<1>7. QED  BY <1>5, <1>6

(* Before the first request.                                               *)
LEMMA NoCallTyped == NoCall \in Calls
<1>1. 0 \in 0 .. MaxChars /\ 0 \in 0 .. MaxLines  BY LimitsAssumption
<1>2. <<>> \in Seq(Events) /\ "idle" \in Preparing  BY DEF Preparing
<1>3. QED  BY <1>1, <1>2 DEF NoCall, Calls

(* A request starts a call.                                                *)
LEMMA BeginSound ==
    ASSUME CallSound(call, server), NEW op \in Requests, Begin(op)
    PROVE  CallSound(call', server')
<1>1. PICK c, s, d, t : c = call /\ s = server /\ d = call' /\ t = server'  OBVIOUS
<1> DEFINE b == [NoCall EXCEPT !.op = op, !.phase = "health"]
<1>2. CallSound(c, s) /\ c.phase = "idle" /\ t = s  BY <1>1 DEF Begin, Calm
<1>3. s \in Servers /\ s.chunks = <<>> /\ ~s.done
  BY <1>2 DEF CallSound, Prepared, Preparing
<1>4. b \in Calls /\ b.op = op /\ b.phase = "health" /\ b.events = <<>> /\ b.text = Nothing
      /\ b.line = Nothing /\ b.event = Nothing /\ b.outcome = Nothing /\ ~b.done
  <2>1. NoCall \in Calls  BY NoCallTyped
  <2>2. b \in Calls  BY <2>1 DEF Calls, Preparing
  <2>3. b.op = op /\ b.phase = "health" /\ b.events = NoCall.events /\ b.text = NoCall.text
        /\ b.line = NoCall.line /\ b.event = NoCall.event /\ b.outcome = NoCall.outcome
        /\ b.done = NoCall.done
    BY <2>1 DEF Calls
  <2> HIDE DEF b
  <2>4. QED  BY <2>2, <2>3 DEF NoCall
<1>5. op # Nothing  BY NothingAssumption
<1>6. \/ PostFailure # Nothing /\ d = Failed(b, PostFailure)
      \/ d = b
      \/ \E code \in {"adapter_not_configured", "unsupported_operation"} : d = Failed(b, code)
  BY <1>1 DEF Begin
<1> HIDE DEF b
<1>7. Len(b.events) <= MaxEvents /\ Bounded(b.events, s.chunks)  BY <1>4, LimitsAssumption DEF Bounded
<1>8. ASSUME NEW code \in Codes PROVE CallSound(Failed(b, code), s)
  BY <1>3, <1>4, <1>5, <1>7, FailSound
<1>9. CallSound(b, s)
  <2>1. Prepared(b, s)  BY <1>3, <1>4, <1>5 DEF Prepared
  <2>2. QED  BY <1>3, <1>4, <1>7, <2>1 DEF CallSound, Streaming
<1>10. CallSound(d, s)  BY <1>6, <1>8, <1>9, PostFailureCode DEF Codes
<1>11. QED  BY <1>1, <1>2, <1>10

(* Between the steps of a preparation nothing the invariant speaks of but  *)
(* the phase changes.                                                      *)
LEMMA PreparedSound ==
    ASSUME NEW c, NEW s, CallSound(c, s), c.phase \in Preparing, c.op # Nothing,
           NEW p \in {"tags", "post", "start"}, p = "start" => c.op = "stream",
           p = "post" => c.op = "generate"
    PROVE  CallSound([c EXCEPT !.phase = p], s)
<1> DEFINE d == [c EXCEPT !.phase = p]
<1>1. c \in Calls /\ s \in Servers /\ Len(c.events) <= MaxEvents /\ Prepared(c, s)  BY DEF CallSound
<1>2. d \in Calls  BY <1>1 DEF Calls, Preparing
<1>3. d.phase = p /\ d.op = c.op /\ d.events = c.events /\ d.line = c.line /\ d.event = c.event
      /\ d.text = c.text /\ d.outcome = c.outcome /\ d.done = c.done
  BY <1>1 DEF Calls
<1> HIDE DEF d
<1>4. Prepared(d, s)  BY <1>1, <1>3 DEF Prepared
<1>5. CallSound(d, s)  BY <1>1, <1>2, <1>3, <1>4 DEF CallSound, Streaming
<1>6. QED  BY <1>5 DEF d

(* The health request.                                                     *)
LEMMA HealthSound == CallSound(call, server) /\ Health => CallSound(call', server')
<1> SUFFICES ASSUME CallSound(call, server), Health PROVE CallSound(call', server')  OBVIOUS
<1>1. PICK c, s, d, t : c = call /\ s = server /\ d = call' /\ t = server'  OBVIOUS
<1>2. CallSound(c, s) /\ c.phase = "health" /\ t = s  BY <1>1 DEF Health, Calm
<1>3. ASSUME NEW code \in Codes, Fail(code) PROVE CallSound(call', server')
  BY <1>1, <1>2, <1>3, FailStep DEF Preparing
<1>4. CASE d = [c EXCEPT !.phase = "tags"]
  <2>1. c.phase \in Preparing  BY <1>2 DEF Preparing
  <2>2. c.op # Nothing  BY <1>2, <2>1 DEF CallSound, Prepared
  <2>3. CallSound([c EXCEPT !.phase = "tags"], s)  BY <1>2, <2>1, <2>2, PreparedSound
  <2>4. QED  BY <1>1, <1>2, <1>4, <2>3
<1>5. \/ \E code \in Codes : Fail(code)
      \/ d = [c EXCEPT !.phase = "tags"]
  BY <1>1, PostFailureCode DEF Health, Codes
<1>6. QED  BY <1>3, <1>4, <1>5

(* The inventory, or the model's native name.                              *)
LEMMA TagsSound == CallSound(call, server) /\ Tags => CallSound(call', server')
<1> SUFFICES ASSUME CallSound(call, server), Tags PROVE CallSound(call', server')  OBVIOUS
<1>1. PICK c, s, d, t : c = call /\ s = server /\ d = call' /\ t = server'  OBVIOUS
<1> DEFINE p == CASE c.op = "inventory" -> "result" [] c.op = "generate" -> "post"
                  [] c.op = "stream" -> "start"
           o == IF c.op = "inventory" THEN "completed" ELSE Nothing
<1>2. CallSound(c, s) /\ c.phase = "tags" /\ t = s  BY <1>1 DEF Tags, Calm
<1>3. ASSUME NEW code \in Codes, Fail(code) PROVE CallSound(call', server')
  BY <1>1, <1>2, <1>3, FailStep DEF Preparing
<1>4. c.phase \in Preparing  BY <1>2 DEF Preparing
<1>5. c \in Calls /\ s \in Servers /\ Len(c.events) <= MaxEvents /\ Prepared(c, s)
  BY <1>2, <1>4 DEF CallSound
<1>6. c.op \in Requests /\ c.op # Nothing /\ c.outcome = Nothing /\ c.text = Nothing
  BY <1>2, <1>5 DEF Calls, Prepared
<1>7. CASE d = [c EXCEPT !.phase = p, !.outcome = o]
  <2>1. CASE c.op = "inventory"
    <3>1. p = "result" /\ o = "completed"  BY <2>1
    <3> HIDE DEF p, o
    <3>2. d = [c EXCEPT !.phase = "result", !.outcome = "completed"]  BY <1>7, <3>1
    <3>3. d \in Calls  BY <1>5, <3>2 DEF Calls
    <3>4. d.phase = "result" /\ d.outcome = "completed" /\ d.op = c.op /\ d.text = c.text
          /\ d.events = c.events
      BY <1>5, <3>2 DEF Calls
    <3>5. Result(d, s)  BY <1>6, <2>1, <3>4, NothingAssumption DEF Result
    <3>6. CallSound(d, s)  BY <1>5, <3>3, <3>4, <3>5 DEF CallSound, Preparing, Streaming
    <3>7. QED  BY <1>1, <1>2, <3>6
  <2>2. CASE c.op \in {"generate", "stream"}
    <3>1. PICK q \in {"post", "start"} : q = IF c.op = "generate" THEN "post" ELSE "start"  OBVIOUS
    <3>2. p = q /\ o = c.outcome  BY <1>6, <2>2, <3>1
    <3> HIDE DEF p, o
    <3>3. d = [c EXCEPT !.phase = q, !.outcome = c.outcome]  BY <1>7, <3>2
    <3>4. d = [c EXCEPT !.phase = q]  BY <1>5, <3>3 DEF Calls
    <3>5. CallSound([c EXCEPT !.phase = q], s)  BY <1>2, <1>4, <1>6, <2>2, <3>1, PreparedSound
    <3>6. QED  BY <1>1, <1>2, <3>4, <3>5
  <2>3. QED  BY <1>6, <2>1, <2>2 DEF Requests
<1>8. (\E code \in Codes : Fail(code)) \/ d = [c EXCEPT !.phase = p, !.outcome = o]
  BY <1>1, PostFailureCode DEF Tags, Codes
<1>9. QED  BY <1>3, <1>7, <1>8

(* One document from the server.                                           *)
LEMMA GenerateSound ==
    ASSUME CallSound(call, server), NEW l \in Lines, Generate(l)
    PROVE  CallSound(call', server')
<1>1. PICK c, s, d, t : c = call /\ s = server /\ d = call' /\ t = server'  OBVIOUS
<1>2. CallSound(c, s) /\ c.phase = "post"  BY <1>1 DEF Generate
<1>3. c \in Calls /\ s \in Servers /\ Len(c.events) <= MaxEvents /\ Prepared(c, s)
      /\ c.op = "generate"
  BY <1>2 DEF CallSound, Preparing, Prepared
<1>4. c.op # Nothing /\ c.text = Nothing /\ c.events = <<>>  BY <1>2, <1>3 DEF Prepared
<1>5. ASSUME NEW code \in Codes, Fail(code), t \in Servers PROVE CallSound(d, t)
  <2>1. d = Failed(c, code)  BY <1>1, <1>5 DEF Fail
  <2>2. Bounded(c.events, t.chunks)  BY <1>4 DEF Bounded
  <2>3. QED  BY <1>3, <1>4, <1>5, <2>1, <2>2, FailSound
<1>6. CASE l.kind # "chunk"
  <2>1. t = s /\ Fail("adapter_failure")  BY <1>1, <1>6 DEF Generate
  <2>2. "adapter_failure" \in Codes  BY DEF Codes
  <2>3. QED  BY <1>1, <1>3, <1>5, <2>1, <2>2
<1>7. CASE l.kind = "chunk"
  <2>1. l.text \in Chunks \union {NoText} /\ l.done \in BOOLEAN  BY <1>7 DEF Lines
  <2>2. t = [chunks |-> <<l.text>>, done |-> l.done]  BY <1>1, <1>7 DEF Generate
  <2>3. <<l.text>> \in Texts  BY <2>1 DEF Texts
  <2>4. t \in Servers  BY <2>1, <2>2, <2>3 DEF Servers
  <2>5. CASE \E code \in Codes : Fail(code)  BY <1>1, <1>5, <2>4, <2>5
  <2>6. CASE l.done /\ d = [c EXCEPT !.phase = "result", !.outcome = "completed", !.text = <<l.text>>]
    <3>1. d \in Calls  BY <1>3, <2>3, <2>6 DEF Calls
    <3>2. d.phase = "result" /\ d.outcome = "completed" /\ d.op = c.op /\ d.text = <<l.text>>
          /\ d.events = c.events
      BY <1>3, <2>6 DEF Calls
    <3>3. d.text = t.chunks /\ t.done /\ d.text # Nothing
      BY <2>2, <2>3, <2>6, <3>2, NothingAssumption
    <3>4. Result(d, t)  BY <1>3, <3>2, <3>3, NothingAssumption DEF Result
    <3>5. CallSound(d, t)  BY <1>3, <2>4, <3>1, <3>2, <3>4 DEF CallSound, Preparing, Streaming
    <3>6. QED  BY <1>1, <3>5
  <2>7. QED  BY <1>1, <1>7, <2>5, <2>6, PostFailureCode DEF Generate, Codes
<1>8. QED  BY <1>6, <1>7

(* A stream that goes on is sound in the phase it is in.                   *)
LEMMA GoingSound ==
    ASSUME NEW c \in Calls, NEW s \in Servers, Len(c.events) <= MaxEvents, c.phase \in Streaming,
           Going(c, s)
    PROVE  CallSound(c, s)
BY DEF CallSound, Preparing, Streaming

(* The start event is made before the connection.                          *)
LEMMA StartSound == CallSound(call, server) /\ StartStream => CallSound(call', server')
<1> SUFFICES ASSUME CallSound(call, server), StartStream PROVE CallSound(call', server')  OBVIOUS
<1>1. PICK c, s, d, t : c = call /\ s = server /\ d = call' /\ t = server'  OBVIOUS
<1>2. CallSound(c, s) /\ c.phase = "start" /\ t = s
      /\ d = [c EXCEPT !.phase = "event", !.event = Start, !.made = 1]
  BY <1>1 DEF StartStream, Calm
<1>3. c \in Calls /\ s \in Servers /\ Len(c.events) <= MaxEvents /\ Prepared(c, s)
  BY <1>2 DEF CallSound, Preparing
<1>4. Start \in Events  BY DEF Start, Event, Events
<1>5. d \in Calls  BY <1>2, <1>3, <1>4 DEF Calls, Streaming
<1>6. d.phase = "event" /\ d.event = Start /\ d.op = c.op /\ d.events = c.events /\ d.line = c.line
      /\ d.text = c.text /\ d.outcome = c.outcome /\ d.done = c.done
  BY <1>2, <1>3 DEF Calls
<1>7. EventMade(d, s)  BY <1>3, <1>6 DEF EventMade, Prepared
<1>8. Going(d, s)  BY <1>2, <1>3, <1>6, <1>7 DEF Going, Prepared
<1>9. CallSound(d, s)  BY <1>3, <1>5, <1>6, <1>8, GoingSound DEF Streaming
<1>10. QED  BY <1>1, <1>2, <1>9

(* The boundary takes the event the adapter made.                          *)
LEMMA TakeSound == CallSound(call, server) /\ TakeEvent => CallSound(call', server')
<1> SUFFICES ASSUME CallSound(call, server), TakeEvent PROVE CallSound(call', server')  OBVIOUS
<1>1. PICK c, s, d, t : c = call /\ s = server /\ d = call' /\ t = server'  OBVIOUS
<1> DEFINE new == Append(c.events, c.event)
<1>2. CallSound(c, s) /\ c.phase = "event" /\ t = s  BY <1>1 DEF TakeEvent, Calm
<1>3. ASSUME NEW code \in Codes, Fail(code) PROVE CallSound(call', server')
  BY <1>1, <1>2, <1>3, FailStep DEF Streaming
<1>4. c \in Calls /\ s \in Servers /\ s.chunks \in Texts /\ c.events \in Seq(Events)
      /\ Going(c, s) /\ EventMade(c, s) /\ Len(s.chunks) \in Nat
  BY <1>2 DEF CallSound, Streaming, Going, Servers, Calls, Texts
<1>5. CASE Len(new) <= MaxEvents /\ d = [c EXCEPT !.phase = "pull", !.events = new, !.event = Nothing]
  <2>1. c.event \in Events  BY <1>4 DEF EventMade, Start, Event, Events, Terminal
  <2>2. new \in Seq(Events)  BY <1>4, <2>1
  <2> HIDE DEF new
  <2>3. d \in Calls  BY <1>4, <1>5, <2>2 DEF Calls, Streaming
  <2>4. d.phase = "pull" /\ d.events = new /\ d.op = c.op /\ d.line = c.line /\ d.text = c.text
        /\ d.outcome = c.outcome /\ d.done = c.done
    BY <1>4, <1>5 DEF Calls
  <2>5. Standing(d, Len(s.chunks), s.chunks) /\ (d.line # Nothing => ~d.done /\ s.done)
    <3>1. CASE c.event = Start /\ c.events = <<>> /\ s.chunks = <<>> /\ c.line = Nothing /\ ~c.done
      <4>1. new = <<Start>> /\ Len(s.chunks) = 0  BY <3>1 DEF new
      <4>2. Tells(new, 0, s.chunks) /\ Len(new) = 1  BY <4>1 DEF Tells
      <4>3. QED  BY <2>4, <3>1, <4>1, <4>2 DEF Standing, Open
    <3>2. CASE /\ s.chunks # <<>> /\ s.chunks[Len(s.chunks)] \in Chunks
               /\ c.event = Event("delta", s.chunks[Len(s.chunks)])
               /\ Open(c.events, Len(s.chunks) - 1, s.chunks)
               /\ ~c.done /\ (c.line # Nothing => s.done)
      <4>0. Len(s.chunks) \in Nat \ {0}  BY <1>4, <3>2, EmptySeq DEF Texts
      <4>1. PICK k \in Nat : k = Len(s.chunks) - 1 /\ Len(s.chunks) = k + 1  BY <4>0
      <4>2. k + 1 \in 1 .. Len(s.chunks)  BY <4>1
      <4>3. s.chunks[k + 1] \in Chunks /\ Open(c.events, k, s.chunks)
            /\ new = Append(c.events, Event("delta", s.chunks[k + 1]))
        BY <3>2, <4>1 DEF new
      <4>4. Open(new, k + 1, s.chunks)  BY <1>4, <4>2, <4>3, OpenAppend
      <4>5. QED  BY <2>4, <3>2, <4>1, <4>4 DEF Standing
    <3>3. CASE /\ c.event = Event("complete", NoText) /\ Open(c.events, Len(s.chunks), s.chunks)
               /\ c.line = Nothing /\ c.done
      <4>1. new = Append(c.events, Event("complete", NoText))  BY <3>3 DEF new
      <4>2. Closed(new, Len(s.chunks), s.chunks)
            /\ new[Len(s.chunks) + 2] = Event("complete", NoText)
        BY <1>4, <3>3, <4>1, OpenAppend
      <4>3. QED  BY <2>4, <3>3, <4>2 DEF Standing
    <3>4. QED  BY <1>4, <3>1, <3>2, <3>3 DEF EventMade
  <2>6. Going(d, s)  BY <1>4, <2>4, <2>5 DEF Going
  <2>7. CallSound(d, s)  BY <1>4, <1>5, <2>3, <2>4, <2>6, GoingSound DEF Streaming
  <2>8. QED  BY <1>1, <1>2, <2>7
<1>6. \/ \E code \in Codes : Fail(code)
      \/ Len(new) <= MaxEvents /\ d = [c EXCEPT !.phase = "pull", !.events = new, !.event = Nothing]
  <2>1. Len(new) \in Nat /\ MaxEvents \in Nat
    <3>1. c.event \in Events  BY <1>4 DEF EventMade, Start, Event, Events, Terminal
    <3>2. new \in Seq(Events)  BY <1>4, <3>1
    <3>3. QED  BY <3>2, LimitsAssumption
  <2> HIDE DEF new
  <2>2. \/ \E code \in Codes : Fail(code)
        \/ ~(Len(new) > MaxEvents) /\ d = [c EXCEPT !.phase = "pull", !.events = new, !.event = Nothing]
    BY <1>1, PostFailureCode DEF TakeEvent, Codes, new
  <2>3. QED  BY <2>1, <2>2
<1>7. QED  BY <1>3, <1>5, <1>6

(* The adapter is asked for the next event.                                *)
LEMMA PullSound == CallSound(call, server) /\ Pull => CallSound(call', server')
<1> SUFFICES ASSUME CallSound(call, server), Pull PROVE CallSound(call', server')  OBVIOUS
<1>1. PICK c, s, d, t : c = call /\ s = server /\ d = call' /\ t = server'  OBVIOUS
<1> DEFINE e == Event("complete", NoText)
           y == Yielding(c, e, Nothing)
<1>2. CallSound(c, s) /\ c.phase = "pull" /\ t = s  BY <1>1 DEF Pull, Calm
<1>3. ASSUME NEW code \in Codes, Fail(code) PROVE CallSound(call', server')
  BY <1>1, <1>2, <1>3, FailStep DEF Streaming
<1>4. c \in Calls /\ s \in Servers /\ Going(c, s) /\ Standing(c, Len(s.chunks), s.chunks)
      /\ Len(c.events) <= MaxEvents /\ (c.line # Nothing => ~c.done /\ s.done)
      /\ c.text = Nothing /\ c.outcome = Nothing /\ c.op = "stream"
  BY <1>2 DEF CallSound, Streaming, Going
<1>5. e \in Events  BY DEF Event, Events, Terminal
<1>6. CASE c.line # Nothing /\ d = [y EXCEPT !.done = TRUE]
  <2>1. /\ y \in Calls /\ y.phase = "event" /\ y.event = e /\ y.line = Nothing
        /\ y.op = c.op /\ y.events = c.events /\ y.outcome = c.outcome /\ y.text = c.text
    <3>1. Nothing \in Lines \union {Nothing} /\ c \in Calls  BY <1>4
    <3> HIDE DEF e
    <3>2. QED  BY ONLY <1>5, <3>1, Yielded
  <2> HIDE DEF y
  <2>2. d \in Calls  BY <1>6, <2>1 DEF Calls
  <2>3. /\ d.phase = "event" /\ d.event = e /\ d.line = Nothing /\ d.done = TRUE
        /\ d.op = c.op /\ d.events = c.events /\ d.outcome = c.outcome /\ d.text = c.text
    BY <1>6, <2>1 DEF Calls
  <2>4. EventMade(d, s)  BY <1>4, <1>6, <2>3 DEF EventMade, Standing
  <2>5. Going(d, s)  BY <1>4, <1>6, <2>3, <2>4 DEF Going
  <2>6. CallSound(d, s)  BY <1>4, <2>2, <2>3, <2>5, GoingSound DEF Streaming
  <2>7. QED  BY <1>1, <1>2, <2>6
<1>7. CASE c.line = Nothing /\ d = [c EXCEPT !.phase = "wait"]
  <2>1. d \in Calls  BY <1>4, <1>7 DEF Calls, Streaming
  <2>2. d.phase = "wait" /\ d.op = c.op /\ d.events = c.events /\ d.line = c.line /\ d.text = c.text
        /\ d.outcome = c.outcome /\ d.done = c.done
    BY <1>4, <1>7 DEF Calls
  <2>3. Standing(d, Len(s.chunks), s.chunks)  BY <1>4, <2>2 DEF Standing
  <2>4. Going(d, s)  BY <1>4, <1>7, <2>2, <2>3 DEF Going
  <2>5. CallSound(d, s)  BY <1>4, <2>1, <2>2, <2>4, GoingSound DEF Streaming
  <2>6. QED  BY <1>1, <1>2, <2>5
<1>8. \/ \E code \in Codes : Fail(code)
      \/ c.line # Nothing /\ d = [y EXCEPT !.done = TRUE]
      \/ c.line = Nothing /\ d = [c EXCEPT !.phase = "wait"]
  BY <1>1, PostFailureCode DEF Pull, Yield, Yielding
<1>9. QED  BY <1>3, <1>6, <1>7, <1>8

(* What the events tell is what they told when the server says more.       *)
LEMMA StandingGrown ==
    ASSUME NEW c, NEW chunks \in Texts, NEW u \in Chunks, NEW k, Standing(c, k, chunks)
    PROVE  Standing(c, k, Append(chunks, u))
<1>1. Tells(c.events, k, chunks)  BY DEF Standing, Open, Closed
<1>2. Tells(c.events, k, Append(chunks, u))  BY <1>1, TellsGrown
<1>3. QED  BY <1>2 DEF Standing, Open, Closed

(* A line arrives.                                                         *)
LEMMA ReceiveSound ==
    ASSUME CallSound(call, server), NEW l \in Lines, Receive(l)
    PROVE  CallSound(call', server')
<1>1. PICK c, s, d, t : c = call /\ s = server /\ d = call' /\ t = server'  OBVIOUS
<1>2. CallSound(c, s) /\ c.phase = "wait"  BY <1>1 DEF Receive
<1>3. c \in Calls /\ s \in Servers /\ s.chunks \in Texts /\ Len(c.events) <= MaxEvents /\ Going(c, s)
  BY <1>2 DEF CallSound, Streaming, Servers
<1>4. Standing(c, Len(s.chunks), s.chunks) /\ c.text = Nothing /\ c.outcome = Nothing
      /\ c.op = "stream" /\ (c.done => s.done)
  BY <1>2, <1>3 DEF Going
<1>5. t \in Servers /\ (c.done => t.done) /\ Standing(c, Before(l, t), t.chunks)
      /\ Before(l, t) \in 0 .. Len(t.chunks) /\ (l.kind # "oversized" => Pending(l, t))
  <2>1. CASE l.kind = "chunk"
    <3>1. l.text \in Chunks \union {NoText} /\ l.done \in BOOLEAN  BY <2>1 DEF Lines
    <3>2. t = [chunks |-> IF l.text = NoText THEN s.chunks ELSE Append(s.chunks, l.text),
               done |-> s.done \/ l.done]
      BY <1>1, <2>1 DEF Receive
    <3>3. t.done = (s.done \/ l.done)  BY <3>2
    <3>4. CASE l.text = NoText
      <4>1. t.chunks = s.chunks  BY <3>2, <3>4
      <4>2. t \in Servers  BY <1>3, <3>1, <3>2, <3>4 DEF Servers
      <4>3. Before(l, t) = Len(s.chunks)  BY <3>4, <4>1 DEF Before
      <4>4. Len(s.chunks) \in 0 .. Len(s.chunks)  BY <1>3 DEF Texts
      <4>5. Pending(l, t)  BY <2>1, <3>3, <3>4 DEF Pending
      <4>6. QED  BY <1>4, <3>3, <4>1, <4>2, <4>3, <4>4, <4>5
    <3>5. CASE l.text # NoText
      <4>1. l.text \in Chunks /\ t.chunks = Append(s.chunks, l.text)  BY <3>1, <3>2, <3>5
      <4>2. t.chunks \in Texts /\ Len(s.chunks) \in Nat /\ Len(t.chunks) = Len(s.chunks) + 1
            /\ t.chunks[Len(t.chunks)] = l.text
        BY <1>3, <4>1 DEF Texts
      <4>3. t \in Servers  BY <3>1, <3>2, <1>3, <4>2 DEF Servers
      <4>4. Before(l, t) = Len(s.chunks)  BY <2>1, <3>5, <4>2 DEF Before
      <4>5. Standing(c, Len(s.chunks), t.chunks)  BY <1>3, <1>4, <4>1, StandingGrown
      <4>6. Len(s.chunks) \in 0 .. Len(t.chunks)  BY <4>2
      <4>7. t.chunks # <<>>  BY <4>2, EmptySeq
      <4>8. Pending(l, t)  BY <2>1, <3>3, <4>2, <4>7 DEF Pending
      <4>9. QED  BY <1>4, <3>3, <4>3, <4>4, <4>5, <4>6, <4>8
    <3>6. QED  BY <3>4, <3>5
  <2>2. CASE l.kind # "chunk"
    <3>1. t = s  BY <1>1, <2>2 DEF Receive
    <3>2. Before(l, t) = Len(s.chunks)  BY <2>2, <3>1 DEF Before
    <3>3. Len(s.chunks) \in 0 .. Len(s.chunks)  BY <1>3 DEF Texts
    <3>4. QED  BY <1>3, <1>4, <2>2, <3>1, <3>2, <3>3 DEF Pending
  <2>3. QED  BY <2>1, <2>2
<1>6. CASE d = Failed(c, "resource_limit")
  <2>1. Bounded(c.events, t.chunks)  BY <1>5 DEF Standing, Bounded
  <2>2. c.op # Nothing /\ "resource_limit" \in Codes  BY <1>4, NothingAssumption DEF Codes, Requests
  <2>3. QED  BY <1>1, <1>3, <1>4, <1>5, <1>6, <2>1, <2>2, FailSound
<1>7. CASE l.kind # "oversized" /\ ~(c.lines >= MaxLines)
           /\ d = [c EXCEPT !.phase = "line", !.line = l, !.lines = c.lines + 1]
  <2>1. PICK n \in 0 .. MaxLines : n = c.lines + 1  BY <1>3, <1>7, LimitsAssumption DEF Calls
  <2>2. d = [c EXCEPT !.phase = "line", !.line = l, !.lines = n]  BY <1>7, <2>1
  <2>3. d \in Calls  BY <1>3, <2>2 DEF Calls, Streaming
  <2>4. d.phase = "line" /\ d.line = l /\ d.op = c.op /\ d.events = c.events
        /\ d.text = c.text /\ d.outcome = c.outcome /\ d.done = c.done
    BY <1>3, <2>2 DEF Calls
  <2>5. Standing(d, Before(l, t), t.chunks)  BY <1>5, <2>4 DEF Standing
  <2>6. l # Nothing  BY NothingAssumption
  <2>7. Going(d, t)  BY <1>4, <1>5, <1>7, <2>4, <2>5, <2>6 DEF Going
  <2>8. CallSound(d, t)  BY <1>3, <1>5, <2>3, <2>4, <2>7, GoingSound DEF Streaming
  <2>9. QED  BY <1>1, <2>8
<1>8. QED  BY <1>1, <1>6, <1>7 DEF Receive, Fail

(* The connection ends.                                                    *)
LEMMA DisconnectSound == CallSound(call, server) /\ Disconnect => CallSound(call', server')
<1> SUFFICES ASSUME CallSound(call, server), Disconnect PROVE CallSound(call', server')  OBVIOUS
<1>1. PICK c, s, d, t : c = call /\ s = server /\ d = call' /\ t = server'  OBVIOUS
<1>2. CallSound(c, s) /\ c.phase = "wait" /\ t = s  BY <1>1 DEF Disconnect, Calm
<1>3. ASSUME NEW code \in Codes, Fail(code) PROVE CallSound(call', server')
  BY <1>1, <1>2, <1>3, FailStep DEF Streaming
<1>4. CASE c.done /\ d = [c EXCEPT !.phase = "end"]
  <2>1. c \in Calls /\ s \in Servers /\ Len(c.events) <= MaxEvents /\ Going(c, s)
    BY <1>2 DEF CallSound, Streaming
  <2>2. d \in Calls  BY <1>4, <2>1 DEF Calls, Streaming
  <2>3. d.phase = "end" /\ d.line = c.line /\ d.op = c.op /\ d.events = c.events
        /\ d.text = c.text /\ d.outcome = c.outcome /\ d.done = c.done
    BY <1>4, <2>1 DEF Calls
  <2>4. Standing(d, Len(s.chunks), s.chunks)  BY <1>2, <2>1, <2>3 DEF Going, Standing
  <2>5. Going(d, s)  BY <1>4, <2>1, <2>3, <2>4 DEF Going
  <2>6. CallSound(d, s)  BY <2>1, <2>2, <2>3, <2>5, GoingSound DEF Streaming
  <2>7. QED  BY <1>1, <1>2, <2>6
<1>5. (\E code \in Codes : Fail(code)) \/ (c.done /\ d = [c EXCEPT !.phase = "end"])
  BY <1>1 DEF Disconnect, Codes
<1>6. QED  BY <1>3, <1>4, <1>5

(* The socket's timeout.                                                   *)
LEMMA TimeoutSound == CallSound(call, server) /\ ReadTimeout => CallSound(call', server')
<1> SUFFICES ASSUME CallSound(call, server), ReadTimeout PROVE CallSound(call', server')  OBVIOUS
<1>1. call.phase \in {"wait", "post"} /\ Fail("timeout") /\ server' = server
  BY DEF ReadTimeout, Calm
<1>2. "timeout" \in Codes  BY DEF Codes
<1>3. QED  BY <1>1, <1>2, FailStep DEF Preparing, Streaming

(* The end of the stream.                                                  *)
LEMMA EndSound == CallSound(call, server) /\ EndStream => CallSound(call', server')
<1> SUFFICES ASSUME CallSound(call, server), EndStream PROVE CallSound(call', server')  OBVIOUS
<1>1. PICK c, s, d, t : c = call /\ s = server /\ d = call' /\ t = server'  OBVIOUS
<1>2. CallSound(c, s) /\ c.phase = "end" /\ t = s  BY <1>1 DEF EndStream, Calm
<1>3. ASSUME NEW code \in Codes, Fail(code) PROVE CallSound(call', server')
  BY <1>1, <1>2, <1>3, FailStep DEF Streaming
<1>4. CASE d = [c EXCEPT !.phase = "result", !.outcome = "completed"]
  <2>1. c \in Calls /\ s \in Servers /\ Len(c.events) <= MaxEvents /\ Going(c, s)
        /\ Len(s.chunks) \in Nat
    BY <1>2 DEF CallSound, Streaming, Servers, Texts
  <2>2. d \in Calls  BY <1>4, <2>1 DEF Calls
  <2>3. d.phase = "result" /\ d.outcome = "completed" /\ d.op = c.op /\ d.events = c.events
        /\ d.text = c.text
    BY <1>4, <2>1 DEF Calls
  <2>4. Closed(d.events, Len(s.chunks), s.chunks) /\ s.done
    BY <1>2, <2>1, <2>3 DEF Going, Standing
  <2>5. Len(s.chunks) \in 0 .. Len(s.chunks)  BY <2>1
  <2>6. Result(d, s)  BY <2>1, <2>3, <2>4, <2>5, NothingAssumption DEF Result, Going
  <2>7. CallSound(d, s)  BY <2>1, <2>2, <2>3, <2>6 DEF CallSound, Preparing, Streaming
  <2>8. QED  BY <1>1, <1>2, <2>7
<1>5. (\E code \in Codes : Fail(code)) \/ d = [c EXCEPT !.phase = "result", !.outcome = "completed"]
  BY <1>1, PostFailureCode DEF EndStream, Codes
<1>6. QED  BY <1>3, <1>4, <1>5

(* The line at hand becomes an event, or nothing.                          *)
LEMMA ParseSound == CallSound(call, server) /\ ParseLine => CallSound(call', server')
<1> SUFFICES ASSUME CallSound(call, server), ParseLine PROVE CallSound(call', server')  OBVIOUS
<1>1. PICK c, s, d, t : c = call /\ s = server /\ d = call' /\ t = server'  OBVIOUS
<1> DEFINE l == c.line
           rest == IF l.done THEN l ELSE Nothing
           y == Yielding(c, Event("delta", l.text), Nothing)
           z == Yielding(c, Event("complete", NoText), Nothing)
<1>2. CallSound(c, s) /\ c.phase = "line" /\ t = s  BY <1>1 DEF ParseLine, Calm
<1>3. ASSUME NEW code \in Codes, Fail(code) PROVE CallSound(call', server')
  BY <1>1, <1>2, <1>3, FailStep DEF Streaming
<1>4. c \in Calls /\ s \in Servers /\ Len(c.events) <= MaxEvents /\ Going(c, s)
      /\ s.chunks \in Texts /\ Len(s.chunks) \in Nat
  BY <1>2 DEF CallSound, Streaming, Servers, Texts
<1>5. Standing(c, Before(l, s), s.chunks) /\ c.text = Nothing /\ c.outcome = Nothing
      /\ c.op = "stream" /\ l # Nothing /\ Pending(l, s)
  BY <1>2, <1>4 DEF Going
<1>6. l \in Lines  BY <1>4, <1>5 DEF Calls
<1>7. Nothing \in Lines \union {Nothing}  OBVIOUS
<1>8. \/ \E code \in Codes : Fail(code)
      \/ /\ ~c.done /\ l.kind \notin {"garbage", "error"} /\ l.text # NoText /\ c.chars # MaxChars
         /\ d = [y EXCEPT !.chars = y.chars + 1, !.line = rest]
      \/ /\ ~c.done /\ l.kind \notin {"garbage", "error"} /\ l.text = NoText /\ l.done
         /\ d = [z EXCEPT !.done = TRUE]
      \/ /\ ~c.done /\ l.kind \notin {"garbage", "error"} /\ l.text = NoText /\ ~l.done
         /\ d = [c EXCEPT !.phase = "pull", !.line = Nothing]
  BY <1>1, PostFailureCode DEF ParseLine, Codes, Yield, Yielding
<1> HIDE DEF l, y, z
<1>9. ASSUME l.kind \notin {"garbage", "error"}
      PROVE  l.kind = "chunk" /\ l.text \in Chunks \union {NoText} /\ l.done \in BOOLEAN
  BY <1>5, <1>6, <1>9 DEF Lines, Pending
<1>10. CASE /\ ~c.done /\ l.kind \notin {"garbage", "error"} /\ l.text # NoText /\ c.chars # MaxChars
            /\ d = [y EXCEPT !.chars = y.chars + 1, !.line = rest]
  <2>1. l.text \in Chunks  BY <1>9, <1>10
  <2>2. Event("delta", l.text) \in Events  BY <2>1 DEF Event, Events
  <2>3. /\ y \in Calls /\ y.phase = "event" /\ y.event = Event("delta", l.text) /\ y.op = c.op
        /\ y.events = c.events /\ y.chars = c.chars /\ y.done = c.done /\ y.outcome = c.outcome
        /\ y.text = c.text
    BY <1>4, <1>7, <2>2, Yielded DEF y
  <2>4. y.chars + 1 \in 0 .. MaxChars  BY <1>4, <1>10, <2>3, LimitsAssumption DEF Calls
  <2>5. rest \in Lines \union {Nothing} /\ (rest # Nothing => l.done)  BY <1>6
  <2> HIDE DEF rest
  <2>6. PICK n \in 0 .. MaxChars : n = y.chars + 1  BY <2>4
  <2>7. d = [y EXCEPT !.chars = n, !.line = rest]  BY <1>10, <2>6
  <2>8. d \in Calls  BY <2>3, <2>5, <2>7 DEF Calls
  <2>9. /\ d.phase = "event" /\ d.event = Event("delta", l.text) /\ d.op = c.op /\ d.line = rest
        /\ d.events = c.events /\ d.done = c.done /\ d.outcome = c.outcome /\ d.text = c.text
    BY <2>3, <2>7 DEF Calls
  <2>10. s.chunks # <<>> /\ s.chunks[Len(s.chunks)] = l.text /\ (l.done => s.done)
         /\ Before(l, s) = Len(s.chunks) - 1
    BY <1>5, <1>9, <1>10 DEF Pending, Before
  <2>11. Open(c.events, Len(s.chunks) - 1, s.chunks)  BY <1>5, <1>10, <2>10 DEF Standing
  <2>12. EventMade(d, s)  BY <1>10, <2>1, <2>5, <2>9, <2>10, <2>11 DEF EventMade
  <2>13. Going(d, s)  BY <1>5, <1>10, <2>9, <2>12 DEF Going
  <2>14. CallSound(d, s)  BY <1>4, <2>8, <2>9, <2>13, GoingSound DEF Streaming
  <2>15. QED  BY <1>1, <1>2, <2>14
<1>11. CASE /\ ~c.done /\ l.kind \notin {"garbage", "error"} /\ l.text = NoText /\ l.done
            /\ d = [z EXCEPT !.done = TRUE]
  <2>1. Event("complete", NoText) \in Events  BY DEF Event, Events, Terminal
  <2>2. /\ z \in Calls /\ z.phase = "event" /\ z.event = Event("complete", NoText) /\ z.op = c.op
        /\ z.line = Nothing /\ z.events = c.events /\ z.outcome = c.outcome /\ z.text = c.text
    BY <1>4, <1>7, <2>1, Yielded DEF z
  <2>3. d \in Calls  BY <1>11, <2>2 DEF Calls
  <2>4. /\ d.phase = "event" /\ d.event = Event("complete", NoText) /\ d.op = c.op
        /\ d.line = Nothing /\ d.done = TRUE /\ d.events = c.events /\ d.outcome = c.outcome
        /\ d.text = c.text
    BY <1>11, <2>2 DEF Calls
  <2>5. Before(l, s) = Len(s.chunks) /\ s.done  BY <1>5, <1>9, <1>11 DEF Before, Pending
  <2>6. Open(c.events, Len(s.chunks), s.chunks)  BY <1>5, <1>11, <2>5 DEF Standing
  <2>7. EventMade(d, s)  BY <2>4, <2>6 DEF EventMade
  <2>8. Going(d, s)  BY <1>5, <2>4, <2>5, <2>7 DEF Going
  <2>9. CallSound(d, s)  BY <1>4, <2>3, <2>4, <2>8, GoingSound DEF Streaming
  <2>10. QED  BY <1>1, <1>2, <2>9
<1>12. CASE /\ ~c.done /\ l.kind \notin {"garbage", "error"} /\ l.text = NoText /\ ~l.done
            /\ d = [c EXCEPT !.phase = "pull", !.line = Nothing]
  <2>1. d \in Calls  BY <1>4, <1>12 DEF Calls, Streaming
  <2>2. /\ d.phase = "pull" /\ d.line = Nothing /\ d.op = c.op /\ d.done = c.done
        /\ d.events = c.events /\ d.outcome = c.outcome /\ d.text = c.text
    BY <1>4, <1>12 DEF Calls
  <2>3. Before(l, s) = Len(s.chunks)  BY <1>12 DEF Before
  <2>4. Standing(d, Len(s.chunks), s.chunks)  BY <1>5, <2>2, <2>3 DEF Standing
  <2>5. Going(d, s)  BY <1>5, <1>12, <2>2, <2>4 DEF Going
  <2>6. CallSound(d, s)  BY <1>4, <2>1, <2>2, <2>5, GoingSound DEF Streaming
  <2>7. QED  BY <1>1, <1>2, <2>6
<1>13. QED  BY <1>3, <1>8, <1>10, <1>11, <1>12

(* The answer withheld: its transcript tells nothing.                      *)
LEMMA SanitizedTells ==
    ASSUME NEW chunks \in Texts
    PROVE  Sanitized \in Seq(Events) /\ Len(Sanitized) = 2 /\ Closed(Sanitized, 0, chunks)
<1>1. Start \in Events /\ Event("error", NoText) \in Events
      /\ Event("error", NoText).kind \in Terminal
  BY DEF Start, Event, Events, Terminal
<1>2. Len(chunks) \in Nat  BY DEF Texts
<1>3. Tells(Sanitized, 0, chunks)  BY <1>2 DEF Sanitized, Tells
<1>4. QED  BY <1>1, <1>3 DEF Sanitized, Closed

(* What is shown is the answer of the invariant, if its transcript is      *)
(* closed and tells no secret.                                             *)
LEMMA ShownSound ==
    ASSUME NEW d \in Calls, NEW s \in Servers, d.phase = "answered", d.op = "stream",
           Len(d.events) <= MaxEvents, Len(d.shown) <= MaxEvents,
           NEW k \in 0 .. Len(s.chunks), Closed(d.shown, k, s.chunks),
           ~Contains(Deltas(d.shown), "secret"),
           d.text # Nothing <=> d.outcome = "completed",
           d.text # Nothing => s.done /\ d.text = s.chunks
    PROVE  CallSound(d, s)
<1>1. d.shown \in Seq(Events) /\ s.chunks \in Texts  BY DEF Calls, Servers
<1>2. /\ IsPrefix(Deltas(d.shown), s.chunks)
      /\ Head(d.shown) = Start /\ Last(d.shown).kind \in Terminal
      /\ \A n \in 1 .. Len(d.shown) - 1 : d.shown[n].kind \notin Terminal
  BY <1>1, ClosedText
<1>3. Answer(d, s)  BY <1>2 DEF Answer
<1>4. QED  BY <1>3 DEF CallSound, Preparing, Streaming

(* The scan and what is shown after it.                                    *)
LEMMA PresentSound == CallSound(call, server) /\ Present => CallSound(call', server')
<1> SUFFICES ASSUME CallSound(call, server), Present PROVE CallSound(call', server')  OBVIOUS
<1>1. PICK c, s, d, t : c = call /\ s = server /\ d = call' /\ t = server'  OBVIOUS
<1> DEFINE w == [c EXCEPT !.phase = "answered", !.outcome = "failed", !.code = "invalid_response",
                          !.shown = Sanitized]
           text == Deltas(c.events)
<1>2. CallSound(c, s) /\ c.phase = "result" /\ c.op = "stream" /\ t = s  BY <1>1 DEF Present, Calm
<1>3. c \in Calls /\ s \in Servers /\ s.chunks \in Texts /\ Len(c.events) <= MaxEvents /\ Result(c, s)
      /\ Len(s.chunks) \in Nat
  BY <1>2 DEF CallSound, Servers, Texts
<1>4. PICK k \in 0 .. Len(s.chunks) : /\ Closed(c.events, k, s.chunks)
                                      /\ c.outcome = "completed" => k = Len(s.chunks) /\ s.done
  BY <1>2, <1>3 DEF Result
<1>5. c.events \in Seq(Events) /\ c.text = Nothing  BY <1>2, <1>3 DEF Calls, Result
<1>6. text = [n \in 1 .. k |-> s.chunks[n]] /\ text \in Seq(Chunks)  BY <1>3, <1>4, <1>5, ClosedText
<1>7. CASE d = w
  <2>1. Sanitized \in Seq(Events) /\ Len(Sanitized) = 2 /\ Closed(Sanitized, 0, s.chunks)
    BY <1>3, SanitizedTells
  <2>2. Deltas(Sanitized) \in Seq(Chunks) /\ Len(Deltas(Sanitized)) = 0
    BY <1>3, <2>1, ClosedText
  <2>3. ~Contains(Deltas(Sanitized), "secret")  BY <2>2 DEF Contains
  <2>4. d \in Calls
    <3> DEFINE f == [c EXCEPT !.phase = "answered", !.outcome = "failed"]
    <3>1. f \in Calls  BY <1>3 DEF Calls
    <3>2. d = [f EXCEPT !.code = "invalid_response", !.shown = Sanitized]  BY <1>7
    <3> HIDE DEF f
    <3>3. "invalid_response" \in Codes  BY DEF Codes
    <3>4. QED  BY <2>1, <3>1, <3>2, <3>3 DEF Calls
  <2>5. d.phase = "answered" /\ d.outcome = "failed" /\ d.shown = Sanitized /\ d.op = c.op
        /\ d.text = c.text /\ d.events = c.events
    BY <1>3, <1>7 DEF Calls
  <2>6. 0 \in 0 .. Len(s.chunks) /\ Len(d.shown) <= MaxEvents
    <3>1. 0 \in 0 .. Len(s.chunks)  BY <1>3
    <3>2. Len(d.shown) = 2  BY <2>1, <2>5
    <3>3. QED  BY <3>1, <3>2, LimitsAssumption
  <2>7. CallSound(d, s)
    BY <1>2, <1>3, <1>5, <2>1, <2>3, <2>4, <2>5, <2>6, ShownSound
  <2>8. QED  BY <1>1, <1>2, <2>7
<1>8. CASE /\ ~Contains(text, "secret") /\ c.outcome # "completed"
           /\ d = [c EXCEPT !.phase = "answered", !.shown = c.events]
  <2>1. d \in Calls
    <3> DEFINE f == [c EXCEPT !.phase = "answered", !.shown = c.events]
    <3>1. c \in Calls /\ c.events \in Seq(Events)  BY <1>3, <1>5
    <3>2. f \in Calls  BY ONLY <3>1 DEF Calls
    <3>3. d = f  BY <1>8
    <3> HIDE DEF f
    <3>4. QED  BY <3>2, <3>3
  <2>2. d.phase = "answered" /\ d.outcome = c.outcome /\ d.shown = c.events /\ d.op = c.op
        /\ d.text = c.text /\ d.events = c.events
    BY <1>3, <1>8 DEF Calls
  <2>3. CallSound(d, s)  BY <1>2, <1>3, <1>4, <1>5, <1>8, <2>1, <2>2, ShownSound
  <2>4. QED  BY <1>1, <1>2, <2>3
<1>9. CASE /\ ~Contains(text, "secret") /\ c.outcome = "completed"
           /\ d = [c EXCEPT !.phase = "answered", !.shown = c.events, !.text = text]
  <2>1. k = Len(s.chunks) /\ s.done  BY <1>4, <1>9
  <2>2. text = s.chunks
    <3>1. s.chunks = [n \in 1 .. Len(s.chunks) |-> s.chunks[n]]  BY <1>3 DEF Texts
    <3>2. QED  BY <1>6, <2>1, <3>1
  <2>3. text \in Texts /\ text # Nothing  BY <1>3, <2>2, NothingAssumption
  <2> HIDE DEF text
  <2>4. d \in Calls
    <3> DEFINE f == [c EXCEPT !.phase = "answered", !.shown = c.events]
    <3>1. f \in Calls
      <4>1. c \in Calls /\ c.events \in Seq(Events)  BY <1>3, <1>5
      <4>2. QED  BY ONLY <4>1 DEF Calls
    <3>2. d = [f EXCEPT !.text = text]  BY <1>9
    <3> HIDE DEF f
    <3>3. QED  BY <2>3, <3>1, <3>2 DEF Calls
  <2>5. d.phase = "answered" /\ d.outcome = c.outcome /\ d.shown = c.events /\ d.op = c.op
        /\ d.text = text /\ d.events = c.events
    BY <1>3, <1>9 DEF Calls
  <2>6. ~Contains(Deltas(d.shown), "secret")  BY <1>9, <2>5 DEF text
  <2>7. CallSound(d, s)
    BY <1>2, <1>3, <1>4, <1>9, <2>1, <2>2, <2>3, <2>4, <2>5, <2>6, ShownSound
  <2>8. QED  BY <1>1, <1>2, <2>7
<1>10. \/ d = w
       \/ /\ ~Contains(text, "secret") /\ c.outcome # "completed"
          /\ d = [c EXCEPT !.phase = "answered", !.shown = c.events]
       \/ /\ ~Contains(text, "secret") /\ c.outcome = "completed"
          /\ d = [c EXCEPT !.phase = "answered", !.shown = c.events, !.text = text]
  BY <1>1 DEF Present, Scanned, Withheld
<1>11. QED  BY <1>7, <1>8, <1>9, <1>10

(* The other requests give their result as it is.                          *)
LEMMA ReturnSound == CallSound(call, server) /\ Return => CallSound(call', server')
<1> SUFFICES ASSUME CallSound(call, server), Return PROVE CallSound(call', server')  OBVIOUS
<1>1. PICK c, s, d, t : c = call /\ s = server /\ d = call' /\ t = server'  OBVIOUS
<1>2. CallSound(c, s) /\ c.phase = "result" /\ c.op # "stream" /\ t = s
      /\ d = [c EXCEPT !.phase = "answered"]
  BY <1>1 DEF Return, Calm
<1>3. c \in Calls /\ s \in Servers /\ Len(c.events) <= MaxEvents /\ Result(c, s)
  BY <1>2 DEF CallSound
<1>4. d \in Calls  BY <1>2, <1>3 DEF Calls
<1>5. d.phase = "answered" /\ d.outcome = c.outcome /\ d.op = c.op /\ d.text = c.text
      /\ d.events = c.events
  BY <1>2, <1>3 DEF Calls
<1>6. Answer(d, s)  BY <1>2, <1>3, <1>5 DEF Answer, Result
<1>7. CallSound(d, s)  BY <1>3, <1>4, <1>5, <1>6 DEF CallSound, Preparing, Streaming
<1>8. QED  BY <1>1, <1>2, <1>7

(* No call yet.                                                            *)
LEMMA StreamStarts == StreamInit => StreamInv
<1> SUFFICES ASSUME StreamInit PROVE StreamInv  OBVIOUS
<1>1. PICK c, s : c = call /\ s = server  OBVIOUS
<1>2. c = NoCall /\ s = [chunks |-> <<>>, done |-> FALSE]  BY <1>1 DEF StreamInit
<1>3. c \in Calls  BY <1>2, NoCallTyped
<1>4. s \in Servers /\ s.chunks = <<>> /\ ~s.done  BY <1>2 DEF Servers, Texts
<1>5. c.phase = "idle" /\ Prepared(c, s) /\ Len(c.events) <= MaxEvents
  BY <1>2, <1>4, LimitsAssumption DEF NoCall, Prepared
<1>6. CallSound(c, s)  BY <1>3, <1>4, <1>5 DEF CallSound, Streaming
<1>7. QED  BY <1>1, <1>6 DEF StreamInv, StreamInit

(* Every step keeps the call sound.                                        *)
LEMMA StreamStep == StreamInv /\ [StreamNext]_streamVars => StreamInv'
<1> SUFFICES ASSUME StreamInv, [StreamNext]_streamVars PROVE StreamInv'  OBVIOUS
<1>1. CallSound(call, server)  BY DEF StreamInv
<1>2. CASE \E op \in Requests : Begin(op)  BY <1>1, <1>2, BeginSound DEF StreamInv, Begin, Calm
<1>3. CASE Health  BY <1>1, <1>3, HealthSound DEF StreamInv, Health, Calm
<1>4. CASE Tags  BY <1>1, <1>4, TagsSound DEF StreamInv, Tags, Calm
<1>5. CASE StartStream  BY <1>1, <1>5, StartSound DEF StreamInv, StartStream, Calm
<1>6. CASE TakeEvent  BY <1>1, <1>6, TakeSound DEF StreamInv, TakeEvent, Calm
<1>7. CASE Pull  BY <1>1, <1>7, PullSound DEF StreamInv, Pull, Calm
<1>8. CASE ReadTimeout  BY <1>1, <1>8, TimeoutSound DEF StreamInv, ReadTimeout, Calm
<1>9. CASE ParseLine  BY <1>1, <1>9, ParseSound DEF StreamInv, ParseLine, Calm
<1>10. CASE EndStream  BY <1>1, <1>10, EndSound DEF StreamInv, EndStream, Calm
<1>11. CASE Present  BY <1>1, <1>11, PresentSound DEF StreamInv, Present, Calm
<1>12. CASE Return  BY <1>1, <1>12, ReturnSound DEF StreamInv, Return, Calm
<1>13. ASSUME NEW l \in Lines, Generate(l) PROVE StreamInv'
  BY <1>1, <1>13, GenerateSound DEF StreamInv, Generate
<1>14. ASSUME NEW l \in Lines, Receive(l) PROVE StreamInv'
  BY <1>1, <1>14, ReceiveSound DEF StreamInv, Receive
<1>15. CASE Disconnect  BY <1>1, <1>15, DisconnectSound DEF StreamInv, Disconnect, Calm
<1>16. CASE Cancel  BY <1>1, <1>16 DEF StreamInv, Cancel
<1>17. CASE DeadlinePasses  BY <1>1, <1>17 DEF StreamInv, DeadlinePasses
<1>18. CASE UNCHANGED streamVars  BY <1>1, <1>18 DEF StreamInv, streamVars
<1>19. QED
  BY <1>2, <1>3, <1>4, <1>5, <1>6, <1>7, <1>8, <1>9, <1>10, <1>11, <1>12, <1>13, <1>14, <1>15,
     <1>16, <1>17, <1>18
     DEF StreamNext, ProgramStep

(* Whatever the server sends and whenever the call is cancelled or runs    *)
(* out of time, what is shown of a stream starts with the start event,     *)
(* ends with its only terminal event, tells in order what the server sent  *)
(* and no secret; a text is kept only of an answer the server finished     *)
(* (LocalRuntimeBoundary.stream, _stream_events, execute_streaming_turn).  *)
THEOREM StreamsAlwaysFaithful == StreamSpec => []TranscriptFaithful
<1>1. StreamInv => TranscriptFaithful
  <2> SUFFICES ASSUME StreamInv PROVE TranscriptFaithful  OBVIOUS
  <2>1. PICK c, s : c = call /\ s = server  OBVIOUS
  <2>2. CallSound(c, s)  BY <2>1 DEF StreamInv
  <2>3. c.op \in Requests \union {Nothing} /\ Len(c.events) <= MaxEvents
        /\ c.chars \in 0 .. MaxChars /\ c.lines \in 0 .. MaxLines
    BY <2>2 DEF CallSound, Calls
  <2>4. StreamTypeOK  BY <2>1, <2>3, LimitsAssumption DEF StreamTypeOK, StreamInv
  <2>5. c.phase = "answered" => Answer(c, s)  BY <2>2 DEF CallSound
  <2>6. QED  BY <2>1, <2>4, <2>5 DEF TranscriptFaithful, Answer
<1>2. QED  BY <1>1, StreamStarts, StreamStep, PTL DEF StreamSpec

------------------------------------------------------------------------------
\* The values of the tables and of what a client holds.
Tasks == {NoRecord} \cup {Staged(j) : j \in Imports}
PlanRow == [newEnv : BOOLEAN, created : SUBSET SourceIds, reused : SUBSET SourceIds,
            conflicts : SUBSET SourceIds]
BatchRecords == {NoRecord} \cup {PublicationRecords(Staged(j)) : j \in Imports}

ImportTypes ==
    /\ env \in Environments \cup {NoRecord}
    /\ DOMAIN mapping \subseteq {ad.id : ad \in Adapters} \X SourceIds
    /\ DOMAIN canonical \subseteq {"conversation", "event"} \X SourceIds
    /\ batch \in [Batches -> BatchRecords]
    /\ file \in [Batches -> {NoRecord} \cup {j.src : j \in Imports}]
    /\ pc \in [Clients -> PC] /\ task \in [Clients -> Tasks] /\ preview \in [Clients -> {NoRecord} \cup PlanRow]
    /\ torn \subseteq Clients

\* A mapping holds what was staged: its parents are mapped by the same adapter,
\* and their canonical records are in the conversation of its own.
MappingSound(k) ==
    LET m == mapping[k]
    IN  /\ m.canonical = <<Kind(m.object), k[2]>> /\ m.canonical \in DOMAIN canonical
        /\ m.batch \in Batches /\ batch[m.batch] # NoRecord
        /\ IF m.object.type = "conversation"
           THEN canonical[m.canonical].conversation = m.canonical
           ELSE \A p \in m.object.parents :
                   /\ <<k[1], p>> \in DOMAIN mapping
                   /\ canonical[mapping[<<k[1], p>>].canonical].conversation
                         = canonical[m.canonical].conversation

\* What a batch record stands for, in the tables and on disk.
BatchSound(b) ==
    /\ env # NoRecord /\ BatchValid(batch[b].final)
    /\ \A id \in DOMAIN batch[b].final.objects :
          LET k == <<batch[b].final.adapter, id>>
          IN  k \in DOMAIN mapping /\ mapping[k].object = batch[b].final.objects[id]
    /\ batch[b].snapshot.managed => file[b] = batch[b].snapshot.src

TablesSound ==
    /\ \A k \in DOMAIN mapping : MappingSound(k)
    /\ \A b \in Batches : batch[b] # NoRecord => BatchSound(b)
    /\ ConversationGraphOk

\* A plan that was approved: what it creates may be taken by now, but what it
\* reuses is as it was, and the environment is still its own.
PlanSound(j, plan) ==
    /\ plan \in PlanRow /\ plan.created \cup plan.reused = DOMAIN Objects(j)
    /\ ~plan.newEnv => env = j.env
    /\ BatchValid(FinalBatch(j))
    /\ \A id \in DOMAIN Objects(j) :
          /\ Cardinality(Roots(Objects(j), id)) = 1
          /\ Objects(j)[id].type = "conversation" => Objects(j)[id].parents = {}
    /\ \A id \in plan.reused : MappingKey(j, id) \in DOMAIN mapping /\ ~MappingConflict(j, id)

HoldsFile(c) == pc[c] = "filed" /\ task[c].preserve

ClientSound(c) ==
    /\ pc[c] # "idle" => task[c] # NoRecord
    /\ pc[c] \notin {"idle", "failed"} => ~task[c].stage.refused
    /\ pc[c] \in {"approved", "filed"} => PlanSound(task[c], preview[c])
    /\ HoldsFile(c) =>
          LET b == task[c].batch
          IN  /\ file[b] = task[c].src
              /\ batch[b] # NoRecord => ~batch[b].snapshot.managed
              /\ \A d \in Clients \ {c} : HoldsFile(d) => task[d].batch # b

FilesAccounted ==
    \A b \in Batches : file[b] # NoRecord /\ torn = {} =>
        \/ batch[b] # NoRecord /\ batch[b].snapshot.managed
        \/ \E c \in Clients : HoldsFile(c) /\ task[c].batch = b

ImportInv ==
    /\ ImportTypes /\ TablesSound /\ FilesAccounted
    /\ \A c \in Clients : ClientSound(c)

------------------------------------------------------------------------------
\* The conversations a staged object descends from are found by recursion over
\* its parents.  Staging leaves a grounded set of objects, which a function with
\* the recursive equation exists on: the union of those on parts that hold the
\* parents of what they hold.
RootsFrom(objs, r, x) ==
    IF objs[x].type = "conversation" THEN {x} ELSE UNION {r[p] : p \in objs[x].parents}

RootsOf(objs) ==
    CHOOSE r : r = [x \in DOMAIN objs |->
                       IF objs[x].type = "conversation" THEN {x}
                       ELSE UNION {r[p] : p \in objs[x].parents}]

PartialRoots(objs, S, r) ==
    /\ S \subseteq DOMAIN objs
    /\ r \in [S -> SUBSET DOMAIN objs]
    /\ \A x \in S : objs[x].type # "conversation" => objs[x].parents \subseteq S
    /\ \A x \in S : r[x] = RootsFrom(objs, r, x)

\* What depends on the parents alone is the same if the parents' is.
LEMMA RootsFromSame ==
    ASSUME NEW objs, NEW r, NEW q, NEW x,
           objs[x].type # "conversation" => \A p \in objs[x].parents : r[p] = q[p]
    PROVE  RootsFrom(objs, r, x) = RootsFrom(objs, q, x)
<1>1. CASE objs[x].type = "conversation"
  BY <1>1 DEF RootsFrom
<1>2. CASE objs[x].type # "conversation"
  <2>1. {r[p] : p \in objs[x].parents} = {q[p] : p \in objs[x].parents}
    BY <1>2
  <2> QED
    BY <1>2, <2>1 DEF RootsFrom
<1> QED
  BY <1>1, <1>2

\* Two such functions agree where both are defined: a first object on which they
\* differ would have parents on which they do not.
LEMMA PartialRootsAgree ==
    ASSUME NEW objs, Grounded(objs), NEW S, NEW r, NEW T, NEW q,
           PartialRoots(objs, S, r), PartialRoots(objs, T, q)
    PROVE  \A x \in S \cap T : r[x] = q[x]
<1> DEFINE bad == {x \in S \cap T : r[x] # q[x]}
<1>1. SUFFICES ASSUME bad # {} PROVE FALSE
  OBVIOUS
<1>2. bad \in (SUBSET DOMAIN objs) \ {{}}
  BY <1>1 DEF PartialRoots
<1>3. PICK x \in bad : objs[x].parents \cap bad = {}
  BY <1>2 DEF Grounded
<1>4. objs[x].type # "conversation" => \A p \in objs[x].parents : r[p] = q[p]
  BY <1>3 DEF PartialRoots
<1>5. RootsFrom(objs, r, x) = RootsFrom(objs, q, x)
  BY <1>4, RootsFromSame
<1> QED
  BY <1>3, <1>5 DEF PartialRoots

\* A grounded set of objects has the function on all of it.
LEMMA RootsExist ==
    ASSUME NEW objs, Grounded(objs)
    PROVE  \E r : PartialRoots(objs, DOMAIN objs, r)
<1> DEFINE D == DOMAIN objs
           Fits(x, S, r) == PartialRoots(objs, S, r) /\ x \in S
           G == {x \in D : \E S, r : Fits(x, S, r)}
           Value(x) == CHOOSE y : \E S, r : Fits(x, S, r) /\ y = r[x]
           R == [x \in G |-> Value(x)]
<1>1. ASSUME NEW x, NEW S, NEW r, Fits(x, S, r)
      PROVE  x \in G /\ R[x] = r[x]
  <2>1. x \in G
    BY <1>1 DEF PartialRoots
  <2>2. PICK T, q : Fits(x, T, q) /\ Value(x) = q[x]
    <3>1. \E y : \E T, q : Fits(x, T, q) /\ y = q[x]
      BY <1>1
    <3> QED
      BY <3>1
  <2>3. q[x] = r[x]
    BY <1>1, <2>2, PartialRootsAgree
  <2> QED
    BY <2>1, <2>2, <2>3
<1>2. PartialRoots(objs, G, R)
  <2>1. ASSUME NEW x \in G
        PROVE  /\ R[x] \in SUBSET D
               /\ objs[x].type # "conversation" => objs[x].parents \subseteq G
               /\ R[x] = RootsFrom(objs, R, x)
    <3>1. PICK S, r : Fits(x, S, r)
      OBVIOUS
    <3>2. R[x] = r[x] /\ r[x] \in SUBSET D
      BY <3>1, <1>1 DEF PartialRoots
    <3>3. objs[x].type # "conversation" =>
             \A p \in objs[x].parents : p \in G /\ R[p] = r[p]
      <4>1. SUFFICES ASSUME objs[x].type # "conversation", NEW p \in objs[x].parents
                     PROVE  p \in G /\ R[p] = r[p]
        OBVIOUS
      <4>2. Fits(p, S, r)
        BY <3>1, <4>1 DEF PartialRoots
      <4> HIDE DEF Fits, R, G
      <4> QED
        BY <4>2, <1>1
    <3>4. RootsFrom(objs, R, x) = RootsFrom(objs, r, x)
      <4> HIDE DEF R, G
      <4> QED
        BY <3>3, RootsFromSame
    <3>5. r[x] = RootsFrom(objs, r, x)
      BY <3>1 DEF PartialRoots
    <3> QED
      BY <3>2, <3>3, <3>4, <3>5
  <2>2. R \in [G -> SUBSET D]
    BY <2>1
  <2>3. G \subseteq D
    OBVIOUS
  <2> HIDE DEF G, R
  <2> QED
    BY <2>1, <2>2, <2>3 DEF PartialRoots
<1>3. D \subseteq G
  <2>1. SUFFICES ASSUME D \ G # {} PROVE FALSE
    OBVIOUS
  <2>2. PICK x \in D \ G : objs[x].parents \cap (D \ G) = {}
    <3>1. D \ G \in (SUBSET DOMAIN objs) \ {{}}
      BY <2>1
    <3> HIDE DEF G
    <3> QED
      BY <3>1 DEF Grounded
  <2>3. objs[x].parents \subseteq G
    BY <2>2 DEF Grounded
  <2> DEFINE H == G \cup {x}
             Q == [y \in H |-> IF y = x THEN RootsFrom(objs, R, x) ELSE R[y]]
  <2>4. \A y \in G : y # x /\ Q[y] = R[y]
    BY <2>2
  <2> HIDE DEF G, R
  <2>5. ASSUME NEW y \in H
        PROVE  /\ Q[y] \in SUBSET D
               /\ objs[y].type # "conversation" => objs[y].parents \subseteq G
               /\ Q[y] = RootsFrom(objs, Q, y)
    <3>1. objs[y].type # "conversation" => objs[y].parents \subseteq G
      BY <1>2, <2>3 DEF PartialRoots
    <3>2. RootsFrom(objs, Q, y) = RootsFrom(objs, R, y)
      BY <2>4, <3>1, RootsFromSame
    <3>3. Q[y] = RootsFrom(objs, R, y)
      <4>1. CASE y = x
        BY <4>1
      <4>2. CASE y \in G
        BY <4>2, <2>4, <1>2 DEF PartialRoots
      <4> QED
        BY <4>1, <4>2
    <3>4. RootsFrom(objs, R, y) \in SUBSET D
      <4>1. CASE objs[y].type = "conversation"
        BY <4>1, <1>2, <2>2 DEF RootsFrom, PartialRoots
      <4>2. CASE objs[y].type # "conversation"
        <5>1. \A p \in objs[y].parents : R[p] \in SUBSET D
          BY <4>2, <3>1, <1>2 DEF PartialRoots
        <5> QED
          BY <4>2, <5>1 DEF RootsFrom
      <4> QED
        BY <4>1, <4>2
    <3> QED
      BY <3>1, <3>2, <3>3, <3>4
  <2>6. Q \in [H -> SUBSET D]
    BY <2>5
  <2>7. H \subseteq D
    BY <2>2, <1>2 DEF PartialRoots
  <2>8. PartialRoots(objs, H, Q)
    <3> HIDE DEF Q
    <3> QED
      BY <2>5, <2>6, <2>7 DEF PartialRoots
  <2>9. Fits(x, H, Q)
    BY <2>8
  <2> HIDE DEF Fits, H, Q
  <2> QED
    BY <2>2, <2>9, <1>1
<1>4. G = D
  BY <1>3
<1> HIDE DEF G, R
<1> QED
  BY <1>2, <1>4

\* _conversation_root: a conversation descends from itself, any other object from
\* what its parents descend from, which are staged conversations.
LEMMA RootsEquation ==
    ASSUME NEW objs, Grounded(objs), NEW id \in DOMAIN objs
    PROVE  /\ Roots(objs, id) = IF objs[id].type = "conversation" THEN {id}
                                ELSE UNION {Roots(objs, p) : p \in objs[id].parents}
           /\ \A root \in Roots(objs, id) :
                 root \in DOMAIN objs /\ objs[root].type = "conversation"
<1> DEFINE F(r) == [x \in DOMAIN objs |->
                       IF objs[x].type = "conversation" THEN {x}
                       ELSE UNION {r[p] : p \in objs[x].parents}]
           R == RootsOf(objs)
<1>1. PICK r : PartialRoots(objs, DOMAIN objs, r)
  BY RootsExist
<1>2. r = F(r)
  BY <1>1 DEF PartialRoots, RootsFrom
<1>3. R = F(R)
  BY <1>2 DEF RootsOf
<1>4. \A x : Roots(objs, x) = R[x]
  BY DEF Roots, RootsOf
<1> HIDE DEF R
<1>5. \A x \in DOMAIN objs : R[x] = RootsFrom(objs, R, x)
  <2>1. TAKE x \in DOMAIN objs
  <2>2. F(R)[x] = RootsFrom(objs, R, x)
    BY DEF RootsFrom
  <2> HIDE DEF F
  <2> QED
    BY <2>2, <1>3
<1>6. {R[p] : p \in objs[id].parents} = {Roots(objs, p) : p \in objs[id].parents}
  BY <1>4
<1> DEFINE Good(x) == \A root \in R[x] : root \in DOMAIN objs /\ objs[root].type = "conversation"
           bad == {x \in DOMAIN objs : ~Good(x)}
<1>7. bad = {}
  <2>1. SUFFICES ASSUME bad # {} PROVE FALSE
    OBVIOUS
  <2>2. PICK x \in bad : objs[x].parents \cap bad = {}
    <3>1. bad \in (SUBSET DOMAIN objs) \ {{}}
      BY <2>1
    <3> HIDE DEF bad
    <3> QED
      BY <3>1 DEF Grounded
  <2>3. \A p \in objs[x].parents : Good(p)
    BY <2>2 DEF Grounded
  <2>4. x \in DOMAIN objs /\ ~Good(x)
    BY <2>2
  <2>5. R[x] = RootsFrom(objs, R, x)
    BY <1>5, <2>4
  <2>6. CASE objs[x].type = "conversation"
    <3>1. R[x] = {x}
      BY <2>5, <2>6 DEF RootsFrom
    <3> QED
      BY <2>4, <2>6, <3>1
  <2>7. CASE objs[x].type # "conversation"
    <3>1. R[x] = UNION {R[p] : p \in objs[x].parents}
      BY <2>5, <2>7 DEF RootsFrom
    <3>2. \A root \in R[x] : \E p \in objs[x].parents : root \in R[p]
      BY <3>1
    <3> QED
      BY <2>3, <2>4, <3>2
  <2> QED
    BY <2>6, <2>7
<1>8. Roots(objs, id) = R[id] /\ Good(id)
  BY <1>4, <1>7
<1> QED
  BY <1>5, <1>6, <1>8 DEF RootsFrom

------------------------------------------------------------------------------
\* What a client imports is one of the imports, with its staging.
LEMMA TaskFacts ==
    ASSUME NEW t \in Tasks, t # NoRecord
    PROVE  /\ t.batch \in Batches /\ t.env \in Environments /\ t.env # NoRecord
           /\ t.preserve \in BOOLEAN /\ t.src # NoRecord /\ t.src \in {j.src : j \in Imports}
           /\ t.adapter.id \in {ad.id : ad \in Adapters}
           /\ ~t.stage.refused =>
                 /\ DOMAIN Objects(t) \subseteq SourceIds /\ IsFiniteSet(DOMAIN Objects(t))
                 /\ Grounded(Objects(t))
                 /\ PublicationRecords(t) \in BatchRecords /\ PublicationRecords(t) # NoRecord
<1>1. PICK j \in Imports : t = Staged(j)
  BY DEF Tasks
<1>2. /\ t.batch = j.batch /\ t.env = j.env /\ t.preserve = j.preserve /\ t.src = j.src
      /\ t.adapter = j.adapter
  BY <1>1 DEF Staged
<1>3. PublicationRecords(t) \in BatchRecords
  BY <1>1 DEF BatchRecords
<1> QED
  BY <1>1, <1>2, <1>3, ImportAssumption

\* Before the first import there are no records, no files and no clients at work.
LEMMA ImportInitInv == ImportInit => ImportInv
<1>1. SUFFICES ASSUME ImportInit PROVE ImportInv
  OBVIOUS
<1>2. DOMAIN mapping = {} /\ DOMAIN canonical = {}
  BY <1>1 DEF ImportInit
<1>3. ImportTypes
  BY <1>1, <1>2 DEF ImportInit, ImportTypes, BatchRecords, Tasks, PC
<1>4. TablesSound
  BY <1>1, <1>2 DEF ImportInit, TablesSound, ConversationGraphOk
<1>5. FilesAccounted
  BY <1>1 DEF ImportInit, FilesAccounted
<1>6. \A c \in Clients : ClientSound(c)
  BY <1>1 DEF ImportInit, ClientSound, HoldsFile
<1> QED
  BY <1>3, <1>4, <1>5, <1>6 DEF ImportInv

Others(c) == \A d \in Clients \ {c} :
    pc'[d] = pc[d] /\ task'[d] = task[d] /\ preview'[d] = preview[d]

\* What a client holds beside a file.
HoldsSound(c) ==
    /\ pc[c] # "idle" => task[c] # NoRecord
    /\ pc[c] \notin {"idle", "failed"} => ~task[c].stage.refused
    /\ pc[c] \in {"approved", "filed"} => PlanSound(task[c], preview[c])

\* A plan stays sound while the tables stay as they are.
LEMMA PlanSame ==
    ASSUME NEW j, NEW plan, PlanSound(j, plan), UNCHANGED stateVars
    PROVE  PlanSound(j, plan)'
BY DEF PlanSound, stateVars, MappingConflict, MappingKey, CanonicalKey

\* A client takes a step that leaves the tables as they are.  A file that changes
\* is no other client's and no batch's.
LEMMA ClientMoves ==
    ASSUME ImportInv, NEW c \in Clients, UNCHANGED stateVars, ImportTypes', Others(c),
           ClientSound(c)', FilesAccounted',
           \A b \in Batches : file'[b] # file[b] =>
              /\ batch[b] # NoRecord => ~batch[b].snapshot.managed
              /\ \A d \in Clients \ {c} : HoldsFile(d) => task[d].batch # b
    PROVE  ImportInv'
<1>1. TablesSound'
  <2>1. \A b \in Batches : batch[b] # NoRecord => BatchSound(b)'
    <3>1. TAKE b \in Batches
    <3>2. HAVE batch[b] # NoRecord
    <3>3. BatchSound(b)
      BY <3>2 DEF ImportInv, TablesSound
    <3> QED
      BY <3>2, <3>3 DEF BatchSound, stateVars
  <2>2. \A k \in DOMAIN mapping : MappingSound(k)'
    BY DEF ImportInv, TablesSound, MappingSound, stateVars
  <2>3. ConversationGraphOk'
    BY DEF ImportInv, TablesSound, ConversationGraphOk, stateVars
  <2> QED
    BY <2>1, <2>2, <2>3 DEF TablesSound, stateVars
<1>2. ASSUME NEW d \in Clients \ {c}
      PROVE  ClientSound(d)'
  <2>1. ClientSound(d) /\ pc'[d] = pc[d] /\ task'[d] = task[d] /\ preview'[d] = preview[d]
    BY DEF ImportInv, Others
  <2>2. pc[d] \in {"approved", "filed"} => PlanSound(task[d], preview[d])'
    BY <2>1, PlanSame DEF ClientSound
  <2>3. HoldsFile(d)' <=> HoldsFile(d)
    BY <2>1 DEF HoldsFile
  <2>4. ASSUME HoldsFile(d)
        PROVE  LET b == task[d].batch
               IN  /\ file'[b] = task[d].src
                   /\ batch[b] # NoRecord => ~batch[b].snapshot.managed
                   /\ \A e \in Clients \ {d} : HoldsFile(e)' => task'[e].batch # b
    <3>1. task[d] \in Tasks /\ task[d] # NoRecord
      BY <2>1, <2>4 DEF ImportInv, ImportTypes, ClientSound, HoldsFile
    <3>2. task[d].batch \in Batches
      BY <3>1, TaskFacts
    <3>3. file'[task[d].batch] = file[task[d].batch]
      BY <2>4, <3>2
    <3>4. ASSUME NEW e \in Clients \ {d}, HoldsFile(e)'
          PROVE  task'[e].batch # task[d].batch
      <4>1. CASE e = c
        BY <2>1, <2>3, <2>4, <3>4, <4>1 DEF ClientSound
      <4>2. CASE e # c
        <5>1. HoldsFile(e) /\ task'[e] = task[e]
          BY <3>4, <4>2 DEF HoldsFile, Others
        <5> QED
          BY <2>1, <2>4, <5>1 DEF ClientSound
      <4> QED
        BY <4>1, <4>2
    <3> QED
      BY <2>1, <2>4, <3>3, <3>4 DEF ClientSound
  <2> QED
    BY <2>1, <2>2, <2>3, <2>4 DEF ClientSound, stateVars
<1> QED
  BY <1>1, <1>2 DEF ImportInv

\* A client takes a step that changes neither tables nor files, and does not begin
\* to hold a file; one it ceases to hold is torn.
LEMMA QuietStep ==
    ASSUME ImportInv, NEW c \in Clients, UNCHANGED <<stateVars, file>>, Others(c),
           pc' \in [Clients -> PC], task' \in [Clients -> Tasks], preview' \in [Clients -> {NoRecord} \cup PlanRow],
           HoldsSound(c)', torn \subseteq torn', torn' \subseteq Clients,
           ~HoldsFile(c)', HoldsFile(c) => c \in torn'
    PROVE  ImportInv'
<1>1. ImportTypes'
  BY DEF ImportInv, ImportTypes, stateVars
<1>2. ClientSound(c)'
  BY DEF ClientSound, HoldsSound
<1>3. FilesAccounted'
  <2>1. SUFFICES ASSUME NEW b \in Batches, file[b] # NoRecord, torn' = {},
                        ~(batch[b] # NoRecord /\ batch[b].snapshot.managed)
                 PROVE  \E d \in Clients : HoldsFile(d)' /\ task'[d].batch = b
    BY DEF FilesAccounted, stateVars
  <2>2. PICK d \in Clients : HoldsFile(d) /\ task[d].batch = b
    BY <2>1 DEF ImportInv, FilesAccounted
  <2>3. d # c
    BY <2>1, <2>2
  <2> QED
    BY <2>2, <2>3 DEF HoldsFile, Others
<1> QED
  BY <1>1, <1>2, <1>3, ClientMoves

\* Staging reads a source and writes nothing.
LEMMA StageSourceInv ==
    ASSUME ImportInv, NEW c \in Clients, NEW j \in Imports, StageSource(c, j)
    PROVE  ImportInv'
<1> DEFINE l == IF Staged(j).stage.refused THEN "failed" ELSE "staged"
<1>1. /\ pc[c] = "idle" /\ task' = [task EXCEPT ![c] = Staged(j)] /\ pc' = [pc EXCEPT ![c] = l]
      /\ UNCHANGED <<stateVars, file, preview, torn>>
  BY DEF StageSource, Goto
<1>2. Staged(j) \in Tasks /\ Staged(j) # NoRecord
  BY ImportAssumption DEF Tasks
<1>3. pc \in [Clients -> PC] /\ task \in [Clients -> Tasks] /\ torn \subseteq Clients
      /\ preview \in [Clients -> {NoRecord} \cup PlanRow]
  BY DEF ImportInv, ImportTypes
<1>4. l \in PC /\ l \notin {"idle", "approved", "filed"}
      /\ (l # "failed" => ~Staged(j).stage.refused)
  BY DEF PC
<1> HIDE DEF l
<1>5. /\ pc' \in [Clients -> PC] /\ task' \in [Clients -> Tasks]
      /\ pc'[c] = l /\ task'[c] = Staged(j) /\ Others(c)
  BY <1>1, <1>2, <1>3, <1>4 DEF Others
<1>6. HoldsSound(c)' /\ ~HoldsFile(c) /\ ~HoldsFile(c)'
  BY <1>1, <1>2, <1>4, <1>5 DEF HoldsSound, HoldsFile
<1> QED
  BY <1>1, <1>3, <1>5, <1>6, QuietStep

\* A client goes on to l, with what it imports, and leaves tables and files alone.
LEMMA ClientGoesOn ==
    ASSUME ImportInv, NEW c \in Clients, UNCHANGED <<stateVars, file, task>>,
           NEW l \in PC \ {"idle"}, Goto(c, l), pc[c] # "idle",
           l # "failed" => pc[c] # "failed",
           l \in {"approved", "filed"} => PlanSound(task[c], preview[c])',
           l = "filed" => ~task[c].preserve,
           preview' \in [Clients -> {NoRecord} \cup PlanRow],
           \A d \in Clients \ {c} : preview'[d] = preview[d],
           torn \subseteq torn', torn' \subseteq Clients, HoldsFile(c) => c \in torn'
    PROVE  ImportInv'
<1>1. /\ pc \in [Clients -> PC] /\ task \in [Clients -> Tasks] /\ ClientSound(c)
  BY DEF ImportInv, ImportTypes
<1>2. pc' \in [Clients -> PC] /\ pc'[c] = l /\ task' = task /\ Others(c)
  BY <1>1 DEF Goto, Others
<1>3. HoldsSound(c)'
  BY <1>1, <1>2 DEF HoldsSound, ClientSound
<1>4. ~HoldsFile(c)'
  BY <1>2 DEF HoldsFile
<1> QED
  BY <1>1, <1>2, <1>3, <1>4, QuietStep

\* The preview computes a plan and shows it.
LEMMA PreviewInv == ASSUME ImportInv, NEW c \in Clients, Preview(c) PROVE ImportInv'
<1>1. /\ pc[c] = "staged" /\ UNCHANGED <<stateVars, file, task, torn>>
      /\ ~HoldsFile(c) /\ torn \subseteq Clients
      /\ preview \in [Clients -> {NoRecord} \cup PlanRow]
  BY DEF Preview, HoldsFile, ImportInv, ImportTypes, stateVars
<1>2. CASE Goto(c, "failed") /\ UNCHANGED preview
  BY <1>1, <1>2, ClientGoesOn DEF PC
<1>3. CASE Goto(c, "previewed") /\ preview' = [preview EXCEPT ![c] = Plan(task[c])]
  <2>1. task[c] \in Tasks /\ task[c] # NoRecord /\ ~task[c].stage.refused
    BY <1>1 DEF ImportInv, ImportTypes, ClientSound
  <2>2. Plan(task[c]) \in PlanRow
    BY <2>1, TaskFacts DEF Plan, PlanRow
  <2>3. /\ preview' \in [Clients -> {NoRecord} \cup PlanRow]
        /\ \A d \in Clients \ {c} : preview'[d] = preview[d]
    BY <1>1, <1>3, <2>2
  <2> QED
    BY <1>1, <1>3, <2>3, ClientGoesOn DEF PC
<1> QED
  BY <1>2, <1>3 DEF Preview

\* The preview is computed again and is the one that was approved: a sound plan.
LEMMA PublishInv == ASSUME ImportInv, NEW c \in Clients, Publish(c) PROVE ImportInv'
<1>1. /\ pc[c] = "previewed" /\ UNCHANGED <<stateVars, file, task, preview, torn>>
      /\ ~HoldsFile(c) /\ torn \subseteq Clients
      /\ preview \in [Clients -> {NoRecord} \cup PlanRow]
  BY DEF Publish, HoldsFile, ImportInv, ImportTypes, stateVars
<1>2. CASE Goto(c, "failed")
  BY <1>1, <1>2, ClientGoesOn DEF PC
<1>3. CASE /\ ~PreviewRaises(task[c]) /\ Plan(task[c]) = preview[c] /\ preview[c].conflicts = {}
           /\ BatchValid(FinalBatch(task[c])) /\ Goto(c, "approved")
  <2> DEFINE j == task[c]
             ids == DOMAIN Objects(j)
             mapped == {id \in ids : MappingKey(j, id) \in DOMAIN mapping}
             clash == {id \in ids \ mapped : CanonicalKey(Objects(j), id) \in DOMAIN canonical}
             changed == {id \in mapped : MappingConflict(j, id)}
  <2>1. j \in Tasks /\ j # NoRecord /\ ~j.stage.refused
    BY <1>1 DEF ImportInv, ImportTypes, ClientSound
  <2>2. preview[c] = [newEnv |-> env = NoRecord, created |-> ids \ (mapped \cup clash),
                      reused |-> mapped \ changed, conflicts |-> clash \cup changed]
    BY <1>3 DEF Plan
  <2>3. clash = {} /\ changed = {}
    BY <1>3, <2>2
  <2>4. preview[c] \in PlanRow
    BY <2>1, <2>2, TaskFacts DEF PlanRow
  <2> HIDE DEF changed, clash
  <2>5. preview[c].created = ids \ mapped /\ preview[c].reused = mapped
        /\ (~preview[c].newEnv => env # NoRecord)
    <3>1. /\ preview[c].created = ids \ (mapped \cup clash)
          /\ preview[c].reused = mapped \ changed
          /\ preview[c].newEnv = (env = NoRecord)
      <4> HIDE DEF ids, mapped
      <4> QED
        BY <2>2
    <3> QED
      BY <2>3, <3>1
  <2>6. \A id \in mapped : ~MappingConflict(j, id)
    BY <2>3 DEF changed
  <2>7. PlanSound(j, preview[c])
    <3>1. preview[c].created \cup preview[c].reused = ids
      BY <2>5
    <3>2. ~preview[c].newEnv => env = j.env
      BY <1>3, <2>5 DEF PreviewRaises
    <3>3. \A id \in ids : /\ Cardinality(Roots(Objects(j), id)) = 1
                          /\ Objects(j)[id].type = "conversation" => Objects(j)[id].parents = {}
      BY <1>3 DEF PreviewRaises
    <3>4. \A id \in preview[c].reused : MappingKey(j, id) \in DOMAIN mapping /\ ~MappingConflict(j, id)
      BY <2>5, <2>6
    <3> QED
      BY <1>3, <2>4, <3>1, <3>2, <3>3, <3>4 DEF PlanSound
  <2>8. PlanSound(task[c], preview[c])'
    BY <1>1, <2>7 DEF PlanSound, stateVars, MappingConflict, MappingKey, CanonicalKey
  <2> QED
    BY <1>1, <1>3, <2>8, ClientGoesOn DEF PC
<1> QED
  BY <1>2, <1>3 DEF Publish

\* The managed copy of the source takes a name that is free, or is not wanted.
LEMMA PublishSourceInv == ASSUME ImportInv, NEW c \in Clients, PublishSource(c) PROVE ImportInv'
<1> DEFINE b == task[c].batch
<1>1. /\ pc[c] = "approved" /\ UNCHANGED <<stateVars, task, preview, torn>>
      /\ ~HoldsFile(c) /\ torn \subseteq Clients /\ ClientSound(c)
      /\ preview \in [Clients -> {NoRecord} \cup PlanRow] /\ pc \in [Clients -> PC]
      /\ task \in [Clients -> Tasks]
      /\ file \in [Batches -> {NoRecord} \cup {j.src : j \in Imports}]
  BY DEF PublishSource, HoldsFile, ImportInv, ImportTypes, stateVars
<1>2. PlanSound(task[c], preview[c])' /\ PlanSound(task[c], preview[c])
  BY <1>1 DEF ClientSound, PlanSound, stateVars, MappingConflict, MappingKey, CanonicalKey
<1>3. CASE ~task[c].preserve /\ Goto(c, "filed") /\ UNCHANGED file
  BY <1>1, <1>2, <1>3, ClientGoesOn DEF PC
<1>4. CASE task[c].preserve /\ file[b] = NoRecord /\ file' = [file EXCEPT ![b] = task[c].src]
           /\ Goto(c, "filed")
  <2>1. task[c] \in Tasks /\ task[c] # NoRecord
    BY <1>1 DEF ClientSound
  <2>2. b \in Batches /\ task[c].src \in {j.src : j \in Imports}
    BY <2>1, TaskFacts
  <2>3. /\ pc' \in [Clients -> PC] /\ pc'[c] = "filed" /\ Others(c)
        /\ task' = task /\ preview' = preview /\ torn' = torn
    BY <1>1, <1>4 DEF Goto, PC, Others
  <2>4. /\ file' \in [Batches -> {NoRecord} \cup {j.src : j \in Imports}]
        /\ file'[b] = task[c].src /\ \A x \in Batches : x # b => file'[x] = file[x]
    BY <1>1, <1>4, <2>2
  <2>5. ImportTypes'
    BY <1>1, <2>3, <2>4 DEF ImportInv, ImportTypes, stateVars
  <2>6. batch[b] # NoRecord => ~batch[b].snapshot.managed
    <3>1. SUFFICES ASSUME batch[b] # NoRecord, batch[b].snapshot.managed PROVE FALSE
      OBVIOUS
    <3>2. BatchSound(b) /\ batch[b] \in BatchRecords
      BY <2>2, <3>1 DEF ImportInv, TablesSound, ImportTypes
    <3>3. PICK t \in Imports : batch[b] = PublicationRecords(Staged(t))
      BY <3>1, <3>2 DEF BatchRecords
    <3>4. batch[b].snapshot.src = t.src
      BY <3>3 DEF PublicationRecords, Staged
    <3> QED
      BY <1>4, <3>1, <3>2, <3>4, ImportAssumption DEF BatchSound
  <2>7. \A d \in Clients \ {c} : HoldsFile(d) => task[d].batch # b
    <3>1. SUFFICES ASSUME NEW d \in Clients \ {c}, HoldsFile(d), task[d].batch = b PROVE FALSE
      OBVIOUS
    <3>2. file[b] = task[d].src /\ task[d] \in Tasks /\ task[d] # NoRecord
      BY <3>1 DEF ImportInv, ImportTypes, ClientSound, HoldsFile
    <3> QED
      BY <1>4, <3>2, TaskFacts
  <2>8. ClientSound(c)'
    <3>1. \A d \in Clients \ {c} : HoldsFile(d)' => task'[d].batch # b
      BY <2>3, <2>7 DEF HoldsFile, Others
    <3>2. batch' = batch
      BY <1>1 DEF stateVars
    <3> QED
      BY <1>1, <1>2, <2>1, <2>3, <2>4, <2>6, <3>1, <3>2 DEF ClientSound, HoldsFile
  <2>9. FilesAccounted'
    <3>1. SUFFICES ASSUME NEW x \in Batches, file'[x] # NoRecord, torn = {},
                          ~(batch[x] # NoRecord /\ batch[x].snapshot.managed)
                   PROVE  \E d \in Clients : HoldsFile(d)' /\ task'[d].batch = x
      BY <1>1 DEF FilesAccounted, stateVars
    <3>2. CASE x = b
      BY <1>4, <2>3, <3>2 DEF HoldsFile
    <3>3. CASE x # b
      <4>1. PICK d \in Clients : HoldsFile(d) /\ task[d].batch = x
        BY <2>4, <3>1, <3>3 DEF ImportInv, FilesAccounted
      <4>2. d # c
        BY <1>1, <4>1
      <4> QED
        BY <2>3, <4>1, <4>2 DEF HoldsFile, Others
    <3> QED
      BY <3>2, <3>3
  <2>10. \A x \in Batches : file'[x] # file[x] => x = b
    BY <2>4
  <2> QED
    BY <1>1, <2>3, <2>5, <2>6, <2>7, <2>8, <2>9, <2>10, ClientMoves
<1>5. CASE Goto(c, "failed") /\ UNCHANGED file
  BY <1>1, <1>5, ClientGoesOn DEF PC
<1> QED
  BY <1>3, <1>4, <1>5 DEF PublishSource

\* A transaction that fails leaves the tables; the file goes, or is torn.
LEMMA CommitFailsInv == ASSUME ImportInv, NEW c \in Clients, CommitFails(c) PROVE ImportInv'
<1> DEFINE b == task[c].batch
<1>1. /\ pc[c] = "filed" /\ Goto(c, "failed") /\ UNCHANGED <<stateVars, task, preview>>
      /\ torn \subseteq Clients /\ ClientSound(c)
      /\ preview \in [Clients -> {NoRecord} \cup PlanRow] /\ pc \in [Clients -> PC]
      /\ task \in [Clients -> Tasks]
      /\ file \in [Batches -> {NoRecord} \cup {j.src : j \in Imports}]
  BY DEF CommitFails, ImportInv, ImportTypes, stateVars
<1>2. CASE torn' = torn \cup {c} /\ UNCHANGED file
  BY <1>1, <1>2, ClientGoesOn DEF PC
<1>3. CASE ~task[c].preserve /\ UNCHANGED <<file, torn>>
  <2>1. ~HoldsFile(c)
    BY <1>3 DEF HoldsFile
  <2> QED
    BY <1>1, <1>3, <2>1, ClientGoesOn DEF PC
<1>4. CASE task[c].preserve /\ file' = [file EXCEPT ![b] = NoRecord] /\ UNCHANGED torn
  <2>1. task[c] \in Tasks /\ task[c] # NoRecord
    BY <1>1 DEF ClientSound
  <2>2. b \in Batches
    BY <2>1, TaskFacts
  <2>3. /\ pc' \in [Clients -> PC] /\ pc'[c] = "failed" /\ Others(c)
        /\ task' = task /\ preview' = preview /\ torn' = torn
    BY <1>1, <1>4 DEF Goto, PC, Others
  <2>4. /\ file' \in [Batches -> {NoRecord} \cup {j.src : j \in Imports}]
        /\ file'[b] = NoRecord /\ \A x \in Batches : x # b => file'[x] = file[x]
    BY <1>1, <1>4, <2>2
  <2>5. ImportTypes'
    BY <1>1, <2>3, <2>4 DEF ImportInv, ImportTypes, stateVars
  <2>6. /\ batch[b] # NoRecord => ~batch[b].snapshot.managed
        /\ \A d \in Clients \ {c} : HoldsFile(d) => task[d].batch # b
    BY <1>1, <1>4 DEF ClientSound, HoldsFile
  <2>7. ClientSound(c)'
    BY <2>1, <2>3 DEF ClientSound, HoldsFile
  <2>8. FilesAccounted'
    <3>1. SUFFICES ASSUME NEW x \in Batches, file'[x] # NoRecord, torn = {},
                          ~(batch[x] # NoRecord /\ batch[x].snapshot.managed)
                   PROVE  \E d \in Clients : HoldsFile(d)' /\ task'[d].batch = x
      BY <1>1, <2>3 DEF FilesAccounted, stateVars
    <3>2. x # b
      BY <2>4, <3>1
    <3>3. PICK d \in Clients : HoldsFile(d) /\ task[d].batch = x
      BY <2>4, <3>1, <3>2 DEF ImportInv, FilesAccounted
    <3>4. d # c
      BY <3>2, <3>3
    <3> QED
      BY <2>3, <3>3, <3>4 DEF HoldsFile, Others
  <2>9. \A x \in Batches : file'[x] # file[x] => x = b
    BY <2>4
  <2> QED
    BY <1>1, <2>3, <2>5, <2>6, <2>7, <2>8, <2>9, ClientMoves
<1> QED
  BY <1>2, <1>3, <1>4 DEF CommitFails, Cleanup

\* What is read back changes nothing.
LEMMA SettleInv == ASSUME ImportInv, NEW c \in Clients, Settle(c) PROVE ImportInv'
<1>1. /\ pc[c] = "committed"
      /\ Goto(c, "done") \/ Goto(c, "failed")
      /\ UNCHANGED <<stateVars, file, task, preview, torn>>
      /\ ~HoldsFile(c) /\ torn \subseteq Clients
      /\ preview \in [Clients -> {NoRecord} \cup PlanRow]
  BY DEF Settle, HoldsFile, ImportInv, ImportTypes, stateVars
<1> QED
  BY <1>1, ClientGoesOn DEF PC, Settle

\* A client dies and comes back with nothing; a file it held is torn.
LEMMA CrashOrLeaveInv == ASSUME ImportInv, NEW c \in Clients, CrashOrLeave(c) PROVE ImportInv'
<1>1. /\ task' = [task EXCEPT ![c] = NoRecord] /\ preview' = [preview EXCEPT ![c] = NoRecord]
      /\ pc' = [pc EXCEPT ![c] = "idle"] /\ UNCHANGED <<stateVars, file>>
      /\ torn' = IF HoldsFile(c) THEN torn \cup {c} ELSE torn
  BY DEF CrashOrLeave, Goto, HoldsFile
<1>2. /\ pc \in [Clients -> PC] /\ task \in [Clients -> Tasks] /\ torn \subseteq Clients
      /\ preview \in [Clients -> {NoRecord} \cup PlanRow]
  BY DEF ImportInv, ImportTypes
<1>3. /\ pc' \in [Clients -> PC] /\ task' \in [Clients -> Tasks] /\ pc'[c] = "idle"
      /\ preview' \in [Clients -> {NoRecord} \cup PlanRow] /\ Others(c)
  BY <1>1, <1>2 DEF PC, Tasks, Others
<1>4. HoldsSound(c)' /\ ~HoldsFile(c)'
  BY <1>3 DEF HoldsSound, HoldsFile
<1>5. torn \subseteq torn' /\ torn' \subseteq Clients /\ (HoldsFile(c) => c \in torn')
  BY <1>1, <1>2
<1> QED
  BY <1>1, <1>3, <1>4, <1>5, QuietStep

\* The first source environment of the workspace is saved.
LEMMA SaveEnvironmentInv ==
    ASSUME ImportInv, NEW e \in Environments, SaveEnvironment(e)
    PROVE  ImportInv'
<1>1. /\ env = NoRecord /\ env' = e
      /\ UNCHANGED <<mapping, canonical, batch, file, pc, task, preview, torn>>
  BY DEF SaveEnvironment
<1>2. ImportTypes'
  BY <1>1 DEF ImportInv, ImportTypes
<1>3. FilesAccounted'
  BY <1>1 DEF ImportInv, FilesAccounted, HoldsFile
<1>4. TablesSound'
  <2>1. \A b \in Batches : batch[b] = NoRecord
    BY <1>1 DEF ImportInv, TablesSound, BatchSound
  <2>2. \A k \in DOMAIN mapping : MappingSound(k)'
    BY <1>1 DEF ImportInv, TablesSound, MappingSound
  <2>3. ConversationGraphOk'
    BY <1>1 DEF ImportInv, TablesSound, ConversationGraphOk
  <2> QED
    BY <1>1, <2>1, <2>2, <2>3 DEF TablesSound
<1>5. ASSUME NEW c \in Clients
      PROVE  ClientSound(c)'
  <2>1. ClientSound(c)
    BY DEF ImportInv
  <2>2. ASSUME pc[c] \in {"approved", "filed"}
        PROVE  PlanSound(task[c], preview[c])'
    <3>1. PlanSound(task[c], preview[c])
      BY <2>1, <2>2 DEF ClientSound
    <3>2. task[c] \in Tasks /\ task[c] # NoRecord
      BY <2>1, <2>2 DEF ClientSound, ImportInv, ImportTypes
    <3>3. preview[c].newEnv
      BY <1>1, <3>1, <3>2, TaskFacts DEF PlanSound
    <3>4. task' = task /\ preview' = preview
      BY <1>1
    <3> QED
      BY <1>1, <3>1, <3>3, <3>4 DEF PlanSound, MappingConflict, MappingKey, CanonicalKey
  <2> QED
    BY <1>1, <2>1, <2>2 DEF ClientSound, HoldsFile
<1> QED
  BY <1>2, <1>3, <1>4, <1>5 DEF ImportInv

------------------------------------------------------------------------------
\* The conversation an object of an approved plan belongs to: a conversation is its
\* own, and an event is in the one of each of its parents.
RootOf(objs, id) == CHOOSE root \in Roots(objs, id) : TRUE

LEMMA OneRoot ==
    ASSUME NEW objs, Grounded(objs), IsFiniteSet(DOMAIN objs),
           \A id \in DOMAIN objs : Cardinality(Roots(objs, id)) = 1,
           NEW id \in DOMAIN objs
    PROVE  /\ RootOf(objs, id) \in DOMAIN objs
           /\ objs[RootOf(objs, id)].type = "conversation"
           /\ objs[id].type = "conversation" => RootOf(objs, id) = id
           /\ objs[id].type # "conversation" =>
                 /\ objs[id].parents # {}
                 /\ \A p \in objs[id].parents : RootOf(objs, p) = RootOf(objs, id)
<1>1. \A x \in DOMAIN objs : Roots(objs, x) = {RootOf(objs, x)}
  <2>1. TAKE x \in DOMAIN objs
  <2>2. IsFiniteSet(Roots(objs, x))
    BY RootsEquation, FS_Subset
  <2>3. PICK y : Roots(objs, x) = {y}
    BY <2>2, FS_Singleton
  <2> QED
    BY <2>3 DEF RootOf
<1>2. RootOf(objs, id) \in Roots(objs, id)
  BY <1>1
<1>3. RootOf(objs, id) \in DOMAIN objs /\ objs[RootOf(objs, id)].type = "conversation"
  BY <1>2, RootsEquation
<1>4. CASE objs[id].type = "conversation"
  <2>1. Roots(objs, id) = {id}
    BY <1>4, RootsEquation
  <2> QED
    BY <1>2, <1>3, <1>4, <2>1
<1>5. CASE objs[id].type # "conversation"
  <2>1. Roots(objs, id) = UNION {Roots(objs, p) : p \in objs[id].parents}
    BY <1>5, RootsEquation
  <2>2. objs[id].parents # {}
    BY <1>2, <2>1
  <2>3. ASSUME NEW p \in objs[id].parents
        PROVE  RootOf(objs, p) = RootOf(objs, id)
    <3>1. p \in DOMAIN objs
      BY DEF Grounded
    <3>2. RootOf(objs, p) \in Roots(objs, p)
      BY <1>1, <3>1
    <3>3. RootOf(objs, p) \in Roots(objs, id)
      BY <2>1, <3>2
    <3> QED
      BY <1>1, <3>3
  <2> QED
    BY <1>3, <1>5, <2>2, <2>3
<1> QED
  BY <1>4, <1>5

\* What _commit_records_atomic finds free, and what it inserts.
LEMMA CommitFacts ==
    ASSUME ImportInv, NEW c \in Clients, CommitRecords(c)
    PROVE  LET j == task[c]
               plan == preview[c]
               objs == Objects(task[c])
           IN  /\ j \in Tasks /\ j # NoRecord /\ ~j.stage.refused /\ PlanSound(j, plan)
               /\ Grounded(objs) /\ IsFiniteSet(DOMAIN objs) /\ DOMAIN objs \subseteq SourceIds
               /\ batch[j.batch] = NoRecord /\ PublicationRecords(j) # NoRecord
               /\ batch' = [batch EXCEPT ![j.batch] = PublicationRecords(j)]
               /\ env' \in Environments /\ (env # NoRecord => env' = env)
               /\ \A id \in plan.created :
                     /\ MappingKey(j, id) \notin DOMAIN mapping
                     /\ CanonicalKey(objs, id) \notin DOMAIN canonical
                     /\ mapping'[MappingKey(j, id)] = SourceMapping(j, id)
                     /\ canonical'[CanonicalKey(objs, id)] = CanonicalRecord(j, id)
               /\ DOMAIN mapping' = DOMAIN mapping \cup {MappingKey(j, id) : id \in plan.created}
               /\ DOMAIN canonical' =
                     DOMAIN canonical \cup {CanonicalKey(objs, id) : id \in plan.created}
               /\ \A k \in DOMAIN mapping : mapping'[k] = mapping[k]
               /\ \A k \in DOMAIN canonical : canonical'[k] = canonical[k]
<1> DEFINE j == task[c]
           plan == preview[c]
           objs == Objects(j)
           maps == {MappingKey(j, id) : id \in plan.created}
           keys == {CanonicalKey(objs, id) : id \in plan.created}
<1>1. /\ pc[c] = "filed" /\ ~TargetExists(c)
      /\ env' = IF plan.newEnv THEN j.env ELSE env
      /\ canonical' = [k \in DOMAIN canonical \cup keys |->
                          IF k \in keys THEN CanonicalRecord(j, k[2]) ELSE canonical[k]]
      /\ mapping' = [k \in DOMAIN mapping \cup maps |->
                        IF k \in maps THEN SourceMapping(j, k[2]) ELSE mapping[k]]
      /\ batch' = [batch EXCEPT ![j.batch] = PublicationRecords(j)]
  BY DEF CommitRecords, Extend
<1>2. j \in Tasks /\ j # NoRecord /\ ~j.stage.refused /\ PlanSound(j, plan)
  BY <1>1 DEF ImportInv, ImportTypes, ClientSound
<1>3. /\ Grounded(objs) /\ IsFiniteSet(DOMAIN objs) /\ DOMAIN objs \subseteq SourceIds
      /\ PublicationRecords(j) # NoRecord /\ j.env \in Environments
  BY <1>2, TaskFacts
<1>4. /\ batch[j.batch] = NoRecord /\ (plan.newEnv => env = NoRecord)
      /\ \A id \in plan.created : /\ MappingKey(j, id) \notin DOMAIN mapping
                                  /\ CanonicalKey(objs, id) \notin DOMAIN canonical
  BY <1>1 DEF TargetExists
<1>5. env' \in Environments /\ (env # NoRecord => env' = env)
  BY <1>1, <1>2, <1>3, <1>4 DEF PlanSound
<1>6. \A id : MappingKey(j, id)[2] = id /\ CanonicalKey(objs, id)[2] = id
  BY DEF MappingKey, CanonicalKey
<1>7. \A id \in plan.created : MappingKey(j, id) \in maps /\ CanonicalKey(objs, id) \in keys
  OBVIOUS
<1>8. (\A k \in DOMAIN mapping : k \notin maps) /\ (\A k \in DOMAIN canonical : k \notin keys)
  BY <1>4
<1> HIDE DEF maps, keys
<1>9. /\ DOMAIN mapping' = DOMAIN mapping \cup maps
      /\ \A k \in DOMAIN mapping' :
            mapping'[k] = IF k \in maps THEN SourceMapping(j, k[2]) ELSE mapping[k]
  BY <1>1
<1>10. /\ DOMAIN canonical' = DOMAIN canonical \cup keys
       /\ \A k \in DOMAIN canonical' :
             canonical'[k] = IF k \in keys THEN CanonicalRecord(j, k[2]) ELSE canonical[k]
  BY <1>1
<1>11. \A id \in plan.created :
          /\ mapping'[MappingKey(j, id)] = SourceMapping(j, id)
          /\ canonical'[CanonicalKey(objs, id)] = CanonicalRecord(j, id)
  BY <1>6, <1>7, <1>9, <1>10
<1>12. /\ \A k \in DOMAIN mapping : mapping'[k] = mapping[k]
       /\ \A k \in DOMAIN canonical : canonical'[k] = canonical[k]
  BY <1>8, <1>9, <1>10
<1>13. /\ DOMAIN mapping' = DOMAIN mapping \cup {MappingKey(j, id) : id \in plan.created}
       /\ DOMAIN canonical' = DOMAIN canonical \cup {CanonicalKey(objs, id) : id \in plan.created}
  BY <1>9, <1>10 DEF maps, keys
<1> HIDE DEF j, plan, objs
<1> QED
  BY <1>1, <1>2, <1>3, <1>4, <1>5, <1>11, <1>12, <1>13 DEF j, plan, objs

\* A reused object has the conversation that its canonical record names: a first one
\* that had not would have parents that were mapped with it, and so are reused too.
LEMMA ReusedSound ==
    ASSUME ImportInv, NEW c \in Clients, CommitRecords(c), NEW id \in preview[c].reused
    PROVE  /\ MappingKey(task[c], id) \in DOMAIN mapping
           /\ CanonicalKey(Objects(task[c]), id) \in DOMAIN canonical
           /\ mapping[MappingKey(task[c], id)].object = Objects(task[c])[id]
           /\ mapping[MappingKey(task[c], id)].canonical = CanonicalKey(Objects(task[c]), id)
           /\ canonical[CanonicalKey(Objects(task[c]), id)].conversation
                 = <<"conversation", RootOf(Objects(task[c]), id)>>
<1> DEFINE j == task[c]
           plan == preview[c]
           objs == Objects(j)
           M(x) == MappingKey(j, x)
           K(x) == CanonicalKey(objs, x)
           bad == {x \in plan.reused : canonical[K(x)].conversation # <<"conversation", RootOf(objs, x)>>}
<1>1. /\ PlanSound(j, plan) /\ Grounded(objs) /\ IsFiniteSet(DOMAIN objs)
      /\ \A x \in plan.created : M(x) \notin DOMAIN mapping
  BY CommitFacts
<1>2. plan.reused \subseteq DOMAIN objs /\ plan.created \cup plan.reused = DOMAIN objs
  BY <1>1 DEF PlanSound
<1>3. ASSUME NEW x \in plan.reused
      PROVE  /\ M(x) \in DOMAIN mapping /\ K(x) \in DOMAIN canonical
             /\ mapping[M(x)].object = objs[x] /\ mapping[M(x)].canonical = K(x)
             /\ MappingSound(M(x))
  <2>1. M(x) \in DOMAIN mapping /\ ~MappingConflict(j, x)
    BY <1>1 DEF PlanSound
  <2>2. mapping[M(x)].object = objs[x] /\ mapping[M(x)].canonical = K(x)
    BY <2>1 DEF MappingConflict
  <2>3. MappingSound(M(x))
    BY <2>1 DEF ImportInv, TablesSound
  <2> QED
    BY <2>1, <2>2, <2>3 DEF MappingSound
<1>4. \A x \in DOMAIN objs :
         /\ objs[x].type = "conversation" => RootOf(objs, x) = x
         /\ objs[x].type # "conversation" =>
               /\ objs[x].parents # {}
               /\ \A p \in objs[x].parents : RootOf(objs, p) = RootOf(objs, x)
  BY <1>1, OneRoot DEF PlanSound
<1>5. bad = {}
  <2>1. SUFFICES ASSUME bad # {} PROVE FALSE
    OBVIOUS
  <2>2. PICK x \in bad : objs[x].parents \cap bad = {}
    <3>1. bad \in (SUBSET DOMAIN objs) \ {{}}
      BY <1>2, <2>1
    <3> HIDE DEF bad
    <3> QED
      BY <1>1, <3>1 DEF Grounded
  <2>3. x \in plan.reused /\ x \in DOMAIN objs
        /\ canonical[K(x)].conversation # <<"conversation", RootOf(objs, x)>>
    BY <1>2, <2>2
  <2> HIDE DEF j, plan, objs
  <2>4. /\ MappingSound(M(x)) /\ mapping[M(x)].object = objs[x] /\ mapping[M(x)].canonical = K(x)
    BY <1>3, <2>3
  <2>5. CASE objs[x].type = "conversation"
    <3>1. canonical[K(x)].conversation = K(x)
      BY <2>4, <2>5 DEF MappingSound
    <3>2. K(x) = <<"conversation", x>>
      BY <2>5 DEF CanonicalKey, Kind
    <3> QED
      BY <1>4, <2>3, <2>5, <3>1, <3>2
  <2>6. CASE objs[x].type # "conversation"
    <3>1. PICK p \in objs[x].parents : RootOf(objs, p) = RootOf(objs, x)
      BY <1>4, <2>3, <2>6
    <3>2. M(x)[1] = j.adapter.id /\ M(p) = <<j.adapter.id, p>>
      BY DEF MappingKey
    <3>3. /\ M(p) \in DOMAIN mapping
          /\ canonical[mapping[M(p)].canonical].conversation = canonical[K(x)].conversation
      BY <2>4, <2>6, <3>2 DEF MappingSound
    <3>4. p \in plan.reused
      BY <1>1, <1>2, <2>3, <3>3 DEF Grounded
    <3>5. canonical[K(p)].conversation = <<"conversation", RootOf(objs, p)>>
      BY <2>2, <3>4
    <3>6. mapping[M(p)].canonical = K(p)
      BY <1>3, <3>4
    <3> QED
      BY <2>3, <3>1, <3>3, <3>5, <3>6
  <2> QED
    BY <2>5, <2>6
<1>6. canonical[K(id)].conversation = <<"conversation", RootOf(objs, id)>>
  BY <1>5
<1> QED
  BY <1>3, <1>6

\* The fields of what is inserted.
LEMMA RowFields ==
    ASSUME NEW j, NEW id
    PROVE  /\ CanonicalRecord(j, id).conversation = <<"conversation", RootOf(Objects(j), id)>>
           /\ CanonicalRecord(j, id).parents =
                 {CanonicalKey(Objects(j), p) :
                     p \in {p \in Objects(j)[id].parents : Objects(j)[p].type # "conversation"}}
           /\ SourceMapping(j, id).object = Objects(j)[id]
           /\ SourceMapping(j, id).canonical = CanonicalKey(Objects(j), id)
           /\ SourceMapping(j, id).batch = j.batch
BY DEF CanonicalRecord, RootOf, SourceMapping

\* After the transaction every object of the plan, created or reused, is mapped as it
\* was staged, to a canonical record in the conversation it belongs to.
LEMMA PlannedSound ==
    ASSUME ImportInv, NEW c \in Clients, CommitRecords(c), NEW id \in DOMAIN Objects(task[c])
    PROVE  /\ MappingKey(task[c], id) \in DOMAIN mapping'
           /\ CanonicalKey(Objects(task[c]), id) \in DOMAIN canonical'
           /\ mapping'[MappingKey(task[c], id)].object = Objects(task[c])[id]
           /\ mapping'[MappingKey(task[c], id)].canonical = CanonicalKey(Objects(task[c]), id)
           /\ canonical'[CanonicalKey(Objects(task[c]), id)].conversation
                 = <<"conversation", RootOf(Objects(task[c]), id)>>
<1> DEFINE j == task[c]
           plan == preview[c]
           objs == Objects(j)
<1>1. /\ \A k \in DOMAIN mapping : k \in DOMAIN mapping' /\ mapping'[k] = mapping[k]
      /\ \A k \in DOMAIN canonical : k \in DOMAIN canonical' /\ canonical'[k] = canonical[k]
      /\ \A x \in plan.created : MappingKey(j, x) \in DOMAIN mapping'
                                 /\ CanonicalKey(objs, x) \in DOMAIN canonical'
  <2>1. /\ DOMAIN mapping' = DOMAIN mapping \cup {MappingKey(j, x) : x \in plan.created}
        /\ DOMAIN canonical' = DOMAIN canonical \cup {CanonicalKey(objs, x) : x \in plan.created}
        /\ \A k \in DOMAIN mapping : mapping'[k] = mapping[k]
        /\ \A k \in DOMAIN canonical : canonical'[k] = canonical[k]
    BY CommitFacts
  <2> HIDE DEF j, plan, objs
  <2> QED
    BY <2>1
<1>2. \A x \in plan.created : /\ mapping'[MappingKey(j, x)] = SourceMapping(j, x)
                              /\ canonical'[CanonicalKey(objs, x)] = CanonicalRecord(j, x)
  BY CommitFacts
<1>3. plan.created \cup plan.reused = DOMAIN objs
  BY CommitFacts DEF PlanSound
<1>4. CASE id \in plan.created
  <2>1. canonical'[CanonicalKey(objs, id)].conversation = <<"conversation", RootOf(objs, id)>>
    BY <1>2, <1>4, RowFields
  <2>2. /\ mapping'[MappingKey(j, id)].object = objs[id]
        /\ mapping'[MappingKey(j, id)].canonical = CanonicalKey(objs, id)
    BY <1>2, <1>4, RowFields
  <2> QED
    BY <1>1, <1>4, <2>1, <2>2
<1>5. CASE id \in plan.reused
  BY <1>1, <1>5, ReusedSound
<1> QED
  BY <1>3, <1>4, <1>5

\* The transaction keeps the graph of conversations and events: it adds to records
\* that name each other only, and what it adds is grounded.
LEMMA CommitGraph ==
    ASSUME ImportInv, NEW c \in Clients, CommitRecords(c)
    PROVE  ConversationGraphOk'
<1> DEFINE j == task[c]
           plan == preview[c]
           objs == Objects(j)
           K(x) == CanonicalKey(objs, x)
<1>1. /\ PlanSound(j, plan) /\ Grounded(objs) /\ IsFiniteSet(DOMAIN objs)
      /\ \A x \in plan.created : canonical'[K(x)] = CanonicalRecord(j, x)
      /\ DOMAIN canonical' = DOMAIN canonical \cup {K(x) : x \in plan.created}
      /\ \A k \in DOMAIN canonical : canonical'[k] = canonical[k]
  BY CommitFacts
<1>2. plan.created \subseteq DOMAIN objs
  BY <1>1 DEF PlanSound
<1>3. \A x \in DOMAIN objs :
         K(x) \in DOMAIN canonical' /\ canonical'[K(x)].conversation = <<"conversation", RootOf(objs, x)>>
  BY PlannedSound
<1>4. \A x \in DOMAIN objs :
         /\ RootOf(objs, x) \in DOMAIN objs /\ objs[RootOf(objs, x)].type = "conversation"
         /\ objs[x].type # "conversation" =>
               \A p \in objs[x].parents : RootOf(objs, p) = RootOf(objs, x)
  BY <1>1, OneRoot DEF PlanSound
<1>5. \A x \in DOMAIN objs : objs[x].type = "conversation" => objs[x].parents = {}
  BY <1>1 DEF PlanSound
<1>6. \A x \in plan.created :
         canonical'[K(x)].parents = {K(p) : p \in {p \in objs[x].parents : objs[p].type # "conversation"}}
  BY <1>1, RowFields
<1>7. ConversationGraphOk
  BY DEF ImportInv, TablesSound
<1> HIDE DEF j, plan, objs
<1>8. ASSUME NEW k \in DOMAIN canonical'
      PROVE  /\ canonical'[k].conversation \in DOMAIN canonical'
             /\ \A p \in canonical'[k].parents :
                   p \in DOMAIN canonical' /\ canonical'[p].conversation = canonical'[k].conversation
  <2>1. CASE k \in DOMAIN canonical
    BY <1>1, <1>7, <2>1 DEF ConversationGraphOk
  <2>2. CASE k \notin DOMAIN canonical
    <3>1. PICK x \in plan.created : k = K(x)
      BY <1>1, <2>2
    <3>2. x \in DOMAIN objs
      BY <1>2
    <3>3. canonical'[k].conversation = K(RootOf(objs, x))
      BY <1>3, <1>4, <3>1, <3>2 DEF CanonicalKey, Kind
    <3>4. canonical'[k].conversation \in DOMAIN canonical'
      BY <1>3, <1>4, <3>2, <3>3
    <3>5. ASSUME NEW q \in canonical'[k].parents
          PROVE  q \in DOMAIN canonical' /\ canonical'[q].conversation = canonical'[k].conversation
      <4>1. PICK p \in objs[x].parents : q = K(p)
        BY <1>6, <3>1
      <4>2. p \in DOMAIN objs /\ objs[x].type # "conversation"
        BY <1>1, <1>5, <3>2 DEF Grounded
      <4>3. RootOf(objs, p) = RootOf(objs, x)
        BY <1>4, <3>2, <4>2
      <4> QED
        BY <1>3, <3>1, <3>2, <4>1, <4>2, <4>3
    <3> QED
      BY <3>4, <3>5
  <2> QED
    BY <2>1, <2>2
<1>9. ASSUME NEW loop \in (SUBSET DOMAIN canonical') \ {{}}
      PROVE  \E k \in loop : canonical'[k].parents \cap loop = {}
  <2> DEFINE old == loop \cap DOMAIN canonical
             S == {x \in plan.created : K(x) \in loop}
  <2>1. CASE old # {}
    <3>1. PICK k \in old : canonical[k].parents \cap old = {}
      <4>1. old \in (SUBSET DOMAIN canonical) \ {{}}
        BY <2>1
      <4> HIDE DEF old
      <4> QED
        BY <1>7, <4>1 DEF ConversationGraphOk
    <3>2. k \in DOMAIN canonical /\ k \in loop
      OBVIOUS
    <3>3. canonical[k].parents \subseteq DOMAIN canonical /\ canonical'[k] = canonical[k]
      BY <1>1, <1>7, <3>2 DEF ConversationGraphOk
    <3> QED
      BY <3>1, <3>2, <3>3
  <2>2. CASE old = {}
    <3>1. \A k \in loop : \E x \in plan.created : k = K(x)
      BY <1>1, <2>2
    <3>2. S \in (SUBSET DOMAIN objs) \ {{}}
      BY <1>2, <3>1
    <3>3. PICK x \in S : objs[x].parents \cap S = {}
      <4> HIDE DEF S
      <4> QED
        BY <1>1, <3>2 DEF Grounded
    <3>4. x \in plan.created /\ K(x) \in loop
      BY <3>3
    <3>5. ASSUME NEW q \in canonical'[K(x)].parents, q \in loop
          PROVE  FALSE
      <4>1. PICK p \in objs[x].parents : q = K(p)
        BY <1>6, <3>4
      <4>2. PICK y \in plan.created : q = K(y)
        BY <3>1, <3>5
      <4>3. p = y
        BY <4>1, <4>2 DEF CanonicalKey
      <4> QED
        BY <3>3, <3>5, <4>1, <4>2, <4>3
    <3> QED
      BY <3>4, <3>5
  <2> QED
    BY <2>1, <2>2
<1> QED
  BY <1>8, <1>9 DEF ConversationGraphOk

\* One transaction publishes a batch: its records, its mappings, and what they name.
LEMMA CommitRecordsInv == ASSUME ImportInv, NEW c \in Clients, CommitRecords(c) PROVE ImportInv'
<1> DEFINE j == task[c]
           plan == preview[c]
           objs == Objects(j)
           a == j.adapter.id
           M(x) == MappingKey(j, x)
           K(x) == CanonicalKey(objs, x)
<1>1. /\ pc[c] = "filed" /\ Goto(c, "committed") /\ UNCHANGED <<file, task, preview, torn>>
      /\ ClientSound(c) /\ pc \in [Clients -> PC] /\ batch \in [Batches -> BatchRecords]
  BY DEF CommitRecords, ImportInv, ImportTypes
<1>2. /\ j \in Tasks /\ j # NoRecord /\ ~j.stage.refused /\ PlanSound(j, plan)
      /\ Grounded(objs) /\ IsFiniteSet(DOMAIN objs) /\ DOMAIN objs \subseteq SourceIds
      /\ batch[j.batch] = NoRecord /\ PublicationRecords(j) # NoRecord
      /\ batch' = [batch EXCEPT ![j.batch] = PublicationRecords(j)]
      /\ env' \in Environments /\ (env # NoRecord => env' = env)
  BY CommitFacts
<1>3. /\ \A k \in DOMAIN mapping : k \in DOMAIN mapping' /\ mapping'[k] = mapping[k]
      /\ \A k \in DOMAIN canonical : k \in DOMAIN canonical' /\ canonical'[k] = canonical[k]
  BY CommitFacts
<1>4. /\ DOMAIN mapping' = DOMAIN mapping \cup {M(x) : x \in plan.created}
      /\ DOMAIN canonical' = DOMAIN canonical \cup {K(x) : x \in plan.created}
      /\ \A x \in plan.created : mapping'[M(x)] = SourceMapping(j, x)
  BY CommitFacts
<1>5. plan.created \subseteq DOMAIN objs
  BY <1>2 DEF PlanSound
<1>6. \A x \in DOMAIN objs :
         /\ M(x) \in DOMAIN mapping' /\ K(x) \in DOMAIN canonical'
         /\ mapping'[M(x)].object = objs[x] /\ mapping'[M(x)].canonical = K(x)
         /\ canonical'[K(x)].conversation = <<"conversation", RootOf(objs, x)>>
  BY PlannedSound
<1>7. \A x \in DOMAIN objs :
         /\ objs[x].type = "conversation" => RootOf(objs, x) = x
         /\ objs[x].type # "conversation" =>
               \A p \in objs[x].parents : RootOf(objs, p) = RootOf(objs, x)
  BY <1>2, OneRoot DEF PlanSound
<1>8. /\ j.batch \in Batches /\ a \in {ad.id : ad \in Adapters} /\ PublicationRecords(j) \in BatchRecords
      /\ j.src # NoRecord
  BY <1>2, TaskFacts
<1>9. /\ pc' \in [Clients -> PC] /\ pc'[c] = "committed" /\ Others(c)
      /\ file' = file /\ task' = task /\ preview' = preview /\ torn' = torn
  BY <1>1 DEF Goto, PC, Others
<1>10. /\ batch' \in [Batches -> BatchRecords] /\ batch'[j.batch] = PublicationRecords(j)
       /\ \A b \in Batches : b # j.batch => batch'[b] = batch[b]
  BY <1>1, <1>2, <1>8
<1>11. /\ PublicationRecords(j).final.objects = objs /\ PublicationRecords(j).final.adapter = a
       /\ PublicationRecords(j).final = FinalBatch(j)
       /\ PublicationRecords(j).snapshot.src = j.src
       /\ PublicationRecords(j).snapshot.managed = j.preserve
  BY DEF PublicationRecords, FinalBatch, Objects
<1>12. env' # NoRecord
  BY <1>2, ImportAssumption
<1>13. \A x : M(x) = <<a, x>> /\ K(x) = <<Kind(objs[x]), x>>
  BY DEF MappingKey, CanonicalKey
<1>14. HoldsFile(c) <=> j.preserve
  BY <1>1 DEF HoldsFile
<1>15. ConversationGraphOk'
  BY CommitGraph
<1>16. \A d \in Clients : ClientSound(d)
  BY DEF ImportInv
<1>17. ImportTypes /\ TablesSound /\ FilesAccounted
  BY DEF ImportInv
<1> HIDE DEF j, plan, objs, a, M, K
<1>18. ImportTypes'
  <2>1. \A x \in DOMAIN objs : M(x) \in {ad.id : ad \in Adapters} \X SourceIds
    BY <1>2, <1>8, <1>13
  <2>2. \A x \in DOMAIN objs : K(x) \in {"conversation", "event"} \X SourceIds
    BY <1>2, <1>13 DEF Kind
  <2>3. /\ DOMAIN mapping' \subseteq {ad.id : ad \in Adapters} \X SourceIds
        /\ DOMAIN canonical' \subseteq {"conversation", "event"} \X SourceIds
    <3>1. /\ DOMAIN mapping \subseteq {ad.id : ad \in Adapters} \X SourceIds
          /\ DOMAIN canonical \subseteq {"conversation", "event"} \X SourceIds
      BY <1>17 DEF ImportTypes
    <3> QED
      BY <1>4, <1>5, <2>1, <2>2, <3>1
  <2> QED
    BY <1>2, <1>9, <1>10, <1>17, <2>3 DEF ImportTypes
<1>19. ASSUME NEW k \in DOMAIN mapping'
       PROVE  MappingSound(k)'
  <2>1. CASE k \in DOMAIN mapping
    <3>1. MappingSound(k) /\ mapping'[k] = mapping[k]
      BY <1>3, <1>17, <2>1 DEF TablesSound
    <3>2. mapping[k].batch # j.batch /\ mapping[k].batch \in Batches
      BY <1>2, <3>1 DEF MappingSound
    <3>3. batch'[mapping[k].batch] # NoRecord
      BY <1>10, <3>1, <3>2 DEF MappingSound
    <3>4. /\ mapping[k].canonical = <<Kind(mapping[k].object), k[2]>>
          /\ mapping[k].canonical \in DOMAIN canonical'
          /\ canonical'[mapping[k].canonical] = canonical[mapping[k].canonical]
      BY <1>3, <3>1 DEF MappingSound
    <3>5. CASE mapping[k].object.type = "conversation"
      BY <3>1, <3>2, <3>3, <3>4, <3>5 DEF MappingSound
    <3>6. CASE mapping[k].object.type # "conversation"
      <4>1. ASSUME NEW p \in mapping[k].object.parents
            PROVE  /\ <<k[1], p>> \in DOMAIN mapping'
                   /\ canonical'[mapping'[<<k[1], p>>].canonical].conversation
                         = canonical'[mapping[k].canonical].conversation
        <5>1. /\ <<k[1], p>> \in DOMAIN mapping
              /\ canonical[mapping[<<k[1], p>>].canonical].conversation
                    = canonical[mapping[k].canonical].conversation
          BY <3>1, <3>6 DEF MappingSound
        <5>2. mapping[<<k[1], p>>].canonical \in DOMAIN canonical
          BY <1>17, <5>1 DEF TablesSound, MappingSound
        <5> QED
          BY <1>3, <3>4, <5>1, <5>2
      <4> QED
        BY <3>1, <3>2, <3>3, <3>4, <3>6, <4>1 DEF MappingSound
    <3> QED
      BY <3>5, <3>6
  <2>2. CASE k \notin DOMAIN mapping
    <3>1. PICK x \in plan.created : k = M(x)
      BY <1>4, <2>2
    <3>2. x \in DOMAIN objs /\ k = <<a, x>> /\ mapping'[k].batch = j.batch
      BY <1>4, <1>5, <1>13, <3>1, RowFields
    <3>3. /\ mapping'[k].canonical = K(x) /\ mapping'[k].object = objs[x]
          /\ K(x) \in DOMAIN canonical'
          /\ canonical'[K(x)].conversation = <<"conversation", RootOf(objs, x)>>
      BY <1>6, <3>1, <3>2
    <3>4. K(x) = <<Kind(mapping'[k].object), k[2]>>
      BY <1>13, <3>2, <3>3
    <3>5. batch'[mapping'[k].batch] # NoRecord
      BY <1>2, <1>10, <3>2
    <3>6. CASE objs[x].type = "conversation"
      <4>1. canonical'[K(x)].conversation = K(x)
        BY <1>7, <1>13, <3>2, <3>3, <3>6 DEF Kind
      <4> QED
        BY <1>8, <3>2, <3>3, <3>4, <3>5, <3>6, <4>1 DEF MappingSound
    <3>7. CASE objs[x].type # "conversation"
      <4>1. ASSUME NEW p \in objs[x].parents
            PROVE  /\ <<k[1], p>> \in DOMAIN mapping'
                   /\ canonical'[mapping'[<<k[1], p>>].canonical].conversation
                         = canonical'[K(x)].conversation
        <5>1. p \in DOMAIN objs /\ <<k[1], p>> = M(p)
          BY <1>2, <1>13, <3>2 DEF Grounded
        <5> QED
          BY <1>6, <1>7, <3>2, <3>3, <3>7, <5>1
      <4> QED
        BY <1>8, <3>2, <3>3, <3>4, <3>5, <3>7, <4>1 DEF MappingSound
    <3> QED
      BY <3>6, <3>7
  <2> QED
    BY <2>1, <2>2
<1>20. ASSUME NEW b \in Batches, batch'[b] # NoRecord
       PROVE  BatchSound(b)'
  <2>1. CASE b = j.batch
    <3>1. \A id \in DOMAIN objs :
             <<a, id>> \in DOMAIN mapping' /\ mapping'[<<a, id>>].object = objs[id]
      BY <1>6, <1>13
    <3>2. BatchValid(FinalBatch(j))
      BY <1>2 DEF PlanSound
    <3>3. j.preserve => file[j.batch] = j.src
      BY <1>1, <1>14 DEF ClientSound, j
    <3> QED
      BY <1>9, <1>10, <1>11, <1>12, <2>1, <3>1, <3>2, <3>3 DEF BatchSound
  <2>2. CASE b # j.batch
    <3>1. batch'[b] = batch[b] /\ BatchSound(b)
      BY <1>10, <1>17, <1>20, <2>2 DEF TablesSound
    <3> QED
      BY <1>3, <1>9, <1>12, <3>1 DEF BatchSound
  <2> QED
    BY <2>1, <2>2
<1>21. FilesAccounted'
  <2>1. SUFFICES ASSUME NEW b \in Batches, file[b] # NoRecord, torn = {},
                        ~(batch'[b] # NoRecord /\ batch'[b].snapshot.managed)
                 PROVE  \E d \in Clients : HoldsFile(d)' /\ task[d].batch = b
    BY <1>9 DEF FilesAccounted
  <2>2. CASE batch[b] # NoRecord /\ batch[b].snapshot.managed
    BY <1>2, <1>10, <2>1, <2>2
  <2>3. ASSUME NEW d \in Clients, HoldsFile(d), task[d].batch = b
        PROVE  HoldsFile(d)'
    <3>1. d # c
      BY <1>2, <1>10, <1>11, <1>14, <2>1, <2>3 DEF j
    <3> QED
      BY <1>9, <2>3, <3>1 DEF HoldsFile, Others
  <2> QED
    BY <1>17, <2>1, <2>2, <2>3 DEF FilesAccounted
<1>22. ClientSound(c)'
  BY <1>2, <1>9 DEF ClientSound, HoldsFile, j
<1>23. ASSUME NEW d \in Clients \ {c}
       PROVE  ClientSound(d)'
  <2>1. /\ ClientSound(d) /\ pc'[d] = pc[d] /\ task'[d] = task[d] /\ preview'[d] = preview[d]
    BY <1>9, <1>16 DEF Others
  <2>2. ASSUME pc[d] \in {"approved", "filed"}
        PROVE  PlanSound(task[d], preview[d])'
    <3>1. PlanSound(task[d], preview[d]) /\ task[d] \in Tasks /\ task[d] # NoRecord
      BY <1>17, <2>1, <2>2 DEF ClientSound, ImportTypes
    <3>2. task[d].env # NoRecord
      BY <3>1, TaskFacts
    <3>3. \A id \in preview[d].reused : MappingKey(task[d], id) \in DOMAIN mapping'
             /\ mapping'[MappingKey(task[d], id)] = mapping[MappingKey(task[d], id)]
      BY <1>3, <3>1 DEF PlanSound
    <3>4. ~preview[d].newEnv => env' = task[d].env
      BY <1>2, <3>1, <3>2 DEF PlanSound
    <3> QED
      BY <1>9, <3>1, <3>3, <3>4 DEF PlanSound, MappingConflict, MappingKey, CanonicalKey
  <2>3. ASSUME HoldsFile(d)
        PROVE  /\ file'[task[d].batch] = task[d].src
               /\ batch'[task[d].batch] # NoRecord => ~batch'[task[d].batch].snapshot.managed
               /\ \A e \in Clients \ {d} : HoldsFile(e)' => task'[e].batch # task[d].batch
    <3>1. /\ file[task[d].batch] = task[d].src
          /\ batch[task[d].batch] # NoRecord => ~batch[task[d].batch].snapshot.managed
          /\ \A e \in Clients \ {d} : HoldsFile(e) => task[e].batch # task[d].batch
      BY <2>1, <2>3 DEF ClientSound
    <3>2. task[d] \in Tasks /\ task[d] # NoRecord
      BY <1>17, <2>1, <2>3 DEF ClientSound, ImportTypes, HoldsFile
    <3>3. task[d].batch \in Batches
      BY <3>2, TaskFacts
    <3>4. task[d].batch = j.batch => ~j.preserve
      BY <1>14, <3>1 DEF j
    <3>5. batch'[task[d].batch] # NoRecord => ~batch'[task[d].batch].snapshot.managed
      BY <1>10, <1>11, <3>1, <3>3, <3>4
    <3>6. \A e \in Clients : HoldsFile(e)' => HoldsFile(e)
      BY <1>9 DEF HoldsFile, Others
    <3> QED
      BY <1>9, <3>1, <3>5, <3>6
  <2>4. HoldsFile(d)' <=> HoldsFile(d)
    BY <2>1 DEF HoldsFile
  <2> QED
    BY <2>1, <2>2, <2>3, <2>4 DEF ClientSound
<1> QED
  BY <1>15, <1>18, <1>19, <1>20, <1>21, <1>22, <1>23 DEF ImportInv, TablesSound

\* Every step keeps the invariant.
LEMMA ImportNextInv == ImportInv /\ [ImportNext]_importVars => ImportInv'
<1>1. SUFFICES ASSUME ImportInv, [ImportNext]_importVars PROVE ImportInv'
  OBVIOUS
<1>2. CASE ImportNext
  BY <1>1, <1>2, SaveEnvironmentInv, StageSourceInv, PreviewInv, PublishInv, PublishSourceInv,
     CommitRecordsInv, CommitFailsInv, SettleInv, CrashOrLeaveInv DEF ImportNext
<1>3. CASE UNCHANGED importVars
  <2>1. UNCHANGED <<env, mapping, canonical, batch, file, pc, task, preview, torn>>
    BY <1>3 DEF importVars, stateVars
  <2>2. ImportTypes' /\ FilesAccounted'
    BY <1>1, <2>1 DEF ImportInv, ImportTypes, FilesAccounted, HoldsFile
  <2>3. TablesSound'
    BY <1>1, <2>1 DEF ImportInv, TablesSound, MappingSound, BatchSound, ConversationGraphOk
  <2>4. ASSUME NEW c \in Clients
        PROVE  ClientSound(c)'
    BY <1>1, <2>1 DEF ImportInv, ClientSound, HoldsFile, PlanSound, MappingConflict, MappingKey,
       CanonicalKey
  <2> QED
    BY <2>2, <2>3, <2>4 DEF ImportInv
<1> QED
  BY <1>1, <1>2, <1>3

\* The invariant gives what is promised of the tables and of the files.
LEMMA ImportSafe == ASSUME ImportInv PROVE PublicationWhole /\ SnapshotBacked
<1>1. ImportTypes /\ TablesSound /\ FilesAccounted
  BY DEF ImportInv
<1>2. \A k \in DOMAIN mapping : MappingSound(k)
  BY <1>1 DEF TablesSound
<1>3. \A b \in Batches : batch[b] # NoRecord => BatchSound(b)
  BY <1>1 DEF TablesSound
<1>4. ImportTypeOK
  BY <1>1, <1>3 DEF ImportTypes, ImportTypeOK, BatchSound
<1>5. ASSUME NEW b \in Batches, batch[b] # NoRecord, NEW id \in DOMAIN batch[b].final.objects
      PROVE  LET k == <<batch[b].final.adapter, id>>
             IN  /\ k \in DOMAIN mapping
                 /\ mapping[k].object = batch[b].final.objects[id]
                 /\ mapping[k].canonical \in DOMAIN canonical
  BY <1>2, <1>3, <1>5 DEF BatchSound, MappingSound
<1>6. PortabilityGraphOk
  BY <1>2, <1>3 DEF PortabilityGraphOk, BatchSound, MappingSound
<1>7. PublicationWhole
  BY <1>1, <1>4, <1>5, <1>6 DEF PublicationWhole, TablesSound
<1>8. SnapshotBacked
  BY <1>1, <1>3 DEF SnapshotBacked, BatchSound, FilesAccounted, HoldsFile
<1> QED
  BY <1>7, <1>8

\* Mappings, canonical records and batches are inserted and never rewritten.
LEMMA FirstStands == ImportInv /\ [ImportNext]_importVars => [FirstImportStands]_importVars
<1>1. SUFFICES ASSUME ImportInv, ImportNext PROVE FirstImportStands
  OBVIOUS
<1>2. CASE UNCHANGED <<mapping, canonical, batch>>
  BY <1>2 DEF FirstImportStands
<1>3. ASSUME NEW c \in Clients, CommitRecords(c)
      PROVE  FirstImportStands
  <2>1. /\ DOMAIN mapping' = DOMAIN mapping \cup {MappingKey(task[c], x) : x \in preview[c].created}
        /\ DOMAIN canonical' = DOMAIN canonical \cup
              {CanonicalKey(Objects(task[c]), x) : x \in preview[c].created}
        /\ \A k \in DOMAIN mapping : mapping'[k] = mapping[k]
        /\ \A k \in DOMAIN canonical : canonical'[k] = canonical[k]
        /\ batch[task[c].batch] = NoRecord
        /\ batch' = [batch EXCEPT ![task[c].batch] = PublicationRecords(task[c])]
    BY <1>1, <1>3, CommitFacts
  <2>2. batch \in [Batches -> BatchRecords]
    BY <1>1 DEF ImportInv, ImportTypes
  <2>3. \A b \in Batches : batch[b] # NoRecord => batch'[b] = batch[b]
    BY <2>1, <2>2
  <2> QED
    BY <2>1, <2>3 DEF FirstImportStands
<1> QED
  BY <1>1, <1>2, <1>3
  DEF ImportNext, SaveEnvironment, StageSource, Preview, Publish, PublishSource, CommitFails,
      Settle, CrashOrLeave, stateVars

\* For any number of publishers, batches and sources that staging leaves grounded,
\* with races, failures and crashes: what a batch record stands for is in the
\* database and on disk, nothing else is left, no export can fail for what imports
\* leave, and the first import of an object stands (GenericImportPublisher.preview,
\* publish, _commit_records_atomic).
THEOREM PublicationAlwaysSound == ImportSpec => PublicationSound
<1>1. ImportInv /\ [ImportNext]_importVars => [FirstImportStands]_importVars
  BY FirstStands
<1> QED
  BY <1>1, ImportInitInv, ImportNextInv, ImportSafe, PTL DEF ImportSpec, PublicationSound
=============================================================================
