---------------------------- MODULE SourceFiles ----------------------------
(***************************************************************************)
(* Reading one file the user selected, with no lock on it: the readers of  *)
(* text documents, PDF, CSV and images (local_document, local_pdf,         *)
(* local_csv, local_ocr), which share one protocol, and the reader of      *)
(* resume bundles (resume_bundle_context), which has another.              *)
(*                                                                         *)
(* A file's content is a pair of halves, so that a read can be torn.       *)
(* Other programs edit the file in place, rename others over it, remove    *)
(* it, and put it back; the clock that stamps their writes may stand still *)
(* between two of them.  Those programs are external.                      *)
(***************************************************************************)
EXTENDS Naturals, Sequences

CONSTANTS
    Inodes,     \* the files there are
    Values,     \* contents of half a file
    MaxSize,    \* _MAX_SOURCE_BYTES; sizes are 1 .. MaxSize + 1
    MaxClock,   \* bound: the latest time stamp
    MaxChanges, \* bound: changes of files during a read
    Absent

ASSUME SizeAssumption == MaxSize \in Nat \ {0} /\ MaxClock \in Nat /\ MaxChanges \in Nat
ASSUME AbsentAssumption == Absent \notin Inodes

VARIABLES
    path,       \* the inode the selected path names, or Absent
    inode,      \* [Inodes -> content, size and time of modification]
    clock,
    reading,    \* the read: its phase, the states it saw, what it has
    had,        \* history: state and content of the path during the read
    unstamped,  \* history: a write left a file's time as it was
    returned,   \* history: the path came back to a state it had left
    changes     \* changes of files so far

fileVars == <<path, inode, clock, reading, had, unstamped, returned, changes>>

Documents == {"document", "pdf", "csv", "image"}
Kinds == Documents \union {"bundle"}
Files == [text : Values \X Values, size : 1 .. MaxSize + 1, mtime : 0 .. MaxClock]
Running == reading.phase \notin {"idle", "accepted", "refused"}
-----------------------------------------------------------------------------
(* _state_from_stat: what lstat and fstat tell of a file.  All five        *)
(* readers refuse links and anything that is not a regular file.           *)
StateOf(i, f) == [ino |-> i, size |-> f.size, mtime |-> f.mtime]
Version(i, f) == [state |-> StateOf(i, f), text |-> f.text]

(* History: every change of a file.  Only those during a read matter. *)
Remember ==
    /\ Running /\ changes < MaxChanges
    /\ changes' = changes + 1
    /\ had' = IF path' = Absent THEN had ELSE had \union {Version(path', inode'[path'])}
    /\ returned' = \/ returned
                   \/ /\ path' # Absent
                      /\ path = path' => inode'[path] # inode[path]
                      /\ \E v \in had : v.state = StateOf(path', inode'[path'])

(* External: a program writes half of the file at the path, or of one it   *)
(* has open that we have open too.                                         *)
Edit(i, h, v, s) ==
    /\ i \in {path, reading.ino} \ {Absent} /\ inode[i].text[h] # v
    /\ inode' = [inode EXCEPT ![i] = [text |-> [@.text EXCEPT ![h] = v], size |-> s, mtime |-> clock]]
    /\ unstamped' = (unstamped \/ inode[i].mtime = clock)
    /\ UNCHANGED <<path, clock, reading>>
    /\ Remember

(* External: a file is renamed to the path; a renamed file keeps its time  *)
(* of modification.  The number of a file nobody holds open is used again. *)
Replace(i, f) ==
    /\ i # path /\ f.mtime <= clock /\ f.text[1] = f.text[2]
    /\ reading.ino = i => f = inode[i]
    /\ path' = i
    /\ inode' = [inode EXCEPT ![i] = f]
    /\ UNCHANGED <<clock, reading, unstamped>>
    /\ Remember

(* External: the file is unlinked, or moved elsewhere. *)
Unlink ==
    /\ path # Absent
    /\ path' = Absent
    /\ UNCHANGED <<inode, clock, reading, unstamped>>
    /\ Remember

(* External: time passes. *)
Tick ==
    /\ clock < MaxClock
    /\ Running
    /\ clock' = clock + 1
    /\ UNCHANGED <<path, inode, reading, had, unstamped, returned, changes>>
-----------------------------------------------------------------------------
Idle == [phase |-> "idle", kind |-> Absent, before |-> Absent, ino |-> Absent,
         opened |-> Absent, closed |-> Absent, text |-> <<>>, pass |-> <<>>]

FilesInit ==
    /\ path \in Inodes
    /\ \E v \in Values : inode = [i \in Inodes |-> [text |-> <<v, v>>, size |-> 1, mtime |-> 0]]
    /\ clock = 0
    /\ reading = Idle
    /\ had = {} /\ unstamped = FALSE /\ returned = FALSE /\ changes = 0

Unmoved == UNCHANGED <<path, inode, clock, had, unstamped, returned, changes>>
Current == StateOf(path, inode[path])
Refuse == reading' = [reading EXCEPT !.phase = "refused", !.ino = Absent]
Accept == reading' = [reading EXCEPT !.phase = "accepted", !.ino = Absent]

(* The entry of every reader: lstat of the path and the size limit; of a   *)
(* bundle, the stat _file_identity begins with.                            *)
BeginRead(k) ==
    /\ reading.phase = "idle"
    /\ path # Absent
    /\ inode[path].size <= MaxSize
    /\ reading' = [Idle EXCEPT !.phase = IF k = "bundle" THEN "hash" ELSE "open",
                               !.kind = k, !.before = Current]
    /\ had' = {Version(path, inode[path])}
    /\ unstamped' = FALSE /\ returned' = FALSE
    /\ UNCHANGED <<path, inode, clock, changes>>

(* _same_identity: device and inode. *)
SameIdentity(s, t) == s.ino = t.ino

(* open and the first fstat; the file must be the one lstat saw. *)
OpenSource ==
    /\ reading.phase = "open"
    /\ IF path = Absent \/ ~SameIdentity(reading.before, Current) THEN Refuse
       ELSE reading' = [reading EXCEPT !.phase = "read", !.ino = path, !.opened = Current]
    /\ Unmoved

(* read, half of the file at a time, from the file that is open. *)
ReadHalf ==
    /\ reading.ino # Absent /\ Len(reading.text) < 2
    /\ reading' = [reading EXCEPT !.text = Append(@, inode[reading.ino].text[Len(@) + 1])]
    /\ Unmoved

(* The second fstat, after which the file is closed. *)
CloseSource ==
    /\ reading.phase = "read" /\ Len(reading.text) = 2
    /\ reading' = [reading EXCEPT !.phase = "close", !.ino = Absent,
                                  !.closed = StateOf(reading.ino, inode[reading.ino])]
    /\ Unmoved

(* Mutant: the time of modification is not compared. *)
SameStateUndated(s, t) == SameIdentity(s, t) /\ s.size = t.size

(* One comparison of _stable_read. *)
SameState(s, t) == SameIdentity(s, t) /\ s.size = t.size /\ s.mtime = t.mtime

(* _stable_read: the path before, the file opened, the file closed, the    *)
(* path after.                                                             *)
StableFile ==
    /\ path # Absent
    /\ \A s \in {reading.opened, reading.closed, Current} : SameState(reading.before, s)

(* The last lstat, and what the kind makes of the bytes.  Whether they     *)
(* decode, parse and keep the limits is left open: both outcomes are.      *)
FinishRead(k) ==
    /\ reading.phase = "close" /\ reading.kind = k
    /\ \/ StableFile /\ Accept
       \/ Refuse
    /\ Unmoved

(* read_local_document: UTF-8, the character limit, no control characters. *)
FinishDocument == FinishRead("document")

(* extract_local_pdf_text: the signature, then an adapter that may be      *)
(* missing, then the selected pages.                                       *)
FinishPdf == FinishRead("pdf")

(* read_local_csv: UTF-8, a header row, rectangular rows, the limits. *)
FinishCsv == FinishRead("csv")

(* extract_local_image_ocr: the format the extension promises, then an     *)
(* adapter that may be missing, then the lines it recognized.              *)
FinishImage == FinishRead("image")
-----------------------------------------------------------------------------
(* A bundle is read five times, by name each time: hashed, verified, its   *)
(* members read for the content, hashed for the label the content carries, *)
(* and hashed again after a second stat.                                   *)
Passes == <<"hash", "verify", "snapshot", "label", "rehash">>

OpenPass ==
    /\ reading.phase \in {Passes[n] : n \in 1 .. 5} /\ reading.ino = Absent
    /\ IF path = Absent \/ (reading.phase = "label" /\ inode[path].size > MaxSize) THEN Refuse
       ELSE reading' = [reading EXCEPT !.ino = path, !.text = <<>>]
    /\ Unmoved

(* verify_resume_bundle refuses a damaged archive; a torn one that is      *)
(* still an archive is not refused.                                        *)
ClosePass ==
    /\ reading.phase \in {Passes[n] : n \in 1 .. 4}
    /\ reading.ino # Absent /\ Len(reading.text) = 2
    /\ \/ LET n == Len(reading.pass) + 1
          IN  reading' = [reading EXCEPT !.pass = Append(@, reading.text), !.ino = Absent,
                                         !.phase = IF n = 4 THEN "restat" ELSE Passes[n + 1]]
       \/ reading.phase = "verify" /\ Refuse
    /\ Unmoved

(* The stat of the second _file_identity. *)
RestatBundle ==
    /\ reading.phase = "restat"
    /\ IF path = Absent \/ inode[path].size > MaxSize THEN Refuse
       ELSE reading' = [reading EXCEPT !.phase = "rehash", !.closed = Current]
    /\ Unmoved

(* before != after: size, time, device, inode and hash. *)
SameBundle ==
    /\ SameState(reading.before, reading.closed)
    /\ reading.pass[1] = reading.text

(* plan: the identities agree; then the limits and the secret scan of the  *)
(* content.                                                                *)
FinishBundle ==
    /\ reading.phase = "rehash" /\ Len(reading.text) = 2
    /\ \/ SameBundle /\ Accept
       \/ Refuse
    /\ Unmoved

FilesNext ==
    \/ \E k \in Kinds : BeginRead(k)
    \/ OpenSource \/ ReadHalf \/ CloseSource
    \/ FinishDocument \/ FinishPdf \/ FinishCsv \/ FinishImage
    \/ OpenPass \/ ClosePass \/ RestatBundle \/ FinishBundle
    \/ \E i \in Inodes, h \in 1 .. 2, v \in Values, s \in 1 .. MaxSize + 1 : Edit(i, h, v, s)
    \/ \E i \in Inodes, f \in Files : Replace(i, f)
    \/ Unlink \/ Tick

FilesSpec == FilesInit /\ [][FilesNext]_fileVars
-----------------------------------------------------------------------------
FilesTypeOK ==
    /\ path \in Inodes \union {Absent}
    /\ inode \in [Inodes -> Files]
    /\ clock \in 0 .. MaxClock
    /\ reading.kind \in Kinds \union {Absent} /\ reading.ino \in Inodes \union {Absent}

(* What a reader of documents hands on is a content the selected path had  *)
(* at one moment of the read, never a mixture, unless a write left the     *)
(* time of the file as it was and the path also returned to a state it had *)
(* left: a changed size alone would not show, since the size may change    *)
(* back.  The content taken from a bundle is the content that was verified *)
(* and whose hash is recorded and written into it, unless the path         *)
(* returned to a state it had left (_stable_read;                          *)
(* ResumeBundleWritingContextService.plan; _snapshot_content).             *)
StableRead ==
    /\ FilesTypeOK
    /\ reading.phase = "accepted" =>
          IF reading.kind # "bundle"
          THEN (unstamped /\ returned) \/ \E v \in had : v.text = reading.text
          ELSE returned \/ \A n \in 1 .. 4 : reading.pass[n] = reading.text
=============================================================================
