------------------------------ MODULE VxqWriter ------------------------------
(***************************************************************************)
(* Writing a .vxq file: storage/writer.go, driven as cmd/vexqgen drives    *)
(* it, over a file system that can lose what was not synced.               *)
(*                                                                         *)
(* A file is a sequence of items: the magic, the block data and dictionary *)
(* of a column section, the footer.  An item names the run of the writer,  *)
(* row group and column it was written for, so a reader that finds an item *)
(* at the place the footer gives knows whether it is the right one; the    *)
(* place is the item's index, as the byte offset is in the program.        *)
(*                                                                         *)
(* The file system (external): content that was not synced may be cut      *)
(* anywhere by a crash; a directory change is atomic and may be lost, but  *)
(* not without the later ones.                                             *)
(***************************************************************************)
EXTENDS Integers, Sequences, FiniteSets

CONSTANTS
  Cols,          \* the columns of the schema
  StringCols,    \* those with a dictionary
  MaxRowGroups,  \* bound: row groups a run writes
  MaxRuns        \* bound: NewWriter calls on the same path

ASSUME WriterAssumption ==
  /\ IsFiniteSet(Cols) /\ Cols # {} /\ StringCols \subseteq Cols
  /\ MaxRowGroups \in Nat /\ MaxRuns \in Nat

NoFile == 0

VARIABLES
  phase,   \* "idle", "open", then the steps of Finish: "flush", "sync", "close", "rename"
  runs,    \* writers created so far
  inode,   \* the file this writer writes
  buf,     \* bw: bytes not written yet
  offset,  \* w.offset
  rgOpen,  \* a row group is open
  colMeta, \* its sections written so far: column -> offsets
  meta,    \* w.meta.RowGroups
  content, \* file -> its items
  synced,  \* file -> how many of them survive a crash
  dir,     \* "path" and "tmp" -> file or NoFile
  dirs     \* directory states a crash may leave, the current one included

writer == <<inode, buf, offset, rgOpen, colMeta, meta>>
disk   == <<content, synced, dir, dirs>>
vars   == <<phase, runs, writer, disk>>

Files == 1 .. MaxRuns

Init ==
  /\ phase = "idle"  /\ runs = 0
  /\ inode = NoFile  /\ buf = <<>>  /\ offset = 0
  /\ rgOpen = FALSE  /\ colMeta = <<>>  /\ meta = <<>>
  /\ content = [i \in Files |-> <<>>]  /\ synced = [i \in Files |-> 0]
  /\ dir = [path |-> NoFile, tmp |-> NoFile]
  /\ dirs = {dir}

-----------------------------------------------------------------------------
\* The writer is discarded with its buffer.
WriterGone ==
  /\ phase' = "idle"
  /\ inode' = NoFile  /\ buf' = <<>>  /\ offset' = 0
  /\ rgOpen' = FALSE  /\ colMeta' = <<>>  /\ meta' = <<>>

ChangeDir(d) == dir' = d /\ dirs' = dirs \cup {d}

\* NewWriter: os.Create truncates a temporary file left behind by an earlier run.
NewWriter ==
  /\ phase = "idle"
  /\ runs < MaxRuns
  /\ runs' = runs + 1
  /\ inode' = IF dir.tmp # NoFile THEN dir.tmp ELSE runs'
  /\ content' = [content EXCEPT ![inode'] = <<>>]
  /\ synced' = [synced EXCEPT ![inode'] = 0]
  /\ ChangeDir([dir EXCEPT !.tmp = inode'])
  /\ buf' = <<[item |-> "magic"]>>
  /\ offset' = 1
  /\ rgOpen' = FALSE  /\ colMeta' = <<>>  /\ meta' = <<>>
  /\ phase' = "open"

\* Further row groups are refused while one is open.
BeginRowGroup ==
  /\ phase = "open"
  /\ ~rgOpen
  /\ Len(meta) < MaxRowGroups
  /\ rgOpen' = TRUE
  /\ colMeta' = <<>>
  /\ UNCHANGED <<phase, runs, inode, buf, offset, meta, disk>>

Item(kind, c) == [item |-> kind, run |-> runs, rg |-> Len(meta) + 1, col |-> c]

Section(c) ==
  IF c \in StringCols THEN <<Item("blocks", c), Item("dict", c)>> ELSE <<Item("blocks", c)>>

\* Mutant: the dictionary is not counted into the offset.
OffsetAfterBlocks(c) == offset + 1

\* Mutant: both the caller and mustWrite advance the offset.
OffsetTwice(c) == offset + 2 * Len(Section(c))

\* mustWrite advances the offset by what it wrote.
OffsetAfter(c) == offset + Len(Section(c))

\* AppendColumn: columns come in any order, each once.
AppendColumn(c) ==
  /\ phase = "open"
  /\ rgOpen
  /\ c \notin DOMAIN colMeta
  /\ buf' = buf \o Section(c)
  /\ offset' = OffsetAfter(c)
  /\ colMeta' = [d \in DOMAIN colMeta \cup {c} |->
                   IF d = c THEN [section |-> offset, dict |-> IF c \in StringCols THEN 1 ELSE 0]
                   ELSE colMeta[d]]
  /\ UNCHANGED <<phase, runs, inode, rgOpen, meta, disk>>

\* EndRowGroup refuses with ErrMissingColumns otherwise.
AllColumnsWritten == DOMAIN colMeta = Cols

EndRowGroup ==
  /\ phase = "open"
  /\ rgOpen
  /\ AllColumnsWritten
  /\ meta' = Append(meta, colMeta)
  /\ rgOpen' = FALSE
  /\ colMeta' = <<>>
  /\ UNCHANGED <<phase, runs, inode, buf, offset, disk>>

\* The 1 MB write buffer is full: it goes to the file system.
Spill ==
  /\ phase = "open"
  /\ buf # <<>>
  /\ content' = [content EXCEPT ![inode] = @ \o buf]
  /\ buf' = <<>>
  /\ UNCHANGED <<phase, runs, inode, offset, rgOpen, colMeta, meta, synced, dir, dirs>>

-----------------------------------------------------------------------------
(***************************************************************************)
(* Finish, one step per call it makes.                                     *)
(***************************************************************************)

WriteFooter ==
  /\ phase = "open"
  /\ ~rgOpen
  /\ buf' = Append(buf, [item |-> "footer", run |-> runs, rowGroups |-> meta])
  /\ offset' = offset + 1
  /\ phase' = "flush"
  /\ UNCHANGED <<runs, inode, rgOpen, colMeta, meta, disk>>

Flush ==
  /\ phase = "flush"
  /\ content' = [content EXCEPT ![inode] = @ \o buf]
  /\ buf' = <<>>
  /\ phase' = "sync"
  /\ UNCHANGED <<runs, inode, offset, rgOpen, colMeta, meta, synced, dir, dirs>>

\* Mutant: close is taken for a sync.
SyncedNothing == synced[inode]

\* f.Sync: all of the file survives a crash from here on.
SyncedLength == Len(content[inode])

Sync ==
  /\ phase = "sync"
  /\ synced' = [synced EXCEPT ![inode] = SyncedLength]
  /\ phase' = "close"
  /\ UNCHANGED <<runs, writer, content, dir, dirs>>

CloseFile ==
  /\ phase = "close"
  /\ phase' = "rename"
  /\ UNCHANGED <<runs, writer, disk>>

Rename ==
  /\ phase = "rename"
  /\ ChangeDir([path |-> inode, tmp |-> NoFile])
  /\ WriterGone
  /\ UNCHANGED <<runs, content, synced>>

-----------------------------------------------------------------------------
\* Abort removes the temporary file.
Abort ==
  /\ phase = "open"
  /\ ChangeDir([dir EXCEPT !.tmp = NoFile])
  /\ WriterGone
  /\ UNCHANGED <<runs, content, synced>>

\* A step of Finish returns an error, mustWrite panics, vexqgen returns a parse
\* error without Abort, or the process is killed: the temporary file stays behind.
WriterStops ==
  /\ phase # "idle"
  /\ WriterGone
  /\ UNCHANGED <<runs, disk>>

\* The lengths a file can have: magic, two items per section, footer.
Lengths == 0 .. 2 + 2 * MaxRowGroups * Cardinality(Cols)

\* The machine stops: each file is cut somewhere past its synced part, and the
\* directory is one it had since the machine started.
Crash ==
  /\ \E cut \in [Files -> Lengths] :
       /\ \A i \in Files : cut[i] \in synced[i] .. Len(content[i])
       /\ content' = [i \in Files |-> SubSeq(content[i], 1, cut[i])]
       /\ synced' = cut
  /\ dir' \in dirs
  /\ dirs' = {dir'}
  /\ WriterGone
  /\ UNCHANGED runs

Next ==
  \/ NewWriter \/ BeginRowGroup \/ (\E c \in Cols : AppendColumn(c)) \/ EndRowGroup \/ Spill
  \/ WriteFooter \/ Flush \/ Sync \/ CloseFile \/ Rename
  \/ Abort \/ WriterStops \/ Crash

Spec == Init /\ [][Next]_vars

-----------------------------------------------------------------------------
IsMeta(m) ==
  DOMAIN m \subseteq Cols /\ m \in [DOMAIN m -> [section : Lengths, dict : {0, 1}]]

TypeOK ==
  /\ phase \in {"idle", "open", "flush", "sync", "close", "rename"}
  /\ runs \in 0 .. MaxRuns
  /\ inode \in Files \cup {NoFile}
  /\ offset \in Lengths
  /\ rgOpen \in BOOLEAN
  /\ IsMeta(colMeta)
  /\ Len(meta) \in 0 .. MaxRowGroups /\ \A g \in DOMAIN meta : IsMeta(meta[g])
  /\ synced \in [Files -> Lengths]
  /\ \A i \in Files : synced[i] <= Len(content[i]) /\ Len(content[i]) \in Lengths
  /\ dir \in [path : Files \cup {NoFile}, tmp : Files \cup {NoFile}]
  /\ dir \in dirs

\* What a reader finds at offset o of a file with items f: offsets count from 0.
At(f, o) == f[o + 1]

\* Row group g of run r, described by m, is where m says: each column's blocks and,
\* for a STRING column, its dictionary.
Described(f, r, g, m) ==
  /\ DOMAIN m = Cols
  /\ \A c \in Cols :
       /\ m[c].section + m[c].dict < Len(f)
       /\ At(f, m[c].section) = [item |-> "blocks", run |-> r, rg |-> g, col |-> c]
       /\ c \in StringCols =>
            At(f, m[c].section + m[c].dict) = [item |-> "dict", run |-> r, rg |-> g, col |-> c]

\* readFooter accepts the file, and everything the footer describes is there.
Complete(f) ==
  /\ Len(f) >= 2
  /\ f[1] = [item |-> "magic"]
  /\ f[Len(f)].item = "footer"
  /\ \A g \in DOMAIN f[Len(f)].rowGroups : Described(f, f[Len(f)].run, g, f[Len(f)].rowGroups[g])

(***************************************************************************)
(* docs/file-format.md: "write -> fsync -> rename guarantees no partial    *)
(* files on crash".  Whatever fails or crashes, and however many runs      *)
(* write to it, the path names no file or a complete one.                  *)
(***************************************************************************)
NoPartialFile ==
  dir.path # NoFile => Complete(content[dir.path])

(***************************************************************************)
(* w.offset: while a file is written, partly in the buffer, every finished *)
(* row group and every finished section of the open one is found where its *)
(* metadata says, in whatever order the columns came and whenever the      *)
(* buffer spilled.                                                         *)
(***************************************************************************)
OffsetsAddressData ==
  phase # "idle" =>
    LET f == content[inode] \o buf IN
      /\ offset = Len(f)
      /\ \A g \in DOMAIN meta : Described(f, runs, g, meta[g])
      /\ \A c \in DOMAIN colMeta :
           At(f, colMeta[c].section).item = "blocks" /\ At(f, colMeta[c].section).col = c
=============================================================================
