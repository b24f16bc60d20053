--------------------------- MODULE VxqWriterProofs ---------------------------
(***************************************************************************)
(* Theorems about VxqWriter for any columns, any number of row groups and  *)
(* of runs, and crashes at any step.                                       *)
(***************************************************************************)
EXTENDS VxqWriter, FiniteSetTheorems, SequenceTheorems, TLAPS

(* The metadata of a row group or of part of one, and the items of a file. *)
Metas == UNION {[D -> [section : Nat, dict : {0, 1}]] : D \in SUBSET Cols}

Magic == [item |-> "magic"]
Footer == [item |-> "footer", run |-> runs, rowGroups |-> meta]

Items ==
  {Magic} \cup [item : {"blocks", "dict"}, run : Nat, rg : Nat, col : Cols]
          \cup [item : {"footer"}, run : Nat, rowGroups : Seq(Metas)]

(* The file as it will be once the buffer is written out. *)
File == content[inode] \o buf

(* The sections m describes so far are where m says. *)
Placed(f, r, g, m) ==
  \A c \in DOMAIN m :
    /\ m[c].section + m[c].dict < Len(f)
    /\ At(f, m[c].section) = [item |-> "blocks", run |-> r, rg |-> g, col |-> c]
    /\ c \in StringCols =>
         At(f, m[c].section + m[c].dict) = [item |-> "dict", run |-> r, rg |-> g, col |-> c]

Typed ==
  /\ phase \in {"idle", "open", "flush", "sync", "close", "rename"}
  /\ runs \in 0 .. MaxRuns
  /\ buf \in Seq(Items)
  /\ colMeta \in Metas
  /\ meta \in Seq(Metas)
  /\ content \in [Files -> Seq(Items)]
  /\ synced \in [Files -> Nat]
  /\ dirs \subseteq [path : 0 .. runs, tmp : 0 .. runs]
  /\ dir \in dirs

(* A file the path may come to name is complete, and all of it survives a  *)
(* crash.                                                                  *)
Published(i) == Complete(content[i]) /\ synced[i] = Len(content[i])

(* What the path names in any directory a crash may leave is published,    *)
(* and never the temporary file of the same directory, nor the one a       *)
(* writer may truncate or write.                                           *)
Directory ==
  /\ \A d \in dirs : d.tmp # NoFile => d.path # d.tmp
  /\ \A d \in dirs : d.path # NoFile => Published(d.path)
  /\ dir.tmp # NoFile => \A d \in dirs : d.path # dir.tmp
  /\ phase # "idle" => inode = dir.tmp /\ inode # NoFile

(* The file of a writer: its offsets, and how far Finish has come with it. *)
Layout ==
  phase # "idle" =>
    /\ offset = Len(File) /\ Len(File) >= 1 /\ File[1] = Magic
    /\ \A g \in DOMAIN meta : Described(File, runs, g, meta[g])
    /\ Placed(File, runs, Len(meta) + 1, colMeta)
    /\ phase # "open" => Len(File) >= 2 /\ File[Len(File)] = Footer
    /\ phase \in {"sync", "close", "rename"} => buf = <<>>
    /\ phase \in {"close", "rename"} => synced[inode] = Len(content[inode])

IndInv == Typed /\ Directory /\ Layout

-----------------------------------------------------------------------------
(* Metadata before any column was written. *)
LEMMA EmptyMeta == <<>> \in Metas /\ DOMAIN <<>> = {}
<1>1. DOMAIN <<>> = {}
  OBVIOUS
<1>2. <<>> \in [{} -> [section : Nat, dict : {0, 1}]]
  OBVIOUS
<1>3. {} \in SUBSET Cols
  OBVIOUS
<1> QED BY <1>1, <1>2, <1>3 DEF Metas

(* What metadata says of a column: an offset, and whether a dictionary     *)
(* follows the blocks.                                                     *)
LEMMA MetaEntry ==
  ASSUME NEW m \in Metas
  PROVE  /\ DOMAIN m \subseteq Cols
         /\ \A c \in DOMAIN m : m[c].section \in Nat /\ m[c].dict \in {0, 1}
<1>1. PICK D \in SUBSET Cols : m \in [D -> [section : Nat, dict : {0, 1}]]
  BY DEF Metas
<1> QED BY <1>1

(* A described row group is one whose metadata covers all columns. *)
LEMMA DescribedIsPlaced ==
  ASSUME NEW f, NEW r, NEW g, NEW m
  PROVE  Described(f, r, g, m) <=> DOMAIN m = Cols /\ Placed(f, r, g, m)
  BY DEF Described, Placed

(* Appending to a file moves nothing that was described before. *)
LEMMA PlacedExtends ==
  ASSUME NEW f \in Seq(Items), NEW e \in Seq(Items), NEW m \in Metas, NEW r, NEW g,
         Placed(f, r, g, m)
  PROVE  Placed(f \o e, r, g, m)
<1>1. Len(f) \in Nat /\ Len(e) \in Nat /\ Len(f \o e) = Len(f) + Len(e)
  BY LenProperties, ConcatProperties
<1>2. \A i \in Nat : i < Len(f) => At(f \o e, i) = At(f, i)
  <2>1. \A i \in 1 .. Len(f) : (f \o e)[i] = f[i]
    BY <1>1, ConcatProperties
  <2> QED BY <1>1, <2>1 DEF At
<1>3. ASSUME NEW c \in DOMAIN m
      PROVE  /\ m[c].section + m[c].dict < Len(f \o e)
             /\ At(f \o e, m[c].section) = At(f, m[c].section)
             /\ At(f \o e, m[c].section + m[c].dict) = At(f, m[c].section + m[c].dict)
  <2>1. m[c].section \in Nat /\ m[c].dict \in {0, 1}
    BY MetaEntry
  <2>2. m[c].section + m[c].dict < Len(f)
    BY DEF Placed
  <2> QED BY <1>1, <1>2, <2>1, <2>2
<1> QED BY <1>3 DEF Placed

(* The items of a section. *)
LEMMA SectionItems ==
  ASSUME Typed, NEW c \in Cols
  PROVE  /\ Section(c) \in Seq(Items)
         /\ Len(Section(c)) = IF c \in StringCols THEN 2 ELSE 1
         /\ Section(c)[1] = Item("blocks", c)
         /\ c \in StringCols => Section(c)[2] = Item("dict", c)
<1>1. runs \in Nat /\ Len(meta) + 1 \in Nat
  BY WriterAssumption, LenProperties DEF Typed
<1>2. Item("blocks", c) \in Items /\ Item("dict", c) \in Items
  BY <1>1 DEF Items, Item
<1> QED BY <1>2 DEF Section

(* The footer is an item. *)
LEMMA FooterItem ==
  ASSUME Typed
  PROVE  Footer \in Items
<1>1. runs \in Nat /\ meta \in Seq(Metas)
  BY WriterAssumption DEF Typed
<1> QED BY <1>1 DEF Footer, Items

(* The file a writer is at. *)
LEMMA WritersFile ==
  ASSUME Typed, Directory, phase # "idle"
  PROVE  inode \in Files /\ content[inode] \in Seq(Items) /\ File \in Seq(Items)
<1>1. inode \in Files
  BY WriterAssumption DEF Typed, Directory, Files, NoFile
<1>2. content[inode] \in Seq(Items) /\ buf \in Seq(Items)
  BY <1>1 DEF Typed
<1> QED BY <1>1, <1>2, ConcatProperties DEF File

(* The invariant holds initially. *)
LEMMA InitInv == Init => IndInv
<1> SUFFICES ASSUME Init PROVE IndInv
  OBVIOUS
<1>1. <<>> \in Seq(Items) /\ <<>> \in Seq(Metas)
  BY EmptySeq
<1>2. Typed
  <2>1. content \in [Files -> Seq(Items)] /\ synced \in [Files -> Nat]
    BY <1>1 DEF Init
  <2>2. dirs \subseteq [path : 0 .. runs, tmp : 0 .. runs] /\ dir \in dirs
    BY DEF Init, NoFile
  <2> QED BY <1>1, <2>1, <2>2, EmptyMeta, WriterAssumption DEF Init, Typed
<1>3. Directory /\ Layout
  BY DEF Init, Directory, Layout, NoFile
<1> QED BY <1>2, <1>3 DEF IndInv

-----------------------------------------------------------------------------
(* What Typed says when the writer is discarded. *)
LEMMA GoneTyped ==
  ASSUME WriterGone
  PROVE  buf' \in Seq(Items) /\ colMeta' \in Metas /\ meta' \in Seq(Metas)
  BY EmptySeq, EmptyMeta DEF WriterGone

(* The metadata AppendColumn leaves. *)
LEMMA AddedEntry ==
  ASSUME NEW m \in Metas, NEW c \in Cols, NEW o \in Nat, NEW k \in {0, 1}
  PROVE  [d \in DOMAIN m \cup {c} |-> IF d = c THEN [section |-> o, dict |-> k] ELSE m[d]]
           \in Metas
<1>1. PICK D \in SUBSET Cols : m \in [D -> [section : Nat, dict : {0, 1}]]
  BY DEF Metas
<1>2. D \cup {c} \in SUBSET Cols /\ DOMAIN m = D
  BY <1>1
<1>3. [d \in DOMAIN m \cup {c} |-> IF d = c THEN [section |-> o, dict |-> k] ELSE m[d]]
        \in [D \cup {c} -> [section : Nat, dict : {0, 1}]]
  BY <1>1, <1>2
<1> QED BY <1>2, <1>3 DEF Metas

(* What a crash leaves of a file is a file; of a synced one, all of it. *)
LEMMA CutFile ==
  ASSUME NEW f \in Seq(Items), NEW s \in Nat, NEW n \in s .. Len(f)
  PROVE  /\ n \in Nat
         /\ SubSeq(f, 1, n) \in Seq(Items)
         /\ s = Len(f) => SubSeq(f, 1, n) = f /\ n = Len(f)
<1>1. Len(f) \in Nat /\ n \in Nat /\ n <= Len(f)
  BY LenProperties
<1>2. \A i \in 1 .. n : f[i] \in Items
  BY <1>1, ElementOfSeq
<1>3. SubSeq(f, 1, n) \in Seq(Items)
  BY <1>1, <1>2, SubSeqProperties
<1> QED BY <1>1, <1>3, SubSeqFull

(* Every step keeps the types. *)
LEMMA TypedStep == ASSUME IndInv, Next PROVE Typed'
<1> USE DEF IndInv
<1>1. CASE NewWriter
  <2>1. runs' \in 0 .. MaxRuns /\ runs < MaxRuns /\ runs' = runs + 1
    BY <1>1, WriterAssumption DEF NewWriter, Typed
  <2>2. dir \in [path : 0 .. runs, tmp : 0 .. runs]
    BY DEF Typed
  <2>3. inode' \in 0 .. runs'
    BY <1>1, <2>1, <2>2 DEF NewWriter, Typed
  <2>4. [dir EXCEPT !.tmp = inode'] \in [path : 0 .. runs', tmp : 0 .. runs']
    <3>1. [dir EXCEPT !.tmp = inode'] = [path |-> dir.path, tmp |-> inode']
      BY <2>2
    <3>2. dir.path \in 0 .. runs'
      BY <2>1, <2>2 DEF Typed
    <3> QED BY <2>3, <3>1, <3>2
  <2>5. \A d \in [path : 0 .. runs, tmp : 0 .. runs] : d \in [path : 0 .. runs', tmp : 0 .. runs']
    BY <2>1, WriterAssumption DEF Typed
  <2>6. dirs' \subseteq [path : 0 .. runs', tmp : 0 .. runs'] /\ dir' \in dirs'
    BY <1>1, <2>4, <2>5 DEF NewWriter, ChangeDir, Typed
  <2>7. content' \in [Files -> Seq(Items)] /\ synced' \in [Files -> Nat]
    BY <1>1, EmptySeq DEF NewWriter, Typed
  <2>8. buf' \in Seq(Items)
    BY <1>1 DEF NewWriter, Items, Magic
  <2>9. colMeta' \in Metas /\ meta' \in Seq(Metas)
    BY <1>1, EmptySeq, EmptyMeta DEF NewWriter
  <2> QED BY <1>1, <2>1, <2>6, <2>7, <2>8, <2>9 DEF NewWriter, Typed
<1>2. CASE BeginRowGroup
  BY <1>2, EmptyMeta DEF BeginRowGroup, disk, Typed
<1>3. ASSUME NEW c \in Cols, AppendColumn(c) PROVE Typed'
  <2>1. buf' \in Seq(Items)
    BY <1>3, SectionItems, ConcatProperties DEF AppendColumn, Typed
  <2>2. offset \in Nat
    BY <1>3, WritersFile, LenProperties DEF AppendColumn, Layout
  <2>3. colMeta' \in Metas
    <3> DEFINE k == IF c \in StringCols THEN 1 ELSE 0
    <3>1. k \in {0, 1} /\ colMeta \in Metas
      BY DEF Typed
    <3>2. colMeta' = [d \in DOMAIN colMeta \cup {c} |->
                        IF d = c THEN [section |-> offset, dict |-> k] ELSE colMeta[d]]
      BY <1>3 DEF AppendColumn
    <3> HIDE DEF k
    <3>3. [d \in DOMAIN colMeta \cup {c} |->
             IF d = c THEN [section |-> offset, dict |-> k] ELSE colMeta[d]] \in Metas
      BY <2>2, <3>1, AddedEntry
    <3> QED BY <3>2, <3>3
  <2> QED BY <1>3, <2>1, <2>3 DEF AppendColumn, disk, Typed
<1>4. CASE EndRowGroup
  BY <1>4, EmptyMeta, AppendProperties DEF EndRowGroup, disk, Typed
<1>5. ASSUME content' = [content EXCEPT ![inode] = content[inode] \o buf], phase # "idle"
      PROVE  content' \in [Files -> Seq(Items)]
  BY <1>5, WritersFile DEF File, Typed
<1>6. CASE Spill
  BY <1>6, <1>5, EmptySeq DEF Spill, Typed
<1>7. CASE WriteFooter
  <2>1. buf' \in Seq(Items)
    BY <1>7, FooterItem, AppendProperties DEF WriteFooter, Footer, Typed
  <2> QED BY <1>7, <2>1 DEF WriteFooter, disk, Typed
<1>8. CASE Flush
  BY <1>8, <1>5, EmptySeq DEF Flush, Typed
<1>9. CASE Sync
  <2>1. Len(content[inode]) \in Nat
    BY <1>9, WritersFile, LenProperties DEF Sync
  <2>2. synced' \in [Files -> Nat]
    BY <1>9, <2>1 DEF Sync, SyncedLength, Typed
  <2> QED BY <1>9, <2>2 DEF Sync, writer, Typed
<1>10. CASE CloseFile
  BY <1>10 DEF CloseFile, writer, disk, Typed
<1>11. CASE Rename
  <2>1. inode \in 0 .. runs /\ NoFile \in 0 .. runs
    BY <1>11, WriterAssumption DEF Rename, Directory, Typed, NoFile
  <2>2. dirs' \subseteq [path : 0 .. runs, tmp : 0 .. runs] /\ dir' \in dirs'
    BY <1>11, <2>1 DEF Rename, ChangeDir, Typed
  <2> QED BY <1>11, <2>2, GoneTyped DEF Rename, WriterGone, Typed
<1>12. CASE Abort
  <2>1. [dir EXCEPT !.tmp = NoFile] \in [path : 0 .. runs, tmp : 0 .. runs]
    <3>1. dir \in [path : 0 .. runs, tmp : 0 .. runs] /\ NoFile \in 0 .. runs
      BY WriterAssumption DEF Typed, NoFile
    <3> QED BY <3>1
  <2>2. dirs' \subseteq [path : 0 .. runs, tmp : 0 .. runs] /\ dir' \in dirs'
    BY <1>12, <2>1 DEF Abort, ChangeDir, Typed
  <2> QED BY <1>12, <2>2, GoneTyped DEF Abort, WriterGone, Typed
<1>13. CASE WriterStops
  BY <1>13, GoneTyped DEF WriterStops, WriterGone, disk, Typed
<1>14. CASE Crash
  <2>1. PICK cut \in [Files -> Lengths] :
          /\ \A i \in Files : cut[i] \in synced[i] .. Len(content[i])
          /\ content' = [i \in Files |-> SubSeq(content[i], 1, cut[i])]
          /\ synced' = cut
    BY <1>14 DEF Crash
  <2>2. ASSUME NEW i \in Files
        PROVE  cut[i] \in Nat /\ SubSeq(content[i], 1, cut[i]) \in Seq(Items)
    BY <2>1, CutFile DEF Typed
  <2>3. content' \in [Files -> Seq(Items)] /\ synced' \in [Files -> Nat]
    BY <2>1, <2>2
  <2> QED BY <1>14, <2>3, GoneTyped DEF Crash, WriterGone, Typed
<1> QED BY <1>1, <1>2, <1>3, <1>4, <1>6, <1>7, <1>8, <1>9, <1>10, <1>11, <1>12, <1>13, <1>14 DEF Next

-----------------------------------------------------------------------------
(* A file no step touches stays published. *)
LEMMA KeptPublished ==
  ASSUME NEW i \in Files, content'[i] = content[i], synced'[i] = synced[i], Published(i)
  PROVE  Published(i)'
  BY DEF Published, Complete, Described, At

(* What Finish renames is complete and synced. *)
LEMMA FinishedFile ==
  ASSUME IndInv, phase = "rename"
  PROVE  Published(inode)
<1> USE DEF IndInv
<1>1. content[inode] \in Seq(Items)
  BY WritersFile
<1>2. File = content[inode]
  BY <1>1, ConcatEmptySeq DEF Layout, File
<1>3. /\ Len(content[inode]) >= 2
      /\ content[inode][1] = Magic
      /\ content[inode][Len(content[inode])] = Footer
      /\ \A g \in DOMAIN meta : Described(content[inode], runs, g, meta[g])
      /\ synced[inode] = Len(content[inode])
  BY <1>2 DEF Layout
<1>4. Footer.item = "footer" /\ Footer.run = runs /\ Footer.rowGroups = meta
  BY DEF Footer
<1> QED BY <1>3, <1>4 DEF Published, Complete, Magic

(* The paths of a directory are files. *)
LEMMA PathsAreFiles ==
  ASSUME Typed, NEW d \in dirs
  PROVE  d.path \in 0 .. runs /\ d.tmp \in 0 .. runs /\ (d.path # NoFile => d.path \in Files)
  BY WriterAssumption DEF Typed, Files, NoFile

(* Every step keeps what the directories name published. *)
LEMMA DirectoryStep == ASSUME IndInv, Next PROVE Directory'
<1> USE DEF IndInv
<1>1. ASSUME dir' = dir, dirs' = dirs,
             \A i \in Files : i # inode => content'[i] = content[i] /\ synced'[i] = synced[i],
             phase # "idle"
      PROVE  \A d \in dirs' : d.path # NoFile => Published(d.path)'
  <2> SUFFICES ASSUME NEW d \in dirs, d.path # NoFile PROVE Published(d.path)'
    BY <1>1
  <2>1. d.path \in Files /\ d.path # inode
    BY <1>1, PathsAreFiles DEF Directory
  <2> QED BY <1>1, <2>1, KeptPublished DEF Directory
<1>2. ASSUME UNCHANGED disk PROVE \A d \in dirs' : d.path # NoFile => Published(d.path)'
  <2> SUFFICES ASSUME NEW d \in dirs, d.path # NoFile PROVE Published(d.path)'
    BY <1>2 DEF disk
  <2> QED BY <1>2, PathsAreFiles, KeptPublished DEF disk, Directory
<1>3. CASE \/ BeginRowGroup \/ (\E c \in Cols : AppendColumn(c)) \/ EndRowGroup
           \/ WriteFooter \/ CloseFile
  <2>1. UNCHANGED disk /\ inode' = inode /\ phase # "idle"
    BY <1>3 DEF BeginRowGroup, AppendColumn, EndRowGroup, WriteFooter, CloseFile, writer
  <2> QED BY <1>2, <2>1 DEF disk, Directory
<1>4. CASE WriterStops
  BY <1>2, <1>4 DEF WriterStops, WriterGone, disk, Directory
<1>5. CASE Spill \/ Flush \/ Sync
  <2>1. /\ dir' = dir /\ dirs' = dirs /\ inode' = inode /\ phase # "idle"
        /\ \A i \in Files : i # inode => content'[i] = content[i] /\ synced'[i] = synced[i]
    BY <1>5 DEF Spill, Flush, Sync, writer, Typed
  <2> QED BY <1>1, <2>1 DEF Directory
<1>6. CASE NewWriter
  <2>1. runs \in Nat /\ runs' = runs + 1 /\ dir \in dirs
    BY <1>6, WriterAssumption DEF NewWriter, Typed
  <2>2. inode' # NoFile /\ \A d \in dirs : d.path # inode'
    BY <1>6, <2>1, PathsAreFiles DEF NewWriter, Directory, NoFile
  <2>3. dir' = [path |-> dir.path, tmp |-> inode'] /\ dirs' = dirs \cup {dir'}
    BY <1>6, <2>1 DEF NewWriter, ChangeDir, Typed
  <2>4. \A d \in dirs' : d.path # inode'
    BY <2>1, <2>2, <2>3
  <2>5. ASSUME NEW d \in dirs, d.path # NoFile PROVE Published(d.path)'
    <3>1. d.path \in Files /\ d.path # inode'
      BY <2>2, <2>5, PathsAreFiles
    <3>2. content'[d.path] = content[d.path] /\ synced'[d.path] = synced[d.path]
      BY <1>6, <3>1 DEF NewWriter, Typed
    <3> QED BY <2>5, <3>1, <3>2, KeptPublished DEF Directory
  <2>6. \A d \in dirs' : d.path # NoFile => Published(d.path)'
    BY <2>1, <2>3, <2>5
  <2>7. \A d \in dirs' : d.tmp # NoFile => d.path # d.tmp
    BY <2>3, <2>4 DEF Directory
  <2> QED BY <2>2, <2>3, <2>4, <2>6, <2>7 DEF Directory
<1>7. CASE Rename
  <2>1. dir' = [path |-> inode, tmp |-> NoFile] /\ dirs' = dirs \cup {dir'}
    BY <1>7 DEF Rename, ChangeDir
  <2>2. ASSUME NEW d \in dirs', d.path # NoFile PROVE Published(d.path)'
    <3>1. d.path \in Files /\ Published(d.path)
      BY <1>7, <2>1, <2>2, FinishedFile, WritersFile, PathsAreFiles DEF Rename, Directory
    <3> QED BY <1>7, <3>1, KeptPublished DEF Rename
  <2> QED BY <1>7, <2>1, <2>2 DEF Rename, WriterGone, Directory
<1>8. CASE Abort
  <2>1. dir \in dirs /\ dir' = [path |-> dir.path, tmp |-> NoFile] /\ dirs' = dirs \cup {dir'}
    BY <1>8 DEF Abort, ChangeDir, Typed
  <2>2. ASSUME NEW d \in dirs, d.path # NoFile PROVE Published(d.path)'
    BY <1>8, <2>2, PathsAreFiles, KeptPublished DEF Abort, Directory
  <2>3. \A d \in dirs' : d.path # NoFile => Published(d.path)'
    BY <2>1, <2>2
  <2> QED BY <1>8, <2>1, <2>3 DEF Abort, WriterGone, Directory
<1>9. CASE Crash
  <2>1. PICK cut \in [Files -> Lengths] :
          /\ \A i \in Files : cut[i] \in synced[i] .. Len(content[i])
          /\ content' = [i \in Files |-> SubSeq(content[i], 1, cut[i])]
          /\ synced' = cut
    BY <1>9 DEF Crash
  <2>2. dir' \in dirs /\ dirs' = {dir'} /\ phase' = "idle"
    BY <1>9 DEF Crash, WriterGone
  <2>3. ASSUME NEW i \in Files, Published(i) PROVE Published(i)'
    <3>1. content[i] \in Seq(Items) /\ synced[i] \in Nat /\ synced[i] = Len(content[i])
      BY <2>3 DEF Typed, Published
    <3>2. SubSeq(content[i], 1, cut[i]) = content[i] /\ cut[i] = Len(content[i])
      BY <2>1, <3>1, CutFile
    <3>3. content'[i] = content[i] /\ synced'[i] = synced[i]
      BY <2>1, <3>1, <3>2
    <3> QED BY <2>3, <3>3, KeptPublished
  <2>4. \A d \in dirs' : d.path # NoFile => Published(d.path)'
    BY <2>2, <2>3, PathsAreFiles DEF Directory
  <2> QED BY <2>2, <2>4 DEF Directory
<1> QED BY <1>3, <1>4, <1>5, <1>6, <1>7, <1>8, <1>9 DEF Next

-----------------------------------------------------------------------------
(* What the file of a writer holds, whatever step Finish is at: Layout     *)
(* without its last three conjuncts.                                       *)
Holds(f, o, r, ms, m) ==
  /\ o = Len(f) /\ Len(f) >= 1 /\ f[1] = Magic
  /\ \A g \in DOMAIN ms : Described(f, r, g, ms[g])
  /\ Placed(f, r, Len(ms) + 1, m)

(* Writing more to a file keeps what it holds. *)
LEMMA HoldsExtends ==
  ASSUME NEW f \in Seq(Items), NEW e \in Seq(Items), NEW o, NEW r,
         NEW ms \in Seq(Metas), NEW m \in Metas, Holds(f, o, r, ms, m)
  PROVE  Holds(f \o e, o + Len(e), r, ms, m)
<1>1. /\ Len(f) \in Nat /\ Len(e) \in Nat /\ Len(f \o e) = Len(f) + Len(e)
      /\ (f \o e)[1] = f[1]
  <2>1. Len(f) \in Nat /\ Len(e) \in Nat /\ Len(f \o e) = Len(f) + Len(e)
    BY LenProperties, ConcatProperties
  <2>2. 1 \in 1 .. Len(f) + Len(e) /\ 1 <= Len(f)
    BY <2>1 DEF Holds
  <2> QED BY <2>1, <2>2, ConcatProperties
<1>2. ASSUME NEW g \in DOMAIN ms PROVE Described(f \o e, r, g, ms[g])
  <2>1. ms[g] \in Metas
    BY LenProperties
  <2>2. DOMAIN ms[g] = Cols /\ Placed(f, r, g, ms[g])
    BY DescribedIsPlaced DEF Holds
  <2>3. Placed(f \o e, r, g, ms[g])
    BY <2>1, <2>2, PlacedExtends
  <2> QED BY <2>2, <2>3, DescribedIsPlaced
<1>3. Placed(f \o e, r, Len(ms) + 1, m)
  BY PlacedExtends DEF Holds
<1> QED BY <1>1, <1>2, <1>3 DEF Holds

(* The layout of the next state, from what its file holds. *)
LEMMA LayoutNext ==
  ASSUME Holds(File', offset', runs', meta', colMeta'),
         phase' # "open" => Len(File') >= 2 /\ File'[Len(File')] = Footer',
         phase' \in {"sync", "close", "rename"} => buf' = <<>>,
         phase' \in {"close", "rename"} => synced'[inode'] = Len(content'[inode'])
  PROVE  Layout'
  BY DEF Layout, Holds, Described, Placed, At

(* The file after a section was appended to it. *)
LEMMA HoldsSection ==
  ASSUME IndInv, NEW c \in Cols, AppendColumn(c)
  PROVE  Holds(File \o Section(c), offset', runs, meta, colMeta')
<1> USE DEF IndInv
<1> DEFINE f == File  s == Section(c)
<1>1. f \in Seq(Items) /\ Holds(f, offset, runs, meta, colMeta)
  BY WritersFile DEF AppendColumn, Layout, Holds
<1>2. s \in Seq(Items) /\ offset' = offset + Len(s)
  BY SectionItems DEF AppendColumn, OffsetAfter
<1>3. Holds(f \o s, offset', runs, meta, colMeta)
  <2> HIDE DEF f, s
  <2> QED BY <1>1, <1>2, HoldsExtends DEF Typed
<1>4. Len(f) \in Nat /\ offset = Len(f) /\ Len(f \o s) = Len(f) + Len(s)
  BY <1>1, <1>2, LenProperties, ConcatProperties DEF Holds
<1>5. \A i \in 1 .. Len(s) : (f \o s)[Len(f) + i] = s[i]
  <2> HIDE DEF f, s
  <2>1. Len(s) \in Nat
    BY <1>2, LenProperties
  <2>2. \A i \in 1 .. Len(f) + Len(s) : (f \o s)[i] = IF i <= Len(f) THEN f[i] ELSE s[i - Len(f)]
    BY <1>1, <1>2, ConcatProperties
  <2> QED BY <1>4, <2>1, <2>2
<1>6. /\ Len(s) = IF c \in StringCols THEN 2 ELSE 1
      /\ s[1] = [item |-> "blocks", run |-> runs, rg |-> Len(meta) + 1, col |-> c]
      /\ c \in StringCols => s[2] = [item |-> "dict", run |-> runs, rg |-> Len(meta) + 1, col |-> c]
  BY SectionItems DEF Item
<1>7. /\ DOMAIN colMeta' = DOMAIN colMeta \cup {c}
      /\ colMeta'[c].section = Len(f)
      /\ colMeta'[c].dict = IF c \in StringCols THEN 1 ELSE 0
      /\ \A d \in DOMAIN colMeta : colMeta'[d] = colMeta[d]
  BY <1>4 DEF AppendColumn
<1> HIDE DEF f, s
<1>8. /\ colMeta'[c].section + colMeta'[c].dict < Len(f \o s)
      /\ At(f \o s, colMeta'[c].section) = s[1]
      /\ c \in StringCols => At(f \o s, colMeta'[c].section + colMeta'[c].dict) = s[2]
  BY <1>4, <1>5, <1>6, <1>7 DEF At
<1>9. Placed(f \o s, runs, Len(meta) + 1, colMeta')
  BY <1>3, <1>6, <1>7, <1>8 DEF Holds, Placed
<1>10. Holds(f \o s, offset', runs, meta, colMeta')
  BY <1>3, <1>9 DEF Holds
<1> QED BY <1>10 DEF f, s

(* What is written through the buffer and what is written to the file come *)
(* out the same.                                                           *)
LEMMA WrittenInTwoParts ==
  ASSUME NEW f \in Seq(Items), NEW b \in Seq(Items), NEW e \in Seq(Items)
  PROVE  (f \o b) \o e = f \o (b \o e)
  OBVIOUS

(* Every step keeps the file of the writer as its metadata says. *)
LEMMA LayoutStep == ASSUME IndInv, Next PROVE Layout'
<1> USE DEF IndInv
<1>1. ASSUME phase # "idle"
      PROVE  /\ inode \in Files /\ content[inode] \in Seq(Items) /\ buf \in Seq(Items)
             /\ File \in Seq(Items) /\ Holds(File, offset, runs, meta, colMeta)
  BY <1>1, WritersFile DEF Layout, Holds, Typed
<1>2. CASE NewWriter
  <2>1. inode' \in Files
    BY <1>2, WriterAssumption, PathsAreFiles DEF NewWriter, Typed, Files, NoFile
  <2>2. content'[inode'] = <<>> /\ buf' = <<Magic>>
    BY <1>2, <2>1 DEF NewWriter, Typed, Magic
  <2>3. File' = <<Magic>>
    <3>1. <<Magic>> \in Seq(Items)
      BY DEF Items
    <3>2. <<>> \o <<Magic>> = <<Magic>>
      BY <3>1, ConcatEmptySeq
    <3> QED BY <2>2, <3>2 DEF File
  <2>4. Holds(File', offset', runs', meta', colMeta')
    BY <1>2, <2>3, EmptyMeta DEF NewWriter, Holds, Placed
  <2> QED BY <1>2, <2>4, LayoutNext DEF NewWriter
<1>3. CASE BeginRowGroup
  <2>1. File' = File
    BY <1>3 DEF BeginRowGroup, disk, File
  <2>2. Holds(File', offset', runs', meta', colMeta')
    BY <1>1, <1>3, <2>1, EmptyMeta DEF BeginRowGroup, Holds, Placed
  <2> QED BY <1>3, <2>2, LayoutNext DEF BeginRowGroup
<1>4. ASSUME NEW c \in Cols, AppendColumn(c) PROVE Layout'
  <2>1. File' = File \o Section(c)
    <3>1. Section(c) \in Seq(Items) /\ content[inode] \in Seq(Items) /\ buf \in Seq(Items)
      BY <1>1, <1>4, SectionItems DEF AppendColumn
    <3>2. (content[inode] \o buf) \o Section(c) = content[inode] \o (buf \o Section(c))
      BY <3>1, WrittenInTwoParts, Zenon
    <3> QED BY <1>4, <3>2 DEF AppendColumn, disk, File
  <2>2. Holds(File', offset', runs', meta', colMeta')
    BY <1>4, <2>1, HoldsSection DEF AppendColumn
  <2> QED BY <1>4, <2>2, LayoutNext DEF AppendColumn
<1>5. CASE EndRowGroup
  <2>1. File' = File /\ meta' = Append(meta, colMeta) /\ colMeta' = <<>>
        /\ offset' = offset /\ runs' = runs /\ phase' = "open" /\ phase = "open"
    BY <1>5 DEF EndRowGroup, disk, File
  <2>2. /\ Len(meta) \in Nat /\ DOMAIN meta = 1 .. Len(meta)
        /\ meta' \in Seq(Metas) /\ Len(meta') = Len(meta) + 1
        /\ \A g \in 1 .. Len(meta) : meta'[g] = meta[g]
        /\ meta'[Len(meta) + 1] = colMeta
    BY <2>1, LenProperties, AppendProperties DEF Typed
  <2>3. DOMAIN meta' = 1 .. Len(meta) + 1
    BY <2>2, LenProperties
  <2>4. Described(File, runs, Len(meta) + 1, colMeta)
    BY <1>1, <1>5, <2>1, DescribedIsPlaced DEF EndRowGroup, AllColumnsWritten, Holds
  <2>5. ASSUME NEW g \in DOMAIN meta' PROVE Described(File, runs, g, meta'[g])
    <3>1. CASE g = Len(meta) + 1
      BY <2>2, <2>4, <3>1
    <3>2. CASE g # Len(meta) + 1
      <4>1. g \in DOMAIN meta /\ meta'[g] = meta[g]
        BY <2>2, <2>3, <3>2
      <4> QED BY <1>1, <2>1, <4>1 DEF Holds
    <3> QED BY <3>1, <3>2
  <2>6. Holds(File', offset', runs', meta', colMeta')
    BY <1>1, <2>1, <2>5, EmptyMeta DEF Holds, Placed
  <2> QED BY <2>1, <2>6, LayoutNext
<1>6. ASSUME phase # "idle", inode' = inode, buf' = <<>>, UNCHANGED <<runs, offset, colMeta, meta>>,
             content' = [content EXCEPT ![inode] = content[inode] \o buf]
      PROVE  File' = File /\ Holds(File', offset', runs', meta', colMeta')
  <2>1. content'[inode'] = File
    BY <1>1, <1>6 DEF File, Typed
  <2>2. File \o <<>> = File
    BY <1>1, <1>6, ConcatEmptySeq
  <2>3. File' = File
    BY <1>6, <2>1, <2>2 DEF File
  <2> QED BY <1>1, <1>6, <2>3
<1>7. CASE Spill
  BY <1>6, <1>7, LayoutNext DEF Spill
<1>8. CASE WriteFooter
  <2>1. <<Footer>> \in Seq(Items) /\ Len(<<Footer>>) = 1 /\ Footer' = Footer
    BY <1>8, FooterItem DEF WriteFooter, Footer
  <2>2. File' = File \o <<Footer>>
    <3>1. content[inode] \in Seq(Items) /\ buf \in Seq(Items)
      BY <1>1, <1>8 DEF WriteFooter
    <3>2. Append(buf, Footer) = buf \o <<Footer>>
      BY <3>1, FooterItem, AppendIsConcat
    <3>3. (content[inode] \o buf) \o <<Footer>> = content[inode] \o (buf \o <<Footer>>)
      BY <2>1, <3>1, WrittenInTwoParts, Zenon
    <3>4. buf' = Append(buf, Footer) /\ content' = content /\ inode' = inode
      BY <1>8 DEF WriteFooter, Footer, disk
    <3> QED BY <3>2, <3>3, <3>4 DEF File
  <2>3. Holds(File', offset', runs', meta', colMeta')
    <3>1. Holds(File \o <<Footer>>, offset + Len(<<Footer>>), runs, meta, colMeta)
      BY <1>1, <1>8, <2>1, HoldsExtends DEF WriteFooter, Typed
    <3> QED BY <1>8, <2>1, <2>2, <3>1 DEF WriteFooter
  <2>4. Len(File') >= 2 /\ File'[Len(File')] = Footer'
    <3>1. File \in Seq(Items) /\ Len(File) >= 1
      BY <1>1, <1>8 DEF WriteFooter, Holds
    <3>2. File' = Append(File, Footer)
      BY <2>2, <3>1, FooterItem, AppendIsConcat
    <3>3. Len(File') = Len(File) + 1 /\ File'[Len(File) + 1] = Footer /\ Len(File) \in Nat
      BY <3>1, <3>2, FooterItem, AppendProperties, LenProperties
    <3> QED BY <2>1, <3>1, <3>3
  <2> QED BY <1>8, <2>3, <2>4, LayoutNext DEF WriteFooter
<1>9. CASE Flush
  <2>1. File' = File /\ Holds(File', offset', runs', meta', colMeta')
    BY <1>6, <1>9 DEF Flush
  <2>2. Len(File) >= 2 /\ File[Len(File)] = Footer /\ Footer' = Footer
    BY <1>9 DEF Flush, Layout, Footer
  <2> QED BY <1>9, <2>1, <2>2, LayoutNext DEF Flush
<1>10. CASE Sync \/ CloseFile
  <2>1. /\ File' = File /\ Footer' = Footer /\ phase \in {"sync", "close"}
        /\ UNCHANGED <<runs, offset, colMeta, meta, buf, inode, content>>
    BY <1>10 DEF Sync, CloseFile, writer, disk, File, Footer
  <2>2. Holds(File', offset', runs', meta', colMeta')
    BY <1>1, <2>1
  <2>3. buf' = <<>> /\ Len(File') >= 2 /\ File'[Len(File')] = Footer'
    BY <2>1 DEF Layout
  <2>4. synced'[inode'] = Len(content'[inode'])
    BY <1>1, <1>10, <2>1 DEF Sync, CloseFile, SyncedLength, disk, Layout, Typed
  <2> QED BY <2>2, <2>3, <2>4, LayoutNext
<1>11. CASE Rename \/ Abort \/ WriterStops \/ Crash
  BY <1>11 DEF Rename, Abort, WriterStops, Crash, WriterGone, Layout
<1> QED BY <1>2, <1>3, <1>4, <1>5, <1>7, <1>8, <1>9, <1>10, <1>11 DEF Next

-----------------------------------------------------------------------------
(***************************************************************************)
(* The invariant: every directory a crash may leave names published files, *)
(* none of which a writer can still reach.                                 *)
(***************************************************************************)
THEOREM Invariance == Spec => []IndInv
<1>1. ASSUME IndInv, UNCHANGED vars PROVE IndInv'
  <2> USE <1>1 DEF IndInv, vars, writer, disk
  <2>1. Typed'
    BY DEF Typed
  <2>2. \A d \in dirs' : d.path # NoFile => Published(d.path)'
    BY PathsAreFiles, KeptPublished DEF Directory
  <2>3. Directory'
    BY <2>2 DEF Directory
  <2>4. CASE phase = "idle"
    BY <2>1, <2>3, <2>4 DEF Layout
  <2>5. CASE phase # "idle"
    <3>1. File' = File /\ Footer' = Footer
      BY DEF File, Footer
    <3>2. Holds(File', offset', runs', meta', colMeta')
      BY <2>5, <3>1 DEF Layout, Holds
    <3>3. Layout'
      BY <2>5, <3>1, <3>2, LayoutNext DEF Layout
    <3> QED BY <2>1, <2>3, <3>3
  <2> QED BY <2>4, <2>5
<1>2. IndInv /\ [Next]_vars => IndInv'
  BY <1>1, TypedStep, DirectoryStep, LayoutStep DEF IndInv
<1> QED BY InitInv, <1>2, PTL DEF Spec

(***************************************************************************)
(* storage/writer.go, Finish (flush, sync, close, rename): whatever step   *)
(* fails, whenever the machine stops and however much of the unsynced data *)
(* and of the directory changes it loses, the path names no file or one    *)
(* whose footer describes what is there.                                   *)
(***************************************************************************)
THEOREM CrashSafety == Spec => []NoPartialFile
<1>1. IndInv => NoPartialFile
  BY DEF IndInv, Typed, Directory, Published, NoPartialFile
<1> QED BY <1>1, Invariance, PTL

(***************************************************************************)
(* storage/writer.go, w.offset: the offsets the writer keeps are the       *)
(* places of what it wrote, in whatever order the columns came and         *)
(* whenever the buffer spilled.                                            *)
(***************************************************************************)
THEOREM OffsetsCorrect == Spec => []OffsetsAddressData
<1>1. ASSUME IndInv, phase # "idle"
      PROVE  /\ offset = Len(File)
             /\ \A g \in DOMAIN meta : Described(File, runs, g, meta[g])
             /\ Placed(File, runs, Len(meta) + 1, colMeta)
  BY <1>1 DEF IndInv, Layout
<1>2. ASSUME IndInv, phase # "idle", NEW c \in DOMAIN colMeta
      PROVE  At(File, colMeta[c].section).item = "blocks" /\ At(File, colMeta[c].section).col = c
  <2>1. At(File, colMeta[c].section) =
          [item |-> "blocks", run |-> runs, rg |-> Len(meta) + 1, col |-> c]
    BY <1>1, <1>2 DEF Placed
  <2> QED BY <2>1
<1>3. IndInv => OffsetsAddressData
  BY <1>1, <1>2 DEF File, OffsetsAddressData
<1> QED BY <1>3, Invariance, PTL

(***************************************************************************)
(* storage/writer.go, NewWriter (os.Create on path.tmp): the file a writer *)
(* truncates or appends to is never one the path names, now or after a     *)
(* crash that takes the directory back.                                    *)
(***************************************************************************)
THEOREM WritersNeverTouchThePath ==
  Spec => [](phase # "idle" => \A d \in dirs : d.path # inode)
<1>1. IndInv => (phase # "idle" => \A d \in dirs : d.path # inode)
  BY DEF IndInv, Directory
<1> QED BY <1>1, Invariance, PTL

-----------------------------------------------------------------------------
(***************************************************************************)
(* Sizes: how long a file may become.                                      *)
(***************************************************************************)

(* The items of a row group: at most two per column. *)
RowGroupItems == 2 * Cardinality(Cols)

(* What is in the file, past the magic, for the row groups that are ended, *)
(* the sections of the open one, and the footer.                           *)
SizeBound ==
  (IF phase = "open" THEN 1 ELSE 2) + Len(meta) * RowGroupItems + 2 * Cardinality(DOMAIN colMeta)

FilesFit == \A i \in Files : synced[i] <= Len(content[i]) /\ Len(content[i]) \in Lengths

WriterFits ==
  /\ phase = "idle" => inode = NoFile /\ offset = 0 /\ colMeta = <<>> /\ meta = <<>>
  /\ phase # "idle" =>
       /\ Len(meta) <= MaxRowGroups /\ offset <= SizeBound
       /\ rgOpen => phase = "open" /\ Len(meta) < MaxRowGroups
       /\ ~rgOpen => DOMAIN colMeta = {}

Sizes == FilesFit /\ WriterFits /\ rgOpen \in BOOLEAN

(* Cardinalities and row groups. *)
LEMMA Counts ==
  ASSUME NEW m \in Metas, NEW n \in Nat
  PROVE  /\ IsFiniteSet(DOMAIN m)
         /\ Cardinality(Cols) \in Nat /\ RowGroupItems \in Nat /\ n * RowGroupItems \in Nat
         /\ RowGroupItems = 2 * Cardinality(Cols)
         /\ Cardinality(DOMAIN m) \in Nat /\ Cardinality(DOMAIN m) <= Cardinality(Cols)
         /\ DOMAIN m = {} => Cardinality(DOMAIN m) = 0
         /\ (n + 1) * RowGroupItems = n * RowGroupItems + RowGroupItems
         /\ \A k \in Nat : n <= k => n * RowGroupItems <= k * RowGroupItems
<1>1. IsFiniteSet(Cols) /\ DOMAIN m \subseteq Cols
  BY WriterAssumption, MetaEntry
<1>2. Cardinality(Cols) \in Nat /\ IsFiniteSet(DOMAIN m) /\ Cardinality(DOMAIN m) \in Nat
      /\ Cardinality(DOMAIN m) <= Cardinality(Cols)
  BY <1>1, FS_Subset, FS_CardinalityType
<1>3. RowGroupItems \in Nat /\ RowGroupItems = 2 * Cardinality(Cols)
  BY <1>2 DEF RowGroupItems
<1>4. n * RowGroupItems \in Nat /\ (n + 1) * RowGroupItems = n * RowGroupItems + RowGroupItems
  BY <1>3
<1>5. \A k \in Nat : n <= k => n * RowGroupItems <= k * RowGroupItems
  <2> SUFFICES ASSUME NEW k \in Nat, n <= k PROVE n * RowGroupItems <= k * RowGroupItems
    OBVIOUS
  <2>1. PICK e \in Nat : k = n + e
    <3>1. k - n \in Nat /\ k = n + (k - n)
      OBVIOUS
    <3> QED BY <3>1
  <2>2. k * RowGroupItems = n * RowGroupItems + e * RowGroupItems /\ e * RowGroupItems \in Nat
    BY <1>3, <2>1
  <2> QED BY <1>4, <2>2
<1>6. DOMAIN m = {} => Cardinality(DOMAIN m) = 0
  BY FS_EmptySet
<1> QED BY <1>2, <1>3, <1>4, <1>5, <1>6

(* A length within the magic, all row groups and a footer is a Length. *)
LEMMA LengthsBound ==
  ASSUME NEW n \in Nat, n <= 2 + MaxRowGroups * RowGroupItems
  PROVE  n \in Lengths
<1>1. MaxRowGroups \in Nat /\ Cardinality(Cols) \in Nat
  BY WriterAssumption, FS_CardinalityType
<1>2. MaxRowGroups * RowGroupItems = 2 * MaxRowGroups * Cardinality(Cols)
  BY <1>1 DEF RowGroupItems
<1>3. 2 * MaxRowGroups * Cardinality(Cols) \in Nat
  BY <1>1
<1> QED BY <1>2, <1>3 DEF Lengths

(* An empty file fits. *)
LEMMA ZeroFits == 0 \in Lengths
<1>1. 0 <= 2 + MaxRowGroups * RowGroupItems
  BY WriterAssumption, FS_CardinalityType DEF RowGroupItems
<1> QED BY <1>1, LengthsBound

(* What a writer has written fits. *)
LEMMA OffsetFits ==
  ASSUME IndInv, WriterFits, phase # "idle"
  PROVE  offset \in Nat /\ offset \in Lengths
<1> DEFINE n == Len(meta)
           W == RowGroupItems
           k == Cardinality(DOMAIN colMeta)
<1>1. colMeta \in Metas /\ n \in Nat /\ MaxRowGroups \in Nat
  BY WriterAssumption, LenProperties DEF IndInv, Typed
<1>2. offset \in Nat
  BY WritersFile, LenProperties DEF IndInv, Layout
<1>3. /\ W \in Nat /\ n * W \in Nat /\ W = 2 * Cardinality(Cols) /\ Cardinality(Cols) \in Nat
      /\ k \in Nat /\ k <= Cardinality(Cols) /\ (DOMAIN colMeta = {} => k = 0)
      /\ (n + 1) * W = n * W + W
      /\ n <= MaxRowGroups => n * W <= MaxRowGroups * W
  BY <1>1, Counts
<1>4. (n + 1 <= MaxRowGroups => (n + 1) * W <= MaxRowGroups * W) /\ MaxRowGroups * W \in Nat
  <2>1. MaxRowGroups * W \in Nat
    BY <1>1, Counts
  <2>2. n + 1 \in Nat
    BY <1>1
  <2>3. \A k1 \in Nat : n + 1 <= k1 => (n + 1) * W <= k1 * W
    BY <1>1, <2>2, Counts
  <2> QED BY <1>1, <2>1, <2>3
<1>5. /\ n <= MaxRowGroups /\ (rgOpen => phase = "open" /\ n < MaxRowGroups)
      /\ (~rgOpen => DOMAIN colMeta = {})
      /\ offset <= (IF phase = "open" THEN 1 ELSE 2) + n * W + 2 * k
  BY DEF WriterFits, SizeBound
<1> HIDE DEF n, W, k
<1>6. CASE rgOpen
  <2>1. offset <= 1 + n * W + 2 * k /\ n + 1 <= MaxRowGroups
    BY <1>1, <1>5, <1>6
  <2>2. n * W + W <= MaxRowGroups * W
    BY <1>3, <1>4, <2>1
  <2> DEFINE a == n * W
             b == MaxRowGroups * W
  <2>3. a \in Nat /\ b \in Nat /\ a + W <= b /\ offset <= 1 + a + 2 * k
    BY <1>3, <1>4, <2>1, <2>2
  <2> HIDE DEF a, b
  <2>4. offset <= 2 + b
    BY <1>2, <1>3, <2>3
  <2> QED BY <1>2, <2>4, LengthsBound DEF W, b
<1>7. CASE ~rgOpen
  <2>1. k = 0 /\ n <= MaxRowGroups
    BY <1>3, <1>5, <1>7
  <2>2. offset <= 2 + n * W
    BY <1>2, <1>3, <1>5, <2>1
  <2>3. offset <= 2 + MaxRowGroups * W
    BY <1>1, <1>2, <1>3, <1>4, <2>1, <2>2
  <2> QED BY <1>2, <2>3, LengthsBound DEF W
<1> QED BY <1>6, <1>7

(* No step makes a file longer than the row groups of one run allow, or    *)
(* counts more of it as synced than there is.                              *)
LEMMA FilesFitStep == ASSUME IndInv, FilesFit, WriterFits, Next PROVE FilesFit'
<1> USE DEF IndInv
<1>1. content \in [Files -> Seq(Items)] /\ synced \in [Files -> Nat]
  BY DEF Typed
<1>2. CASE UNCHANGED <<content, synced>>
  BY <1>2 DEF FilesFit
<1>3. CASE NewWriter
  <2>1. Len(<<>>) = 0 /\ 0 \in Lengths
    BY ZeroFits
  <2>2. \A i \in Files : \/ content'[i] = <<>> /\ synced'[i] = 0
                         \/ content'[i] = content[i] /\ synced'[i] = synced[i]
    BY <1>1, <1>3 DEF NewWriter
  <2> QED BY <2>1, <2>2 DEF FilesFit
<1>4. CASE Spill \/ Flush
  <2>1. phase # "idle" /\ synced' = synced /\ content' = [content EXCEPT ![inode] = @ \o buf]
    BY <1>4 DEF Spill, Flush
  <2>2. inode \in Files /\ content[inode] \in Seq(Items) /\ buf \in Seq(Items)
    BY <2>1, WritersFile DEF Typed
  <2>3. content'[inode] = File /\ \A i \in Files : i # inode => content'[i] = content[i]
    BY <1>1, <2>1, <2>2 DEF File
  <2>4. Len(File) \in Lengths
    BY <2>1, OffsetFits DEF Layout
  <2>5. synced[inode] <= Len(File)
    <3>1. Len(File) = Len(content[inode]) + Len(buf)
      BY <2>2, ConcatProperties DEF File
    <3>2. Len(content[inode]) \in Nat /\ Len(buf) \in Nat /\ synced[inode] \in Nat
      BY <1>1, <2>2, LenProperties
    <3>3. synced[inode] <= Len(content[inode])
      BY <2>2 DEF FilesFit
    <3> QED BY <3>1, <3>2, <3>3
  <2> QED BY <2>1, <2>3, <2>4, <2>5 DEF FilesFit
<1>5. CASE Sync
  <2>1. content' = content /\ synced' = [synced EXCEPT ![inode] = Len(content[inode])]
    BY <1>5 DEF Sync, SyncedLength
  <2>2. \A i \in Files : Len(content[i]) \in Nat
    BY <1>1, LenProperties
  <2>3. \A i \in Files : synced'[i] = Len(content[i]) \/ synced'[i] = synced[i]
    BY <1>1, <2>1
  <2> QED BY <2>1, <2>2, <2>3 DEF FilesFit
<1>6. CASE Crash
  <2>1. PICK cut \in [Files -> Lengths] :
          /\ \A i \in Files : cut[i] \in synced[i] .. Len(content[i])
          /\ content' = [i \in Files |-> SubSeq(content[i], 1, cut[i])]
          /\ synced' = cut
    BY <1>6 DEF Crash
  <2> SUFFICES ASSUME NEW i \in Files
               PROVE  synced'[i] <= Len(content'[i]) /\ Len(content'[i]) \in Lengths
    BY DEF FilesFit
  <2>2. content[i] \in Seq(Items) /\ Len(content[i]) \in Nat /\ synced[i] \in Nat
    BY <1>1, LenProperties
  <2>3. cut[i] \in Nat /\ cut[i] <= Len(content[i])
    BY <2>1, <2>2
  <2>4. \A j \in 1 .. cut[i] : content[i][j] \in Items
    BY <2>2, <2>3, ElementOfSeq
  <2>5. Len(SubSeq(content[i], 1, cut[i])) = cut[i]
    BY <2>2, <2>3, <2>4, SubSeqProperties
  <2>6. content'[i] = SubSeq(content[i], 1, cut[i]) /\ synced'[i] = cut[i] /\ cut[i] \in Lengths
    BY <2>1
  <2> QED BY <2>3, <2>5, <2>6
<1>7. Spill \/ Flush \/ Sync \/ Crash \/ NewWriter \/ UNCHANGED <<content, synced>>
  BY DEF Next, BeginRowGroup, AppendColumn, EndRowGroup, WriteFooter, CloseFile, Rename, Abort,
         WriterStops, disk
<1> QED BY <1>2, <1>3, <1>4, <1>5, <1>6, <1>7

(* The bound grows with what is written. *)
LEMMA WriterFitsStep == ASSUME IndInv, WriterFits, Next PROVE WriterFits'
<1> USE DEF IndInv
<1> DEFINE n == Len(meta)
           W == RowGroupItems
           k == Cardinality(DOMAIN colMeta)
<1>1. colMeta \in Metas /\ meta \in Seq(Metas) /\ n \in Nat /\ MaxRowGroups \in Nat
  BY WriterAssumption, LenProperties DEF Typed
<1>2. W \in Nat /\ n * W \in Nat /\ k \in Nat /\ (DOMAIN colMeta = {} => k = 0)
  BY <1>1, Counts
<1>3. Len(<<>>) = 0 /\ DOMAIN <<>> = {} /\ Cardinality({}) = 0 /\ 0 * W = 0
  BY <1>2, FS_EmptySet
<1>4. phase # "idle" => offset \in Nat
  BY WritersFile, LenProperties DEF Layout
<1>5. CASE NewWriter
  <2>1. phase' = "open" /\ meta' = <<>> /\ colMeta' = <<>> /\ offset' = 1 /\ rgOpen' = FALSE
    BY <1>5 DEF NewWriter
  <2>2. SizeBound' = 1 + 0 * W + 2 * 0
    BY <1>3, <2>1 DEF SizeBound
  <2> QED BY <1>1, <1>3, <2>1, <2>2 DEF WriterFits
<1>6. CASE WriterGone
  BY <1>6 DEF WriterGone, WriterFits
<1>7. CASE BeginRowGroup
  <2>1. /\ phase = "open" /\ phase' = phase /\ meta' = meta /\ colMeta' = <<>> /\ offset' = offset
        /\ rgOpen' = TRUE /\ ~rgOpen /\ n < MaxRowGroups
    BY <1>7 DEF BeginRowGroup
  <2>2. DOMAIN colMeta = {} /\ k = 0
    BY <1>2, <2>1 DEF WriterFits
  <2>3. SizeBound' = SizeBound
    BY <1>3, <2>1, <2>2 DEF SizeBound
  <2> QED BY <2>1, <2>3 DEF WriterFits
<1>8. ASSUME NEW c \in Cols, AppendColumn(c) PROVE WriterFits'
  <2>1. /\ phase = "open" /\ phase' = phase /\ meta' = meta /\ offset' = offset + Len(Section(c))
        /\ rgOpen /\ rgOpen' = rgOpen /\ c \notin DOMAIN colMeta
        /\ DOMAIN colMeta' = DOMAIN colMeta \cup {c}
    BY <1>8 DEF AppendColumn, OffsetAfter
  <2>2. Cardinality(DOMAIN colMeta') = k + 1
    BY <1>1, <2>1, Counts, FS_AddElement
  <2>3. Len(Section(c)) \in {1, 2}
    BY SectionItems
  <2>4. SizeBound = 1 + n * W + 2 * k /\ SizeBound' = 1 + n * W + 2 * (k + 1)
    BY <2>1, <2>2 DEF SizeBound
  <2>5. offset <= SizeBound
    BY <2>1 DEF WriterFits
  <2> HIDE DEF n, W, k
  <2> DEFINE a == n * W
  <2>6. a \in Nat /\ SizeBound = 1 + a + 2 * k /\ SizeBound' = 1 + a + 2 * (k + 1)
        /\ offset \in Nat /\ k \in Nat
    BY <1>2, <1>4, <2>1, <2>4
  <2> HIDE DEF a
  <2>7. offset + Len(Section(c)) <= SizeBound'
    <3>1. \A o, x, y \in Nat, l \in {1, 2} : o <= 1 + x + 2 * y => o + l <= 1 + x + 2 * (y + 1)
      OBVIOUS
    <3>2. offset <= 1 + a + 2 * k
      BY ONLY <2>5, <2>6
    <3>3. offset + Len(Section(c)) <= 1 + a + 2 * (k + 1)
      BY ONLY <2>3, <2>6, <3>1, <3>2
    <3> QED BY ONLY <2>6, <3>3
  <2> QED BY <2>1, <2>7 DEF WriterFits, n
<1>9. CASE EndRowGroup
  <2>1. /\ phase = "open" /\ phase' = phase /\ meta' = Append(meta, colMeta) /\ offset' = offset
        /\ rgOpen /\ rgOpen' = FALSE /\ DOMAIN colMeta = Cols /\ colMeta' = <<>>
    BY <1>9 DEF EndRowGroup, AllColumnsWritten
  <2>2. Len(meta') = n + 1 /\ n + 1 <= MaxRowGroups
    <3>1. n < MaxRowGroups
      BY <2>1 DEF WriterFits
    <3> QED BY <1>1, <2>1, <3>1, AppendProperties
  <2>3. offset <= 1 + n * W + 2 * k
    BY <2>1 DEF WriterFits, SizeBound
  <2>4. SizeBound' = 1 + (n + 1) * W + 2 * 0
    BY <1>3, <2>1, <2>2 DEF SizeBound
  <2>5. (n + 1) * W = n * W + W /\ W = 2 * k
    BY <1>1, <2>1, Counts
  <2> HIDE DEF n, W, k
  <2>6. offset <= SizeBound'
    BY <1>2, <1>4, <2>1, <2>3, <2>4, <2>5
  <2> QED BY <1>3, <2>1, <2>2, <2>6 DEF WriterFits
<1>10. CASE WriteFooter
  <2>1. /\ phase = "open" /\ phase' = "flush" /\ meta' = meta /\ colMeta' = colMeta
        /\ offset' = offset + 1 /\ ~rgOpen /\ rgOpen' = rgOpen
    BY <1>10 DEF WriteFooter
  <2>2. offset <= 1 + n * W + 2 * k /\ SizeBound' = 2 + n * W + 2 * k
    BY <2>1 DEF WriterFits, SizeBound
  <2> HIDE DEF n, W, k
  <2>3. offset + 1 <= SizeBound'
    BY <1>2, <1>4, <2>1, <2>2
  <2> QED BY <2>1, <2>3 DEF WriterFits
<1>11. CASE Spill \/ Flush \/ Sync \/ CloseFile
  <2>1. /\ phase # "idle" /\ phase' # "idle" /\ (phase' = "open" <=> phase = "open")
        /\ meta' = meta /\ colMeta' = colMeta /\ offset' = offset /\ rgOpen' = rgOpen
    BY <1>11 DEF Spill, Flush, Sync, CloseFile, writer
  <2>2. SizeBound' = SizeBound
    BY <2>1 DEF SizeBound
  <2> QED BY <2>1, <2>2 DEF WriterFits
<1>12. Rename \/ Abort \/ WriterStops \/ Crash => WriterGone
  BY DEF Rename, Abort, WriterStops, Crash
<1> QED BY <1>5, <1>6, <1>7, <1>8, <1>9, <1>10, <1>11, <1>12 DEF Next

(* The metadata of a placed row group is within the file. *)
LEMMA PlacedMeta ==
  ASSUME IndInv, WriterFits, phase # "idle", NEW m \in Metas, NEW g, Placed(File, runs, g, m)
  PROVE  IsMeta(m)
<1>1. PICK D \in SUBSET Cols : m \in [D -> [section : Nat, dict : {0, 1}]]
  BY DEF Metas
<1>2. offset \in Nat /\ offset \in Lengths /\ offset = Len(File)
  BY OffsetFits DEF IndInv, Layout
<1>3. ASSUME NEW c \in D PROVE m[c].section \in Lengths
  <2>1. m[c].section \in Nat /\ m[c].dict \in {0, 1}
    BY <1>1
  <2>2. m[c].section + m[c].dict < Len(File)
    BY <1>1 DEF Placed
  <2>3. m[c].section <= offset
    BY <1>2, <2>1, <2>2
  <2>4. 2 * MaxRowGroups * Cardinality(Cols) \in Nat
    BY WriterAssumption, FS_CardinalityType
  <2> HIDE DEF IndInv
  <2> QED BY <1>2, <2>1, <2>3, <2>4 DEF Lengths
<1>4. m \in [D -> [section : Lengths, dict : {0, 1}]] /\ DOMAIN m = D
  BY <1>1, <1>3
<1> QED BY <1>4 DEF IsMeta

(***************************************************************************)
(* storage/writer.go: every variable keeps its type, no file outgrows its  *)
(* magic, sections and footer, and no more of a file counts as synced than *)
(* was written.                                                            *)
(***************************************************************************)
THEOREM TypeCorrect == Spec => []TypeOK
<1>1. Init => Sizes
  <2> SUFFICES ASSUME Init PROVE Sizes
    OBVIOUS
  <2>2. FilesFit
    BY ZeroFits DEF Init, FilesFit
  <2>3. WriterFits /\ rgOpen \in BOOLEAN
    BY DEF Init, WriterFits
  <2> QED BY <2>2, <2>3 DEF Sizes
<1>2. ASSUME IndInv, FilesFit, WriterFits, UNCHANGED vars PROVE FilesFit' /\ WriterFits'
  <2>1. SizeBound' = SizeBound
    BY <1>2 DEF vars, writer, SizeBound
  <2> QED BY <1>2, <2>1 DEF vars, writer, disk, FilesFit, WriterFits
<1>3. rgOpen \in BOOLEAN /\ [Next]_vars => rgOpen' \in BOOLEAN
  BY Zenon DEF Next, vars, writer, disk, NewWriter, BeginRowGroup, AppendColumn, EndRowGroup, Spill,
         WriteFooter, Flush, Sync, CloseFile, Rename, Abort, WriterStops, Crash, WriterGone
<1>4. IndInv /\ Sizes /\ [Next]_vars => Sizes'
  <2>1. IndInv /\ FilesFit /\ WriterFits /\ [Next]_vars => FilesFit' /\ WriterFits'
    BY <1>2, FilesFitStep, WriterFitsStep
  <2> QED BY <1>3, <2>1, Zenon DEF Sizes
<1>5. ASSUME IndInv, Sizes PROVE TypeOK
  <2> USE <1>5 DEF IndInv
  <2>0. FilesFit /\ WriterFits /\ rgOpen \in BOOLEAN
    BY Zenon DEF Sizes
  <2> USE <2>0
  <2>1. offset \in Lengths /\ inode \in Files \cup {NoFile} /\ IsMeta(colMeta)
        /\ Len(meta) \in 0 .. MaxRowGroups /\ \A g \in DOMAIN meta : IsMeta(meta[g])
    <3>1. CASE phase = "idle"
      <4>1. inode = NoFile /\ offset = 0 /\ colMeta = <<>> /\ meta = <<>>
        BY <3>1 DEF WriterFits
      <4>3. IsMeta(<<>>)
        BY DEF IsMeta
      <4> QED BY <4>1, <4>3, ZeroFits, WriterAssumption
    <3>2. CASE phase # "idle"
      <4>1. Len(meta) \in 0 .. MaxRowGroups /\ DOMAIN meta = 1 .. Len(meta)
        BY <3>2, WriterAssumption, LenProperties DEF WriterFits, Typed
      <4>2. IsMeta(colMeta)
        BY <3>2, PlacedMeta DEF Layout, Typed
      <4>3. ASSUME NEW g \in DOMAIN meta PROVE IsMeta(meta[g])
        <5>1. meta[g] \in Metas
          BY <4>1, ElementOfSeq DEF Typed
        <5>2. Placed(File, runs, g, meta[g])
          BY <3>2, DescribedIsPlaced DEF Layout
        <5> QED BY <3>2, <5>1, <5>2, PlacedMeta
      <4> QED BY <3>2, <4>1, <4>2, <4>3, OffsetFits, WritersFile
    <3> QED BY <3>1, <3>2
  <2>2. synced \in [Files -> Lengths]
    <3>1. \A i \in Files : synced[i] \in Nat /\ synced[i] <= Len(content[i]) /\ Len(content[i]) \in Lengths
      BY DEF FilesFit, Typed
    <3>2. 2 * MaxRowGroups * Cardinality(Cols) \in Nat
      BY WriterAssumption, FS_CardinalityType
    <3>3. \A i \in Files : synced[i] \in Lengths
      BY <3>1, <3>2 DEF Lengths
    <3> QED BY <3>3 DEF Typed
  <2>3. dir \in [path : Files \cup {NoFile}, tmp : Files \cup {NoFile}]
    <3>1. \A i \in 0 .. runs : i \in Files \cup {NoFile}
      BY WriterAssumption DEF Typed, Files, NoFile
    <3> QED BY <3>1 DEF Typed
  <2> QED BY <2>1, <2>2, <2>3 DEF TypeOK, Typed, FilesFit
<1> QED BY <1>1, <1>4, <1>5, Invariance, PTL DEF Spec
=============================================================================
