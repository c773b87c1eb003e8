----------------------------- MODULE FileSystem -----------------------------
(***************************************************************************)
(* The file server: the request loop of virtio_blk_driver, the ext2 layer  *)
(* of kernel_common it is written on, and the audit ring that shares its   *)
(* disk.  One block write is one atomic step, and the power may fail       *)
(* between any two of them; the next boot formats a disk it does not       *)
(* recognise, appends one audit record and serves requests again.          *)
(*                                                                         *)
(* The driver is the only process that touches the disk and it handles one *)
(* request at a time, so a request is the list of block writes it leads    *)
(* to (todo), computed from the disk it started on; reads of the driver's  *)
(* own pending writes are accounted for in the operators below.  An inode  *)
(* is an address of its own: a table block is always re-read, changed in   *)
(* one entry and written back.  All names have one length, so a directory  *)
(* block is an array of slots of which a new entry takes the first free    *)
(* one.  A block holds BlockSize cells.                                    *)
(***************************************************************************)
EXTENDS Integers, Sequences, FiniteSets, SequencesExt

CONSTANTS
    TotalBlocks,    \* TOTAL_BLOCKS, 64 in the code
    NumInodes,      \* NUM_INODES, 32 in the code
    BlockSize,      \* BLOCK_SIZE in cells
    NDirect,        \* direct blocks of an inode, 12 in the code
    DirSlots,       \* entries that fit a directory block, "." and ".." excluded
    ReadMax,        \* MAX_FILE_BYTES in cells: what one read reply carries
    RingSlots,      \* RING_SLOTS, 4 in the code
    DirNames, FileNames,  \* names clients give to directories and to files
    Values,         \* what clients write
    Extents,        \* where they write and how much: <<offset, length>>
    MaxEvents       \* bound: boots, and requests that change the disk

RootInode == 2
FileInode == 11
RootData == 9
FileData == 10
AuditHeader == TotalBlocks
AuditRecord(slot) == TotalBlocks + 1 + slot

ASSUME Layout ==
    /\ TotalBlocks > FileData /\ NumInodes > FileInode
    /\ BlockSize > 0 /\ NDirect > 0 /\ DirSlots > 0 /\ RingSlots > 0
    /\ DirNames \cap FileNames = {}

Blk(n) == <<"blk", n>>
Ino(i) == <<"ino", i>>
SB == Blk(1)
GD == Blk(2)
BBM == Blk(3)
IBM == Blk(4)
DataBlocks == RootData..(TotalBlocks + RingSlots)
Inodes == {RootInode} \cup FileInode..NumInodes
Addr == {SB, GD, BBM, IBM} \cup {Blk(n) : n \in DataBlocks}
          \cup {Ino(i) : i \in Inodes}

(* Contents.  "junk" is a cell nobody wrote: uninitialised memory of the   *)
(* driver, or bytes of whatever the block held before.                     *)
Undefined == [k \in 0..BlockSize - 1 |-> "junk"]
Data(cells) == [kind |-> "data", cell |-> cells]
NoEnt == [ino |-> 0, ft |-> "none", name |-> "none"]
Dir(ents) == [kind |-> "dir", ent |-> ents]
EmptyDir == Dir([s \in 1..DirSlots |-> NoEnt])
Header(n, t) == [kind |-> "header", next |-> n, total |-> t]
Zero == [kind |-> "zero"]
NoBlocks == [k \in 0..NDirect - 1 |-> 0]
Inode(m, s, l, b) == [mode |-> m, size |-> s, links |-> l, blocks |-> b]

ZeroDisk == [a \in Addr |->
    IF a = SB THEN [formatted |-> FALSE, blocks |-> 0, inodes |-> 0]
    ELSE IF a = GD THEN [blocks |-> 0, inodes |-> 0, dirs |-> 0]
    ELSE IF a \in {BBM, IBM} THEN {}
    ELSE IF a[1] = "ino" THEN Inode("none", 0, 0, NoBlocks)
    ELSE Zero]

VARIABLES
    disk,   \* what the disk holds, by address
    todo,   \* block writes the driver still has to issue, in order
    pc,     \* "off", "format", "audit", "serve" or "panic"
    files,  \* ghost: what clients were told exists, and what they wrote there
    hurt,   \* ghost: events after which less is promised about files
    asked,  \* ghost: the paths the request in hand is about
    cut,    \* ghost: the paths of requests that power losses cut short
    events  \* counter for the bound

vars == <<disk, todo, pc, files, hurt, asked, cut, events>>
-----------------------------------------------------------------------------
(* ext2: allocation, directories, paths.                                   *)

AllocBlock(used) ==
    LET free == {b \in FileData + 1..TotalBlocks : b \notin used}
    IN IF free = {} THEN 0 ELSE CHOOSE b \in free : \A c \in free : b <= c

AllocInode(used) ==
    LET free == {i \in FileInode + 1..NumInodes : i \notin used}
    IN IF free = {} THEN 0 ELSE CHOOSE i \in free : \A j \in free : i <= j

FirstSlot(hits) == IF hits = {} THEN 0 ELSE CHOOSE s \in hits : \A t \in hits : s <= t

DirSlotsOf(c) == IF c.kind = "dir" THEN 1..DirSlots ELSE {}
SlotOf(c, name) ==
    FirstSlot({s \in DirSlotsOf(c) : c.ent[s].ino # 0 /\ c.ent[s].name = name})
FreeSlot(c) == FirstSlot({s \in DirSlotsOf(c) : c.ent[s].ino = 0})
PutEntry(c, s, e) == [c EXCEPT !.ent[s] = e]

DirBlock(d, i) == d[Ino(i)].blocks[0]

FindEntry(d, dir, name) ==
    LET b == DirBlock(d, dir)
        s == IF b = 0 THEN 0 ELSE SlotOf(d[Blk(b)], name)
    IN IF s = 0 THEN NoEnt ELSE d[Blk(b)].ent[s]

ResolvePath(d, path) ==
    FoldLeft(LAMBDA e, name : IF e.ft = "dir" THEN FindEntry(d, e.ino, name) ELSE NoEnt,
             [ino |-> RootInode, ft |-> "dir", name |-> "/"], path)

Max0(n) == IF n < 0 THEN 0 ELSE n
\* update_alloc_counts, then the group descriptor and the superblock.
CountWrites(d, db, di, dd) ==
    << <<GD, [blocks |-> Max0(d[GD].blocks + db), inodes |-> Max0(d[GD].inodes + di),
              dirs |-> Max0(d[GD].dirs + dd)]>>,
       <<SB, [d[SB] EXCEPT !.blocks = Max0(@ + db), !.inodes = Max0(@ + di)]>> >>

Apply(d, ws) == FoldLeft(LAMBDA e, w : [e EXCEPT ![w[1]] = w[2]], d, ws)
-----------------------------------------------------------------------------
(* The writes of the boot sequence.                                        *)

Greeting == <<"greeting">>

FormatBody ==
    << <<GD, [blocks |-> TotalBlocks - (FileData + 1), inodes |-> NumInodes - FileInode,
              dirs |-> 1]>>,
       <<BBM, 1..FileData>>,
       <<IBM, 1..FileInode>>,
       <<Ino(RootInode), Inode("dir", BlockSize, 2, [NoBlocks EXCEPT ![0] = RootData])>>,
       <<Ino(FileInode), Inode("file", 1, 1, [NoBlocks EXCEPT ![0] = FileData])>> >>
    \o [k \in 1..NumInodes - FileInode |->
          <<Ino(FileInode + k), Inode("none", 0, 0, NoBlocks)>>]
    \o << <<Blk(RootData), PutEntry(EmptyDir, 1,
              [ino |-> FileInode, ft |-> "file", name |-> "greeting"])>>,
          <<Blk(FileData), Data([k \in 0..BlockSize - 1 |->
              IF k = 0 THEN "greeting" ELSE "junk"])>> >>

FormatSuper ==
    << <<SB, [formatted |-> TRUE, blocks |-> TotalBlocks - (FileData + 1),
              inodes |-> NumInodes - FileInode]>> >>

\* Mutant: the order the code had before its fix, the superblock first.
FormatWrites_SuperFirst == FormatSuper \o FormatBody

\* Format: everything else first, the superblock last.
FormatWrites == FormatBody \o FormatSuper

AuditHead(d) ==
    IF d[Blk(AuditHeader)].kind = "header" THEN d[Blk(AuditHeader)] ELSE Header(0, 0)

NextSlot(n) == (n + 1) % RingSlots

AuditRecordWrite(h) == << <<Blk(AuditRecord(h.next)), [kind |-> "record", seq |-> h.total]>> >>
AuditHeaderWrite(h) == << <<Blk(AuditHeader), Header(NextSlot(h.next), h.total + 1)>> >>

\* One record per boot, then the header that accounts for it.
AuditWrites(d) == AuditRecordWrite(AuditHead(d)) \o AuditHeaderWrite(AuditHead(d))
-----------------------------------------------------------------------------
(* The writes of a request.  A request that fails on its arguments or for  *)
(* want of room leads to none, or only to a block nobody refers to.        *)

Content(d, b) == IF b = 0 THEN Zero ELSE d[Blk(b)]
Cells(c) == IF c.kind = "data" THEN c.cell ELSE Undefined

\* FS_OP_MKDIR and FS_OP_CREATE.  The block of a new file is written from an
\* uninitialised buffer.
NewWrites(d, path, ft) ==
    LET p == ResolvePath(d, Front(path)).ino
        b == AllocBlock(d[BBM])
        i == AllocInode(d[IBM])
        new == <<Blk(b), IF ft = "dir" THEN EmptyDir ELSE Data(Undefined)>>
        e == Apply(d, <<new>>)
        pb == DirBlock(e, p)
        slot == FreeSlot(Content(e, pb))
        entry == <<Blk(pb), PutEntry(e[Blk(pb)], slot,
                     [ino |-> i, ft |-> ft, name |-> Last(path)])>>
        linked == <<Ino(p), [e[Ino(p)] EXCEPT !.links = @ + 1]>>
        inode == <<Ino(i), IF ft = "dir"
                     THEN Inode("dir", BlockSize, 2, [NoBlocks EXCEPT ![0] = b])
                     ELSE Inode("file", 0, 1, [NoBlocks EXCEPT ![0] = b])>>
    IN IF p = 0 \/ b = 0 \/ i = 0 THEN <<>>
       ELSE IF slot = 0 THEN <<new>>
       ELSE <<new, entry>> \o (IF ft = "dir" THEN <<linked>> ELSE <<>>)
            \o <<inode, <<BBM, d[BBM] \cup {b}>>, <<IBM, d[IBM] \cup {i}>> >>
            \o CountWrites(d, -1, -1, IF ft = "dir" THEN 1 ELSE 0)

HeldBlocks(d, t) == {k \in 0..NDirect - 1 : d[Ino(t)].blocks[k] # 0}

\* Mutant: the counts give back one block however many the file held.
FreedBlocks_One(d, t) == 1

FreedBlocks(d, t) == Cardinality(HeldBlocks(d, t))

\* FS_OP_UNLINK: files and directories alike, empty or not.
UnlinkWrites(d, path) ==
    LET p == ResolvePath(d, Front(path)).ino
        pb == DirBlock(d, p)
        slot == SlotOf(Content(d, pb), Last(path))
        t == d[Blk(pb)].ent[slot].ino
    IN IF p = 0 \/ slot = 0 THEN <<>>
       ELSE << <<Blk(pb), PutEntry(d[Blk(pb)], slot, NoEnt)>>,
               <<BBM, d[BBM] \ {d[Ino(t)].blocks[k] : k \in HeldBlocks(d, t)}>>,
               <<IBM, d[IBM] \ {t}>> >>
            \o CountWrites(d, FreedBlocks(d, t), 1,
                           IF d[Ino(t)].mode = "dir" THEN -1 ELSE 0)

\* Mutant: a chunk that starts a block is taken to fill it.
Partial_StartOnly(at, n) == at # 0

Partial(at, n) == at # 0 \/ n < BlockSize

\* One turn of the write loop: find or allocate the block under the cursor,
\* read it unless it is overwritten whole, and write the chunk.
WriteChunk(d, off, len, v, s) ==
    LET cur == off + s.written
        k == cur \div BlockSize
        at == cur % BlockSize
        n == IF BlockSize - at < len - s.written THEN BlockSize - at ELSE len - s.written
        e == Apply(d, s.ws)
        new == AllocBlock(e[BBM])
        b == IF s.blocks[k] = 0 THEN new ELSE s.blocks[k]
        alloc == IF s.blocks[k] = 0
                 THEN << <<BBM, e[BBM] \cup {new}>> >> \o CountWrites(e, -1, 0, 0)
                 ELSE <<>>
        old == IF Partial(at, n) THEN Cells(e[Blk(b)]) ELSE Undefined
        chunk == <<Blk(b), Data([j \in 0..BlockSize - 1 |->
                     IF j \in at..(at + n - 1) THEN v ELSE old[j]])>>
    IN IF s.stop \/ s.written >= len THEN s
       ELSE IF k >= NDirect \/ (s.blocks[k] = 0 /\ new = 0) THEN [s EXCEPT !.stop = TRUE]
       ELSE [s EXCEPT !.blocks[k] = b, !.written = @ + n,
                      !.ws = @ \o alloc \o <<chunk>>]

Written(d, i, off, len, v) ==
    FoldLeft(LAMBDA s, turn : WriteChunk(d, off, len, v, s),
             [ws |-> <<>>, blocks |-> d[Ino(i)].blocks, written |-> 0, stop |-> FALSE],
             [t \in 1..len |-> t])

NewSize(d, i, off, w) ==
    IF off + w.written > d[Ino(i)].size THEN off + w.written ELSE d[Ino(i)].size
NumBlocks(size) == (size + BlockSize - 1) \div BlockSize

WriteWrites(d, i, off, w) ==
    LET size == NewSize(d, i, off, w)
    IN w.ws \o << <<Ino(i), Inode(d[Ino(i)].mode, size, d[Ino(i)].links,
                     [k \in 0..NDirect - 1 |-> IF k < NumBlocks(size) THEN w.blocks[k] ELSE 0])>> >>

\* A read reply: the cells of the file, a hole showing uninitialised memory.
ReadFile(d, i) ==
    [c \in 0..(IF d[Ino(i)].size < ReadMax THEN d[Ino(i)].size ELSE ReadMax) - 1 |->
       LET b == d[Ino(i)].blocks[c \div BlockSize]
       IN IF b = 0 THEN "junk" ELSE Cells(d[Blk(b)])[c % BlockSize]]
-----------------------------------------------------------------------------
(* The driver's life: boot, format, audit, serve.                          *)

Capacity == NDirect * BlockSize
Nothing == [c \in 0..Capacity - 1 |-> "none"]
Paths == {<<n>> : n \in DirNames \cup FileNames}
           \cup {<<n, m>> : n \in DirNames, m \in DirNames \cup FileNames}

Init ==
    /\ disk = ZeroDisk
    /\ todo = <<>>
    /\ pc = "off"
    /\ files = [p \in {} |-> Nothing]
    /\ hurt = {}
    /\ asked = {} /\ cut = {}
    /\ events = 0

Boot ==
    /\ pc = "off"
    /\ events < MaxEvents
    /\ events' = events + 1
    /\ IF disk[SB].formatted
       THEN /\ pc' = "audit"
            /\ todo' = AuditWrites(disk)
            /\ files' = files
       ELSE /\ pc' = "format"
            /\ todo' = FormatWrites
            /\ files' = [p \in {Greeting} |-> [Nothing EXCEPT ![0] = "greeting"]]
    /\ UNCHANGED <<disk, hurt, asked, cut>>

FormatDone ==
    /\ pc = "format"
    /\ todo = <<>>
    /\ pc' = "audit"
    /\ todo' = AuditWrites(disk)
    /\ UNCHANGED <<disk, files, hurt, asked, cut, events>>

AuditDone ==
    /\ pc = "audit"
    /\ todo = <<>>
    /\ pc' = "serve"
    /\ UNCHANGED <<disk, todo, files, hurt, asked, cut, events>>

\* ext2_write_block: one block reaches the disk.
DiskWrite ==
    /\ todo # <<>>
    /\ disk' = Apply(disk, <<Head(todo)>>)
    /\ todo' = Tail(todo)
    /\ asked' = IF todo' = <<>> THEN {} ELSE asked
    /\ UNCHANGED <<pc, files, hurt, cut, events>>

\* submit_and_wait gives up on a stalled device; no caller looks at the status.
WriteTimesOut ==
    /\ todo # <<>>
    /\ "io" \notin hurt
    /\ todo' = Tail(todo)
    /\ asked' = IF todo' = <<>> THEN {} ELSE asked
    /\ hurt' = hurt \cup {"io"}
    /\ UNCHANGED <<disk, pc, files, cut, events>>

PowerLoss ==
    /\ pc # "off"
    /\ events < MaxEvents
    /\ pc' = "off"
    /\ todo' = <<>>
    /\ hurt' = IF pc = "serve" /\ todo # <<>> THEN hurt \cup {"power"} ELSE hurt
    /\ files' = [q \in DOMAIN files \ asked |-> files[q]]
    /\ cut' = cut \cup asked
    /\ asked' = {}
    /\ UNCHANGED <<disk, events>>
-----------------------------------------------------------------------------
(* Requests.  Serve says what the request is about, what the client is     *)
(* told, and the event that voids it, if any; to use a name that a cut     *)
(* request left behind is such an event.                                   *)

Serve(about, ws, told, event) ==
    /\ pc = "serve"
    /\ todo = <<>>
    /\ events < MaxEvents
    /\ todo' = ws
    /\ files' = told
    /\ asked' = IF ws = <<>> THEN {} ELSE about
    /\ hurt' = hurt \cup event
                \cup (IF about \cap cut # {} THEN {"relic"} ELSE {})
                \cup (IF \E n \in 1..Len(ws) : ws[n][1] = BBM /\ TotalBlocks \in ws[n][2]
                      THEN {"spill"} ELSE {})
    /\ events' = IF ws = <<>> THEN events ELSE events + 1
    /\ UNCHANGED <<disk, pc, cut>>

Exists(path) == path \in DOMAIN files
Below(path) == {q \in Paths : Len(q) >= Len(path) /\ SubSeq(q, 1, Len(path)) = path}

\* MKDIR and CREATE do not look for the name first: the client does, in an
\* earlier request.
New(path, ft) ==
    LET ws == NewWrites(disk, path, ft)
        made == Len(ws) > 1
    IN Serve(Below(path), ws,
             IF made THEN [q \in DOMAIN files \cup {path} |->
                             IF q = path THEN Nothing ELSE files[q]]
                     ELSE files,
             IF made /\ Exists(path) THEN {"dup"} ELSE {})

Mkdir == \E path \in Paths : Last(path) \in DirNames /\ New(path, "dir")
Create == \E path \in Paths : Last(path) \in FileNames /\ New(path, "file")

Unlink ==
    \E path \in Paths :
        LET ws == UnlinkWrites(disk, path)
        IN Serve(Below(path), ws,
                 IF ws = <<>> THEN files
                 ELSE [q \in DOMAIN files \ Below(path) |-> files[q]],
                 {})

\* Clients write by the inode number an earlier lookup gave them; the file may
\* have been unlinked since.
Write ==
    \E i \in FileInode..NumInodes, e \in Extents, v \in Values :
        LET off == e[1]
            w == Written(disk, i, off, e[2], v)
            mine == {p \in DOMAIN files : ResolvePath(disk, p).ino = i}
        IN /\ disk[Ino(i)].mode = "file"
           /\ NumBlocks(NewSize(disk, i, off, w)) <= NDirect
           /\ Serve(mine, WriteWrites(disk, i, off, w),
                    [p \in DOMAIN files |->
                       IF p \in mine THEN [c \in 0..Capacity - 1 |->
                            IF c \in off..(off + w.written - 1) THEN v ELSE files[p][c]]
                       ELSE files[p]],
                    IF mine = {} THEN {"stale"} ELSE {})

\* A write that starts past the last direct block indexes the block list out
\* of bounds; the panic handler spins for ever.
WritePanics ==
    /\ pc = "serve" /\ todo = <<>> /\ events < MaxEvents
    /\ \E i \in FileInode..NumInodes, e \in Extents, v \in Values :
        /\ disk[Ino(i)].mode = "file"
        /\ NumBlocks(NewSize(disk, i, e[1], Written(disk, i, e[1], e[2], v))) > NDirect
    /\ pc' = "panic"
    /\ UNCHANGED <<disk, todo, files, hurt, asked, cut, events>>

Next ==
    \/ Boot \/ FormatDone \/ AuditDone \/ DiskWrite \/ WriteTimesOut \/ PowerLoss
    \/ Mkdir \/ Create \/ Unlink \/ Write \/ WritePanics

Spec == Init /\ [][Next]_vars
-----------------------------------------------------------------------------
Idle == pc = "serve" /\ todo = <<>>
Live == {RootInode} \cup {ResolvePath(disk, p).ino : p \in DOMAIN files}
BlocksOf(i) == {disk[Ino(i)].blocks[k] : k \in 0..NDirect - 1} \ {0}

\* What power loss leaves can be mounted.  Whenever the superblock says the disk
\* is formatted, everything the mount path relies on is there: the format writes
\* the superblock last, so power lost at any earlier write leaves a disk the next
\* boot formats again, and no later request ever takes the root away.  And the
\* audit ring keeps the latest boots: the record of every boot it counts, back to
\* RingSlots - 1 boots ago, is in its slot; a boot cut short between the record
\* and the header leaves the previous header, which is still right.  (A write the
\* device never completed voids this: its status is not looked at; and so, for
\* the ring, does a file that spills into it.)
Mountable ==
    LET h == disk[Blk(AuditHeader)]
    IN /\ disk[SB].formatted /\ "io" \notin hurt =>
            /\ disk[Ino(RootInode)].mode = "dir"
            /\ DirBlock(disk, RootInode) = RootData
            /\ disk[Blk(RootData)].kind = "dir"
            /\ 1..RootData \subseteq disk[BBM]
            /\ RootInode \in disk[IBM]
       /\ {"io", "spill"} \cap hurt = {} /\ h.kind = "header" =>
            /\ h.next = h.total % RingSlots
            /\ \A q \in Max0(h.total - RingSlots + 1)..h.total - 1 :
                 disk[Blk(AuditRecord(q % RingSlots))] = [kind |-> "record", seq |-> q]

\* Between requests, every path a client was told of resolves to a live inode of
\* its own, no two of them share a block and both bitmaps mark what is in use,
\* also after power was lost in the middle of a request.  The free counts of the
\* superblock and the group descriptor equal the number of free bits, whatever
\* the order of the requests, of writes to unlinked files and of names made twice.
Consistent ==
    /\ Idle /\ hurt \subseteq {"power"} =>
        /\ \A p, q \in DOMAIN files : p # q => ResolvePath(disk, p).ino # ResolvePath(disk, q).ino
        /\ Live \subseteq disk[IBM]
        /\ \A i \in Live : BlocksOf(i) \subseteq disk[BBM]
        /\ \A i, j \in Live : i # j => BlocksOf(i) \cap BlocksOf(j) = {}
    /\ Idle /\ hurt \subseteq {"dup", "stale"} =>
        /\ disk[SB].blocks = Cardinality(FileData..TotalBlocks - 1 \ disk[BBM])
        /\ disk[SB].inodes = Cardinality(FileInode..NumInodes \ disk[IBM])
        /\ disk[GD].blocks = disk[SB].blocks /\ disk[GD].inodes = disk[SB].inodes
        /\ disk[GD].dirs = Cardinality({i \in Inodes \cap disk[IBM] : disk[Ino(i)].mode = "dir"})

\* Between requests the disk shows exactly what clients were told: a path exists
\* if and only if it was created and not unlinked, and a read returns the last
\* value written to every cell that was ever written, across reboots and however
\* blocks and inodes were recycled meanwhile.  A request cut short by a power
\* loss spoils the names it was about and no other file, old or new, as long as
\* nobody uses those names.
ReadsBack ==
    Idle /\ hurt \subseteq {"power"} =>
        \A p \in Paths \ cut :
            LET e == ResolvePath(disk, p)
            IN /\ (e.ino # 0) = (p \in DOMAIN files)
               /\ p \in DOMAIN files =>
                    /\ e.ft = IF Last(p) \in DirNames THEN "dir" ELSE "file"
                    /\ e.ft = "file" => \A c \in 0..ReadMax - 1 :
                         files[p][c] # "none" => /\ c \in DOMAIN ReadFile(disk, e.ino)
                                                 /\ ReadFile(disk, e.ino)[c] = files[p][c]

\* "Ring lives right after the ext2 filesystem's own fixed 64-block footprint --
\* same real disk, a real, separate on-disk region, no overlap": no request
\* overwrites the header of the audit ring.
AuditSeparate ==
    Idle /\ "io" \notin hurt => disk[Blk(AuditHeader)].kind = "header"
=============================================================================
