----------------------------- MODULE BootLoader -----------------------------
(* The UEFI boot loader (boot_rs): prepare_boot loads and checks the       *)
(* kernel, allocates what it hands over, captures the firmware's memory    *)
(* map, ends boot services and builds the first page tables; efi_main then *)
(* jumps to the kernel.  Any error ends in efi_main's endless loop.        *)
(* The firmware is external: its map gives every page a type, has a        *)
(* descriptor per run of pages of one type and a key that changes with it; *)
(* a pool allocation takes a new page or fits into one taken before; and   *)
(* its own events take and return pages at any time until boot services    *)
(* end, between GetMemoryMap and ExitBootServices too.                     *)
EXTENDS Integers, Sequences, FiniteSets

CONSTANTS NPages,       \* pages 0..NPages - 1 are described by the map
          BootMaps,     \* the types of the pages when efi_main starts
          Segments,     \* the PT_LOAD headers, each the set of its pages
          Images,       \* the boot volumes: the page of e_entry, whether
                        \* kernel.sig can be read and whether it agrees
          PoolPages,    \* BOOTSTRAP_POOL_PAGES
          PtPages, PdPages, PdptPages,  \* pages one table of each kind covers
          MaxEvents     \* bound on the firmware's own map changes

BootPages == 0..NPages - 1

ASSUME BootAssumption ==
  /\ NPages \in Nat \ {0} /\ PoolPages \in Nat \ {0}
  /\ Segments \in Seq((SUBSET BootPages) \ {{}})
  /\ \A m \in BootMaps : m \in [BootPages -> {"free", "firmware"}]

VARIABLES step,         \* the step of prepare_boot reached
          fwMap,        \* the firmware's map: the type of every page
          fwKey,        \* its key
          fwEvents,
          services,     \* boot services are up
          contents,     \* what the loader wrote to a page: a segment or tables
          image,        \* the boot volume
          tablePool,    \* pool_phys: the pages reserved for page tables
          poolPages,    \* pages AllocatePool has handed out of
          mapSize,      \* map_size, in descriptors
          infoMap,      \* boot_info.payload.memory_map, <<>> before
          heldKey,      \* map_key
          bootTables           \* the tables the processor uses

bootVars == <<step, fwMap, fwKey, fwEvents, services, contents, image,
              tablePool, poolPages, mapSize, infoMap, heldKey, bootTables>>

Descriptors(m) == Cardinality({p \in BootPages : p = 0 \/ m[p - 1] # m[p]})

KernelPages == UNION {Segments[i] : i \in DOMAIN Segments}
KernelSpan  == {p \in BootPages : \E low, high \in KernelPages : low <= p /\ p <= high}

(* The steps of prepare_boot, in order, and where they may end.            *)
BootScript ==
  <<"root", "phdrs">> \o [i \in DOMAIN Segments |-> "segment"] \o
  <<"verify", "font header", "glyphs", "font", "framebuffer", "boot info", "tables", "probe",
    "allocate", "capture", "exit", "build", "jump", "kernel", "halted">>

Segment == Segments[step - 2]

At(s)   == BootScript[step] = s
Goto(s) == step' = CHOOSE i \in DOMAIN BootScript : BootScript[i] = s

-----------------------------------------------------------------------------

BootInit ==
  /\ step = 1
  /\ fwMap \in BootMaps /\ fwKey = 0 /\ fwEvents = 0 /\ services = TRUE
  /\ contents = [p \in BootPages |-> "none"]
  /\ image \in Images
  /\ tablePool = {} /\ poolPages = {}
  /\ mapSize = 0 /\ infoMap = <<>> /\ heldKey = 0
  /\ bootTables = [identity |-> BootPages, kernel |-> {}]

Takes(pages) ==
  /\ fwMap' = [p \in BootPages |-> IF p \in pages THEN "loader" ELSE fwMap[p]]
  /\ fwKey' = fwKey + 1

(* An event handler of the firmware allocates or frees.                    *)
FirmwareEvent ==
  /\ services /\ fwEvents < MaxEvents
  /\ fwEvents' = fwEvents + 1 /\ fwKey' = fwKey + 1
  /\ \E p \in BootPages :
       \/ fwMap[p] = "free" /\ fwMap' = [fwMap EXCEPT ![p] = "firmware"]
       \/ fwMap[p] = "firmware" /\ fwMap' = [fwMap EXCEPT ![p] = "free"]
  /\ UNCHANGED <<step, services, contents, image, tablePool, poolPages, mapSize, infoMap, heldKey, bootTables>>

(* A call that fails, a malformed header, a short read: efi_main loops.    *)
Fails ==
  /\ services /\ ~At("halted")
  /\ Goto("halted")
  /\ UNCHANGED <<fwMap, fwKey, fwEvents, services, contents, image, tablePool, poolPages,
                 mapSize, infoMap, heldKey, bootTables>>

OpenRoot ==
  /\ At("root") /\ step' = step + 1
  /\ UNCHANGED <<fwMap, fwKey, fwEvents, services, contents, image, tablePool, poolPages,
                 mapSize, infoMap, heldKey, bootTables>>

PoolTaken ==
  \/ \E p \in BootPages : fwMap[p] = "free" /\ Takes({p}) /\ poolPages' = poolPages \union {p}
  \/ poolPages # {} /\ UNCHANGED <<fwMap, fwKey, poolPages>>

AllocatePool ==
  /\ \E s \in {"phdrs", "font header", "glyphs", "font", "framebuffer", "boot info"} : At(s)
  /\ PoolTaken
  /\ step' = step + 1
  /\ UNCHANGED <<fwEvents, services, contents, image, tablePool, mapSize, infoMap, heldKey, bootTables>>

LoadSegment ==
  /\ At("segment")
  /\ \A p \in Segment : fwMap[p] = "free"
  /\ Takes(Segment)
  /\ contents' = [p \in BootPages |-> IF p \in Segment THEN "kernel" ELSE contents[p]]
  /\ step' = step + 1
  /\ UNCHANGED <<fwEvents, services, image, tablePool, poolPages, mapSize, infoMap, heldKey, bootTables>>

(* The entry point must lie in the span of the segments, and the hash of   *)
(* the file agree with kernel.sig if that can be read.                     *)
VerifyKernel ==
  /\ At("verify")
  /\ image.entry \in KernelSpan
  /\ image.signed => image.agrees
  /\ step' = step + 1
  /\ UNCHANGED <<fwMap, fwKey, fwEvents, services, contents, image, tablePool, poolPages,
                 mapSize, infoMap, heldKey, bootTables>>

AllocateTables ==
  /\ At("tables")
  /\ \E first \in BootPages :
       LET pool == first..first + PoolPages - 1
       IN  /\ pool \subseteq BootPages /\ \A p \in pool : fwMap[p] = "free"
           /\ Takes(pool) /\ tablePool' = pool
  /\ step' = step + 1
  /\ UNCHANGED <<fwEvents, services, contents, image, poolPages, mapSize, infoMap, heldKey, bootTables>>

ProbeSize ==
  /\ At("probe")
  /\ mapSize' = Descriptors(fwMap) + 2
  /\ Goto("allocate")
  /\ UNCHANGED <<fwMap, fwKey, fwEvents, services, contents, image, tablePool, poolPages, infoMap, heldKey, bootTables>>

-----------------------------------------------------------------------------
(* The loop that captures the map and ends boot services                   *)

AllocateMap ==
  /\ At("allocate")
  /\ PoolTaken
  /\ Goto("capture")
  /\ UNCHANGED <<fwEvents, services, contents, image, tablePool, mapSize, infoMap, heldKey, bootTables>>

GetMemoryMap_FirstOnly ==
  /\ At("capture")
  /\ Descriptors(fwMap) <= mapSize
  /\ infoMap' = (IF infoMap = <<>> THEN fwMap ELSE infoMap) /\ heldKey' = fwKey
  /\ Goto("exit")
  /\ UNCHANGED <<fwMap, fwKey, fwEvents, services, contents, image, tablePool, poolPages, mapSize, bootTables>>

GetMemoryMap ==
  /\ At("capture")
  /\ Descriptors(fwMap) <= mapSize
  /\ infoMap' = fwMap /\ heldKey' = fwKey
  /\ Goto("exit")
  /\ UNCHANGED <<fwMap, fwKey, fwEvents, services, contents, image, tablePool, poolPages, mapSize, bootTables>>

ExitBootServices ==
  /\ At("exit")
  /\ IF heldKey = fwKey
     THEN services' = FALSE /\ Goto("build") /\ UNCHANGED mapSize
     ELSE mapSize' = mapSize + 2 /\ Goto("allocate") /\ UNCHANGED services
  /\ UNCHANGED <<fwMap, fwKey, fwEvents, contents, image, tablePool, poolPages, infoMap, heldKey, bootTables>>

(* Tables for the pages of a set: PDPTs and page directories, and page     *)
(* tables where it is mapped page by page.                                 *)
Covering(pages, span) == {p \div span : p \in pages}
TablesNeeded ==
  1 + Cardinality(Covering(BootPages, PdptPages)) + Cardinality(Covering(BootPages, PdPages))
    + Cardinality(Covering(KernelSpan, PdptPages)) + Cardinality(Covering(KernelSpan, PdPages))
    + Cardinality(Covering(KernelSpan, PtPages))

(* build: the described memory where it is, in pages of 2 MB, and the      *)
(* kernel's span page by page in the higher half; TablePool::next stops    *)
(* for good when the pool is used up.                                      *)
Build ==
  /\ At("build")
  /\ contents' = [p \in BootPages |-> IF p \in tablePool THEN "tables" ELSE contents[p]]
  /\ IF TablesNeeded <= Cardinality(tablePool)
     THEN /\ bootTables' = [identity |-> {p \in BootPages : \E q \in DOMAIN infoMap : p \div PtPages = q \div PtPages},
                     kernel |-> KernelSpan]
          /\ Goto("jump")
     ELSE Goto("halted") /\ UNCHANGED bootTables
  /\ UNCHANGED <<fwMap, fwKey, fwEvents, services, image, tablePool, poolPages, mapSize, infoMap, heldKey>>

EnterKernel ==
  /\ At("jump") /\ Goto("kernel")
  /\ UNCHANGED <<fwMap, fwKey, fwEvents, services, contents, image, tablePool, poolPages,
                 mapSize, infoMap, heldKey, bootTables>>

(* The loop an error ends in; and the kernel, of which no more is said.    *)
Stopped == (At("halted") \/ At("kernel")) /\ UNCHANGED bootVars

BootNext ==
  \/ FirmwareEvent \/ Fails \/ OpenRoot \/ AllocatePool \/ LoadSegment \/ VerifyKernel
  \/ AllocateTables \/ ProbeSize \/ AllocateMap \/ GetMemoryMap \/ ExitBootServices
  \/ Build \/ EnterKernel \/ Stopped

BootSpec == BootInit /\ [][BootNext]_bootVars
-----------------------------------------------------------------------------

(* The kernel is entered with boot services over and with the memory map   *)
(* that was in force when they ended, in which everything the loader hands *)
(* over (segments, page tables, the pool pieces, the map's own buffer) is  *)
(* loader data that no firmware event took back; with its segments where   *)
(* they were linked and nothing written over them; on tables that map the  *)
(* entry point and all described memory; and never when a readable         *)
(* kernel.sig disagrees with the image (prepare_boot, efi_main).           *)
HandedOver ==
  At("kernel") =>
    /\ ~services
    /\ infoMap = fwMap
    /\ \A p \in KernelPages \union tablePool \union poolPages : infoMap[p] = "loader"
    /\ \A p \in KernelPages : contents[p] = "kernel"
    /\ tablePool \intersect (KernelPages \union poolPages) = {}
    /\ image.entry \in bootTables.kernel /\ bootTables.identity = BootPages
    /\ image.signed => image.agrees
=============================================================================
