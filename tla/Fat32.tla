------------------------------- MODULE Fat32 --------------------------------
(***************************************************************************)
(* The FAT32 driver, kernel/libk/fs/fat32.c, on one directory.  A call     *)
(* computes from the disk the writes it will make and `pending' holds      *)
(* them: each is a step, and the machine may stop between any two.  Sizes  *)
(* and offsets are in clusters; the copies of the FAT are one table; a     *)
(* file's directory records (long name and short name) are one record.     *)
(***************************************************************************)
EXTENDS Integers, Sequences, FiniteSets, SequencesExt

CONSTANTS
    FileNames,      \* names of files
    LastCluster,    \* max_cluster + 1: clusters are 2 .. LastCluster
    FatSector,      \* entries of the FAT per sector, bytes_per_sector / 4
    DirSlots,       \* records in one cluster of a directory
    FileNodes,      \* vnodes of files
    MaxClusters     \* bound: clusters of one file

ASSUME FatAssumption ==
    /\ LastCluster \in Nat /\ LastCluster >= 2
    /\ FatSector \in Nat \ {0} /\ DirSlots \in Nat \ {0} /\ MaxClusters \in Nat
    /\ FileNames \cap {"end", "deleted", "other", "none"} = {}

VARIABLES
    fat,        \* the table: 0 free, Eoc, or the next cluster
    hint,       \* FSInfo on disk: next_free_cluster
    data,       \* contents of clusters: the file whose bytes they are, or other bytes
    record,     \* contents of clusters read as a directory
    node,       \* vnode -> fat32_internal_data
    rootHint,   \* next_free_cluster in the directory's own fat32_internal_data
    pending,    \* disk writes the running call still makes
    begun,      \* the running call has written something
    written,    \* what completed writes have stored: positions of each file
    harm        \* what has happened that the driver does not guard against

disk == <<fat, hint, data, record>>
fatVars == <<fat, hint, data, record, node, rootHint, pending, begun, written, harm>>

Clusters == 2 .. LastCluster
Root == 2
Eoc == LastCluster + 1      \* 0x0FFFFFFF
Places == Clusters \X (1 .. DirSlots)
EndRecord == [name |-> "end", first |-> 0, size |-> 0]
DeletedRecord == [name |-> "deleted", first |-> 0, size |-> 0]     \* the rest stays but is never read
Wiped(c) == [p \in Places |-> IF p[1] = c THEN EndRecord ELSE record[p]]
NoNode == [name |-> "none"]

-----------------------------------------------------------------------------
(* fat32_get_next_cluster followed to the end: at most every cluster.      *)
ChainIn(f, first) ==
    LET chain[k \in 0 .. LastCluster] ==
          IF k = 0 THEN (IF first = 0 THEN <<>> ELSE <<first>>)
          ELSE LET c == chain[k - 1]
               IN  IF c = <<>> THEN c
                   ELSE LET n == f[Last(c)]
                        IN  IF n \in {0, Eoc} THEN c ELSE Append(c, n)
    IN  chain[LastCluster]

Chain(first) == ChainIn(fat, first)

(* fat32_allocate_cluster, called again and again from hint h: the free    *)
(* clusters in the order it finds them.                                    *)
FreeFrom(h) ==
    LET max   == LastCluster - 1
        start == IF h < 2 \/ h > LastCluster THEN 2 ELSE h
        order == [i \in 1 .. max |-> ((start - 2 + i - 1) % max) + 2]
    IN  SelectSeq(order, LAMBDA c : fat[c] = 0)

HintPast(c) == c + 1     \* mutant: no wrap to the first cluster

HintAfter(c) == IF c + 1 > LastCluster THEN 2 ELSE c + 1

Do(k, at, to) == [kind |-> k, at |-> at, to |-> to]

(* One allocation writes the FAT and then FSInfo.                          *)
Allocate(c) == <<Do("fat", {c}, Eoc), Do("hint", {}, HintAfter(c))>>

(* fat32_free_cluster_chain: the chain is walked in a buffered sector of   *)
(* the FAT, written back when the walk leaves it and at the end.           *)
SectorOf(c) == c \div FatSector

RunsOf(chain) ==
    FoldLeft(LAMBDA runs, c :
               IF runs # <<>> /\ SectorOf(CHOOSE x \in Last(runs) : TRUE) = SectorOf(c)
               THEN Append(Front(runs), Last(runs) \cup {c})
               ELSE Append(runs, {c}),
             <<>>, chain)

FreeChain(first, h) ==
    IF first = 0 THEN <<>>
    ELSE LET runs == RunsOf(Chain(first))
         IN  [i \in DOMAIN runs |-> Do("fat", runs[i], 0)] \o <<Do("hint", {}, h)>>

-----------------------------------------------------------------------------
(* The directory, in the order its clusters and records are scanned.       *)
DirPlaces ==
    LET dir == Chain(Root)
    IN  [i \in 1 .. Len(dir) * DirSlots |->
            <<dir[((i - 1) \div DirSlots) + 1], ((i - 1) % DirSlots) + 1>>]

(* fat32_lookup, fat32_unlink and fat32_readdir stop at the first record   *)
(* that was never used.                                                    *)
Scanned ==
    LET end == SelectInSeq(DirPlaces, LAMBDA p : record[p].name = "end")
    IN  IF end = 0 THEN DirPlaces ELSE SubSeq(DirPlaces, 1, end - 1)

FindRecord(name) == SelectInSeq(Scanned, LAMBDA p : record[p].name = name)
PlaceOf(name) == Scanned[FindRecord(name)]

(* fat32_create takes the first record that is unused or deleted.          *)
FreePlace == SelectInSeq(DirPlaces, LAMBDA p : record[p].name \in {"end", "deleted"})

FatInit ==
    /\ fat = [c \in Clusters |-> IF c = Root THEN Eoc ELSE 0]
    /\ hint = 3 /\ rootHint = 3
    /\ data = [c \in Clusters |-> "other"]
    /\ record = [p \in Places |-> EndRecord]
    /\ node = [h \in FileNodes |-> NoNode]
    /\ pending = <<>> /\ begun = FALSE
    /\ written = [f \in FileNames |-> {}]
    /\ harm = {}

Idle == pending = <<>>

-----------------------------------------------------------------------------
(* fat32_create of a name lookup does not find.  The directory grows when  *)
(* it is full; the new file gets a cluster if there is one.                *)
CreateWrites(name) ==
    LET free  == FreeFrom(rootHint)
        grow  == FreePlace = 0
        place == IF grow THEN <<free[1], 1>> ELSE DirPlaces[FreePlace]
        rest  == IF grow THEN Tail(free) ELSE free
        entry == [name |-> name, first |-> IF rest = <<>> THEN 0 ELSE rest[1], size |-> 0]
    IN  (IF grow
         THEN Allocate(free[1]) \o <<Do("fat", {Last(Chain(Root))}, free[1]), Do("wipe", {free[1]}, 0)>>
         ELSE <<>>)
        \o (IF rest = <<>> THEN <<>> ELSE Allocate(rest[1]))
        \o <<Do("record", {place}, entry)>>
        \o (IF rest = <<>> THEN <<>> ELSE <<Do("wipe", {rest[1]}, 0)>>)

Create(name) ==
    /\ Idle /\ FindRecord(name) = 0
    /\ FreePlace # 0 \/ FreeFrom(rootHint) # <<>>
    /\ pending' = CreateWrites(name)
    /\ rootHint' = LET taken == SelectSeq(pending', LAMBDA w : w.kind = "hint")
                   IN  IF taken = <<>> THEN rootHint ELSE Last(taken).to
    /\ UNCHANGED <<disk, node, begun, written, harm>>

(* fat32_lookup makes the vnode of a file that has none: cluster, size and *)
(* the place of its record, with a copy of the directory's fsinfo.         *)
Lookup(h, name) ==
    /\ Idle /\ node[h] = NoNode
    /\ FindRecord(name) # 0
    /\ \A k \in FileNodes : node[k].name # name
    /\ LET p == PlaceOf(name)
       IN  node' = [node EXCEPT ![h] =
                      [name |-> name, cluster |-> record[p].first, size |-> record[p].size,
                       place |-> p, next |-> rootHint]]
    /\ UNCHANGED <<disk, rootHint, pending, begun, written, harm>>

Forget(h) ==
    /\ Idle /\ node[h] # NoNode
    /\ node' = [node EXCEPT ![h] = NoNode]
    /\ UNCHANGED <<disk, rootHint, pending, begun, written, harm>>

(* fat32_unlink: the record goes first, then the chain.  It does not look  *)
(* for an open vnode of the file; its caller must see that there is none   *)
(* (no system call reaches it yet).                                        *)
UnlinkChainFirst(name) ==     \* mutant: the chain is freed before the record goes
    LET p == PlaceOf(name)
    IN  FreeChain(record[p].first, rootHint)
        \o <<Do("record", {p}, DeletedRecord)>>

UnlinkWrites(name) ==
    LET p == PlaceOf(name)
    IN  <<Do("record", {p}, DeletedRecord)>>
        \o FreeChain(record[p].first, rootHint)

Unlink(name) ==
    /\ Idle /\ FindRecord(name) # 0
    /\ \A h \in FileNodes : node[h].name # name
    /\ pending' = UnlinkWrites(name)
    /\ written' = [written EXCEPT ![name] = {}]
    /\ UNCHANGED <<disk, node, rootHint, begun, harm>>

-----------------------------------------------------------------------------
(* fat32_write of len clusters from offset off.  The chain has `have' and  *)
(* is extended, cluster by cluster, to what there is room for; a cluster's *)
(* data is written before the next one is allocated; the record is last,   *)
(* and only if the file grew and the offset was reached.                   *)
Extended(h, off, len) ==
    LET have == Chain(node[h].cluster)
        free == FreeFrom(node[h].next)
        lack == off + len - Len(have)
    IN  have \o SubSeq(free, 1, IF lack > Len(free) THEN Len(free) ELSE lack)

Grows(h, off, len) == off + len > node[h].size \/ node[h].cluster = 0

WritePiece(h, off, chain, i) ==
    (IF i <= Len(Chain(node[h].cluster)) THEN <<>>
     ELSE Allocate(chain[i]) \o (IF i = 1 THEN <<>> ELSE <<Do("fat", {chain[i - 1]}, chain[i])>>))
    \o (IF i > off THEN <<Do("data", {chain[i]}, node[h].name)>> ELSE <<>>)

RecordOf(h, chain, size) ==
    Do("record", {node[h].place},
       [record[node[h].place] EXCEPT !.first = chain[1], !.size = size])


WriteWrites(h, off, len, chain, size) ==
    LET upto   == IF Len(chain) > off + len THEN off + len ELSE Len(chain)
        pieces == FlattenSeq([i \in 1 .. upto |-> WritePiece(h, off, chain, i)])
    IN  IF Len(chain) <= off THEN pieces
        ELSE pieces
             \o (IF Grows(h, off, len) THEN <<RecordOf(h, chain, size)>> ELSE <<>>)
             \o <<Do("return", {node[h].name}, off .. upto - 1)>>

FileWrite(h, off, len) ==
    /\ Idle /\ node[h] # NoNode
    /\ LET chain == Extended(h, off, len)
           size  == IF off + len > node[h].size THEN off + len ELSE node[h].size
           new   == Len(chain) - Len(Chain(node[h].cluster))
       IN  /\ pending' = WriteWrites(h, off, len, chain, size)
           /\ node' = [node EXCEPT ![h].size = size,
                                   ![h].cluster = IF chain = <<>> THEN 0 ELSE chain[1],
                                   ![h].next = IF new = 0 THEN @ ELSE HintAfter(Last(chain))]
           /\ harm' = harm \cup (IF Len(chain) < off + len THEN {"full"} ELSE {})
    /\ UNCHANGED <<disk, rootHint, begun, written>>

(* fat32_truncate, to length 0 only: the chain goes first, then the record.*)
Truncate(h) ==
    /\ Idle /\ node[h] # NoNode /\ node[h].size # 0
    /\ pending' = FreeChain(node[h].cluster, node[h].next)
                  \o <<Do("reset", {node[h].place},
                          [record[node[h].place] EXCEPT !.first = 0, !.size = 0])>>
    /\ node' = [node EXCEPT ![h].cluster = 0, ![h].size = 0]
    /\ written' = [written EXCEPT ![node[h].name] = {}]
    /\ UNCHANGED <<disk, rootHint, begun, harm>>

-----------------------------------------------------------------------------
(* The next write of the running call reaches the disk.                    *)
Step(kinds) ==
    /\ ~Idle /\ Head(pending).kind \in kinds
    /\ pending' = Tail(pending)
    /\ begun' = (pending' # <<>>)
    /\ UNCHANGED <<node, rootHint, harm>>

(* The bytes of a freed cluster are nobody's.                              *)
WriteFat ==
    /\ Step({"fat"})
    /\ fat' = [c \in Clusters |-> IF c \in Head(pending).at THEN Head(pending).to ELSE fat[c]]
    /\ data' = [c \in Clusters |-> IF fat'[c] = 0 THEN "other" ELSE data[c]]
    /\ UNCHANGED <<hint, record, written>>

WriteFsinfo ==
    /\ Step({"hint"})
    /\ hint' = Head(pending).to
    /\ UNCHANGED <<fat, data, record, written>>

WriteData ==
    /\ Step({"data"})
    /\ data' = [c \in Clusters |-> IF c \in Head(pending).at THEN Head(pending).to ELSE data[c]]
    /\ UNCHANGED <<fat, hint, record, written>>

WriteZeroes ==
    /\ Step({"wipe"})
    /\ \E c \in Head(pending).at :
          /\ data' = [data EXCEPT ![c] = "other"]
          /\ record' = Wiped(c)
    /\ UNCHANGED <<fat, hint, written>>

WriteRecord ==
    /\ Step({"record", "reset"})
    /\ \E p \in Head(pending).at : record' = [record EXCEPT ![p] = Head(pending).to]
    /\ UNCHANGED <<fat, hint, data, written>>

WriteReturns ==
    /\ Step({"return"})
    /\ \E f \in Head(pending).at : written' = [written EXCEPT ![f] = @ \cup Head(pending).to]
    /\ UNCHANGED disk

(* Between its first write and the one that repairs it, truncate leaves a  *)
(* record of freed clusters and create a directory cluster of old data.    *)
Exposed ==
    /\ begun
    /\ \/ \E i \in DOMAIN pending : pending[i].kind = "reset"
       \/ Head(pending).kind = "wipe" /\ Len(pending) > 1

(* The file system is mounted again, after umount or after the machine     *)
(* stopped: vnodes are gone and fsinfo is read from the disk.              *)
Remount ==
    /\ node' = [h \in FileNodes |-> NoNode]
    /\ rootHint' = hint
    /\ pending' = <<>> /\ begun' = FALSE
    /\ harm' = harm \cup (IF Idle THEN {} ELSE {"stopped"}) \cup (IF Exposed THEN {"exposed"} ELSE {})
    /\ UNCHANGED <<disk, written>>

FatNext ==
    \/ \E f \in FileNames : Create(f) \/ Unlink(f)
    \/ \E h \in FileNodes, f \in FileNames : Lookup(h, f)
    \/ \E h \in FileNodes, off \in 0 .. MaxClusters - 1 :
          \E len \in 1 .. MaxClusters - off : FileWrite(h, off, len)
    \/ \E h \in FileNodes : Truncate(h) \/ Forget(h)
    \/ WriteFat \/ WriteFsinfo \/ WriteData \/ WriteZeroes \/ WriteRecord \/ WriteReturns
    \/ Remount

FatSpec == FatInit /\ [][FatNext]_fatVars

-----------------------------------------------------------------------------
LiveRecords == {p \in Places : p[1] \in ToSet(Chain(Root)) /\ record[p].name \in FileNames}
FileChain(p) == Chain(record[p].first)

(* next_free_cluster always names a cluster, on disk and in memory.        *)
FatTypeOK ==
    /\ fat \in [Clusters -> {0, Eoc} \cup Clusters]
    /\ hint \in Clusters /\ rootHint \in Clusters
    /\ data \in [Clusters -> FileNames \cup {"other"}]
    /\ record \in [Places -> [name : FileNames \cup {"end", "deleted"},
                              first : {0} \cup Clusters, size : 0 .. MaxClusters]]
    /\ written \in [FileNames -> SUBSET (0 .. MaxClusters - 1)]

(* Whatever the machine was doing when it stopped, the chains on the disk  *)
(* are chains: the directory and every file run over allocated clusters to *)
(* an end mark, and no two of them meet.  Except inside the two windows in *)
(* which truncate and a growing directory are exposed, and after one of    *)
(* these was hit.                                                          *)
ChainsSound ==
    Exposed \/ "exposed" \in harm \/
      LET whole(c) == c = <<>> \/ (IsInjective(c) /\ fat[Last(c)] = Eoc)
      IN  /\ whole(Chain(Root))
          /\ \A p \in LiveRecords :
                /\ whole(FileChain(p))
                /\ ToSet(FileChain(p)) \cap ToSet(Chain(Root)) = {}
                /\ \A q \in LiveRecords \ {p} : ToSet(FileChain(p)) \cap ToSet(FileChain(q)) = {}

(* A directory record never claims more than its chain holds, not even     *)
(* when the machine stops in the middle of a write, unless the device was  *)
(* once too full for a write.                                              *)
SizeCovered ==
    Exposed \/ harm \cap {"exposed", "full"} # {} \/
      \A p \in LiveRecords : record[p].size <= Len(FileChain(p))

(* What a completed write stored is on the disk, in the file's own chain,  *)
(* until the file is truncated or unlinked: through every later call on    *)
(* any file and through a stop of the machine at any point.                *)
DataKept ==
    Exposed \/ harm \cap {"exposed", "full"} # {} \/
      \A p \in LiveRecords :
         LET f == record[p].name
         IN  \A k \in written[f] : k < Len(FileChain(p)) /\ data[FileChain(p)[k + 1]] = f

(* Between calls no cluster is lost: every allocated one is the            *)
(* directory's or a file's, as long as the machine never stopped during a  *)
(* call and the device never was too full.                                 *)
NoLeak ==
    ~Idle \/ harm # {} \/
      {c \in Clusters : fat[c] # 0} =
        ToSet(Chain(Root)) \cup UNION {ToSet(FileChain(p)) : p \in LiveRecords}

(* lookup and readdir reach every record of the directory: none lies       *)
(* behind one that was never used, and no name has two.                    *)
RecordsFound ==
    Exposed \/ "exposed" \in harm \/
      /\ LiveRecords \subseteq ToSet(Scanned)
      /\ \A p, q \in LiveRecords : record[p].name = record[q].name => p = q

(* The volume is sound after every disk write, wherever the machine stops: *)
(* chains are chains and do not meet, every record can be found, no        *)
(* cluster is lost, and files keep what was written to them.               *)
VolumeSound == ChainsSound /\ RecordsFound /\ NoLeak /\ SizeCovered /\ DataKept
=============================================================================
