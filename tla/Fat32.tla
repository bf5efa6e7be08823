-------------------------------- MODULE Fat32 --------------------------------
(***************************************************************************)
(* fs/fat32.c on the disk of drivers/ata.c.  ata_read_sectors fails when   *)
(* the driver is not initialised and for a sector count of 0, never later: *)
(* it polls the drive until the data is there.  Its count is a byte: of a  *)
(* FAT of 257 sectors one is read, and a FAT of 256 is asked for with the  *)
(* count 0.  fat32.c calls it with four arguments and tests its result;    *)
(* ata.h declares the four and no result, ata.c defines three, without the *)
(* drive, and a result.  The model has the arguments of fat32.c and the    *)
(* body of ata.c.                                                          *)
(*                                                                         *)
(* An image is a FAT, a file in one of the clusters of the root directory  *)
(* or none, its first cluster and size, and the fields of the boot sector; *)
(* damaged images are among them.  Sizes count UNITS, parts of a cluster,  *)
(* and the content of a cluster is its number.  cluster_buffer is one      *)
(* sector long: larger clusters are read past its end, and what follows is *)
(* not modelled.  The end of fat32_read_file, the loop that copies, stands *)
(* behind fat32_readdir in the file, outside of any function, so that the  *)
(* file does not compile as it is; the model puts it where its variables   *)
(* are declared.                                                           *)
(***************************************************************************)
EXTENDS Integers, Sequences

CONSTANTS CLUSTERS,      \* fat32_fs.clusters_count
          UNITS,         \* units of a cluster
          MAX_SIZE,      \* bound on the size of the file
          ENTRIES,       \* entries in a sector of the FAT
          Formats        \* boot sectors

ASSUME Fat32Assumption ==
    /\ CLUSTERS \in Nat \ {0} /\ UNITS \in Nat \ {0} /\ MAX_SIZE \in Nat /\ ENTRIES \in Nat \ {0}
    /\ Formats \subseteq [signature : BOOLEAN, sectors : Nat, sectors_per_cluster : 0 .. 255]

VARIABLES disk,       \* the image
          ata,        \* ata_state.initialized
          mounted,    \* fat32_fs.mounted
          buffers,    \* the buffers of fat32.c that are allocated
          fat_table,  \* the memory at fat32_fs.fat_table
          call        \* the call under way, its locals and what the last one returned

fatVars == <<disk, ata, mounted, buffers, fat_table, call>>

Cluster == 2 .. CLUSTERS + 1
EOC == CLUSTERS + 3            \* FAT32_EOC; CLUSTERS + 2 is past the data
Link == {0, EOC - 1, EOC} \cup Cluster
Image == [fat : [Cluster -> Link], file : {0} \cup Cluster, first : Link, size : 0 .. MAX_SIZE,
          format : Formats]

Idle(result, out) ==
    [pc |-> "idle", step |-> 0, cluster |-> 0, remaining |-> 0, out |-> out, result |-> result]

FatInit ==
    /\ disk \in Image
    /\ ata = FALSE
    /\ mounted = FALSE
    /\ buffers = {}
    /\ fat_table = [c \in Cluster |-> 0]
    /\ call = Idle(FALSE, <<>>)

-----------------------------------------------------------------------------
ata_init ==
    /\ ~ata
    /\ ata' = TRUE
    /\ UNCHANGED <<disk, mounted, buffers, fat_table, call>>

ata_read_sectors(count) == ata /\ count % 256 # 0

(***************************************************************************)
(* fat32_init, step by step.  kmalloc may fail; the other steps depend on  *)
(* the disk.  The division by sectors_per_cluster stops the system when it *)
(* is 0.  Of the FAT the sectors are read that the count of the byte names *)
(* and the rest of the table is what was in the memory.                    *)
(***************************************************************************)
InitSteps == <<"cluster_buffer", "read boot sector", "boot_sector", "signature",
               "clusters_count", "fat_table", "read fat">>

Allocates(step) == {step} \cap {"cluster_buffer", "boot_sector", "fat_table"}

Passes(step) ==
    CASE step = "read boot sector" -> ata_read_sectors(1)
      [] step = "signature" -> disk.format.signature
      [] step = "clusters_count" -> disk.format.sectors_per_cluster # 0
      [] step = "read fat" -> ata_read_sectors(disk.format.sectors)
      [] OTHER -> TRUE

InTable(cluster) == cluster \div ENTRIES < disk.format.sectors % 256

Tables == {table \in [Cluster -> Link] : \A c \in Cluster : InTable(c) => table[c] = disk.fat[c]}

\* Mutant: the last error path forgets the boot sector.
FreedNotBoot(step) ==
    CASE step = "cluster_buffer" -> {}
      [] step \in {"read boot sector", "boot_sector"} -> {"cluster_buffer"}
      [] step \in {"signature", "fat_table"} -> {"boot_sector", "cluster_buffer"}
      [] step = "read fat" -> {"fat_table", "cluster_buffer"}

\* What the error path of a step frees.
Freed(step) ==
    CASE step = "cluster_buffer" -> {}
      [] step \in {"read boot sector", "boot_sector"} -> {"cluster_buffer"}
      [] step \in {"signature", "fat_table"} -> {"boot_sector", "cluster_buffer"}
      [] step = "read fat" -> {"fat_table", "boot_sector", "cluster_buffer"}

fat32_init ==
    /\ call.pc = "idle"
    /\ ~mounted
    /\ call' = [call EXCEPT !.pc = "init", !.step = 1]
    /\ UNCHANGED <<disk, ata, mounted, buffers, fat_table>>

InitPasses ==
    /\ call.pc = "init"
    /\ Passes(InitSteps[call.step])
    /\ buffers' = buffers \cup Allocates(InitSteps[call.step])
    /\ fat_table' \in IF InitSteps[call.step] = "read fat" THEN Tables ELSE {fat_table}
    /\ mounted' = (call.step = Len(InitSteps))
    /\ call' = IF call.step = Len(InitSteps) THEN Idle(TRUE, <<>>)
               ELSE [call EXCEPT !.step = @ + 1]
    /\ UNCHANGED <<disk, ata>>

InitFails ==
    /\ call.pc = "init"
    /\ InitSteps[call.step] # "clusters_count"
    /\ Allocates(InitSteps[call.step]) # {} \/ ~Passes(InitSteps[call.step])
    /\ buffers' = buffers \ Freed(InitSteps[call.step])
    /\ call' = Idle(FALSE, <<>>)
    /\ UNCHANGED <<disk, ata, mounted, fat_table>>

DivisionError ==
    /\ call.pc = "init"
    /\ InitSteps[call.step] = "clusters_count" /\ ~Passes("clusters_count")
    /\ call' = [call EXCEPT !.pc = "crashed"]
    /\ UNCHANGED <<disk, ata, mounted, buffers, fat_table>>

fat32_cleanup ==
    /\ call.pc = "idle"
    /\ mounted
    /\ mounted' = FALSE
    /\ buffers' = {}
    /\ call' = Idle(FALSE, <<>>)
    /\ UNCHANGED <<disk, ata, fat_table>>

-----------------------------------------------------------------------------
fat32_read_cluster(cluster) ==
    mounted /\ cluster \in Cluster /\ ata_read_sectors(disk.format.sectors_per_cluster)

FitsBuffer == disk.format.sectors_per_cluster = 1

InChain(cluster) == cluster >= 2 /\ cluster < EOC

\* fat32_read_file: the search starts at the root directory, cluster 2.
fat32_read_file ==
    /\ call.pc = "idle"
    /\ mounted
    /\ call' = [Idle(FALSE, <<>>) EXCEPT !.pc = "search", !.cluster = 2]
    /\ UNCHANGED <<disk, ata, mounted, buffers, fat_table>>

Search ==
    /\ call.pc = "search"
    /\ InChain(call.cluster) /\ fat32_read_cluster(call.cluster) /\ FitsBuffer
    /\ call' = IF disk.file = call.cluster
               THEN [call EXCEPT !.pc = "copy", !.cluster = disk.first, !.remaining = disk.size]
               ELSE [call EXCEPT !.cluster = fat_table[@]]
    /\ UNCHANGED <<disk, ata, mounted, buffers, fat_table>>

\* Mutant: the last cluster is copied as a whole.
ToCopyWhole(remaining) == UNITS

ToCopy(remaining) == IF remaining > UNITS THEN UNITS ELSE remaining

Copy ==
    /\ call.pc = "copy"
    /\ InChain(call.cluster) /\ call.remaining > 0 /\ fat32_read_cluster(call.cluster)
    /\ FitsBuffer
    /\ call' = [call EXCEPT !.out = Append(@, [from |-> call.cluster, units |-> ToCopy(call.remaining)]),
                            !.remaining = @ - ToCopy(call.remaining),
                            !.cluster = fat_table[@]]
    /\ UNCHANGED <<disk, ata, mounted, buffers, fat_table>>

\* A cluster larger than cluster_buffer, read into it.
Overrun ==
    /\ \/ call.pc = "search"
       \/ call.pc = "copy" /\ call.remaining > 0
    /\ InChain(call.cluster) /\ fat32_read_cluster(call.cluster) /\ ~FitsBuffer
    /\ call' = [call EXCEPT !.pc = "overrun"]
    /\ UNCHANGED <<disk, ata, mounted, buffers, fat_table>>

\* A cluster that cannot be read, and a search that came to the end.
Fails ==
    /\ \/ call.pc = "search" /\ ~InChain(call.cluster)
       \/ call.pc = "search" /\ InChain(call.cluster) /\ ~fat32_read_cluster(call.cluster)
       \/ /\ call.pc = "copy"
          /\ InChain(call.cluster) /\ call.remaining > 0 /\ ~fat32_read_cluster(call.cluster)
    /\ call' = Idle(FALSE, call.out)
    /\ UNCHANGED <<disk, ata, mounted, buffers, fat_table>>

Returns ==
    /\ call.pc = "copy"
    /\ ~InChain(call.cluster) \/ call.remaining <= 0
    /\ call' = [Idle(TRUE, call.out) EXCEPT !.pc = "read"]
    /\ UNCHANGED <<disk, ata, mounted, buffers, fat_table>>

\* The caller has seen the result of fat32_read_file.
Done ==
    /\ call.pc = "read"
    /\ call' = Idle(FALSE, <<>>)
    /\ UNCHANGED <<disk, ata, mounted, buffers, fat_table>>

FatNext ==
    \/ ata_init \/ fat32_init \/ InitPasses \/ InitFails \/ DivisionError \/ fat32_cleanup
    \/ fat32_read_file \/ Search \/ Copy \/ Overrun \/ Fails \/ Returns \/ Done

FatSpec == FatInit /\ [][FatNext]_fatVars

-----------------------------------------------------------------------------
(***************************************************************************)
(* Unless the file system is mounted or being mounted it holds no buffer:  *)
(* every error path of fat32_init, and fat32_cleanup, frees what was       *)
(* allocated, over any number of attempts.                                 *)
(***************************************************************************)
BuffersFreed ==
    /\ call.pc = "idle" /\ ~mounted => buffers = {}
    /\ mounted => buffers = {"cluster_buffer", "boot_sector", "fat_table"}

(***************************************************************************)
(* When fat32_read_file succeeds, what it copied begins with the file's    *)
(* first cluster, goes on with the link of each cluster on the disk as far *)
(* as fat32_init read the FAT, and is whole clusters except the last, up   *)
(* to the size of the file; less only when the chain ends before.  A chain *)
(* that comes to a cluster whose entry was not read goes on anywhere.      *)
(***************************************************************************)
ReadIsFile ==
    call.pc = "read" =>
        LET n == Len(call.out)
        IN  /\ n > 0 => call.out[1].from = disk.first
            /\ \A i \in 1 .. n - 1 :
                  /\ call.out[i].units = UNITS
                  /\ InTable(call.out[i].from) => call.out[i + 1].from = disk.fat[call.out[i].from]
            /\ \/ (n = 0 /\ disk.size = 0)
               \/ n > 0 /\ (n - 1) * UNITS + call.out[n].units = disk.size
               \/ n = 0 /\ 0 < disk.size /\ ~InChain(disk.first)
               \/ /\ n > 0 /\ n * UNITS < disk.size
                  /\ InTable(call.out[n].from) => ~InChain(disk.fat[call.out[n].from])

=============================================================================
