------------------------------- MODULE VbMgmt -------------------------------
(***************************************************************************)
(* core/mpp_vb_mgmt.c: the tables in which the big core remembers the      *)
(* video blocks, the channel bindings and the camera devices that Python   *)
(* has taken from the kernel, so that the end of a session can give them   *)
(* back.  Every operation runs under the GIL, or when Python has gone, and *)
(* is one step.                                                            *)
(*                                                                         *)
(* The kernel (kd_mpi calls) is external and may refuse to take back what  *)
(* it has given; the tables forget it all the same.  A handle stands for   *)
(* its size and its mapping too: the kernel hands out the same ones again  *)
(* unless it still has the block, or its mapping, in use.                  *)
(***************************************************************************)
EXTENDS Naturals, Sequences

CONSTANTS
  Block,     \* handles of video blocks
  Link,      \* pairs of channels that can be bound
  Dev,       \* camera devices
  None,      \* a free record
  VB_MGMT_RECORD_MAX_CNT,
  VB_MGMT_MPP_LINK_MAX_CNT

ASSUME VbAssumption ==
  /\ None \notin Block \cup Link
  /\ VB_MGMT_RECORD_MAX_CNT \in Nat
  /\ VB_MGMT_MPP_LINK_MAX_CNT \in Nat

VARIABLES
  vb_records,            \* the block in each record, None without the magic
  vb_mpp_links_records,
  vicap_dev_stat,        \* the devices marked as running
  held,                  \* kernel: blocks taken
  mapped,                \* kernel: blocks mapped into the process
  bound,                 \* kernel: channel pairs bound
  running,               \* kernel: devices initialised, or streaming already
  keptBlocks,            \* history: blocks the kernel refused to release,
  keptMaps,              \*   mappings it refused to remove,
  keptLinks,             \*   pairs it refused to unbind,
  keptDevs               \*   devices it refused to stop or to deinit

blocks == <<vb_records, held, mapped, keptBlocks, keptMaps>>
bindings == <<vb_mpp_links_records, bound, keptLinks>>
vicap == <<vicap_dev_stat, running, keptDevs>>
vbVars == <<blocks, bindings, vicap>>

Records == 1..VB_MGMT_RECORD_MAX_CNT
LinkRecords == 1..VB_MGMT_MPP_LINK_MAX_CNT

VbInit ==
  /\ vb_records = [i \in Records |-> None]
  /\ vb_mpp_links_records = [i \in LinkRecords |-> None]
  /\ vicap_dev_stat = {}
  /\ held = {} /\ mapped = {} /\ bound = {} /\ running = {}
  /\ keptBlocks = {} /\ keptMaps = {} /\ keptLinks = {} /\ keptDevs = {}

\* The first free index of a table, as the loops of get_block and
\* push_link_info find it.
IsFirstFree(table, i) ==
  /\ i \in DOMAIN table /\ table[i] = None
  /\ \A j \in DOMAIN table : j < i => table[j] # None

Full(table) == \A i \in DOMAIN table : table[i] # None

Entries(table) == {table[i] : i \in DOMAIN table} \ {None}

-----------------------------------------------------------------------------
\* What the kernel can hand out: neither the block nor its address is in use.
FreeBlocks == Block \ (held \cup mapped)

\* vb_mgmt_get_block.  A record is looked for first, then the kernel is asked.
GetBlock(b) ==
  /\ b \in FreeBlocks
  /\ \E i \in Records :
       /\ IsFirstFree(vb_records, i)
       /\ vb_records' = [vb_records EXCEPT ![i] = b]
  /\ held' = held \cup {b}
  /\ mapped' = mapped \cup {b}
  /\ UNCHANGED <<keptBlocks, keptMaps, bindings, vicap>>

\* mutated: the block is not given back when it cannot be mapped
GetBlockFailsKeeps ==
  /\ ~Full(vb_records)
  /\ \E b \in FreeBlocks : held' = held \cup {b}
  /\ UNCHANGED <<vb_records, mapped, keptBlocks, keptMaps, bindings, vicap>>

\* It fails without a record or a block; and, with a block, on its pool, its
\* address or its mapping: each of these asks the kernel to release the block
\* and does not look at the answer.  The record it has found is free to the end.
GetBlockFails ==
  \/ UNCHANGED vbVars
  \/ /\ ~Full(vb_records)
     /\ \E b \in FreeBlocks : held' = held \cup {b} /\ keptBlocks' = keptBlocks \cup {b}
     /\ UNCHANGED <<vb_records, mapped, keptMaps, bindings, vicap>>

\* vb_mgmt_pop_block_from_record for the records of a set: a record goes even
\* when the kernel refuses to release its block or to unmap it.
PopBlocks(set, unreleased, unmapped) ==
  LET popped == {vb_records[i] : i \in set}
  IN /\ unreleased \cup unmapped \subseteq popped
     /\ vb_records' = [i \in Records |-> IF i \in set THEN None ELSE vb_records[i]]
     /\ held' = held \ (popped \ unreleased)
     /\ mapped' = mapped \ (popped \ unmapped)
     /\ keptBlocks' = keptBlocks \cup unreleased
     /\ keptMaps' = keptMaps \cup unmapped

RecordOf(b) == {i \in Records : vb_records[i] = b}

\* mutated: the first record in use is taken, whatever it holds
PutBlockFirst(b) ==
  /\ \E i \in Records : vb_records[i] # None /\ PopBlocks({i}, {}, {})
                      /\ \A j \in Records : vb_records[j] # None => i <= j
  /\ UNCHANGED <<bindings, vicap>>

\* vb_mgmt_put_block: releases what the record says,
PutBlock(b) ==
  /\ RecordOf(b) # {}
  /\ \E i \in RecordOf(b) : (\A j \in RecordOf(b) : i <= j) /\ PopBlocks({i}, {}, {})
  /\ UNCHANGED <<bindings, vicap>>

\* and fails on what is not there, or when the kernel refuses.
PutBlockFails(b) ==
  \/ RecordOf(b) = {} /\ UNCHANGED vbVars
  \/ /\ \E i \in RecordOf(b), unreleased, unmapped \in SUBSET {b} :
          /\ \A j \in RecordOf(b) : i <= j
          /\ unreleased \cup unmapped # {}
          /\ PopBlocks({i}, unreleased, unmapped)
     /\ UNCHANGED <<bindings, vicap>>

\* kd_mpi_sys_bind and unbind, called from media.py, which does not look at the
\* result of the second.
Bind(l) ==
  /\ l \in Link \ bound
  /\ bound' = bound \cup {l}
  /\ UNCHANGED <<vb_mpp_links_records, keptLinks, blocks, vicap>>

Unbind(l) ==
  /\ \/ bound' = bound \ {l} /\ UNCHANGED keptLinks
     \/ l \in bound /\ keptLinks' = keptLinks \cup {l} /\ UNCHANGED bound
  /\ UNCHANGED <<vb_mpp_links_records, blocks, vicap>>

\* mutated: a full table is not noticed, and the pair goes behind its end
PushLinkInfoOver(l) ==
  /\ \/ \E i \in LinkRecords :
          /\ IsFirstFree(vb_mpp_links_records, i)
          /\ vb_mpp_links_records' = [vb_mpp_links_records EXCEPT ![i] = l]
     \/ /\ Full(vb_mpp_links_records)
        /\ vb_mpp_links_records' = Append(vb_mpp_links_records, l)
  /\ UNCHANGED <<bound, keptLinks, blocks, vicap>>

\* vb_mgmt_push_link_info; a full table is an error nobody looks at.
PushLinkInfo(l) ==
  /\ \/ \E i \in LinkRecords :
          /\ IsFirstFree(vb_mpp_links_records, i)
          /\ vb_mpp_links_records' = [vb_mpp_links_records EXCEPT ![i] = l]
     \/ Full(vb_mpp_links_records) /\ UNCHANGED vb_mpp_links_records
  /\ UNCHANGED <<bound, keptLinks, blocks, vicap>>

\* vb_mgmt_pop_link_info for a set of pairs unbinds every record of a pair; the
\* record goes even when the kernel refuses.
PopLinks(set, refused) ==
  LET popped == set \cap Entries(vb_mpp_links_records)
  IN /\ refused \subseteq popped \cap bound
     /\ vb_mpp_links_records' =
          [i \in LinkRecords |->
             IF vb_mpp_links_records[i] \in set THEN None ELSE vb_mpp_links_records[i]]
     /\ bound' = bound \ (popped \ refused)
     /\ keptLinks' = keptLinks \cup refused

\* mutated: the record goes, the binding stays
PopLinkInfoKeeps(l) ==
  /\ vb_mpp_links_records' =
       [i \in LinkRecords |->
          IF vb_mpp_links_records[i] = l THEN None ELSE vb_mpp_links_records[i]]
  /\ UNCHANGED <<bound, keptLinks, blocks, vicap>>

PopLinkInfo(l) ==
  /\ \E refused \in SUBSET {l} : PopLinks({l}, refused)
  /\ UNCHANGED <<blocks, vicap>>

\* kd_mpi_vicap_init, from which on a device is in use, and stop_stream with
\* deinit, each of which the kernel may refuse (sensor.py).
VicapInit(d) ==
  /\ d \in Dev \ running
  /\ running' = running \cup {d}
  /\ UNCHANGED <<vicap_dev_stat, keptDevs, blocks, bindings>>

VicapDeinit(d) ==
  /\ \/ running' = running \ {d} /\ UNCHANGED keptDevs
     \/ d \in running /\ keptDevs' = keptDevs \cup {d} /\ UNCHANGED running
  /\ UNCHANGED <<vicap_dev_stat, blocks, bindings>>

VicapDevInited(d) ==
  /\ vicap_dev_stat' = vicap_dev_stat \cup {d}
  /\ UNCHANGED <<running, keptDevs, blocks, bindings>>

VicapDevDeinited(d) ==
  /\ vicap_dev_stat' = vicap_dev_stat \ {d}
  /\ UNCHANGED <<running, keptDevs, blocks, bindings>>

\* vb_mgmt_deinit_vicap for the devices that are marked; the mark goes even when
\* the kernel refuses to stop or to deinit one.
DeinitVicap(refused) ==
  /\ refused \subseteq vicap_dev_stat \cap running
  /\ running' = running \ (vicap_dev_stat \ refused)
  /\ keptDevs' = keptDevs \cup refused
  /\ vicap_dev_stat' = {}

\* mutated: the records are forgotten, the bindings stay
VbMgmtDeinitKeepsLinks ==
  /\ PopBlocks({i \in Records : vb_records[i] # None}, {}, {})
  /\ vb_mpp_links_records' = [i \in LinkRecords |-> None] /\ UNCHANGED <<bound, keptLinks>>
  /\ DeinitVicap({})

\* vb_mgmt_deinit: the devices, the blocks, the bindings that are recorded.
VbMgmtDeinit ==
  /\ \E refused \in SUBSET vicap_dev_stat : DeinitVicap(refused)
  /\ \E unreleased, unmapped \in SUBSET Entries(vb_records) :
       PopBlocks({i \in Records : vb_records[i] # None}, unreleased, unmapped)
  /\ \E refused \in SUBSET Entries(vb_mpp_links_records) :
       PopLinks(Entries(vb_mpp_links_records), refused)

-----------------------------------------------------------------------------
VbTypeOK ==
  /\ vb_records \in [Records -> Block \cup {None}]
  /\ vb_mpp_links_records \in [LinkRecords -> Link \cup {None}]
  /\ vicap_dev_stat \subseteq Dev /\ running \subseteq Dev /\ keptDevs \subseteq Dev
  /\ held \subseteq Block /\ mapped \subseteq Block
  /\ keptBlocks \subseteq Block /\ keptMaps \subseteq Block
  /\ bound \subseteq Link /\ keptLinks \subseteq Link
=============================================================================
