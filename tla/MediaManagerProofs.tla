------------------------- MODULE MediaManagerProofs -------------------------
(***************************************************************************)
(* Theorems about the media manager, for any number of threads, objects,   *)
(* blocks, links, devices and records, and a kernel that refuses to take   *)
(* anything back whenever it likes.                                        *)
(*                                                                         *)
(* BlocksRecorded is inductive by itself, given the types.  UseRecorded    *)
(* needs to know what a thread's argument is and that a camera that is     *)
(* being stopped is nobody else's (StopOK).  TornDown follows from both.   *)
(* LiveHeld needs that the objects a thread is about to hand on or to put  *)
(* own their blocks as well (LiveOK).                                      *)
(***************************************************************************)
EXTENDS MediaManager, TLAPS

\* What the argument of a call is.
ArgOK ==
  \A t \in Thread :
    /\ pc[t] \in {"got", "store", "undo", "del", "seek", "unlist", "put"} => arg[t] \in Obj
    /\ pc[t] \in {"bound", "push", "record", "seek link", "pop", "clear"} => arg[t] \in Link
    /\ pc[t] \in {"inits", "many", "stopped"} => arg[t] \in Dev
    /\ pc[t] = "unlink it" => at[t] \in LinkSlots
    /\ pc[t] = "close it" => at[t] \in Slots

\* A camera that is being stopped counts as started, is not running unless the
\* kernel has refused, and no other thread starts or stops it.
StopOK ==
  \A t \in Thread : pc[t] = "stopped" =>
    /\ arg[t] \in _is_started /\ (arg[t] \in running => arg[t] \in keptDevs)
    /\ \A u \in Thread : pc[u] \in {"inits", "many", "stopped"} /\ arg[u] = arg[t] => u = t

\* An object that is under construction, or about to give its block back, is one
\* thread's; with those that scripts have they own a block each.
Holding == {"got", "store", "undo", "seek", "unlist", "put"}
Owning(o) == o \in returned \ deleted \/ \E t \in Thread : pc[t] \in Holding /\ arg[t] = o

\* What was ever handed on was made for a block.
MadeOK ==
  /\ \A o \in returned \cup deleted : handle[o] # None
  /\ \A t \in Thread : pc[t] \in Holding \cup {"del"} => handle[arg[t]] # None
  /\ Entries(_buffers) \subseteq returned

\* How far a thread with an object is.
OrderOK ==
  \A t \in Thread : /\ pc[t] \in {"got", "store", "undo"} => arg[t] \notin returned \cup deleted
                    /\ pc[t] \in {"seek", "unlist", "put"} => arg[t] \in deleted

\* Every owner has its thread and its block for itself.
OwnOK ==
  /\ \A t, u \in Thread : {pc[t], pc[u]} \subseteq Holding /\ arg[t] = arg[u] => t = u
  /\ \A o \in Obj : Owning(o) => handle[o] \in held
  /\ \A o, p \in Obj : Owning(o) /\ Owning(p) /\ handle[o] = handle[p] => o = p

LiveOK == MadeOK /\ (~twice => OrderOK /\ OwnOK)

IInv == /\ TypeOK /\ ArgOK /\ BlocksRecorded /\ BindingsRecorded /\ CamerasRecorded /\ StopOK
        /\ LiveOK

-----------------------------------------------------------------------------
(* The records of the blocks                                               *)

\* BlocksRecorded depends on nothing but the records and the kernel's blocks.
LEMMA BlocksStay ==
  ASSUME BlocksRecorded, UNCHANGED blocks PROVE BlocksRecorded'
BY DEF BlocksRecorded, blocks, Entries

\* vb_mgmt_get_block records what it takes.
LEMMA GetKeeps ==
  ASSUME VbTypeOK, BlocksRecorded, NEW b \in Block, GetBlock(b) PROVE BlocksRecorded'
<1>1. PICK i \in Records : /\ vb_records[i] = None
                           /\ vb_records' = [vb_records EXCEPT ![i] = b]
  BY DEF GetBlock, IsFirstFree
<1>2. /\ b # None /\ b \notin held \cup mapped /\ UNCHANGED <<keptBlocks, keptMaps>>
      /\ held' = held \cup {b} /\ mapped' = mapped \cup {b}
  BY VbAssumption DEF GetBlock, FreeBlocks
<1>3. b \notin Entries(vb_records) \cup keptBlocks \cup keptMaps
  BY <1>2 DEF BlocksRecorded
<1>4. \A j \in Records : vb_records'[j] = IF j = i THEN b ELSE vb_records[j]
  BY <1>1 DEF VbTypeOK
<1>5. Entries(vb_records') = Entries(vb_records) \cup {b}
  BY <1>1, <1>2, <1>4 DEF Entries, VbTypeOK
<1>6. \A r, s \in Records : vb_records'[r] = vb_records'[s] /\ vb_records'[r] # None => r = s
  BY <1>3, <1>4 DEF Entries, VbTypeOK, BlocksRecorded
<1>7. QED
  BY <1>2, <1>3, <1>5, <1>6 DEF BlocksRecorded

\* A failing vb_mgmt_get_block keeps only what the kernel does not take back.
LEMMA GetFailsKeeps ==
  ASSUME BlocksRecorded, GetBlockFails PROVE BlocksRecorded'
<1>1. CASE UNCHANGED vbVars
  BY <1>1, BlocksStay DEF vbVars
<1>2. CASE ~UNCHANGED vbVars
  <2>1. PICK b \in FreeBlocks : held' = held \cup {b} /\ keptBlocks' = keptBlocks \cup {b}
    BY <1>2 DEF GetBlockFails
  <2>2. UNCHANGED <<vb_records, mapped, keptMaps>>
    BY <1>2 DEF GetBlockFails
  <2>3. b \notin Entries(vb_records)
    BY <2>1 DEF FreeBlocks, BlocksRecorded
  <2>4. QED
    BY <2>1, <2>2, <2>3 DEF BlocksRecorded, Entries
<1>3. QED
  BY <1>1, <1>2

\* vb_mgmt_pop_block_from_record gives back what it forgets, and only that, or the
\* kernel refuses.
LEMMA PopKeeps ==
  ASSUME VbTypeOK, BlocksRecorded, NEW S \in SUBSET Records, \A i \in S : vb_records[i] # None,
         NEW X, NEW Y, PopBlocks(S, X, Y)
  PROVE  BlocksRecorded'
<1> DEFINE gone == {vb_records[i] : i \in S}
<1>1. \A j \in Records : vb_records'[j] = IF j \in S THEN None ELSE vb_records[j]
  BY DEF PopBlocks
<1>2. DOMAIN vb_records = Records /\ DOMAIN vb_records' = Records
  BY DEF VbTypeOK, PopBlocks
<1>3. \A j \in Records : vb_records[j] # None /\ vb_records[j] \in gone => j \in S
  BY DEF BlocksRecorded
<1>4. Entries(vb_records') = Entries(vb_records) \ gone
  BY <1>1, <1>2, <1>3 DEF Entries
<1>5. gone \subseteq Entries(vb_records)
  BY <1>2 DEF Entries
<1>6. \A r, s \in Records : vb_records'[r] = vb_records'[s] /\ vb_records'[r] # None => r = s
  BY <1>1 DEF BlocksRecorded
<1>7. /\ X \cup Y \subseteq gone
      /\ held' = held \ (gone \ X) /\ keptBlocks' = keptBlocks \cup X
      /\ mapped' = mapped \ (gone \ Y) /\ keptMaps' = keptMaps \cup Y
  BY DEF PopBlocks
<1>8. QED
  BY <1>4, <1>5, <1>6, <1>7 DEF BlocksRecorded

-----------------------------------------------------------------------------
(* The records of the bindings                                             *)

Recording == {"bound", "push", "record"}

\* A step of thread t loses no record and no thread that is about to record.
LEMMA BindingsMove ==
  ASSUME BindingsRecorded, NEW t \in Thread,
         \A u \in Thread \ {t} : pc'[u] = pc[u] /\ arg'[u] = arg[u],
         \A l \in bound' \ bound : pc'[t] = "bound" /\ arg'[t] = l,
         bound' \cap Entries(vb_mpp_links_records) \subseteq Entries(vb_mpp_links_records') \cup keptLinks',
         \A l \in Link : l \in lost \cup keptLinks => l \in lost' \cup keptLinks',
         bound' \subseteq Link,
         pc[t] \in Recording /\ arg[t] \in bound' =>
           \/ arg[t] \in Entries(vb_mpp_links_records') \cup lost' \cup keptLinks'
           \/ pc'[t] \in Recording /\ arg'[t] = arg[t]
  PROVE  BindingsRecorded'
<1> SUFFICES ASSUME NEW l \in bound', l \notin Entries(vb_mpp_links_records'),
                    l \notin lost' \cup keptLinks'
             PROVE  \E u \in Thread : pc'[u] \in Recording /\ arg'[u] = l
  BY DEF BindingsRecorded, Recording
<1>1. CASE l \notin bound
  BY <1>1 DEF Recording
<1>2. CASE l \in bound
  <2>1. PICK u \in Thread : pc[u] \in Recording /\ arg[u] = l
    BY <1>2 DEF BindingsRecorded, Recording
  <2>2. QED
    BY <2>1
<1>3. QED
  BY <1>1, <1>2

\* A step that asks nothing of the bindings.
LEMMA BindingsQuiet ==
  ASSUME VbTypeOK, BindingsRecorded, NEW t \in Thread,
         \A u \in Thread \ {t} : pc'[u] = pc[u] /\ arg'[u] = arg[u],
         UNCHANGED bindings, pc[t] \notin Recording, \A l \in Link : l \in lost => l \in lost'
  PROVE  BindingsRecorded'
<1>1. UNCHANGED <<vb_mpp_links_records, bound, keptLinks>> /\ bound \subseteq Link
  BY DEF bindings, VbTypeOK
<1>2. Entries(vb_mpp_links_records') = Entries(vb_mpp_links_records)
  BY <1>1
<1>3. QED
  BY <1>1, <1>2, BindingsMove

-----------------------------------------------------------------------------
(* Kinds of steps                                                          *)

\* The steps of a thread that ask nothing of the tables and of the kernel,
Python(t) ==
  \/ MediaInit(t) \/ GetStart(t) \/ AddFind(t) \/ AddStore(t) \/ (\E o \in Obj : Delete(t, o))
  \/ UndoDelete(t) \/ SeekBuffer(t) \/ Unlist(t) \/ LinkStore(t) \/ (\E l \in Link : DelLink(t, l))
  \/ SeekLink(t) \/ DelLinkClear(t) \/ CloseStart(t) \/ CloseTestLink(t) \/ CloseLink(t)
  \/ CloseTestBuffer(t) \/ CloseBuffer(t) \/ CloseEnd(t) \/ SensorRanMany(t)

\* those about the blocks,
Blocks(t) ==
  (\E o \in Obj, b \in Block : Get(t, o, b)) \/ GetFails(t) \/ Undo(t) \/ Put(t)

\* the bindings,
Bindings(t) ==
  (\E l \in Link : LinkBind(t, l)) \/ LinkAdd(t) \/ LinkPush(t) \/ LinkPop(t)

\* and the cameras.
Cameras(t) ==
  \/ \E d \in Dev : SensorStart(t, d) \/ SensorRunMany(t, d) \/ SensorStop(t, d)
  \/ SensorInited(t) \/ SensorStartFails(t) \/ SensorDeinited(t)

\* There are no others.
LEMMA Kinds ==
  ASSUME [Next]_vars
  PROVE  \/ \E t \in Thread : \/ Python(t) \/ Blocks(t) \/ Bindings(t) \/ Cameras(t)
                              \/ CloseForce(t) \/ Interrupt(t)
         \/ SessionEnd \/ UNCHANGED vars
BY DEF Next, Python, Blocks, Bindings, Cameras

\* What each kind leaves alone.
LEMMA PythonLeaves ==
  ASSUME NEW t \in Thread, Python(t) PROVE UNCHANGED <<vbVars, lost>>
BY DEF Python, MediaInit, GetStart, AddFind, AddStore, Delete, UndoDelete, SeekBuffer, Unlist,
       LinkStore, DelLink, SeekLink, DelLinkClear, CloseStart, CloseTestLink, CloseLink,
       CloseTestBuffer, CloseBuffer, CloseEnd, SensorRanMany, hist

LEMMA BlocksLeaves ==
  ASSUME NEW t \in Thread, Blocks(t) PROVE UNCHANGED <<bindings, vicap, lost, _is_started>>
<1>1. ASSUME NEW o \in Obj, NEW b \in Block, Get(t, o, b)
      PROVE  UNCHANGED <<bindings, vicap, lost, _is_started>>
  BY <1>1 DEF Get, GetBlock, hist, lists
<1>2. ASSUME GetFails(t) PROVE UNCHANGED <<bindings, vicap, lost, _is_started>>
  BY <1>2 DEF GetFails, GetBlockFails, vbVars, hist, lists
<1>3. ASSUME Undo(t) \/ Put(t) PROVE UNCHANGED <<bindings, vicap, lost, _is_started>>
  BY <1>3 DEF Undo, Put, PutBlock, PutBlockFails, vbVars, hist, lists
<1>4. QED
  BY <1>1, <1>2, <1>3 DEF Blocks

LEMMA BindingsLeaves ==
  ASSUME NEW t \in Thread, Bindings(t) PROVE UNCHANGED <<blocks, vicap, _is_started>>
BY DEF Bindings, LinkBind, Bind, LinkAdd, Unbind, LinkPush, PushLinkInfo, LinkPop, PopLinkInfo,
       vbVars, lists

LEMMA CamerasLeaves ==
  ASSUME NEW t \in Thread, Cameras(t) PROVE UNCHANGED <<blocks, bindings>>
BY DEF Cameras, SensorStart, VicapInit, SensorRunMany, SensorStop, VicapDeinit, SensorInited,
       VicapDevInited, SensorStartFails, SensorDeinited, VicapDevDeinited

\* A thread moves alone.
LEMMA Alone ==
  ASSUME TypeOK, NEW t \in Thread, NEW u \in Thread \ {t},
         Python(t) \/ Blocks(t) \/ Bindings(t) \/ Cameras(t) \/ CloseForce(t) \/ Interrupt(t)
  PROVE  pc'[u] = pc[u] /\ arg'[u] = arg[u]
<1>1. DOMAIN pc = Thread /\ DOMAIN arg = Thread
  BY DEF TypeOK
<1>2. ASSUME NEW from, NEW to, NEW a, NEW n, Step(t, from, to, a, n)
      PROVE  pc'[u] = pc[u] /\ arg'[u] = arg[u]
  BY <1>1, <1>2 DEF Step
<1>3. ASSUME NEW from, NEW to, NEW s, Find(t, from, to, s)
      PROVE  pc'[u] = pc[u] /\ arg'[u] = arg[u]
  BY <1>1, <1>3 DEF Find
<1>4. CASE Python(t)
  <2>1. CASE SeekBuffer(t) \/ Unlist(t) \/ SeekLink(t)
    BY <2>1, <1>2, <1>3 DEF SeekBuffer, Unlist, SeekLink
  <2>2. CASE MediaInit(t)
    BY <2>2 DEF MediaInit, call
  <2>3. CASE CloseTestLink(t) \/ CloseLink(t) \/ CloseTestBuffer(t) \/ CloseBuffer(t)
    BY <2>3, <1>2 DEF CloseTestLink, CloseLink, CloseTestBuffer, CloseBuffer
  <2>4. QED
    BY <1>2, <1>4, <2>1, <2>2, <2>3
       DEF Python, GetStart, AddFind, AddStore, Delete, UndoDelete, LinkStore, DelLink,
           DelLinkClear, CloseStart, CloseEnd, SensorRanMany
<1>5. CASE Blocks(t)
  BY <1>2, <1>5 DEF Blocks, Get, GetFails, Undo, Put
<1>6. CASE Bindings(t)
  BY <1>2, <1>3, <1>6 DEF Bindings, LinkBind, LinkAdd, LinkPush, LinkPop
<1>7. CASE Cameras(t)
  BY <1>2, <1>7 DEF Cameras, SensorStart, SensorRunMany, SensorStop, SensorInited,
                    SensorStartFails, SensorDeinited
<1>8. CASE CloseForce(t)
  BY <1>2, <1>8 DEF CloseForce
<1>9. CASE Interrupt(t)
  BY <1>1, <1>9 DEF Interrupt
<1>10. QED
  BY <1>4, <1>5, <1>6, <1>7, <1>8, <1>9

-----------------------------------------------------------------------------
(* Every step keeps the invariant                                          *)

\* What vb_mgmt_pop_block_from_record does to the types of a table.
LEMMA PopTypes ==
  ASSUME VbTypeOK, NEW S \in SUBSET Records, NEW X, NEW Y, PopBlocks(S, X, Y)
  PROVE  /\ vb_records' \in [Records -> Block \cup {None}]
         /\ held' \subseteq Block /\ mapped' \subseteq Block
         /\ \A x \in X \cup Y : \E i \in S : x = vb_records[i]
         /\ keptBlocks' = keptBlocks \cup X /\ keptMaps' = keptMaps \cup Y
BY DEF PopBlocks, VbTypeOK

\* The tables keep their types, in every step.
LEMMA VbTypeStep ==
  ASSUME TypeOK, ArgOK, MadeOK, [Next]_vars PROVE VbTypeOK'
<1> VbTypeOK
  BY DEF TypeOK
<1>1. ASSUME UNCHANGED vbVars PROVE VbTypeOK'
  BY <1>1 DEF VbTypeOK, vbVars, blocks, bindings, vicap
<1>2. ASSUME NEW o \in Obj, NEW b \in Block, NEW t \in Thread, Get(t, o, b) PROVE VbTypeOK'
  <2>1. GetBlock(b)
    BY <1>2 DEF Get
  <2>2. QED
    BY <2>1 DEF GetBlock, VbTypeOK, bindings, vicap
<1>3. ASSUME NEW t \in Thread, GetFails(t) PROVE VbTypeOK'
  <2>1. GetBlockFails
    BY <1>3 DEF GetFails
  <2>2. QED
    BY <1>1, <2>1 DEF GetBlockFails, FreeBlocks, VbTypeOK, bindings, vicap
<1>4. ASSUME NEW t \in Thread, Undo(t) \/ Put(t) PROVE VbTypeOK'
  <2> DEFINE b == handle[arg[t]]
  <2>1. \/ UNCHANGED vbVars
        \/ /\ \E i \in RecordOf(b), X, Y \in SUBSET {b} : PopBlocks({i}, X, Y)
           /\ UNCHANGED <<bindings, vicap>>
    BY <1>4 DEF Undo, Put, PutBlock, PutBlockFails
  <2>2. ASSUME NEW i \in RecordOf(b), NEW X \in SUBSET {b}, NEW Y \in SUBSET {b},
               PopBlocks({i}, X, Y), UNCHANGED <<bindings, vicap>>
        PROVE  VbTypeOK'
    <3>1. i \in Records /\ vb_records[i] = b /\ b \in Block \cup {None}
      BY DEF RecordOf, VbTypeOK
    <3>2. b # None
      BY <1>4 DEF MadeOK, Holding, Undo, Put, Step
    <3>3. /\ vb_records' \in [Records -> Block \cup {None}]
          /\ held' \subseteq Block /\ mapped' \subseteq Block
          /\ keptBlocks' = keptBlocks \cup X /\ keptMaps' = keptMaps \cup Y
      <4>1. {i} \in SUBSET Records
        BY <3>1
      <4>2. QED
        BY <2>2, <4>1, PopTypes, Zenon
    <3>4. X \subseteq Block /\ Y \subseteq Block
      BY <3>1, <3>2
    <3>5. QED
      BY <2>2, <3>3, <3>4 DEF VbTypeOK, bindings, vicap
  <2>3. QED
    BY <1>1, <2>1, <2>2
<1>5. ASSUME NEW t \in Thread, NEW l \in Link, LinkBind(t, l) PROVE VbTypeOK'
  BY <1>5 DEF LinkBind, Bind, VbTypeOK, blocks, vicap
<1>6. ASSUME NEW t \in Thread, LinkAdd(t) PROVE VbTypeOK'
  BY <1>1, <1>6 DEF LinkAdd, Unbind, VbTypeOK, blocks, vicap
<1>7. ASSUME NEW t \in Thread, LinkPush(t) PROVE VbTypeOK'
  <2>1. arg[t] \in Link
    BY <1>7 DEF LinkPush, Step, ArgOK
  <2>2. QED
    BY <1>7, <2>1 DEF LinkPush, PushLinkInfo, VbTypeOK, blocks, vicap
<1>8. ASSUME NEW t \in Thread, LinkPop(t) PROVE VbTypeOK'
  BY <1>8 DEF LinkPop, PopLinkInfo, PopLinks, VbTypeOK, blocks, vicap
<1>9. ASSUME NEW t \in Thread, Cameras(t) PROVE VbTypeOK'
  <2>1. /\ UNCHANGED <<blocks, bindings>>
        /\ vicap_dev_stat' \subseteq Dev /\ running' \subseteq Dev /\ keptDevs' \subseteq Dev
    <3>1. CASE SensorInited(t) \/ SensorStartFails(t) \/ SensorDeinited(t)
      <4>1. arg[t] \in Dev
        BY <3>1 DEF SensorInited, SensorStartFails, SensorDeinited, Step, ArgOK
      <4>2. QED
        BY <1>9, <3>1, <4>1, CamerasLeaves
           DEF SensorInited, VicapDevInited, SensorStartFails, VicapDeinit, SensorDeinited,
               VicapDevDeinited, VbTypeOK
    <3>2. QED
      BY <1>9, <3>1, CamerasLeaves
         DEF Cameras, SensorStart, VicapInit, SensorRunMany, SensorStop, VicapDeinit, VbTypeOK
  <2>2. QED
    BY <2>1 DEF VbTypeOK, blocks, bindings
<1>10. ASSUME SessionEnd \/ \E t \in Thread : CloseForce(t) PROVE VbTypeOK'
  <2>1. PICK X \in SUBSET Entries(vb_records), Y \in SUBSET Entries(vb_records) :
          PopBlocks({i \in Records : vb_records[i] # None}, X, Y)
    BY <1>10 DEF SessionEnd, CloseForce, VbMgmtDeinit
  <2>2. /\ vb_records' \in [Records -> Block \cup {None}]
        /\ held' \subseteq Block /\ mapped' \subseteq Block
        /\ keptBlocks' \subseteq Block /\ keptMaps' \subseteq Block
    <3>1. /\ vb_records' \in [Records -> Block \cup {None}]
          /\ held' \subseteq Block /\ mapped' \subseteq Block
          /\ keptBlocks' = keptBlocks \cup X /\ keptMaps' = keptMaps \cup Y
      BY <2>1, PopTypes
    <3>2. Entries(vb_records) \subseteq Block
      BY DEF Entries, VbTypeOK
    <3>3. QED
      BY <3>1, <3>2 DEF VbTypeOK
  <2>3. PICK R \in SUBSET Entries(vb_mpp_links_records) : PopLinks(Entries(vb_mpp_links_records), R)
    BY <1>10 DEF SessionEnd, CloseForce, VbMgmtDeinit
  <2>4. /\ vb_mpp_links_records' \in [LinkRecords -> Link \cup {None}]
        /\ bound' \subseteq Link /\ keptLinks' \subseteq Link
    BY <2>3 DEF PopLinks, VbTypeOK
  <2>5. vicap_dev_stat' \subseteq Dev /\ running' \subseteq Dev /\ keptDevs' \subseteq Dev
    BY <1>10 DEF SessionEnd, CloseForce, VbMgmtDeinit, DeinitVicap, VbTypeOK
  <2>6. QED
    BY <2>2, <2>4, <2>5 DEF VbTypeOK
<1>11. ASSUME (\E t \in Thread : Python(t) \/ Interrupt(t)) \/ UNCHANGED vars PROVE VbTypeOK'
  BY <1>1, <1>11, PythonLeaves DEF Interrupt, vars
<1>12. QED
  BY <1>2, <1>3, <1>4, <1>5, <1>6, <1>7, <1>8, <1>9, <1>10, <1>11, Kinds DEF Blocks, Bindings

\* What a thread at place p may be about.
Fits(p, a, n) ==
  /\ p \in PC /\ a \in Obj \cup Link \cup Dev \cup {None} /\ n \in Nat
  /\ p \in {"got", "store", "undo", "del", "seek", "unlist", "put"} => a \in Obj
  /\ p \in {"bound", "push", "record", "seek link", "pop", "clear"} => a \in Link
  /\ p \in {"inits", "many", "stopped"} => a \in Dev
  /\ p = "unlink it" => n \in LinkSlots
  /\ p = "close it" => n \in Slots

CallOK == /\ pc \in [Thread -> PC] /\ arg \in [Thread -> Obj \cup Link \cup Dev \cup {None}]
          /\ at \in [Thread -> Nat] /\ found \in [Thread -> Nat]
          /\ ArgOK

LEMMA StepFits ==
  ASSUME CallOK, NEW t \in Thread, NEW from, NEW to, NEW a, NEW n,
         Step(t, from, to, a, n), Fits(to, a, n)
  PROVE  CallOK'
BY DEF CallOK, ArgOK, Step, Fits

LEMMA FindFits ==
  ASSUME CallOK, NEW t \in Thread, NEW from, NEW to, NEW s \in Nat,
         Find(t, from, to, s), Fits(to, arg[t], at[t])
  PROVE  CallOK'
BY DEF CallOK, ArgOK, Find, Fits

\* A thread is about what fits its place, in every step.
LEMMA CallStep ==
  ASSUME TypeOK, ArgOK, [Next]_vars PROVE CallOK'
<1> CallOK
  BY DEF TypeOK, CallOK
<1>s. Slots \subseteq Nat /\ LinkSlots \subseteq Nat /\ 0 \in Nat
  BY MediaAssumption DEF Slots, LinkSlots
<1>a. ASSUME NEW t \in Thread PROVE Fits(pc[t], arg[t], at[t])
  <2>1. pc[t] \in PC /\ arg[t] \in Obj \cup Link \cup Dev \cup {None} /\ at[t] \in Nat
    BY DEF CallOK
  <2>2. QED
    BY <2>1 DEF ArgOK, Fits
<1>1. ASSUME NEW t \in Thread, MediaInit(t) PROVE CallOK'
  BY <1>1 DEF MediaInit, call, CallOK, ArgOK
<1>2. ASSUME NEW t \in Thread, GetStart(t) PROVE CallOK'
  BY <1>2, StepFits DEF GetStart, Fits, PC
<1>3. ASSUME NEW t \in Thread, NEW o \in Obj, NEW b \in Block, Get(t, o, b) PROVE CallOK'
  BY <1>3, StepFits DEF Get, Fits, PC
<1>4. ASSUME NEW t \in Thread, GetFails(t) PROVE CallOK'
  BY <1>4, StepFits DEF GetFails, Fits, PC
<1>5. ASSUME NEW t \in Thread, AddFind(t) PROVE CallOK'
  <2>1. PICK to \in {"store", "undo"}, n \in Nat : Step(t, "got", to, arg[t], n)
    BY <1>5, <1>s DEF AddFind, IsFirstFree, CallOK, TypeOK
  <2>2. arg[t] \in Obj
    BY <2>1 DEF Step, ArgOK
  <2>3. QED
    BY <2>1, <2>2, StepFits DEF Fits, PC
<1>6. ASSUME NEW t \in Thread, AddStore(t) PROVE CallOK'
  BY <1>6, StepFits DEF AddStore, Fits, PC
<1>7. ASSUME NEW t \in Thread, Undo(t) PROVE CallOK'
  <2>1. Step(t, "undo", "del", arg[t], 0) /\ arg[t] \in Obj
    BY <1>7 DEF Undo, Step, ArgOK
  <2>2. QED
    BY <2>1, StepFits DEF Fits, PC
<1>8. ASSUME NEW t \in Thread, NEW o \in Obj, Delete(t, o) PROVE CallOK'
  BY <1>8, StepFits DEF Delete, Fits, PC
<1>9. ASSUME NEW t \in Thread, UndoDelete(t) PROVE CallOK'
  <2>1. Step(t, "del", "seek", arg[t], 0) /\ arg[t] \in Obj
    BY <1>9 DEF UndoDelete, Step, ArgOK
  <2>2. QED
    BY <2>1, StepFits DEF Fits, PC
<1>10. ASSUME NEW t \in Thread, SeekBuffer(t) PROVE CallOK'
  <2>1. PICK to \in {"unlist", "put"}, s \in Nat : Find(t, "seek", to, s)
    BY <1>10, <1>s DEF SeekBuffer
  <2>2. arg[t] \in Obj
    BY <2>1 DEF Find, ArgOK
  <2>3. QED
    BY <2>1, <2>2, <1>a, FindFits DEF Fits, PC
<1>11. ASSUME NEW t \in Thread, Unlist(t) PROVE CallOK'
  <2>1. Find(t, "unlist", "put", 0) /\ arg[t] \in Obj
    BY <1>11 DEF Unlist, Find, ArgOK
  <2>2. QED
    BY <2>1, <1>a, <1>s, FindFits DEF Fits, PC
<1>12. ASSUME NEW t \in Thread, Put(t) PROVE CallOK'
  <2>1. PICK to \in {"run", "close"}, n \in {0, at[t]} : Step(t, "put", to, None, n)
    BY <1>12 DEF Put, Home
  <2>2. QED
    BY <2>1, <1>a, StepFits DEF Fits, PC
<1>13. ASSUME NEW t \in Thread, NEW l \in Link, LinkBind(t, l) \/ DelLink(t, l) PROVE CallOK'
  BY <1>13, StepFits DEF LinkBind, DelLink, Fits, PC
<1>14. ASSUME NEW t \in Thread, LinkAdd(t) PROVE CallOK'
  <2>1. arg[t] \in Link
    BY <1>14 DEF LinkAdd, Step, ArgOK
  <2>2. \/ \E s \in LinkSlots : Step(t, "bound", "push", arg[t], s)
        \/ Step(t, "bound", "run", None, 0)
    BY <1>14 DEF LinkAdd
  <2>3. QED
    BY <2>1, <2>2, <1>s, StepFits DEF Fits, PC
<1>15. ASSUME NEW t \in Thread, LinkStore(t) PROVE CallOK'
  <2>1. Step(t, "push", "record", arg[t], 0) /\ arg[t] \in Link
    BY <1>15 DEF LinkStore, Step, ArgOK
  <2>2. QED
    BY <2>1, StepFits DEF Fits, PC
<1>16. ASSUME NEW t \in Thread, LinkPush(t) PROVE CallOK'
  BY <1>16, StepFits DEF LinkPush, Fits, PC
<1>17. ASSUME NEW t \in Thread, SeekLink(t) PROVE CallOK'
  <2>1. CASE \E s \in LinkSlots : Find(t, "seek link", "pop", s)
    <3>1. arg[t] \in Link
      BY <2>1 DEF Find, ArgOK
    <3>2. QED
      BY <2>1, <3>1, <1>a, <1>s, FindFits DEF Fits, PC
  <2>2. CASE Step(t, "seek link", LinkHome(t), None, at[t])
    BY <2>2, <1>a, StepFits DEF Fits, PC, LinkHome
  <2>3. QED
    BY <1>17, <2>1, <2>2 DEF SeekLink
<1>18. ASSUME NEW t \in Thread, LinkPop(t) PROVE CallOK'
  <2>1. Find(t, "pop", "clear", found[t]) /\ arg[t] \in Link /\ found[t] \in Nat
    BY <1>18 DEF LinkPop, Find, ArgOK, TypeOK
  <2>2. QED
    BY <2>1, <1>a, FindFits DEF Fits, PC
<1>19. ASSUME NEW t \in Thread, DelLinkClear(t) PROVE CallOK'
  <2>1. Step(t, "clear", LinkHome(t), None, at[t])
    BY <1>19 DEF DelLinkClear
  <2>2. QED
    BY <2>1, <1>a, StepFits DEF Fits, PC, LinkHome
<1>20. ASSUME NEW t \in Thread, CloseStart(t) PROVE CallOK'
  BY <1>20, StepFits DEF CloseStart, Fits, PC
<1>21. ASSUME NEW t \in Thread, CloseTestLink(t) PROVE CallOK'
  <2>1. \/ \E s \in LinkSlots : Step(t, "unlink", "unlink it", None, s)
        \/ \E s \in LinkSlots : Step(t, "unlink", "unlink", None, s)
        \/ Step(t, "unlink", "close", None, 0)
    BY <1>21 DEF CloseTestLink
  <2>2. QED
    BY <2>1, <1>s, StepFits DEF Fits, PC
<1>22. ASSUME NEW t \in Thread, CloseTestBuffer(t) PROVE CallOK'
  <2>1. PICK s \in Slots : \/ Step(t, "close", "close", None, s)
                           \/ Step(t, "close", "close it", None, s)
    BY <1>22 DEF CloseTestBuffer
  <2>2. QED
    BY <2>1, <1>s, StepFits DEF Fits, PC
<1>23. ASSUME NEW t \in Thread, CloseLink(t) PROVE CallOK'
  <2>1. at[t] \in LinkSlots
    BY <1>23 DEF CloseLink, ArgOK
  <2>2. \/ \E l \in Link : Step(t, "unlink it", "seek link", l, at[t])
        \/ Step(t, "unlink it", "run", None, 0)
    BY <1>23, <2>1 DEF CloseLink, TypeOK
  <2>3. QED
    BY <2>2, <1>a, StepFits DEF Fits, PC
<1>24. ASSUME NEW t \in Thread, CloseBuffer(t) PROVE CallOK'
  <2>1. at[t] \in Slots
    BY <1>24 DEF CloseBuffer, ArgOK
  <2>2. \/ \E o \in Obj : Step(t, "close it", "seek", o, at[t])
        \/ Step(t, "close it", "run", None, 0)
    BY <1>24, <2>1 DEF CloseBuffer, TypeOK
  <2>3. QED
    BY <2>2, <1>a, StepFits DEF Fits, PC
<1>25. ASSUME NEW t \in Thread, CloseEnd(t) \/ CloseForce(t) PROVE CallOK'
  BY <1>25, StepFits DEF CloseEnd, CloseForce, Fits, PC
<1>26. ASSUME NEW t \in Thread, NEW d \in Dev,
              SensorStart(t, d) \/ SensorRunMany(t, d) \/ SensorStop(t, d)
       PROVE  CallOK'
  BY <1>26, StepFits DEF SensorStart, SensorRunMany, SensorStop, Fits, PC
<1>27. ASSUME NEW t \in Thread,
              SensorInited(t) \/ SensorStartFails(t) \/ SensorRanMany(t) \/ SensorDeinited(t)
       PROVE  CallOK'
  BY <1>27, StepFits DEF SensorInited, SensorStartFails, SensorRanMany, SensorDeinited, Fits, PC
<1>28. ASSUME NEW t \in Thread, Interrupt(t) PROVE CallOK'
  BY <1>28 DEF Interrupt, CallOK, ArgOK, PC
<1>29. ASSUME SessionEnd \/ UNCHANGED vars PROVE CallOK'
  BY <1>29 DEF SessionEnd, vars, call, CallOK, ArgOK
<1>30. QED
  BY <1>1, <1>2, <1>3, <1>4, <1>5, <1>6, <1>7, <1>8, <1>9, <1>10, <1>11, <1>12, <1>13, <1>14,
     <1>15, <1>16, <1>17, <1>18, <1>19, <1>20, <1>21, <1>22, <1>23, <1>24, <1>25, <1>26, <1>27,
     <1>28, <1>29 DEF Next

\* Objects, lists and history.
RestOK ==
  /\ closing \subseteq Thread /\ handle \in [Obj -> Block \cup {None}]
  /\ _buffers \in [Slots -> Obj \cup {None}] /\ _links \in [LinkSlots -> Link \cup {None}]
  /\ _is_inited \in BOOLEAN /\ _is_started \subseteq Dev
  /\ returned \subseteq Obj /\ late \subseteq Obj /\ deleted \subseteq Obj
  /\ twice \in BOOLEAN /\ lost \subseteq Link \cup Dev

LEMMA RestStep ==
  ASSUME TypeOK, ArgOK, [Next]_vars PROVE RestOK'
<1> RestOK
  BY DEF TypeOK, RestOK
<1>1. ASSUME UNCHANGED <<closing, handle, lists, hist>> PROVE RestOK'
  BY <1>1 DEF RestOK, lists, hist
<1>2. ASSUME NEW t \in Thread,
             \/ GetStart(t) \/ GetFails(t) \/ AddFind(t) \/ SeekBuffer(t) \/ LinkAdd(t)
             \/ (\E l \in Link : LinkBind(t, l) \/ DelLink(t, l)) \/ SeekLink(t) \/ LinkPop(t)
             \/ CloseTestLink(t) \/ CloseTestBuffer(t) \/ SensorStartFails(t)
             \/ (\E d \in Dev : SensorStart(t, d))
      PROVE  RestOK'
  BY <1>1, <1>2 DEF GetStart, GetFails, AddFind, SeekBuffer, LinkAdd, LinkBind, DelLink, SeekLink,
                    LinkPop, CloseTestLink, CloseTestBuffer, SensorStartFails, SensorStart
<1>3. ASSUME NEW t \in Thread, MediaInit(t) PROVE RestOK'
  BY <1>3 DEF MediaInit, RestOK, call, hist
<1>4. ASSUME NEW t \in Thread, NEW o \in Obj, NEW b \in Block, Get(t, o, b) PROVE RestOK'
  BY <1>4 DEF Get, RestOK, lists, hist
<1>5. ASSUME NEW t \in Thread, AddStore(t) PROVE RestOK'
  <2>1. arg[t] \in Obj
    BY <1>5 DEF AddStore, Step, ArgOK
  <2>2. QED
    BY <1>5, <2>1 DEF AddStore, RestOK
<1>6. ASSUME NEW t \in Thread, Undo(t) \/ UndoDelete(t) PROVE RestOK'
  <2>1. arg[t] \in Obj
    BY <1>6 DEF Undo, UndoDelete, Step, ArgOK
  <2>2. QED
    BY <1>6, <2>1 DEF Undo, UndoDelete, RestOK, lists
<1>7. ASSUME NEW t \in Thread, NEW o \in Obj, Delete(t, o) PROVE RestOK'
  BY <1>7 DEF Delete, RestOK, lists
<1>8. ASSUME NEW t \in Thread, Unlist(t) PROVE RestOK'
  BY <1>8 DEF Unlist, RestOK, hist
<1>9. ASSUME NEW t \in Thread, Put(t) \/ CloseEnd(t) \/ CloseLink(t) PROVE RestOK'
  BY <1>9 DEF Put, CloseEnd, CloseLink, RestOK, lists, hist
<1>10. ASSUME NEW t \in Thread, LinkStore(t) PROVE RestOK'
  <2>1. arg[t] \in Link
    BY <1>10 DEF LinkStore, Step, ArgOK
  <2>2. QED
    BY <1>10, <2>1 DEF LinkStore, RestOK, hist
<1>11. ASSUME NEW t \in Thread, LinkPush(t) PROVE RestOK'
  <2>1. arg[t] \in Link
    BY <1>11 DEF LinkPush, Step, ArgOK
  <2>2. QED
    BY <1>11, <2>1 DEF LinkPush, RestOK, lists
<1>12. ASSUME NEW t \in Thread, DelLinkClear(t) PROVE RestOK'
  BY <1>12 DEF DelLinkClear, RestOK, hist
<1>13. ASSUME NEW t \in Thread, CloseStart(t) PROVE RestOK'
  BY <1>13 DEF CloseStart, RestOK, hist
<1>14. ASSUME NEW t \in Thread, CloseBuffer(t) PROVE RestOK'
  <2>1. _buffers[at[t]] \in Obj \cup {None}
    BY <1>14 DEF CloseBuffer, ArgOK, RestOK
  <2>2. QED
    BY <1>14, <2>1 DEF CloseBuffer, RestOK, lists
<1>15. ASSUME NEW t \in Thread, CloseForce(t) PROVE RestOK'
  BY <1>15 DEF CloseForce, RestOK, lists
<1>16. ASSUME NEW t \in Thread, NEW d \in Dev, SensorRunMany(t, d) \/ SensorStop(t, d) PROVE RestOK'
  BY <1>16 DEF SensorRunMany, SensorStop, RestOK, lists
<1>17. ASSUME NEW t \in Thread, SensorInited(t) \/ SensorRanMany(t) \/ SensorDeinited(t) PROVE RestOK'
  <2>1. arg[t] \in Dev
    BY <1>17 DEF SensorInited, SensorRanMany, SensorDeinited, Step, ArgOK
  <2>2. QED
    BY <1>17, <2>1 DEF SensorInited, SensorRanMany, SensorDeinited, RestOK, hist
<1>18. ASSUME NEW t \in Thread, Interrupt(t) PROVE RestOK'
  <2>1. pc[t] \in {"bound", "push", "record", "inits"} => arg[t] \in Link \cup Dev
    BY DEF ArgOK
  <2>2. QED
    BY <1>18, <2>1 DEF Interrupt, RestOK, lists
<1>19. ASSUME SessionEnd PROVE RestOK'
  BY <1>19 DEF SessionEnd, RestOK, call
<1>20. ASSUME UNCHANGED vars PROVE RestOK'
  BY <1>1, <1>20 DEF vars, call
<1>21. QED
  BY <1>2, <1>3, <1>4, <1>5, <1>6, <1>7, <1>8, <1>9, <1>10, <1>11, <1>12, <1>13, <1>14, <1>15,
     <1>16, <1>17, <1>18, <1>19, <1>20 DEF Next

\* Types, and what a call is about, in every step.
LEMMA TypeStep ==
  ASSUME TypeOK, ArgOK, MadeOK, [Next]_vars PROVE TypeOK' /\ ArgOK'
<1>1. VbTypeOK'
  BY VbTypeStep
<1>2. CallOK' /\ RestOK'
  BY CallStep, RestStep
<1>3. QED
  BY <1>1, <1>2 DEF TypeOK, CallOK, RestOK

\* The blocks change only where the kernel is asked, in every step.
LEMMA BlocksStep ==
  ASSUME TypeOK, ArgOK, MadeOK, BlocksRecorded, [Next]_vars PROVE BlocksRecorded'
<1>1. ASSUME NEW t \in Thread, Python(t) \/ Bindings(t) \/ Cameras(t) \/ Interrupt(t)
      PROVE  BlocksRecorded'
  BY <1>1, PythonLeaves, BindingsLeaves, CamerasLeaves, BlocksStay DEF Interrupt, vbVars
<1>2. ASSUME NEW t \in Thread, NEW o \in Obj, NEW b \in Block, Get(t, o, b) PROVE BlocksRecorded'
  BY <1>2, GetKeeps DEF Get, TypeOK
<1>3. ASSUME NEW t \in Thread, GetFails(t) PROVE BlocksRecorded'
  BY <1>3, GetFailsKeeps DEF GetFails
<1>4. ASSUME NEW t \in Thread, Undo(t) \/ Put(t) PROVE BlocksRecorded'
  <2> DEFINE b == handle[arg[t]]
  <2>1. \/ UNCHANGED blocks
        \/ \E i \in RecordOf(b) : \E X, Y : PopBlocks({i}, X, Y)
    BY <1>4 DEF Undo, Put, PutBlock, PutBlockFails, vbVars
  <2>2. VbTypeOK /\ b # None
    BY <1>4 DEF TypeOK, MadeOK, Holding, Undo, Put, Step
  <2>3. QED
    BY <2>1, <2>2, PopKeeps, BlocksStay DEF RecordOf
<1>5. ASSUME SessionEnd \/ \E t \in Thread : CloseForce(t) PROVE BlocksRecorded'
  <2>1. PICK X, Y : PopBlocks({i \in Records : vb_records[i] # None}, X, Y)
    BY <1>5 DEF SessionEnd, CloseForce, VbMgmtDeinit
  <2>2. QED
    BY <2>1, PopKeeps DEF TypeOK
<1>6. ASSUME UNCHANGED vars PROVE BlocksRecorded'
  BY <1>6, BlocksStay DEF vars, vbVars
<1>7. QED
  BY <1>1, <1>2, <1>3, <1>4, <1>5, <1>6, Kinds DEF Blocks

\* A binding stays recorded, or about to be, in every step.
LEMMA BindingsStep ==
  ASSUME TypeOK, ArgOK, BindingsRecorded, [Next]_vars PROVE BindingsRecorded'
<1> VbTypeOK /\ DOMAIN pc = Thread /\ DOMAIN arg = Thread
  BY DEF TypeOK
<1>1. ASSUME NEW t \in Thread, LinkStore(t) PROVE BindingsRecorded'
  <2>1. /\ pc'[t] = "record" /\ arg'[t] = arg[t] /\ UNCHANGED <<bindings, lost>>
    BY <1>1 DEF LinkStore, Step, vbVars, hist
  <2>2. QED
    BY <1>1, <2>1, Alone, BindingsMove DEF Python, Recording, bindings, VbTypeOK, Entries
<1>2. ASSUME NEW t \in Thread, Python(t), ~LinkStore(t) PROVE BindingsRecorded'
  <2>1. pc[t] \notin Recording
    <3>1. CASE SeekBuffer(t) \/ Unlist(t) \/ SeekLink(t) \/ CloseTestLink(t) \/ CloseLink(t)
      BY <3>1 DEF SeekBuffer, Unlist, SeekLink, CloseTestLink, CloseLink, Find, Step, Recording
    <3>2. CASE AddFind(t) \/ CloseTestBuffer(t) \/ CloseBuffer(t) \/ CloseStart(t) \/ CloseEnd(t)
      BY <3>2 DEF AddFind, CloseTestBuffer, CloseBuffer, CloseStart, CloseEnd, Step, Recording
    <3>3. QED
      BY <1>2, <3>1, <3>2
         DEF Python, MediaInit, GetStart, AddStore, Delete, UndoDelete, DelLink, DelLinkClear,
             SensorRanMany, Step, Recording
  <2>2. QED
    BY <1>2, <2>1, Alone, PythonLeaves, BindingsQuiet DEF vbVars
<1>3. ASSUME NEW t \in Thread, Blocks(t) PROVE BindingsRecorded'
  <2>1. pc[t] \notin Recording
    BY <1>3 DEF Blocks, Get, GetFails, Undo, Put, Step, Recording
  <2>2. QED
    BY <1>3, <2>1, Alone, BlocksLeaves, BindingsQuiet
<1>4. ASSUME NEW t \in Thread, Cameras(t) PROVE BindingsRecorded'
  <2>1. pc[t] \notin Recording
    BY <1>4 DEF Cameras, SensorStart, SensorRunMany, SensorStop, SensorInited, SensorStartFails,
                SensorDeinited, Step, Recording
  <2>2. \E d \in Dev : lost' \in {lost, lost \cup {d}, lost \ {d}}
    <3>1. CASE SensorInited(t) \/ SensorStartFails(t) \/ SensorDeinited(t)
      <4>1. arg[t] \in Dev
        BY <3>1 DEF SensorInited, SensorStartFails, SensorDeinited, Step, ArgOK
      <4>2. QED
        BY <3>1, <4>1 DEF SensorInited, SensorStartFails, SensorDeinited, hist
    <3>2. QED
      BY <1>4, <3>1 DEF Cameras, SensorStart, SensorRunMany, SensorStop, hist
  <2>3. QED
    BY <1>4, <2>1, <2>2, MediaAssumption, Alone, CamerasLeaves, BindingsQuiet
<1>5. ASSUME NEW t \in Thread, NEW l \in Link, LinkBind(t, l) PROVE BindingsRecorded'
  <2>1. /\ pc[t] = "run" /\ pc'[t] = "bound" /\ arg'[t] = l /\ bound' = bound \cup {l}
        /\ UNCHANGED <<vb_mpp_links_records, keptLinks, lost>>
    BY <1>5 DEF LinkBind, Bind, Step, hist
  <2>2. \A u \in Thread \ {t} : pc'[u] = pc[u] /\ arg'[u] = arg[u]
    BY <1>5, Alone DEF Bindings
  <2>3. QED
    BY <2>1, <2>2, BindingsMove DEF Recording, VbTypeOK, Entries
<1>6. ASSUME NEW t \in Thread, LinkAdd(t) PROVE BindingsRecorded'
  <2>1. \A u \in Thread \ {t} : pc'[u] = pc[u] /\ arg'[u] = arg[u]
    BY <1>6, Alone DEF Bindings
  <2>2. /\ pc[t] = "bound" /\ UNCHANGED <<vb_mpp_links_records, lost>>
        /\ bound' \subseteq bound /\ keptLinks \subseteq keptLinks'
    BY <1>6 DEF LinkAdd, Step, Unbind, hist, vbVars, bindings
  <2>3. \/ pc'[t] = "push" /\ arg'[t] = arg[t]
        \/ arg[t] \notin bound' \/ arg[t] \in keptLinks'
    BY <1>6 DEF LinkAdd, Step, Unbind
  <2>4. QED
    BY <2>1, <2>2, <2>3, BindingsMove DEF Recording, VbTypeOK, Entries
<1>7. ASSUME NEW t \in Thread, LinkPush(t) PROVE BindingsRecorded'
  <2>1. \A u \in Thread \ {t} : pc'[u] = pc[u] /\ arg'[u] = arg[u]
    BY <1>7, Alone DEF Bindings
  <2>2. pc[t] = "record" /\ arg[t] \in Link /\ lost \subseteq lost' /\ UNCHANGED <<bound, keptLinks>>
    BY <1>7 DEF LinkPush, PushLinkInfo, Step, ArgOK
  <2>3. /\ Entries(vb_mpp_links_records) \subseteq Entries(vb_mpp_links_records')
        /\ arg[t] \in Entries(vb_mpp_links_records') \cup lost'
    <3>1. CASE Full(vb_mpp_links_records)
      BY <1>7, <3>1 DEF LinkPush, PushLinkInfo, IsFirstFree, Full
    <3>2. ASSUME NEW i \in LinkRecords, IsFirstFree(vb_mpp_links_records, i),
                 vb_mpp_links_records' = [vb_mpp_links_records EXCEPT ![i] = arg[t]]
          PROVE  Entries(vb_mpp_links_records) \cup {arg[t]} \subseteq Entries(vb_mpp_links_records')
      BY <2>2, <3>2, VbAssumption DEF Entries, IsFirstFree, VbTypeOK
    <3>3. QED
      BY <1>7, <3>1, <3>2 DEF LinkPush, PushLinkInfo
  <2>4. QED
    BY <2>1, <2>2, <2>3, BindingsMove DEF VbTypeOK
<1>8. ASSUME NEW t \in Thread, LinkPop(t) PROVE BindingsRecorded'
  <2>1. \A u \in Thread \ {t} : pc'[u] = pc[u] /\ arg'[u] = arg[u]
    BY <1>8, Alone DEF Bindings
  <2>2. pc[t] = "pop" /\ UNCHANGED lost
    BY <1>8 DEF LinkPop, Find, hist
  <2>3. PICK refused : PopLinks({arg[t]}, refused)
    BY <1>8 DEF LinkPop, PopLinkInfo
  <2>4. /\ bound' \subseteq bound /\ keptLinks \subseteq keptLinks'
        /\ bound' \cap Entries(vb_mpp_links_records) \subseteq Entries(vb_mpp_links_records') \cup keptLinks'
    BY <2>3 DEF PopLinks, Entries, VbTypeOK
  <2>5. QED
    BY <2>1, <2>2, <2>4, BindingsMove DEF Recording, VbTypeOK
<1>9. ASSUME NEW t \in Thread, Interrupt(t) PROVE BindingsRecorded'
  <2>1. /\ lost \subseteq lost' /\ (pc[t] \in Recording => arg[t] \in lost')
        /\ UNCHANGED <<vb_mpp_links_records, bound, keptLinks>>
    BY <1>9 DEF Interrupt, Recording, vbVars, bindings
  <2>2. \A u \in Thread \ {t} : pc'[u] = pc[u] /\ arg'[u] = arg[u]
    BY <1>9, Alone
  <2>3. QED
    BY <2>1, <2>2, BindingsMove DEF VbTypeOK, Entries
<1>10. ASSUME SessionEnd \/ \E t \in Thread : CloseForce(t) PROVE BindingsRecorded'
  <2>1. PICK refused : PopLinks(Entries(vb_mpp_links_records), refused)
    BY <1>10 DEF SessionEnd, CloseForce, VbMgmtDeinit
  <2>2. /\ bound' \subseteq bound /\ keptLinks \subseteq keptLinks' /\ UNCHANGED lost
        /\ bound' \cap Entries(vb_mpp_links_records) \subseteq keptLinks'
    BY <1>10, <2>1 DEF PopLinks, SessionEnd, CloseForce
  <2>3. CASE SessionEnd
    <3>1. \A u \in Thread : pc[u] = "run"
      BY <2>3 DEF SessionEnd
    <3>2. QED
      BY <2>2, <3>1 DEF BindingsRecorded
  <2>4. ASSUME NEW t \in Thread, CloseForce(t) PROVE BindingsRecorded'
    <3>1. pc[t] = "close"
      BY <2>4 DEF CloseForce, Step
    <3>2. QED
      BY <2>2, <2>4, <3>1, Alone, BindingsMove DEF Recording, VbTypeOK
  <2>5. QED
    BY <1>10, <2>3, <2>4
<1>11. ASSUME UNCHANGED vars PROVE BindingsRecorded'
  BY <1>11 DEF BindingsRecorded, Entries, vars, vbVars, bindings, call, hist
<1>12. QED
  BY <1>1, <1>2, <1>3, <1>4, <1>5, <1>6, <1>7, <1>8, <1>9, <1>10, <1>11, Kinds DEF Bindings

\* A camera stays recorded, or about to be, in every step.
LEMMA CamerasStep ==
  ASSUME TypeOK, ArgOK, CamerasRecorded, StopOK, [Next]_vars PROVE CamerasRecorded'
<1> DOMAIN pc = Thread /\ DOMAIN arg = Thread /\ VbTypeOK
  BY DEF TypeOK
<1>1. ASSUME NEW t \in Thread, \A u \in Thread \ {t} : pc'[u] = pc[u] /\ arg'[u] = arg[u],
             UNCHANGED vicap, \A d \in Dev : d \in lost => d \in lost', pc[t] # "inits"
      PROVE  CamerasRecorded'
  BY <1>1 DEF CamerasRecorded, vicap, VbTypeOK
<1>2. ASSUME NEW t \in Thread, Python(t) PROVE CamerasRecorded'
  <2>1. pc[t] # "inits"
    <3>1. CASE SeekBuffer(t) \/ Unlist(t) \/ SeekLink(t) \/ CloseTestLink(t) \/ CloseLink(t)
      BY <3>1 DEF SeekBuffer, Unlist, SeekLink, CloseTestLink, CloseLink, Find, Step
    <3>2. CASE AddFind(t) \/ CloseTestBuffer(t) \/ CloseBuffer(t) \/ CloseStart(t) \/ CloseEnd(t)
      BY <3>2 DEF AddFind, CloseTestBuffer, CloseBuffer, CloseStart, CloseEnd, Step
    <3>3. QED
      BY <1>2, <3>1, <3>2
         DEF Python, MediaInit, GetStart, AddStore, Delete, UndoDelete, LinkStore, DelLink,
             DelLinkClear, SensorRanMany, Step
  <2>2. QED
    BY <1>1, <1>2, <2>1, Alone, PythonLeaves DEF vbVars
<1>3. ASSUME NEW t \in Thread, Blocks(t) PROVE CamerasRecorded'
  <2>1. pc[t] # "inits"
    BY <1>3 DEF Blocks, Get, GetFails, Undo, Put, Step
  <2>2. QED
    BY <1>1, <1>3, <2>1, Alone, BlocksLeaves
<1>4. ASSUME NEW t \in Thread, Bindings(t) PROVE CamerasRecorded'
  <2>1. pc[t] # "inits" /\ lost \subseteq lost'
    BY <1>4 DEF Bindings, LinkBind, LinkAdd, LinkPush, LinkPop, Step, Find, hist
  <2>2. QED
    BY <1>1, <1>4, <2>1, Alone, BindingsLeaves
<1>5. ASSUME NEW t \in Thread, NEW d \in Dev, SensorStart(t, d) PROVE CamerasRecorded'
  BY <1>5, Alone DEF SensorStart, VicapInit, Step, CamerasRecorded, Cameras, hist
<1>6. ASSUME NEW t \in Thread, SensorInited(t) PROVE CamerasRecorded'
  BY <1>6, Alone DEF SensorInited, VicapDevInited, Step, CamerasRecorded, Cameras, hist
<1>7. ASSUME NEW t \in Thread, SensorStartFails(t) PROVE CamerasRecorded'
  <2>1. /\ \A u \in Thread \ {t} : pc'[u] = pc[u] /\ arg'[u] = arg[u]
        /\ UNCHANGED <<vicap_dev_stat, lost>> /\ running' \subseteq running /\ keptDevs \subseteq keptDevs'
        /\ arg[t] \in running' => arg[t] \in keptDevs'
    BY <1>7, Alone DEF SensorStartFails, VicapDeinit, Cameras, hist
  <2>2. QED
    BY <2>1 DEF CamerasRecorded
<1>8. ASSUME NEW t \in Thread, NEW d \in Dev, SensorRunMany(t, d) PROVE CamerasRecorded'
  BY <1>8, Alone DEF SensorRunMany, VicapInit, Step, CamerasRecorded, Cameras
<1>9. ASSUME NEW t \in Thread, NEW d \in Dev, SensorStop(t, d) PROVE CamerasRecorded'
  <2>1. /\ \A u \in Thread \ {t} : pc'[u] = pc[u] /\ arg'[u] = arg[u]
        /\ pc[t] = "run" /\ UNCHANGED vicap_dev_stat /\ lost' = lost \ {d}
        /\ running' \subseteq running /\ keptDevs \subseteq keptDevs'
        /\ d \in running' => d \in keptDevs'
    BY <1>9, Alone DEF SensorStop, VicapDeinit, Step, Cameras
  <2>2. QED
    BY <2>1 DEF CamerasRecorded
<1>10. ASSUME NEW t \in Thread, SensorDeinited(t) PROVE CamerasRecorded'
  <2>1. /\ \A u \in Thread \ {t} : pc'[u] = pc[u] /\ arg'[u] = arg[u]
        /\ pc[t] = "stopped" /\ UNCHANGED <<running, keptDevs, lost>>
        /\ vicap_dev_stat' = vicap_dev_stat \ {arg[t]}
    BY <1>10, Alone DEF SensorDeinited, VicapDevDeinited, Step, Cameras, hist
  <2>2. arg[t] \in running => arg[t] \in keptDevs
    BY <2>1 DEF StopOK
  <2>3. QED
    BY <2>1, <2>2 DEF CamerasRecorded
<1>11. ASSUME NEW t \in Thread, Interrupt(t) PROVE CamerasRecorded'
  <2>1. /\ \A u \in Thread \ {t} : pc'[u] = pc[u] /\ arg'[u] = arg[u]
        /\ UNCHANGED vicap /\ lost \subseteq lost' /\ (pc[t] = "inits" => arg[t] \in lost')
    BY <1>11, Alone DEF Interrupt, vbVars
  <2>2. QED
    BY <2>1 DEF CamerasRecorded, vicap
<1>12. ASSUME SessionEnd \/ \E t \in Thread : CloseForce(t) PROVE CamerasRecorded'
  <2>1. PICK refused : DeinitVicap(refused)
    BY <1>12 DEF SessionEnd, CloseForce, VbMgmtDeinit
  <2>2. /\ running' \subseteq running /\ keptDevs \subseteq keptDevs' /\ UNCHANGED lost
        /\ running' \cap vicap_dev_stat \subseteq keptDevs'
    BY <1>12, <2>1 DEF DeinitVicap, SessionEnd, CloseForce
  <2>3. CASE SessionEnd
    <3>1. \A u \in Thread : pc[u] = "run"
      BY <2>3 DEF SessionEnd
    <3>2. QED
      BY <2>2, <3>1 DEF CamerasRecorded
  <2>4. ASSUME NEW t \in Thread, CloseForce(t) PROVE CamerasRecorded'
    <3>1. pc[t] = "close"
      BY <2>4 DEF CloseForce, Step
    <3>2. \A u \in Thread \ {t} : pc'[u] = pc[u] /\ arg'[u] = arg[u]
      BY <2>4, Alone
    <3>3. QED
      BY <2>2, <3>1, <3>2 DEF CamerasRecorded
  <2>5. QED
    BY <1>12, <2>3, <2>4
<1>13. ASSUME UNCHANGED vars PROVE CamerasRecorded'
  BY <1>13 DEF CamerasRecorded, vars, vbVars, vicap, call, hist
<1>14. QED
  BY <1>2, <1>3, <1>4, <1>5, <1>6, <1>7, <1>8, <1>9, <1>10, <1>11, <1>12, <1>13, Kinds DEF Cameras

\* A camera that is being stopped is nobody else's, in every step.
LEMMA StopStep ==
  ASSUME TypeOK, ArgOK, StopOK, [Next]_vars PROVE StopOK'
<1> DEFINE Sensing == {"inits", "many", "stopped"}
<1> DOMAIN pc = Thread /\ DOMAIN arg = Thread
  BY DEF TypeOK
<1>1. ASSUME NEW t \in Thread, \A u \in Thread \ {t} : pc'[u] = pc[u] /\ arg'[u] = arg[u],
             pc'[t] \notin Sensing, _is_started \subseteq _is_started',
             running' \subseteq running, keptDevs \subseteq keptDevs'
      PROVE  StopOK'
  BY <1>1 DEF StopOK
<1>2. ASSUME NEW t \in Thread, Python(t) PROVE StopOK'
  <2>1. pc'[t] \notin Sensing
    <3>1. CASE SeekBuffer(t) \/ Unlist(t) \/ SeekLink(t) \/ CloseTestLink(t) \/ CloseLink(t)
      BY <3>1 DEF SeekBuffer, Unlist, SeekLink, CloseTestLink, CloseLink, Find, Step, LinkHome
    <3>2. CASE AddFind(t) \/ CloseTestBuffer(t) \/ CloseBuffer(t) \/ CloseStart(t) \/ CloseEnd(t)
      BY <3>2 DEF AddFind, CloseTestBuffer, CloseBuffer, CloseStart, CloseEnd, Step
    <3>3. CASE MediaInit(t)
      BY <3>3 DEF MediaInit, call
    <3>4. QED
      BY <1>2, <3>1, <3>2, <3>3
         DEF Python, GetStart, AddStore, Delete, UndoDelete, LinkStore, DelLink,
             DelLinkClear, SensorRanMany, Step, LinkHome
  <2>2. _is_started \subseteq _is_started'
    BY <1>2 DEF Python, MediaInit, GetStart, AddFind, AddStore, Delete, UndoDelete, SeekBuffer,
                Unlist, LinkStore, DelLink, SeekLink, DelLinkClear, CloseStart, CloseTestLink,
                CloseLink, CloseTestBuffer, CloseBuffer, CloseEnd, SensorRanMany, lists
  <2>3. QED
    BY <1>1, <1>2, <2>1, <2>2, Alone, PythonLeaves DEF vbVars, vicap
<1>3. ASSUME NEW t \in Thread, Blocks(t) PROVE StopOK'
  <2>1. pc'[t] \notin Sensing
    BY <1>3 DEF Blocks, Get, GetFails, Undo, Put, Step, Home
  <2>2. QED
    BY <1>1, <1>3, <2>1, Alone, BlocksLeaves DEF vicap
<1>4. ASSUME NEW t \in Thread, Bindings(t) PROVE StopOK'
  <2>1. pc'[t] \notin Sensing
    BY <1>4 DEF Bindings, LinkBind, LinkAdd, LinkPush, LinkPop, Step, Find
  <2>2. QED
    BY <1>1, <1>4, <2>1, Alone, BindingsLeaves DEF vicap
<1>5. ASSUME NEW t \in Thread, NEW d \in Dev, SensorStart(t, d) \/ SensorRunMany(t, d) PROVE StopOK'
  <2>1. /\ \A u \in Thread \ {t} : pc'[u] = pc[u] /\ arg'[u] = arg[u]
        /\ pc'[t] \in {"inits", "many"} /\ arg'[t] = d /\ d \notin _is_started
        /\ running' = running \cup {d} /\ UNCHANGED <<keptDevs, _is_started>>
    BY <1>5, Alone DEF Cameras, SensorStart, SensorRunMany, VicapInit, Step, lists
  <2>2. QED
    BY <2>1 DEF StopOK
<1>6. ASSUME NEW t \in Thread, SensorInited(t) \/ SensorStartFails(t) PROVE StopOK'
  <2>1. /\ pc'[t] = "run" /\ _is_started \subseteq _is_started'
        /\ running' \subseteq running /\ keptDevs \subseteq keptDevs'
    BY <1>6 DEF SensorInited, VicapDevInited, SensorStartFails, VicapDeinit, Step, lists
  <2>2. QED
    BY <1>1, <1>6, <2>1, Alone DEF Cameras
<1>7. ASSUME NEW t \in Thread, NEW d \in Dev, SensorStop(t, d) PROVE StopOK'
  <2>1. /\ \A u \in Thread \ {t} : pc'[u] = pc[u] /\ arg'[u] = arg[u]
        /\ pc'[t] = "stopped" /\ arg'[t] = d /\ d \in _is_started /\ \A u \in Thread : arg[u] # d
        /\ running' \subseteq running /\ keptDevs \subseteq keptDevs' /\ UNCHANGED _is_started
        /\ d \in running' => d \in keptDevs'
    BY <1>7, Alone DEF Cameras, SensorStop, VicapDeinit, Step, lists
  <2>2. QED
    BY <2>1 DEF StopOK
<1>8. ASSUME NEW t \in Thread, SensorDeinited(t) PROVE StopOK'
  <2>1. /\ \A u \in Thread \ {t} : pc'[u] = pc[u] /\ arg'[u] = arg[u]
        /\ pc[t] = "stopped" /\ pc'[t] = "run"
        /\ UNCHANGED <<running, keptDevs>> /\ _is_started' = _is_started \ {arg[t]}
    BY <1>8, Alone DEF Cameras, SensorDeinited, VicapDevDeinited, Step
  <2>2. QED
    BY <2>1 DEF StopOK
<1>9. ASSUME NEW t \in Thread, Interrupt(t) PROVE StopOK'
  BY <1>1, <1>9, Alone DEF Interrupt, vbVars, vicap, lists
<1>10. ASSUME NEW t \in Thread, CloseForce(t) PROVE StopOK'
  BY <1>1, <1>10, Alone DEF CloseForce, VbMgmtDeinit, DeinitVicap, Step, lists
<1>11. ASSUME SessionEnd PROVE StopOK'
  BY <1>11 DEF SessionEnd, StopOK, call
<1>12. ASSUME UNCHANGED vars PROVE StopOK'
  BY <1>12 DEF StopOK, vars, vbVars, vicap, call, lists
<1>13. QED
  BY <1>2, <1>3, <1>4, <1>5, <1>6, <1>7, <1>8, <1>9, <1>10, <1>11, <1>12, Kinds DEF Cameras

-----------------------------------------------------------------------------
(* Live Buffers                                                            *)

\* A step that neither makes an object nor hands one on.
LEMMA LiveQuiet ==
  ASSUME TypeOK, ArgOK, LiveOK, NEW t \in Thread,
         \A u \in Thread \ {t} : pc'[u] = pc[u] /\ arg'[u] = arg[u],
         pc'[t] \in Holding \cup {"del"} =>
           /\ arg'[t] = arg[t]
           /\ \/ pc'[t] = pc[t]
              \/ {pc[t], pc'[t]} \subseteq {"got", "store", "undo"}
              \/ {pc[t], pc'[t]} \subseteq {"seek", "unlist", "put"},
         UNCHANGED _buffers \/ Entries(_buffers') \subseteq Entries(_buffers),
         UNCHANGED <<handle, returned, deleted, twice>>, held \subseteq held'
  PROVE  LiveOK'
<1>1. MadeOK'
  BY DEF LiveOK, MadeOK, Holding, Entries
<1>2. ASSUME ~twice' PROVE OrderOK' /\ OwnOK'
  <2>1. OrderOK /\ OwnOK
    BY <1>2 DEF LiveOK
  <2>2. \A u \in Thread : pc'[u] \in Holding => pc[u] \in Holding /\ arg'[u] = arg[u]
    BY DEF Holding
  <2>3. \A o \in Obj : Owning(o)' => Owning(o)
    BY <2>2 DEF Owning
  <2>4. OrderOK'
    BY <2>1 DEF OrderOK, Holding
  <2>5. OwnOK'
    BY <2>1, <2>2, <2>3 DEF OwnOK
  <2>6. QED
    BY <2>4, <2>5
<1>3. QED
  BY <1>1, <1>2 DEF LiveOK

\* A step that hands an object on, or takes it out of use: nobody owns more.
LEMMA LiveMoves ==
  ASSUME OwnOK, NEW t \in Thread, handle' = handle,
         \A u \in Thread \ {t} : pc'[u] = pc[u] /\ arg'[u] = arg[u],
         \A o \in Obj : Owning(o)' => Owning(o) /\ handle[o] \in held',
         \A u \in Thread \ {t} : pc'[t] \in Holding /\ arg'[t] = arg[u] => pc[u] \notin Holding
  PROVE  OwnOK'
<1>1. \A u, v \in Thread : {pc'[u], pc'[v]} \subseteq Holding /\ arg'[u] = arg'[v] => u = v
  BY DEF OwnOK
<1>2. \A o \in Obj : Owning(o)' => handle'[o] \in held'
  OBVIOUS
<1>3. \A o, p \in Obj : Owning(o)' /\ Owning(p)' /\ handle'[o] = handle'[p] => o = p
  BY DEF OwnOK
<1>4. QED
  BY <1>1, <1>2, <1>3 DEF OwnOK

\* Buffer.get with the block it was given.
LEMMA LiveGet ==
  ASSUME TypeOK, ArgOK, LiveOK, NEW t \in Thread, NEW o \in Obj, NEW b \in Block, Get(t, o, b)
  PROVE  LiveOK'
<1>1. /\ handle[o] = None /\ handle' = [handle EXCEPT ![o] = b] /\ b \notin held
      /\ held' = held \cup {b} /\ pc[t] = "get"
      /\ pc' = [pc EXCEPT ![t] = "got"] /\ arg' = [arg EXCEPT ![t] = o]
      /\ UNCHANGED <<_buffers, returned, deleted, twice>>
  BY DEF Get, GetBlock, FreeBlocks, Step, lists, hist
<1>2. pc \in [Thread -> PC] /\ handle \in [Obj -> Block \cup {None}] /\ DOMAIN arg = Thread
  BY DEF TypeOK
<1>3. b # None /\ \A p \in Obj : handle'[p] = IF p = o THEN b ELSE handle[p]
  BY <1>1, <1>2, VbAssumption
<1>4. /\ pc'[t] = "got" /\ arg'[t] = o
      /\ \A u \in Thread \ {t} : pc'[u] = pc[u] /\ arg'[u] = arg[u]
  BY <1>1, <1>2
<1>5. /\ o \notin returned \cup deleted
      /\ \A u \in Thread : pc[u] \in Holding => arg[u] # o
  BY <1>1 DEF LiveOK, MadeOK
<1>6. MadeOK'
  <2>1. \A p \in returned \cup deleted : handle'[p] # None
    BY <1>3, <1>5 DEF LiveOK, MadeOK, TypeOK
  <2>2. \A u \in Thread : pc'[u] \in Holding \cup {"del"} => handle'[arg'[u]] # None
    <3>1. \A u \in Thread : pc[u] \in Holding \cup {"del"} => arg[u] \in Obj
      BY DEF ArgOK, Holding
    <3>2. QED
      BY <1>3, <1>4, <3>1 DEF LiveOK, MadeOK
  <2>3. QED
    BY <1>1, <2>1, <2>2 DEF LiveOK, MadeOK, Entries
<1>7. ASSUME ~twice' PROVE OrderOK' /\ OwnOK'
  <2>1. OrderOK /\ OwnOK
    BY <1>1, <1>7 DEF LiveOK
  <2>2. OrderOK'
    BY <1>1, <1>4, <1>5, <2>1 DEF OrderOK
  <2>3. \A p \in Obj : Owning(p)' => p = o \/ (Owning(p) /\ handle[p] \in held)
    BY <1>1, <1>4, <2>1 DEF Owning, OwnOK
  <2>4. \A p \in Obj : Owning(p)' => handle'[p] \in held' /\ (handle'[p] = b => p = o)
    BY <1>1, <1>3, <2>3
  <2>5. \A u, v \in Thread : {pc'[u], pc'[v]} \subseteq Holding /\ arg'[u] = arg'[v] => u = v
    BY <1>4, <1>5, <2>1 DEF OwnOK
  <2>6. \A p, q \in Obj : Owning(p)' /\ Owning(q)' /\ handle'[p] = handle'[q] => p = q
    BY <1>3, <2>1, <2>3, <2>4 DEF OwnOK
  <2>7. QED
    BY <2>2, <2>4, <2>5, <2>6 DEF OwnOK
<1>8. QED
  BY <1>6, <1>7 DEF LiveOK

\* get() returns the object.
LEMMA LiveStore ==
  ASSUME TypeOK, ArgOK, LiveOK, NEW t \in Thread, AddStore(t) PROVE LiveOK'
<1>1. /\ pc[t] = "store" /\ arg[t] \in Obj /\ pc' = [pc EXCEPT ![t] = "run"]
      /\ arg' = [arg EXCEPT ![t] = None] /\ UNCHANGED <<handle, deleted, twice, held>>
      /\ returned' = returned \cup {arg[t]}
      /\ _buffers' = [_buffers EXCEPT ![at[t]] = arg[t]]
  BY DEF AddStore, Step, ArgOK, vbVars, blocks
<1>2. /\ pc'[t] = "run" /\ \A u \in Thread \ {t} : pc'[u] = pc[u] /\ arg'[u] = arg[u]
  BY <1>1 DEF TypeOK
<1>3. MadeOK'
  <2>1. handle[arg[t]] # None
    BY <1>1 DEF LiveOK, MadeOK, Holding
  <2>2. \A s \in Slots : _buffers'[s] = _buffers[s] \/ _buffers'[s] = arg[t]
    BY <1>1 DEF TypeOK
  <2>3. DOMAIN _buffers' = Slots /\ DOMAIN _buffers = Slots
    BY <1>1 DEF TypeOK
  <2>4. Entries(_buffers') \subseteq returned'
    BY <1>1, <2>2, <2>3 DEF LiveOK, MadeOK, Entries
  <2>5. QED
    BY <1>1, <1>2, <2>1, <2>4 DEF LiveOK, MadeOK, Holding
<1>4. ASSUME ~twice' PROVE OrderOK' /\ OwnOK'
  <2>1. OrderOK /\ OwnOK
    BY <1>1, <1>4 DEF LiveOK
  <2>2. \A u \in Thread \ {t} : pc[u] \in Holding => arg[u] # arg[t]
    BY <1>1, <2>1 DEF OwnOK, Holding
  <2>3. OrderOK'
    BY <1>1, <1>2, <2>1, <2>2 DEF OrderOK, Holding
  <2>4. \A o \in Obj : Owning(o)' => Owning(o)
    BY <1>1, <1>2 DEF Owning, Holding
  <2>5. OwnOK'
    BY <1>1, <1>2, <2>1, <2>4, LiveMoves DEF OwnOK, Holding
  <2>6. QED
    BY <2>3, <2>5
<1>5. QED
  BY <1>3, <1>4 DEF LiveOK

\* Without a slot the block goes back before __del__ is called.
LEMMA LiveUndo ==
  ASSUME TypeOK, ArgOK, LiveOK, NEW t \in Thread, Undo(t) PROVE LiveOK'
<1>1. /\ pc[t] = "undo" /\ arg[t] \in Obj /\ pc' = [pc EXCEPT ![t] = "del"]
      /\ arg' = [arg EXCEPT ![t] = arg[t]] /\ UNCHANGED <<handle, returned, twice, _buffers>>
      /\ deleted' = deleted \cup {arg[t]}
  BY DEF Undo, Step, ArgOK, lists
<1>2. held \ {handle[arg[t]]} \subseteq held'
  BY DEF Undo, PutBlock, PutBlockFails, PopBlocks, RecordOf, vbVars, blocks
<1>3. /\ pc'[t] = "del" /\ arg'[t] = arg[t]
      /\ \A u \in Thread \ {t} : pc'[u] = pc[u] /\ arg'[u] = arg[u]
  BY <1>1 DEF TypeOK
<1>4. MadeOK'
  BY <1>1, <1>3 DEF LiveOK, MadeOK, Holding, Entries
<1>5. ASSUME ~twice' PROVE OrderOK' /\ OwnOK'
  <2>1. OrderOK /\ OwnOK
    BY <1>1, <1>5 DEF LiveOK
  <2>2. \A u \in Thread \ {t} : pc[u] \in Holding => arg[u] # arg[t]
    BY <1>1, <2>1 DEF OwnOK, Holding
  <2>3. OrderOK'
    BY <1>1, <1>3, <2>1, <2>2 DEF OrderOK, Holding
  <2>4. \A o \in Obj : Owning(o)' => Owning(o) /\ o # arg[t]
    BY <1>1, <1>3, <2>2 DEF Owning, Holding
  <2>5. Owning(arg[t])
    BY <1>1 DEF Owning, Holding
  <2>6. \A o \in Obj : Owning(o)' => handle[o] \in held'
    BY <1>1, <1>2, <2>1, <2>4, <2>5 DEF OwnOK
  <2>7. OwnOK'
    BY <1>1, <1>3, <2>1, <2>4, <2>6, LiveMoves DEF Holding
  <2>8. QED
    BY <2>3, <2>7
<1>6. QED
  BY <1>4, <1>5 DEF LiveOK

\* __del__ of an object that scripts have.
LEMMA LiveDelete ==
  ASSUME TypeOK, ArgOK, LiveOK, NEW t \in Thread, NEW o \in returned,
         pc[t] \in {"run", "close it"}, pc' = [pc EXCEPT ![t] = "seek"],
         arg' = [arg EXCEPT ![t] = o], deleted' = deleted \cup {o},
         twice' = (twice \/ o \in deleted), UNCHANGED <<handle, _buffers, returned, held>>
  PROVE  LiveOK'
<1>1. /\ pc'[t] = "seek" /\ arg'[t] = o /\ o \in Obj
      /\ \A u \in Thread \ {t} : pc'[u] = pc[u] /\ arg'[u] = arg[u]
  BY DEF TypeOK
<1>2. MadeOK'
  <2>1. handle'[o] # None /\ \A p \in returned' \cup deleted' : handle'[p] # None
    BY DEF LiveOK, MadeOK
  <2>2. ASSUME NEW u \in Thread, pc'[u] \in Holding \cup {"del"} PROVE handle'[arg'[u]] # None
    <3>1. CASE u = t
      BY <1>1, <2>1, <3>1
    <3>2. CASE u # t
      BY <1>1, <2>2, <3>2 DEF LiveOK, MadeOK
    <3>3. QED
      BY <3>1, <3>2
  <2>3. QED
    BY <2>1, <2>2 DEF LiveOK, MadeOK, Entries
<1>3. ASSUME ~twice' PROVE OrderOK' /\ OwnOK'
  <2>1. OrderOK /\ OwnOK /\ o \notin deleted
    BY <1>3 DEF LiveOK
  <2>2. \A u \in Thread : pc[u] \in Holding => arg[u] # o
    BY <2>1 DEF OrderOK, Holding
  <2>3. OrderOK'
    <3>1. \A p : /\ p \in returned' \cup deleted' <=> p \in returned \cup deleted
                 /\ p \in deleted' <=> p = o \/ p \in deleted
      OBVIOUS
    <3>2. ASSUME NEW u \in Thread \ {t}
          PROVE  /\ pc'[u] \in {"got", "store", "undo"} => arg'[u] \notin returned' \cup deleted'
                 /\ pc'[u] \in {"seek", "unlist", "put"} => arg'[u] \in deleted'
      <4>1. pc'[u] = pc[u] /\ arg'[u] = arg[u]
        BY <1>1
      <4>2. QED
        BY <2>1, <3>1, <4>1 DEF OrderOK
    <3>3. arg'[t] \in deleted' /\ pc'[t] \notin {"got", "store", "undo"}
      BY <1>1, <3>1
    <3>4. QED
      BY <3>2, <3>3 DEF OrderOK
  <2>4. Owning(o)
    BY <2>1 DEF Owning
  <2>5. \A p \in Obj : Owning(p)' => Owning(p)
    BY <1>1, <2>4 DEF Owning
  <2>6. \A p \in Obj : Owning(p)' => handle[p] \in held'
    BY <2>1, <2>5 DEF OwnOK
  <2>7. OwnOK'
    BY <1>1, <2>1, <2>2, <2>5, <2>6, LiveMoves
  <2>8. QED
    BY <2>3, <2>7
<1>4. QED
  BY <1>2, <1>3 DEF LiveOK

\* __del__ gives the block back, or is told that there is none.
LEMMA LivePut ==
  ASSUME TypeOK, ArgOK, LiveOK, NEW t \in Thread, Put(t) PROVE LiveOK'
<1>1. /\ pc[t] = "put" /\ arg[t] \in Obj /\ UNCHANGED <<handle, returned, twice, deleted, _buffers>>
  BY DEF Put, Step, ArgOK, lists, hist
<1>2. held \ {handle[arg[t]]} \subseteq held'
  BY DEF Put, PutBlock, PutBlockFails, PopBlocks, RecordOf, vbVars, blocks
<1>3. /\ pc'[t] \in {"run", "close"}
      /\ \A u \in Thread \ {t} : pc'[u] = pc[u] /\ arg'[u] = arg[u]
  BY DEF Put, Step, Home, TypeOK
<1>4. MadeOK'
  BY <1>1, <1>3 DEF LiveOK, MadeOK, Holding, Entries
<1>5. ASSUME ~twice' PROVE OrderOK' /\ OwnOK'
  <2>1. OrderOK /\ OwnOK
    BY <1>1, <1>5 DEF LiveOK
  <2>2. OrderOK'
    BY <1>1, <1>3, <2>1 DEF OrderOK
  <2>3. /\ arg[t] \in deleted
        /\ \A u \in Thread \ {t} : pc[u] \in Holding => arg[u] # arg[t]
    BY <1>1, <2>1 DEF OrderOK, OwnOK, Holding
  <2>4. \A o \in Obj : Owning(o)' => Owning(o) /\ o # arg[t]
    BY <1>1, <1>3, <2>3 DEF Owning, Holding
  <2>5. Owning(arg[t])
    BY <1>1 DEF Owning, Holding
  <2>6. \A o \in Obj : Owning(o)' => handle[o] \in held'
    BY <1>1, <1>2, <2>1, <2>4, <2>5 DEF OwnOK
  <2>7. OwnOK'
    BY <1>1, <1>3, <2>1, <2>4, <2>6, LiveMoves DEF Holding
  <2>8. QED
    BY <2>2, <2>7
<1>6. QED
  BY <1>4, <1>5 DEF LiveOK

\* Live Buffers keep their blocks in every step.
LEMMA LiveStep ==
  ASSUME TypeOK, ArgOK, LiveOK, [Next]_vars PROVE LiveOK'
<1>1. ASSUME NEW t \in Thread, MediaInit(t) PROVE LiveOK'
  BY <1>1, LiveQuiet DEF MediaInit, Step, Holding, TypeOK, PC, vbVars, blocks, call,
     lists, hist
<1>2. ASSUME NEW t \in Thread, GetStart(t) PROVE LiveOK'
  BY <1>2, LiveQuiet DEF GetStart, Step, Holding, TypeOK, PC, vbVars, blocks, call,
     lists, hist
<1>3. ASSUME NEW t \in Thread, GetFails(t) PROVE LiveOK'
  BY <1>3, LiveQuiet DEF GetFails, GetBlockFails, Step, Holding, TypeOK, PC, vbVars, blocks, call,
     lists, hist
<1>4. ASSUME NEW t \in Thread, AddFind(t) PROVE LiveOK'
  BY <1>4, LiveQuiet DEF AddFind, Step, Holding, TypeOK, PC, vbVars, blocks, call,
     lists, hist
<1>5. ASSUME NEW t \in Thread, CloseStart(t) PROVE LiveOK'
  BY <1>5, LiveQuiet DEF CloseStart, Step, Holding, TypeOK, PC, vbVars, blocks, call,
     lists, hist
<1>6. ASSUME NEW t \in Thread, CloseEnd(t) PROVE LiveOK'
  BY <1>6, LiveQuiet DEF CloseEnd, Step, Holding, TypeOK, PC, vbVars, blocks, call,
     lists, hist
<1>7. ASSUME NEW t \in Thread, DelLinkClear(t) PROVE LiveOK'
  BY <1>7, LiveQuiet DEF DelLinkClear, LinkHome, Step, Holding, TypeOK, PC, vbVars, blocks, call,
     lists, hist
<1>8. ASSUME NEW t \in Thread, LinkStore(t) PROVE LiveOK'
  BY <1>8, LiveQuiet DEF LinkStore, Step, Holding, TypeOK, PC, vbVars, blocks, call,
     lists, hist
<1>9. ASSUME NEW t \in Thread, LinkPush(t) PROVE LiveOK'
  BY <1>9, LiveQuiet DEF LinkPush, PushLinkInfo, Step, Holding, TypeOK, PC, vbVars, blocks, call,
     lists, hist
<1>10. ASSUME NEW t \in Thread, LinkAdd(t) PROVE LiveOK'
  BY <1>10, LiveQuiet DEF LinkAdd, Unbind, Step, Holding, TypeOK, PC, vbVars, blocks, call,
     lists, hist
<1>11. ASSUME NEW t \in Thread, CloseLink(t) PROVE LiveOK'
  <2>1. pc'[t] \in {"seek link", "run"} /\ UNCHANGED <<handle, _buffers, returned, deleted, twice, held>>
    BY <1>11 DEF CloseLink, Step, TypeOK, vbVars, blocks, lists, hist
  <2>2. QED
    BY <1>11, <2>1, Alone, LiveQuiet DEF Python, Holding
<1>12. ASSUME NEW t \in Thread, SensorInited(t) PROVE LiveOK'
  BY <1>12, LiveQuiet DEF SensorInited, VicapDevInited, Step, Holding, TypeOK, PC, vbVars, blocks, call,
     lists, hist
<1>13. ASSUME NEW t \in Thread, SensorRanMany(t) PROVE LiveOK'
  BY <1>13, LiveQuiet DEF SensorRanMany, Step, Holding, TypeOK, PC, vbVars, blocks, call,
     lists, hist
<1>14. ASSUME NEW t \in Thread, SensorDeinited(t) PROVE LiveOK'
  BY <1>14, LiveQuiet DEF SensorDeinited, VicapDevDeinited, Step, Holding, TypeOK, PC, vbVars, blocks, call,
     lists, hist
<1>15. ASSUME NEW t \in Thread, Interrupt(t) PROVE LiveOK'
  BY <1>15, LiveQuiet DEF Interrupt, Step, Holding, TypeOK, PC, vbVars, blocks, call,
     lists, hist
<1>16. ASSUME NEW t \in Thread, NEW l \in Link, LinkBind(t, l) PROVE LiveOK'
  BY <1>16, LiveQuiet DEF LinkBind, Bind, Step, Holding, TypeOK, PC, vbVars, blocks, call,
     lists, hist
<1>17. ASSUME NEW t \in Thread, NEW l \in Link, DelLink(t, l) PROVE LiveOK'
  BY <1>17, LiveQuiet DEF DelLink, Step, Holding, TypeOK, PC, vbVars, blocks, call,
     lists, hist
<1>18. ASSUME NEW t \in Thread, NEW d \in Dev, SensorStart(t, d) PROVE LiveOK'
  BY <1>18, LiveQuiet DEF SensorStart, VicapInit, Step, Holding, TypeOK, PC, vbVars, blocks, call,
     lists, hist
<1>19. ASSUME NEW t \in Thread, NEW d \in Dev, SensorRunMany(t, d) PROVE LiveOK'
  BY <1>19, LiveQuiet DEF SensorRunMany, VicapInit, Step, Holding, TypeOK, PC, vbVars, blocks, call,
     lists, hist
<1>20. ASSUME NEW t \in Thread, NEW d \in Dev, SensorStop(t, d) PROVE LiveOK'
  BY <1>20, LiveQuiet DEF SensorStop, VicapDeinit, Step, Holding, TypeOK, PC, vbVars, blocks, call,
     lists, hist
<1>21. ASSUME NEW t \in Thread, NEW o \in Obj, Delete(t, o) PROVE LiveOK'
  BY <1>21, LiveDelete DEF Delete, Step, vbVars, blocks, lists
<1>22. ASSUME NEW t \in Thread, UndoDelete(t) PROVE LiveOK'
  <2>1. /\ pc[t] = "del" /\ pc' = [pc EXCEPT ![t] = "seek"] /\ arg' = [arg EXCEPT ![t] = arg[t]]
        /\ twice' = TRUE /\ UNCHANGED <<handle, _buffers, returned, deleted>>
    BY <1>22 DEF UndoDelete, Step, lists
  <2>2. MadeOK'
    BY <2>1 DEF LiveOK, MadeOK, Holding, Entries, TypeOK
  <2>3. QED
    BY <2>1, <2>2 DEF LiveOK
<1>23. ASSUME NEW t \in Thread, CloseBuffer(t) PROVE LiveOK'
  <2>1. at[t] \in Slots
    BY <1>23 DEF CloseBuffer, ArgOK
  <2>2. CASE _buffers[at[t]] = None
    BY <1>23, <2>2, LiveQuiet DEF CloseBuffer, Step, Holding, TypeOK, PC, vbVars, blocks, lists
  <2>3. CASE _buffers[at[t]] # None
    <3>1. _buffers[at[t]] \in returned
      BY <2>1, <2>3 DEF LiveOK, MadeOK, Entries, TypeOK
    <3>2. QED
      BY <1>23, <2>3, <3>1, LiveDelete DEF CloseBuffer, Step, vbVars, blocks, lists
  <2>4. QED
    BY <2>2, <2>3
<1>24. ASSUME NEW t \in Thread, CloseForce(t) PROVE LiveOK'
  <2>1. /\ pc' = [pc EXCEPT ![t] = "run"] /\ arg' = [arg EXCEPT ![t] = None]
        /\ deleted' = {o \in Obj : handle[o] # None}
        /\ twice' = (twice \/ \E u \in Thread \ {t} : pc[u] # "run")
        /\ UNCHANGED <<handle, returned, _buffers>>
    BY <1>24 DEF CloseForce, Step, lists
  <2>2. /\ pc'[t] = "run" /\ \A u \in Thread \ {t} : pc'[u] = pc[u] /\ arg'[u] = arg[u]
    BY <2>1 DEF TypeOK
  <2>3. MadeOK'
    BY <2>1, <2>2 DEF LiveOK, MadeOK, Holding, Entries
  <2>4. ASSUME ~twice' PROVE OrderOK' /\ OwnOK'
    <3>1. \A u \in Thread : pc'[u] = "run"
      BY <2>1, <2>2, <2>4
    <3>2. returned' \subseteq deleted'
      BY <2>1 DEF LiveOK, MadeOK, TypeOK
    <3>3. \A o \in Obj : ~Owning(o)'
      BY <3>1, <3>2 DEF Owning, Holding
    <3>4. QED
      BY <3>1, <3>3 DEF OrderOK, OwnOK, Holding
  <2>5. QED
    BY <2>3, <2>4 DEF LiveOK
<1>25. ASSUME SessionEnd PROVE LiveOK'
  <2>1. /\ \A u \in Thread : pc'[u] = "run"
        /\ returned' = {} /\ deleted' = {} /\ _buffers' = [s \in Slots |-> None]
    BY <1>25 DEF SessionEnd, call
  <2>2. MadeOK'
    BY <2>1 DEF MadeOK, Holding, Entries
  <2>3. \A o \in Obj : ~Owning(o)'
    BY <2>1 DEF Owning, Holding
  <2>4. OrderOK' /\ OwnOK'
    BY <2>1, <2>3 DEF OrderOK, OwnOK, Holding
  <2>5. QED
    BY <2>2, <2>4 DEF LiveOK
<1>26. ASSUME UNCHANGED vars PROVE LiveOK'
  <2>1. UNCHANGED <<pc, arg, handle, _buffers, returned, deleted, twice, held>>
    BY <1>26 DEF vars, call, vbVars, blocks, lists, hist
  <2>2. QED
    BY <2>1 DEF LiveOK, MadeOK, OrderOK, OwnOK, Owning, Holding, Entries
<1>27. ASSUME NEW t \in Thread, SeekBuffer(t) PROVE LiveOK'
  BY <1>27, LiveQuiet DEF SeekBuffer, Find, Step, Holding, TypeOK, PC, vbVars, blocks, call,
     lists, hist
<1>28. ASSUME NEW t \in Thread, SeekLink(t) PROVE LiveOK'
  BY <1>28, LiveQuiet DEF SeekLink, Find, LinkHome, Step, Holding, TypeOK, PC, vbVars, blocks, call,
     lists, hist
<1>29. ASSUME NEW t \in Thread, LinkPop(t) PROVE LiveOK'
  BY <1>29, LiveQuiet DEF LinkPop, Find, PopLinkInfo, Step, Holding, TypeOK, PC, vbVars, blocks, call,
     lists, hist
<1>30. ASSUME NEW t \in Thread, CloseTestLink(t) PROVE LiveOK'
  BY <1>30, LiveQuiet DEF CloseTestLink, Step, Holding, TypeOK, PC, vbVars, blocks, call,
     lists, hist
<1>31. ASSUME NEW t \in Thread, CloseTestBuffer(t) PROVE LiveOK'
  BY <1>31, LiveQuiet DEF CloseTestBuffer, Step, Holding, TypeOK, PC, vbVars, blocks, call,
     lists, hist
<1>32. ASSUME NEW t \in Thread, SensorStartFails(t) PROVE LiveOK'
  BY <1>32, LiveQuiet DEF SensorStartFails, VicapDeinit, Step, Holding, TypeOK, PC, vbVars, blocks, call,
     lists, hist
<1>33. ASSUME NEW t \in Thread, Unlist(t) PROVE LiveOK'
  <2>1. /\ pc[t] = "unlist" /\ pc' = [pc EXCEPT ![t] = "put"] /\ UNCHANGED arg
        /\ _buffers' = [_buffers EXCEPT ![found[t]] = None]
        /\ UNCHANGED <<handle, returned, deleted, twice, held>>
    BY <1>33 DEF Unlist, Find, vbVars, blocks, hist
  <2>2. Entries(_buffers') \subseteq Entries(_buffers)
    BY <2>1 DEF Entries, TypeOK
  <2>3. QED
    BY <2>1, <2>2, LiveQuiet DEF TypeOK
<1>34. QED
  BY <1>1, <1>2, <1>3, <1>4, <1>5, <1>6, <1>7, <1>8, <1>9, <1>10, <1>11, <1>12, <1>13, <1>14,
     <1>15, <1>16, <1>17, <1>18, <1>19, <1>20, <1>21, <1>22, <1>23, <1>24, <1>25, <1>26, <1>27, <1>28, <1>29, <1>30,
     <1>31, <1>32, <1>33, LiveGet,
     LiveStore, LiveUndo, LivePut DEF Next

\* Nothing is taken and nobody is in a call at first.
LEMMA InitOK == Init => IInv
<1> SUFFICES ASSUME Init PROVE IInv
  OBVIOUS
<1>1. TypeOK /\ ArgOK /\ StopOK
  BY MediaAssumption DEF Init, VbInit, TypeOK, VbTypeOK, ArgOK, StopOK, PC
<1>2. BlocksRecorded
  BY DEF Init, VbInit, BlocksRecorded, Entries
<1>3. BindingsRecorded /\ CamerasRecorded
  BY DEF Init, VbInit, BindingsRecorded, CamerasRecorded
<1>4. LiveOK
  BY DEF Init, LiveOK, MadeOK, OrderOK, OwnOK, Owning, Holding, Entries
<1>5. QED
  BY <1>1, <1>2, <1>3, <1>4 DEF IInv

\* The inductive invariant holds.
LEMMA Invariance == Spec => []IInv
<1>1. ASSUME IInv, [Next]_vars PROVE IInv'
  BY <1>1, TypeStep, BlocksStep, BindingsStep, CamerasStep, StopStep, LiveStep DEF IInv, LiveOK
<1>2. QED
  BY <1>1, InitOK, PTL DEF Spec

-----------------------------------------------------------------------------
(* The theorems                                                            *)

\* Every variable of the media manager and of its tables keeps its type.
THEOREM TypeCorrect == Spec => []TypeOK
<1>1. IInv => TypeOK
  BY DEF IInv
<1>2. QED
  BY <1>1, Invariance, PTL

\* The block records of mpp_vb_mgmt.c and the kernel agree, each block in one
\* record, whatever Python does with its Buffers.
THEOREM BlocksCorrect == Spec => []BlocksRecorded
<1>1. IInv => BlocksRecorded
  BY DEF IInv
<1>2. QED
  BY <1>1, Invariance, PTL

\* A binding or camera without a record is one whose thread is about to record
\* it, or was interrupted before it could.
THEOREM UseCorrect == Spec => []UseRecorded
<1>1. IInv => UseRecorded
  BY DEF IInv, UseRecorded
<1>2. QED
  BY <1>1, Invariance, PTL

\* A Buffer that a script has and has not deleted owns its block, whatever other
\* threads get, delete and deinit, until one is given back twice.
THEOREM LiveCorrect == Spec => []LiveHeld
<1>1. IInv => LiveHeld
  BY DEF IInv, TypeOK, LiveOK, OwnOK, Owning, LiveHeld
<1>2. QED
  BY <1>1, Invariance, PTL

\* main_thread_exit leaves nothing in the kernel but what was missed and what the
\* kernel refused to take back.
THEOREM TornDownCorrect == Spec => TornDown
<1>1. ASSUME IInv, SessionEnd PROVE NothingLeft'
  <2>1. PICK X, Y : PopBlocks({i \in Records : vb_records[i] # None}, X, Y)
    BY <1>1 DEF SessionEnd, VbMgmtDeinit
  <2>2. {vb_records[i] : i \in {j \in Records : vb_records[j] # None}} = Entries(vb_records)
    BY <1>1 DEF IInv, TypeOK, VbTypeOK, Entries
  <2>3. held' = keptBlocks' /\ mapped' = keptMaps'
    BY <1>1, <2>1, <2>2 DEF IInv, BlocksRecorded, PopBlocks
  <2>4. bound' \subseteq lost \cup keptLinks' /\ lost' = lost
    BY <1>1 DEF IInv, BindingsRecorded, SessionEnd, VbMgmtDeinit, PopLinks
  <2>5. running' \subseteq lost \cup keptDevs'
    BY <1>1 DEF IInv, CamerasRecorded, SessionEnd, VbMgmtDeinit, DeinitVicap
  <2>6. QED
    BY <2>3, <2>4, <2>5 DEF NothingLeft
<1>2. IInv /\ [Next]_vars => [SessionEnd => NothingLeft']_vars
  BY <1>1
<1>3. QED
  BY <1>2, Invariance, PTL DEF Spec, TornDown
=============================================================================
