------------------------------ MODULE ByteCopy ------------------------------
(***************************************************************************)
(* What the layerwise threads copy between HBM and the pool:               *)
(* LayerBatchBuilder turns block ranges into addresses, one list per       *)
(* layer, and _batch_copy_with_limits cuts the list into calls and the     *)
(* calls into packets.  A task is saved layer by layer and a second one,   *)
(* with blocks of its own, is loaded from what was saved.                  *)
(*                                                                         *)
(* A byte in HBM is its address; pool and back say which byte a pool       *)
(* address, or an HBM address loaded into, holds.                          *)
(***************************************************************************)
EXTENDS Integers, Sequences, FiniteSets, SequencesExt, Functions

CONSTANTS
  NumLayers,
  BlockLen,     \* group_block_len: bytes per block of every cache, layer after layer
  BlockStride,  \* group_block_stride: bytes from one block of a cache to the next
  BaseAddr,     \* group_kv_caches_base_addr, in the same order
  PageSize,     \* page_size_bytes: what one layer of a block takes in the pool
  SaveTasks,    \* sequences of block ranges
  LoadTasks,
  Limits        \* <<max_transfer_blocks, max_transfer_bytes>>, 0 for none

ASSUME ByteAssumption ==
  /\ NumLayers \in Nat \ {0} /\ PageSize \in Nat
  /\ BlockLen \in Seq(Nat \ {0}) /\ Len(BlockLen) >= NumLayers
  /\ BlockStride \in Seq(Nat) /\ Len(BlockStride) = Len(BlockLen)
  /\ BaseAddr \in Seq(Nat) /\ Len(BaseAddr) = Len(BlockLen)
  /\ \A f \in DOMAIN BlockLen : BlockStride[f] >= BlockLen[f]
  /\ Limits \subseteq Nat \X Nat

ASSUME TaskAssumption ==
  \A task \in SaveTasks \cup LoadTasks :
    /\ task \in Seq([ids : Seq(Nat), gvas : Seq(Nat), start : Nat, end : Nat, offset : Nat,
                     partial : Nat \cup {-1}, lastGva : Nat])
    /\ \A i \in DOMAIN task :
         task[i].end <= Len(task[i].ids) /\ task[i].partial < Len(task[i].ids)

VARIABLES
  saveTask, loadTask, limits,
  phase,       \* "save", "load", "done", or "off" when other work is checked
  layer,
  todo,        \* entries of the layer not yet handed to batch_copy
  pool, back,  \* functions from addresses to bytes, on what was written
  failedSaves, failedLoads   \* layers whose batch_copy returned a code

byteVars == <<saveTask, loadTask, limits, phase, layer, todo, pool, back,
              failedSaves, failedLoads>>

\* Bytes of the first f caches in a block.
LenTo[f \in 0..Len(BlockLen)] == IF f = 0 THEN 0 ELSE LenTo[f - 1] + BlockLen[f]
-----------------------------------------------------------------------------
(* LayerBatchBuilder *)

CachesPerLayer == Len(BlockLen) \div NumLayers

\* The GVAs of a request begin with block offset; they must cover the range.
Covers(range) == range.start < range.end =>
  /\ range.start >= range.offset
  /\ range.end - range.offset <= Len(range.gvas)

\* build_shared raises otherwise, which is LayerTransfer's UnpreparedLoad.
Covered(task) == \A i \in DOMAIN task : Covers(task[i])

\* The blocks of a range, the partial last one behind them.  Block and GVA
\* lists are 0-based in the code.
RangeBlocks(range) ==
  [k \in 1..range.end - range.start |->
     [id |-> range.ids[range.start + k], gva |-> range.gvas[range.start - range.offset + k]]]
  \o IF range.partial = -1 THEN << >>
     ELSE <<[id |-> range.ids[range.partial + 1], gva |-> range.lastGva]>>

\* np.unique sorts, and is used only if something is there twice.
Before(a, b) == a.id < b.id \/ (a.id = b.id /\ a.gva < b.gva)
InOrder(S) ==
  CHOOSE s \in [1..Cardinality(S) -> S] : \A i, j \in DOMAIN s : i < j => Before(s[i], s[j])
Dedupe(blocks) == IF IsInjective(blocks) THEN blocks ELSE InOrder(Range(blocks))

\* build_shared: the blocks of a task, the same for every layer.
Shared(task) == Dedupe(FlattenSeq([i \in DOMAIN task |-> RangeBlocks(task[i])]))

\* Mutant: offsets within the page count the caches of the layers before.
EntryFlatOffset(block, l, c) ==
  LET f == l * CachesPerLayer + c IN
  [addr |-> BaseAddr[f] + block.id * BlockStride[f],
   gva  |-> block.gva + l * PageSize + LenTo[f - 1],
   size |-> BlockLen[f]]

\* _build_transfer_arrays: cache c of a layer, for one block.
Entry(block, l, c) ==
  LET f == l * CachesPerLayer + c IN
  [addr |-> BaseAddr[f] + block.id * BlockStride[f],
   gva  |-> block.gva + l * PageSize + LenTo[f - 1] - LenTo[f - c],
   size |-> BlockLen[f]]

Entries(task, l) ==
  FlattenSeq([i \in DOMAIN Shared(task) |->
                [c \in 1..CachesPerLayer |-> Entry(Shared(task)[i], l, c)]])
-----------------------------------------------------------------------------
(* KVTransferThread *)

\* Mutant: the GVA of a packet does not move on.
PacketSameGva(e, k, max) ==
  [addr |-> e.addr + k * max, gva |-> e.gva,
   size |-> IF max < e.size - k * max THEN max ELSE e.size - k * max]

Packet(e, k, max) ==
  [addr |-> e.addr + k * max, gva |-> e.gva + k * max,
   size |-> IF max < e.size - k * max THEN max ELSE e.size - k * max]

\* _split_transfer_packets: the first packets of all entries, then the
\* second ones, and so on; nothing is split when nothing is too long.
Count(e, max) == (e.size + max - 1) \div max
Split(entries, max) ==
  LET kth(k) == FlattenSeq([i \in DOMAIN entries |->
        IF k < Count(entries[i], max) THEN <<Packet(entries[i], k, max)>> ELSE << >>])
      most == Max({Count(entries[i], max) : i \in DOMAIN entries})
  IN  IF max = 0 \/ \A i \in DOMAIN entries : Count(entries[i], max) = 1 THEN entries
      ELSE FlattenSeq([k \in 1..most |-> kth(k - 1)])

\* How many entries go into one call.  num_addrs_per_block counts the
\* addresses of a block in all layers.
CallSize(entries) ==
  IF limits[1] = 0 \/ limits[1] * Len(BlockLen) > Len(entries) THEN Len(entries)
  ELSE limits[1] * Len(BlockLen)

\* What a batch_copy call adds to the destination: from HBM to the pool, or
\* from the pool to HBM.
Written(packets) == UNION {p.gva..p.gva + p.size - 1 : p \in Range(packets)}
Read(packets)    == UNION {p.addr..p.addr + p.size - 1 : p \in Range(packets)}
Saved(packets, g) ==
  LET p == CHOOSE p \in Range(packets) : g \in p.gva..p.gva + p.size - 1 IN p.addr + g - p.gva
Loaded(packets, a) ==
  LET p == CHOOSE p \in Range(packets) : a \in p.addr..p.addr + p.size - 1
      g == p.gva + a - p.addr
  IN  IF g \in DOMAIN pool THEN pool[g] ELSE -1

Onto(old, new) ==
  [x \in DOMAIN old \cup DOMAIN new |-> IF x \in DOMAIN new THEN new[x] ELSE old[x]]

\* One batch_copy call of the loop in _batch_copy_with_limits; a code other
\* than 0 ends the loop, and nothing of the failing call can be relied on.
CopyChunk(failed) ==
  LET packets == Split(SubSeq(todo, 1, CallSize(todo)), limits[2])
      rest    == SubSeq(todo, CallSize(todo) + 1, Len(todo))
  IN
  /\ phase \in {"save", "load"} /\ todo # << >>
  /\ todo' = IF failed THEN << >> ELSE rest
  /\ IF phase = "save"
     THEN /\ pool' = IF failed THEN pool ELSE Onto(pool, [g \in Written(packets) |-> Saved(packets, g)])
          /\ failedSaves' = IF failed THEN failedSaves \cup {layer} ELSE failedSaves
          /\ UNCHANGED <<back, failedLoads>>
     ELSE /\ back' = IF failed THEN back ELSE Onto(back, [a \in Read(packets) |-> Loaded(packets, a)])
          /\ failedLoads' = IF failed THEN failedLoads \cup {layer} ELSE failedLoads
          /\ UNCHANGED <<pool, failedSaves>>
  /\ UNCHANGED <<saveTask, loadTask, limits, phase, layer>>

\* The next layer; after the last one saved, the first one loaded.
NextLayer ==
  /\ phase \in {"save", "load"} /\ todo = << >>
  /\ IF layer < NumLayers - 1
     THEN /\ layer' = layer + 1 /\ phase' = phase
          /\ todo' = Entries(IF phase = "save" THEN saveTask ELSE loadTask, layer + 1)
     ELSE /\ layer' = 0
          /\ phase' = IF phase = "save" THEN "load" ELSE "done"
          /\ todo' = IF phase = "save" THEN Entries(loadTask, 0) ELSE << >>
  /\ UNCHANGED <<saveTask, loadTask, limits, pool, back, failedSaves, failedLoads>>

ByteInit ==
  /\ saveTask \in SaveTasks /\ loadTask \in LoadTasks /\ limits \in Limits
  /\ Covered(saveTask) /\ Covered(loadTask)
  /\ phase = "save" /\ layer = 0 /\ todo = Entries(saveTask, 0)
  /\ pool = << >> /\ back = << >> /\ failedSaves = {} /\ failedLoads = {}

ByteNext == NextLayer \/ \E failed \in BOOLEAN : CopyChunk(failed)

ByteSpec == ByteInit /\ [][ByteNext]_byteVars
-----------------------------------------------------------------------------
(* Where blocks may lie *)

\* Every block a range names, with the place its bytes have in the pool.
Named(task) ==
  UNION {{[id |-> task[i].ids[k + 1], gva |-> task[i].gvas[k - task[i].offset + 1]] :
            k \in task[i].start..task[i].end - 1}
         \cup (IF task[i].partial = -1 THEN {}
               ELSE {[id |-> task[i].ids[task[i].partial + 1], gva |-> task[i].lastGva]}) :
         i \in DOMAIN task}

Apart(a, m, b, n) == a + m <= b \/ b + n <= a

\* What the allocators of vLLM and of the pool give: a page takes the caches of
\* a layer; blocks saved together have pages of their own in the pool; nothing
\* is loaded twice into one block, and caches do not overlap in HBM.
ASSUME PlaceAssumption ==
  /\ \A l \in 0..NumLayers - 1 :
       LenTo[(l + 1) * CachesPerLayer] - LenTo[l * CachesPerLayer] <= PageSize
  /\ \A task \in SaveTasks : Covered(task) =>
       \A b, c \in Named(task) : b # c =>
         Apart(b.gva, NumLayers * PageSize, c.gva, NumLayers * PageSize)
  /\ \A task \in LoadTasks : Covered(task) =>
       \A b, c \in Named(task) :
         /\ b.id = c.id => b = c
         /\ \A f, g \in DOMAIN BlockLen : f # g =>
              Apart(BaseAddr[f] + b.id * BlockStride[f], BlockLen[f],
                    BaseAddr[g] + c.id * BlockStride[g], BlockLen[g])
-----------------------------------------------------------------------------
(* Properties *)

\* A layer that no call reported as failed comes back byte for byte: in every
\* block loaded, each cache of that layer holds what the same cache of the
\* block saved under the same GVA held, whatever limits cut it.
RoundTrip ==
  phase = "done" =>
    \A l \in (0..NumLayers - 1) \ (failedSaves \cup failedLoads) : \A f \in 1..CachesPerLayer :
      LET g == l * CachesPerLayer + f IN
      \A to \in Named(loadTask) : \A from \in Named(saveTask) : to.gva = from.gva =>
        \A o \in 0..BlockLen[g] - 1 :
          LET at == BaseAddr[g] + to.id * BlockStride[g] + o IN
          at \in DOMAIN back /\ back[at] = BaseAddr[g] + from.id * BlockStride[g] + o

\* A save writes no pool address outside its blocks' pages, and no load an
\* HBM address outside the blocks it names.
StaysInPlace ==
  /\ \A g \in DOMAIN pool : \E b \in Named(saveTask) : g \in b.gva..b.gva + NumLayers * PageSize - 1
  /\ \A a \in DOMAIN back : \E b \in Named(loadTask) : \E f \in DOMAIN BlockLen :
       a \in BaseAddr[f] + b.id * BlockStride[f]..BaseAddr[f] + b.id * BlockStride[f] + BlockLen[f] - 1
=============================================================================
