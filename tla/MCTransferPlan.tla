--------------------------- MODULE MCTransferPlan ---------------------------
(* ByteCopy and KeyShards for TLC, one after the other in one state space:  *)
(* a behaviour is about the bytes of a GVA transfer or about the keys of a  *)
(* pool of ranks, and leaves the variables of the other part alone.         *)
EXTENDS ByteCopy, KeyShards

\* Two layers of two caches each, of different block lengths; three blocks in
\* every cache, in one of them with room in between, and a gap between caches.
MCBlockLen == <<2, 1, 3, 1>>
MCBlockStride == <<2, 2, 3, 1>>
MCBaseAddr == <<0, 6, 13, 24>>

\* A block range over two pages of the pool, its GVAs given from block offset
\* on; page 4 is that of the partial last block.
Page(k) == 8 * k
MCRange(ids, start, end, offset, partial) ==
  [ids |-> ids, start |-> start, end |-> end, offset |-> offset,
   gvas |-> [k \in 1..2 - offset |-> Page(offset + k - 1)],
   partial |-> partial, lastGva |-> Page(4)]

\* One range with or without a partial block; two ranges that share a block;
\* two ranges out of order.
Orders == {<<0, 1, 2>>, <<2, 0, 1>>, <<1, 2, 0>>}
MCSaves ==
  {<<MCRange(ids, s, e, o, p)>> : ids \in Orders, s \in 0..1, e \in 1..2, o \in 0..1, p \in {-1, 2}}
  \cup {<<MCRange(<<0, 1, 2>>, 0, 2, 0, -1), MCRange(<<0, 2, 1>>, 0, 1, 0, 2)>>,
        <<MCRange(<<2, 1, 0>>, 0, 1, 0, -1), MCRange(<<2, 0, 1>>, 0, 1, 0, -1)>>}
MCLoads ==
  {<<MCRange(ids, s, 2, o, p)>> : ids \in Orders, s \in 0..1, o \in 0..1, p \in {-1, 2}}
MCLimits == {<<0, 0>>, <<1, 2>>, <<0, 1>>, <<1, 0>>}

\* Two chunks of a request, one chunk, and one with a masked block.
Chunks == << <<1, 2>>, <<1, 2, 3>> >>
MCJobs == {Chunks, << <<1, 2>> >>, << <<1, 3>> >>}

Init ==
  \/ ByteInit /\ phase = "save" /\ KeyInit /\ path = "whole" /\ jobs = Chunks
              /\ dcpSize = 1 /\ sharding = TRUE
  \/ /\ KeyInit
     /\ path = "layers" => jobs = << <<1, 2>> >>     \* bound; no masks on this path
     /\ jobs = Chunks => dcpSize = 1                 \* bound
     /\ phase = "off" /\ saveTask = << >> /\ loadTask = << >> /\ limits = <<0, 0>>
     /\ layer = 0 /\ todo = << >> /\ pool = << >> /\ back = << >>
     /\ failedSaves = {} /\ failedLoads = {}

Next ==
  \/ ByteNext /\ UNCHANGED keyVars
  \/ phase = "off" /\ KeyNext /\ UNCHANGED byteVars

Spec == Init /\ [][Next]_<<byteVars, keyVars>>
=============================================================================
