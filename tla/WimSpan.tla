-------------------------------- MODULE WimSpan --------------------------------
(***************************************************************************)
(* pkg/wim/split.go and join.go: a WIM split into the parts of a spanned   *)
(* set, and the parts put together again, as functions of the files read.  *)
(***************************************************************************)
EXTENDS WimFormat

RunningSize(items) ==
  LET running[k \in 0..Len(items)] == IF k = 0 THEN 0 ELSE running[k - 1] + items[k].rd.size
  IN  running[Len(items)]

\* splitItems: the metadata as in the table, the blobs by offset.
MetaItems(f) == Select(Table(f), IsMeta)

BlobItems(f) ==
  LET t == Table(f)
  IN  Arranged(t, {k \in DOMAIN t : ~IsMeta(t[k]) /\ t[k].hash # <<>>},
               LAMBDA i, j : \/ t[i].rd.at < t[j].rd.at
                             \/ t[i].rd.at = t[j].rd.at /\ i < j)

CanSplit(f) == MetaItems(f) # <<>> /\ \A k \in DOMAIN Table(f) : ~IsSolid(Table(f)[k])

\* A part that takes the resource with which it reaches the limit.
FullAfter(items, e, max) == RunningSize(items) >= max

\* A part is closed when it holds something and one more would reach the limit.
Full(items, e, max) ==
  RunningSize(items) > 0 /\ RunningSize(items) + e.rd.size >= max

PackParts(f, max) ==
  LET blobs == BlobItems(f)
      pack[k \in 0..Len(blobs)] ==
        IF k = 0 THEN <<MetaItems(f)>>
        ELSE LET parts == pack[k - 1]
             IN  IF Full(Last(parts), blobs[k], max) THEN Append(parts, <<blobs[k]>>)
                 ELSE [parts EXCEPT ![Len(parts)] = Append(@, blobs[k])]
  IN  pack[Len(blobs)]

--------------------------------------------------------------------------------
\* The resources copied one behind the other, and the entries that describe them.
Moved(items, bytes) ==
  LET Start(k) == 1 + Len(FlattenSeq(SubSeq(bytes, 1, k - 1)))
  IN  [k \in DOMAIN items |-> Entry([items[k].rd EXCEPT !.at = Start(k)], items[k].hash)]

\* The boot metadata taken to be where it was.
UnmovedBoot(h, items, entries) == h.boot

\* Where the metadata of the boot image has come to be.
MovedBoot(h, items, entries) ==
  LET hits == {k \in DOMAIN items : /\ IsMeta(items[k]) /\ h.boot.size # 0
                                    /\ items[k].rd.at = h.boot.at}
  IN  IF hits = {} THEN NoResource ELSE entries[Max(hits)].rd

\* Resources, table and catalog behind a header that is written last.
Assemble(h, items, bytes, xml, flags, part, parts, boot) ==
  LET entries == Moved(items, bytes)
      data    == FlattenSeq(bytes)
      at      == 1 + Len(data)
      Plain(a, n) == Descriptor(a, n, n, {})
  IN  <<[flags |-> flags, comp |-> h.comp, part |-> part, parts |-> parts, count |-> h.count,
         table |-> Plain(at, Len(entries)), xml |-> Plain(at + Len(entries), Len(xml)),
         boot  |-> IF boot THEN MovedBoot(h, items, entries) ELSE NoResource,
         bootIndex |-> IF boot THEN h.bootIndex ELSE 0]>>
      \o data \o entries \o xml

\* writePart: boot metadata and index belong to the first part.
PartFile(f, k, max) ==
  LET parts == PackParts(f, max)
      items == parts[k]
      bytes == [j \in DOMAIN items |-> ReadResourceRaw(f, items[j].rd).data]
  IN  Assemble(f[1], items, bytes, ReadResourceRaw(f, f[1].xml).data,
               f[1].flags \cup {"spanned"}, k, Len(parts), k = 1)

\* What is left of a part that could not be written to its end.
Torn(part, n) == SubSeq([part EXCEPT ![1] = [mark |-> "placeholder"]], 1, n)

--------------------------------------------------------------------------------
PartNumber(f) == IF IsWim(f) THEN f[1].part ELSE 0

InOrder(files) ==
  Arranged(files, DOMAIN files, LAMBDA i, j :
             \/ PartNumber(files[i]) < PartNumber(files[j])
             \/ PartNumber(files[i]) = PartNumber(files[j]) /\ i < j)

\* The copy plan: the metadata of part 1, each blob from the first part that has it.
JoinItems(parts) ==
  LET Of(f, k) == [p |-> f, e |-> Table(f)[k]]
      all   == FlattenSeq([i \in DOMAIN parts |->
                 [k \in DOMAIN Table(parts[i]) |-> Of(parts[i], k)]])
      first == {k \in DOMAIN all : /\ ~IsMeta(all[k].e) /\ all[k].e.hash # <<>>
                                   /\ \A j \in 1..(k - 1) : ~IsMeta(all[j].e) => all[j].e.hash # all[k].e.hash}
  IN  Select(all, LAMBDA x : IsMeta(x.e) /\ PartNumber(x.p) = 1)
        \o Arranged(all, first, LAMBDA i, j : i < j)

\* Join of parts in any order.
Join(files) ==
  LET parts == InOrder(files)
      first == parts[1]
      plan  == JoinItems(parts)
      items == [k \in DOMAIN plan |-> plan[k].e]
      bytes == [k \in DOMAIN plan |-> ReadResourceRaw(plan[k].p, plan[k].e.rd).data]
  IN  IF files = <<>> \/ PartNumber(first) # 1 THEN Failed
      ELSE Got(Assemble(first[1], items, bytes, ReadResourceRaw(first, first[1].xml).data,
                        first[1].flags \ {"spanned"}, 1, 1, TRUE))
================================================================================
