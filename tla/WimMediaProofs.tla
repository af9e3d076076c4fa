----------------------------- MODULE WimMediaProofs -----------------------------
(***************************************************************************)
(* What WimMedia promises, proved for every value of its constants under   *)
(* the assumptions it states: trees that are finite and a source that is a *)
(* WIM of its trees.                                                       *)
(***************************************************************************)
EXTENDS WimMedia, SequenceLemmas

(* The inductive invariant. *)

\* A resource of these cells is in the file where the descriptor says.
Holds(f, rd, cells) ==
  /\ rd.at \in Nat \ {0} /\ rd.size = Len(cells) /\ rd.at + rd.size <= Len(f)
  /\ \A k \in 1..Len(cells) : f[rd.at + k] = cells[k]

\* As long as the Writer has not lost its place.
InFile(gone, f, rd, cells) == gone \/ Holds(f, rd, cells)

\* The chunks of a content when the goroutines are done, and its resource.
Zipped(c) == [i \in 1..NumChunks(Len(c), ChunkSize) |-> Smaller(Raw(c, i - 1))]
ResourceOf(c) ==
  IF Comp = "none" THEN c ELSE ChunkTable(Zipped(c), Len(c)) \o FlattenSeq(Zipped(c))
ResourceFlags == IF Comp = "none" THEN {} ELSE {"compressed"}

Hashes == {blobs[k].hash : k \in DOMAIN blobs}
Busy == pc \in {"walking", "copying", "zipping", "zipping copy"}
Finished == pc \in {"closed", "splitting"}

\* Closed, and no header write had failed before.
Closed == Finished /\ ~rewound

\* While the Writer writes, the file ends where it is.  When a header was not written
\* the file ends before that, and the next write goes further to the front.
AtEnd == IF rewound THEN Len(out) <= pos /\ cursor + 1 < pos ELSE cursor = pos

FileInv ==
  /\ IsSeq(out) /\ Len(out) >= 1 /\ cursor \in Nat /\ pos \in Nat /\ rewound \in BOOLEAN
  /\ ~rewound => pos = Len(out)
  /\ AtEnd

PlaceInv ==
  /\ IsSeq(out) /\ Len(out) >= 1 /\ cursor \in Nat /\ pos \in Nat /\ rewound \in BOOLEAN
  /\ ~rewound => pos = Len(out)
  /\ Finished \/ AtEnd
  /\ rewound => pc # "splitting"
  /\ pc \in {"idle", "walking", "copying", "zipping", "zipping copy", "catalog", "header",
             "closed", "splitting"}
  /\ failures \in 0..MaxFailures /\ src \in {EmptyReader, Loaded}

\* The contents written are in the file, each once; those seen are written, being
\* written, or lost.
BlobsInv ==
  /\ IsSeq(blobs) /\ lost \subseteq seen
  /\ \A h \in seen : h \in Hashes \/ h \in lost \/ (Zipping /\ h = content)
  /\ Hashes \subseteq seen
  /\ \A j, k \in DOMAIN blobs : blobs[j].hash = blobs[k].hash => j = k
  /\ \A k \in DOMAIN blobs :
       LET b == blobs[k] IN
       /\ IsSeq(b.hash) /\ b.hash # <<>>
       /\ b = Entry(Descriptor(b.rd.at, Len(ResourceOf(b.hash)), Len(b.hash), ResourceFlags), b.hash)
       /\ InFile(rewound, out, b.rd, ResourceOf(b.hash))

\* The images written, and the contents of their files seen.
ImagesInv ==
  /\ IsSeq(images) /\ IsSeq(added) /\ Len(images) = Len(added)
  /\ \A i \in DOMAIN added :
       LET m == BuildMetadata(added[i]) im == images[i] IN
       /\ added[i] \in Trees /\ ToSet(Walk(added[i])) \subseteq seen \cup {<<>>}
       /\ im.rd = Descriptor(im.rd.at, Len(m), Len(m), {"metadata"}) /\ im.hash = m
       /\ InFile(rewound, out, im.rd, m)
       /\ im.info.windows # "none" =>
            \E k \in DOMAIN SourceTrees :
              Images(Source).data[k].windows = im.info.windows /\ SourceTrees[k] = added[i]

\* The image being written: its contents are seen or still to come.
JobInv ==
  Busy =>
    /\ job = [tree |-> job.tree, info |-> job.info, todo |-> job.todo, of |-> job.of]
    /\ IsSeq(job.todo)
    /\ \A h \in ToSet(job.todo) : h \in ToSet(Walk(job.tree))
    /\ \A h \in ToSet(Walk(job.tree)) : h \in seen \cup {<<>>} \/ h \in ToSet(job.todo)
    /\ job.of = 0 /\ pc \in {"walking", "zipping"} =>
         job.tree \in Dirs /\ job.info.windows = "none"
    /\ pc \in {"copying", "zipping copy"} => job.of # 0 /\ src = Loaded
    /\ job.of = 0 \/ (/\ job.of \in DOMAIN SourceTrees /\ job.tree = SourceTrees[job.of]
                      /\ job.info.windows = Images(Source).data[job.of].windows)

\* The goroutines: a chunk is empty or what it is to be.
PoolInv ==
  /\ Zipping =>
       /\ job.todo # <<>> /\ content = Head(job.todo) /\ content # <<>>
       /\ content \in seen /\ content \notin Hashes \cup lost
       /\ next \in Nat
       /\ IsSeq(chunks) /\ DOMAIN chunks = 1..NumChunks(Len(content), ChunkSize)
       /\ \A i \in DOMAIN chunks : chunks[i] \in {<<>>, Smaller(Raw(content, i - 1))}
       /\ holds \in [Workers -> {Free, Done} \cup DOMAIN chunks]
  /\ ~Zipping => holds = [w \in Workers |-> Free] /\ chunks = <<>>

\* What Close has written.
CloseInv ==
  /\ pc \in {"catalog", "header", "closed", "splitting"} => images # <<>>
  /\ pc = "catalog" => table = <<table[1]>>
  /\ pc \in {"header", "closed", "splitting"} =>
       table = <<table[1], table[2]>> /\ table[2] = Plain(table[2].at, Len(Catalog)) /\ InFile(rewound, out, table[2], Catalog)
  /\ pc \in {"catalog", "header", "closed", "splitting"} =>
       table[1] = Plain(table[1].at, Len(TableCells)) /\ InFile(rewound, out, table[1], TableCells)
  /\ pc = "catalog" => pos = table[1].at + table[1].size
  /\ rewound /\ pc \in {"catalog", "header", "closed"} =>
       table[1].at \in Nat /\ Len(out) < table[1].at + table[1].size
  /\ Finished =>
       /\ BootIndex <= Len(images)
       /\ out[1] = Header({}, Comp, 1, 1, Len(images), table[1], table[2], BootResource, BootIndex)

WriterInv == PlaceInv /\ BlobsInv /\ ImagesInv /\ JobInv /\ PoolInv /\ CloseInv

PartsInv ==
  /\ torn \subseteq DOMAIN folder /\ given \subseteq DOMAIN folder /\ splits \in 0..MaxSplits
  /\ max \in Nat

MediaInv == WriterInv /\ PartsInv

--------------------------------------------------------------------------------
(* Sequences of whatever elements. *)

\* What is in Seq of some set is a sequence.
LEMMA SeqIs ==
  ASSUME NEW S, NEW s \in Seq(S)
  PROVE  /\ IsSeq(s) /\ Len(s) \in Nat /\ DOMAIN s = 1..Len(s)
         /\ \A k \in 1..Len(s) : s[k] \in ToSet(s) /\ s[k] \in S
         /\ s = <<>> <=> Len(s) = 0
<1>1. Len(s) \in Nat /\ s \in [1..Len(s) -> S] /\ DOMAIN s = 1..Len(s)
  BY LenProperties
<1>2. \A k \in 1..Len(s) : s[k] \in ToSet(s) /\ s[k] \in S
  BY <1>1 DEF ToSet
<1>3. s = [k \in 1..Len(s) |-> s[k]]
  BY <1>1
<1>4. [k \in 1..Len(s) |-> s[k]] \in Seq(ToSet(s))
  BY <1>1, <1>2, IsASeq
<1>5. s = <<>> <=> Len(s) = 0
  BY EmptySeq, <1>1
<1>6. IsSeq(s)
  BY <1>3, <1>4 DEF IsSeq
<1>7. QED BY <1>1, <1>2, <1>5, <1>6

\* The length and the elements of a sequence.
LEMMA SeqHas ==
  ASSUME NEW s, IsSeq(s)
  PROVE  /\ Len(s) \in Nat /\ DOMAIN s = 1..Len(s)
         /\ \A k \in 1..Len(s) : s[k] \in ToSet(s)
         /\ \A x \in ToSet(s) : \E k \in 1..Len(s) : s[k] = x
         /\ s = <<>> <=> Len(s) = 0
<1>1. s \in Seq(ToSet(s))
  BY DEF IsSeq
<1>2. Len(s) \in Nat /\ DOMAIN s = 1..Len(s) /\ \A k \in 1..Len(s) : s[k] \in ToSet(s)
  BY <1>1, SeqIs
<1>3. \A x \in ToSet(s) : \E k \in 1..Len(s) : s[k] = x
  BY <1>2 DEF ToSet
<1>4. s = <<>> <=> Len(s) = 0
  BY <1>1, SeqIs
<1>5. QED BY <1>2, <1>3, <1>4

\* Sequences of the same length and elements are the same.
LEMMA SeqSame ==
  ASSUME NEW s, NEW t, IsSeq(s), IsSeq(t), Len(s) = Len(t), \A k \in 1..Len(s) : s[k] = t[k]
  PROVE  s = t
<1>1. s \in Seq(ToSet(s) \cup ToSet(t)) /\ t \in Seq(ToSet(s) \cup ToSet(t))
  BY SeqMonotonic DEF IsSeq
<1>2. QED BY <1>1, SeqEqual

\* A function on 1..n is a sequence.
LEMMA SeqOfFunction ==
  ASSUME NEW n \in Nat, NEW s, s = [k \in 1..n |-> s[k]]
  PROVE  IsSeq(s) /\ Len(s) = n
<1>1. [k \in 1..n |-> s[k]] \in Seq({s[k] : k \in 1..n})
  BY IsASeq
<1>2. s \in Seq({s[k] : k \in 1..n})
  BY <1>1
<1>3. IsSeq(s) /\ Len(s) \in Nat /\ DOMAIN s = 1..Len(s)
  BY <1>2, SeqIs
<1>4. DOMAIN s = 1..n
  OBVIOUS
<1>5. Len(s) = n
  BY <1>2, <1>3, <1>4
<1>6. QED BY <1>3, <1>5

\* The length and the elements of two sequences, one behind the other.
LEMMA SeqConcat ==
  ASSUME NEW s, NEW t, IsSeq(s), IsSeq(t)
  PROVE  /\ IsSeq(s \o t) /\ Len(s \o t) = Len(s) + Len(t)
         /\ \A k \in 1..(Len(s) + Len(t)) : (s \o t)[k] = IF k <= Len(s) THEN s[k] ELSE t[k - Len(s)]
<1>1. s \in Seq(ToSet(s) \cup ToSet(t)) /\ t \in Seq(ToSet(s) \cup ToSet(t))
  BY SeqMonotonic DEF IsSeq
<1>2. s \o t \in Seq(ToSet(s) \cup ToSet(t))
  BY <1>1, ConcatProperties
<1>3. QED BY <1>1, <1>2, ConcatProperties, SeqIs

\* The length and the elements of a sequence with one element more.
LEMMA SeqAppend ==
  ASSUME NEW s, NEW e, IsSeq(s)
  PROVE  /\ IsSeq(Append(s, e)) /\ Len(Append(s, e)) = Len(s) + 1
         /\ \A k \in 1..Len(s) : Append(s, e)[k] = s[k]
         /\ Append(s, e)[Len(s) + 1] = e
         /\ ToSet(Append(s, e)) = ToSet(s) \cup {e}
<1>1. s \in Seq(ToSet(s) \cup {e}) /\ e \in ToSet(s) \cup {e}
  BY SeqMonotonic DEF IsSeq
<1>2. /\ Append(s, e) \in Seq(ToSet(s) \cup {e}) /\ Len(Append(s, e)) = Len(s) + 1
      /\ \A k \in 1..Len(s) : Append(s, e)[k] = s[k]
      /\ Append(s, e)[Len(s) + 1] = e
  BY <1>1, AppendProperties
<1>3. IsSeq(Append(s, e)) /\ DOMAIN Append(s, e) = 1..(Len(s) + 1)
  BY <1>2, SeqIs
<1>4. Len(s) \in Nat /\ DOMAIN s = 1..Len(s)
  BY SeqHas
<1>5. ToSet(Append(s, e)) = ToSet(s) \cup {e}
  <2>1. 1..(Len(s) + 1) = 1..Len(s) \cup {Len(s) + 1}
    BY <1>4
  <2>2. QED BY <1>2, <1>3, <1>4, <2>1 DEF ToSet
<1>6. QED BY <1>2, <1>3, <1>5

\* The first n elements of a sequence.
LEMMA SeqFront ==
  ASSUME NEW s, IsSeq(s), NEW n \in Int, n <= Len(s)
  PROVE  IsSeq(SubSeq(s, 1, n))
<1>1. Len(s) \in Nat /\ s \in Seq(ToSet(s))
  BY SeqHas DEF IsSeq
<1>2. \A i \in 1..n : s[i] \in ToSet(s)
  BY <1>1, SeqHas
<1>3. SubSeq(s, 1, n) \in Seq(ToSet(s))
  BY <1>2, SubSeqProperties
<1>4. QED BY <1>3, SeqIs

\* The head of a sequence and what is left of it.
LEMMA SeqTail ==
  ASSUME NEW s, IsSeq(s), s # <<>>
  PROVE  IsSeq(Tail(s)) /\ ToSet(s) = {Head(s)} \cup ToSet(Tail(s))
<1>1. s \in Seq(ToSet(s))
  BY DEF IsSeq
<1>2. /\ Tail(s) \in Seq(ToSet(s)) /\ Len(Tail(s)) = Len(s) - 1
      /\ \A i \in 1..Len(Tail(s)) : Tail(s)[i] = s[i+1]
  BY <1>1, HeadTailProperties
<1>3. Len(s) \in Nat /\ Len(s) # 0 /\ DOMAIN s = 1..Len(s)
  BY SeqHas
<1>4. DOMAIN Tail(s) = 1..(Len(s) - 1) /\ IsSeq(Tail(s))
  BY <1>2, SeqIs
<1>5. Head(s) = s[1]
  BY <1>1
<1>6. \A x \in ToSet(s) : x \in {Head(s)} \cup ToSet(Tail(s))
  <2>1. TAKE x \in ToSet(s)
  <2>2. PICK k \in 1..Len(s) : s[k] = x
    BY SeqHas
  <2>3. CASE k = 1
    BY <1>5, <2>2, <2>3
  <2>4. CASE k # 1
    <3>1. k - 1 \in 1..(Len(s) - 1) /\ (k - 1) + 1 = k
      BY <1>3, <2>4
    <3>2. Tail(s)[k - 1] = x
      BY <1>2, <2>2, <3>1
    <3>3. QED BY <1>4, <3>1, <3>2 DEF ToSet
  <2>5. QED BY <2>3, <2>4
<1>7. \A x \in ToSet(Tail(s)) : x \in ToSet(s)
  <2>1. TAKE x \in ToSet(Tail(s))
  <2>2. PICK k \in 1..(Len(s) - 1) : Tail(s)[k] = x
    BY <1>4 DEF ToSet
  <2>3. k + 1 \in 1..Len(s) /\ s[k + 1] = x
    BY <1>2, <1>3, <2>2
  <2>4. QED BY <1>3, <2>3 DEF ToSet
<1>8. Head(s) \in ToSet(s)
  <2>1. 1 \in 1..Len(s)
    BY <1>3
  <2>2. QED BY <1>3, <1>5, <2>1 DEF ToSet
<1>9. QED BY <1>4, <1>6, <1>7, <1>8

--------------------------------------------------------------------------------
(* Writing. *)

\* The larger of two numbers.
LEMMA MaxOfTwo ==
  ASSUME NEW a \in Int, NEW b \in Int
  PROVE  Max({a, b}) = IF a >= b THEN a ELSE b
<1> DEFINE m == IF a >= b THEN a ELSE b
<1>1. m \in {a, b} /\ \A y \in {a, b} : m >= y
  OBVIOUS
<1>2. \A x \in {a, b} : (\A y \in {a, b} : x >= y) => x = m
  OBVIOUS
<1> HIDE DEF m
<1>3. Max({a, b}) = m
  BY <1>1, <1>2 DEF Max
<1>4. QED BY <1>3 DEF m

\* Cells written at the end of a file are appended to it.
LEMMA OverwriteEnd ==
  ASSUME NEW f, NEW cells, IsSeq(f), IsSeq(cells)
  PROVE  Overwrite(f, Len(f), cells) = f \o cells
<1> DEFINE n == Len(f) + Len(cells)
           g == Overwrite(f, Len(f), cells)
<1>1. Len(f) \in Nat /\ Len(cells) \in Nat /\ n \in Nat
  BY SeqHas
<1>2. Max({Len(f), n}) = n
  BY <1>1, MaxOfTwo
<1>3. g = [k \in 1..n |-> IF k > Len(f) /\ k <= Len(f) + Len(cells) THEN cells[k - Len(f)] ELSE f[k]]
  BY <1>2 DEF Overwrite
<1> HIDE DEF g
<1>4. g = [k \in 1..n |-> g[k]]
  BY <1>3
<1>5. IsSeq(g) /\ Len(g) = n
  BY <1>1, <1>4, SeqOfFunction
<1>6. /\ IsSeq(f \o cells) /\ Len(f \o cells) = n
      /\ \A k \in 1..n : (f \o cells)[k] = IF k <= Len(f) THEN f[k] ELSE cells[k - Len(f)]
  BY SeqConcat
<1>7. \A k \in 1..n : g[k] = (f \o cells)[k]
  BY <1>1, <1>3, <1>6
<1>8. g = f \o cells
  BY <1>5, <1>6, <1>7, SeqSame
<1>9. QED BY <1>8 DEF g

\* A file that is written to is no shorter, and ends where the write does if not
\* behind it.
LEMMA OverwriteLength ==
  ASSUME NEW f, NEW cells, NEW at \in Nat, IsSeq(f), IsSeq(cells)
  PROVE  /\ IsSeq(Overwrite(f, at, cells)) /\ Len(Overwrite(f, at, cells)) >= Len(f)
         /\ Len(Overwrite(f, at, cells)) \in {Len(f), at + Len(cells)}
<1> DEFINE n == at + Len(cells)
           l == Max({Len(f), n})
           g == Overwrite(f, at, cells)
<1>1. Len(f) \in Nat /\ Len(cells) \in Nat /\ n \in Nat
  BY SeqHas
<1>2. l = IF Len(f) >= n THEN Len(f) ELSE n
  BY <1>1, MaxOfTwo
<1>3. l \in Nat /\ l \in {Len(f), n} /\ l >= Len(f)
  BY <1>1, <1>2
<1>4. g = [k \in 1..l |-> IF k > at /\ k <= at + Len(cells) THEN cells[k - at] ELSE f[k]]
  BY DEF Overwrite
<1> HIDE DEF g, l
<1>5. g = [k \in 1..l |-> g[k]]
  BY <1>4
<1>6. IsSeq(g) /\ Len(g) = l
  BY <1>3, <1>5, SeqOfFunction
<1>7. QED BY <1>3, <1>6 DEF g

\* One cell written at the start of a file replaces its first.
LEMMA OverwriteStart ==
  ASSUME NEW f, NEW h, IsSeq(f), Len(f) >= 1
  PROVE  /\ IsSeq(Overwrite(f, 0, <<h>>)) /\ Len(Overwrite(f, 0, <<h>>)) = Len(f)
         /\ Overwrite(f, 0, <<h>>)[1] = h
         /\ \A k \in 2..Len(f) : Overwrite(f, 0, <<h>>)[k] = f[k]
<1> DEFINE g == Overwrite(f, 0, <<h>>)
<1>1. Len(f) \in Nat
  BY SeqHas
<1>2. Max({Len(f), 0 + Len(<<h>>)}) = Len(f)
  BY <1>1, MaxOfTwo
<1>3. g = [k \in 1..Len(f) |-> IF k > 0 /\ k <= 0 + Len(<<h>>) THEN <<h>>[k - 0] ELSE f[k]]
  BY <1>2 DEF Overwrite
<1> HIDE DEF g
<1>4. g = [k \in 1..Len(f) |-> g[k]]
  BY <1>3
<1>5. IsSeq(g) /\ Len(g) = Len(f)
  BY <1>1, <1>4, SeqOfFunction
<1>6. g[1] = h
  <2>1. 1 \in 1..Len(f)
    BY <1>1
  <2>2. QED BY <1>3, <2>1
<1>7. \A k \in 2..Len(f) : g[k] = f[k]
  BY <1>1, <1>3
<1>8. QED BY <1>5, <1>6, <1>7 DEF g

\* What a file holds it still holds when it has grown,
LEMMA HoldsGrown ==
  ASSUME NEW f, NEW g, IsSeq(f), IsSeq(g), NEW rd, NEW c, IsSeq(c), Holds(f, rd, c)
  PROVE  Holds(f \o g, rd, c)
<1>1. /\ Len(f) \in Nat /\ Len(g) \in Nat /\ Len(c) \in Nat
      /\ Len(f \o g) = Len(f) + Len(g)
      /\ \A k \in 1..(Len(f) + Len(g)) : (f \o g)[k] = IF k <= Len(f) THEN f[k] ELSE g[k - Len(f)]
  BY SeqHas, SeqConcat
<1>2. rd.at \in Nat \ {0} /\ rd.size = Len(c) /\ rd.at + rd.size <= Len(f)
  BY DEF Holds
<1>3. rd.at + rd.size <= Len(f \o g)
  BY <1>1, <1>2
<1>4. \A k \in 1..Len(c) : (f \o g)[rd.at + k] = f[rd.at + k]
  BY <1>1, <1>2
<1>5. QED BY <1>2, <1>3, <1>4 DEF Holds

\* or when its first cell is another,
LEMMA HoldsBehind ==
  ASSUME NEW f, NEW g, IsSeq(f), Len(g) = Len(f), \A k \in 2..Len(f) : g[k] = f[k],
         NEW rd, NEW c, IsSeq(c), Holds(f, rd, c)
  PROVE  Holds(g, rd, c)
<1>1. Len(f) \in Nat /\ Len(c) \in Nat
  BY SeqHas
<1>2. rd.at \in Nat \ {0} /\ rd.size = Len(c) /\ rd.at + rd.size <= Len(f)
  BY DEF Holds
<1>3. \A k \in 1..Len(c) : g[rd.at + k] = f[rd.at + k]
  BY <1>1, <1>2
<1>4. QED BY <1>2, <1>3 DEF Holds

\* and what was appended it holds where it ended before.
LEMMA HoldsNew ==
  ASSUME NEW f, NEW g, IsSeq(f), IsSeq(g), Len(f) >= 1, NEW orig, NEW flags
  PROVE  Holds(f \o g, Descriptor(Len(f), Len(g), orig, flags), g)
<1>1. /\ Len(f) \in Nat /\ Len(g) \in Nat
      /\ Len(f \o g) = Len(f) + Len(g)
      /\ \A k \in 1..(Len(f) + Len(g)) : (f \o g)[k] = IF k <= Len(f) THEN f[k] ELSE g[k - Len(f)]
  BY SeqHas, SeqConcat
<1>2. \A k \in 1..Len(g) : (f \o g)[Len(f) + k] = g[k]
  <2>1. TAKE k \in 1..Len(g)
  <2>2. Len(f) + k \in 1..(Len(f) + Len(g)) /\ ~(Len(f) + k <= Len(f)) /\ Len(f) + k - Len(f) = k
    BY <1>1
  <2>3. (f \o g)[Len(f) + k] = g[Len(f) + k - Len(f)]
    BY <1>1, <2>2
  <2>4. QED BY <2>2, <2>3
<1>3. QED BY <1>1, <1>2 DEF Holds, Descriptor

\* All that is held there is read.
LEMMA HeldIsRead ==
  ASSUME NEW f, NEW rd, NEW c, IsSeq(f), IsSeq(c), Holds(f, rd, c)
  PROVE  ReadAt(f, rd.at, rd.size) = Got(c) /\ ReadResourceRaw(f, rd) = Got(c)
<1>1. Len(f) \in Nat /\ Len(c) \in Nat /\ (c = <<>> <=> Len(c) = 0) /\ DOMAIN f = 1..Len(f)
  BY SeqHas
<1>2. rd.at \in Nat \ {0} /\ rd.size = Len(c) /\ rd.at + rd.size <= Len(f) /\ \A k \in 1..Len(c) : f[rd.at + k] = c[k]
  BY DEF Holds
<1> DEFINE s == SubSeq(f, rd.at + 1, rd.at + rd.size)
<1>3. /\ s \in Seq(ToSet(f)) /\ Len(s) = Len(c)
      /\ \A i \in 1..Len(c) : s[i] = f[rd.at + 1 + i - 1]
  <2>1. \A i \in (rd.at + 1)..(rd.at + rd.size) : f[i] \in ToSet(f)
    BY <1>1, <1>2, SeqHas
  <2>2. rd.at + 1 \in Int /\ rd.at + rd.size \in Int
    BY <1>1, <1>2
  <2> DEFINE m == rd.at + 1
             n == rd.at + rd.size
  <2>5. m \in Int /\ n \in Int /\ \A i \in m..n : f[i] \in ToSet(f)
    BY <2>1, <2>2
  <2>6. /\ n - m + 1 = Len(c) /\ (m <= n <=> Len(c) # 0)
        /\ \A i \in 1..Len(c) : rd.at + 1 + i - 1 = m + i - 1
    BY <1>1, <1>2
  <2>7. s = SubSeq(f, m, n)
    OBVIOUS
  <2> HIDE DEF s, m, n
  <2>3. /\ SubSeq(f, m, n) \in Seq(ToSet(f))
        /\ Len(SubSeq(f, m, n)) = IF m <= n THEN n - m + 1 ELSE 0
        /\ \A i \in 1..(n - m + 1) : SubSeq(f, m, n)[i] = f[m + i - 1]
    BY <2>5, SubSeqProperties
  <2>4. QED BY <1>1, <2>3, <2>6, <2>7
<1> HIDE DEF s
<1>4. \A i \in 1..Len(c) : s[i] = c[i]
  <2>1. TAKE i \in 1..Len(c)
  <2>2. rd.at + 1 + i - 1 = rd.at + i
    BY <1>1, <1>2
  <2>3. QED BY <1>2, <1>3, <2>2
<1>5. s = c
  BY <1>3, <1>4, SeqIs, SeqSame
<1>6. ReadAt(f, rd.at, rd.size) = Got(c)
  <2>1. rd.at >= 0 /\ rd.size >= 0 /\ rd.at + rd.size <= Len(f)
    BY <1>1, <1>2
  <2>2. SubSeq(f, rd.at + 1, rd.at + rd.size) = c
    BY <1>5 DEF s
  <2>3. QED BY <2>1, <2>2 DEF ReadAt
<1>7. QED BY <1>1, <1>2, <1>6 DEF ReadResourceRaw

\* A write, whole or not, where the Writer is.
LEMMA WriteGrows ==
  ASSUME PlaceInv, AtEnd, NEW cells, IsSeq(cells), Write(cells), rewound' = rewound
  PROVE  /\ FileInv'
         /\ \A rd, c : IsSeq(c) /\ InFile(rewound, out, rd, c) => InFile(rewound', out', rd, c)
         /\ \A orig, flags : InFile(rewound', out', Descriptor(pos, Len(cells), orig, flags), cells)
         /\ pos' = pos + Len(cells)
         /\ Len(out') \in {Len(out), cursor + Len(cells)}
<1>1. IsSeq(out) /\ Len(out) >= 1 /\ cursor \in Nat /\ pos \in Nat /\ rewound \in BOOLEAN /\ (~rewound => pos = Len(out))
  BY DEF PlaceInv
<1>2. out' = Overwrite(out, cursor, cells) /\ cursor' = cursor + Len(cells) /\ pos' = pos + Len(cells)
  BY DEF Write
<1>3. Len(out) \in Nat /\ Len(cells) \in Nat
  BY <1>1, SeqHas
<1>4. IsSeq(out') /\ Len(out') \in {Len(out), cursor + Len(cells)} /\ Len(out') >= Len(out)
  BY <1>1, <1>2, OverwriteLength
<1>5. CASE rewound
  <2>1. Len(out) <= pos /\ cursor + 1 < pos
    BY <1>5 DEF AtEnd
  <2>2. FileInv'
    <3> DEFINE m == Len(cells)
               n == Len(out)
               l == Len(out')
    <3>1. /\ m \in Nat /\ n \in Nat /\ n >= 1 /\ l \in {n, cursor + m} /\ l >= n
          /\ cursor \in Nat /\ pos \in Nat /\ n <= pos /\ cursor + 1 < pos
          /\ cursor' = cursor + m /\ pos' = pos + m
      BY <1>1, <1>2, <1>3, <1>4, <2>1
    <3> HIDE DEF m, n, l
    <3>2. l >= 1 /\ cursor' \in Nat /\ pos' \in Nat /\ l <= pos' /\ cursor' + 1 < pos'
      BY <3>1
    <3>3. QED BY <1>1, <1>4, <1>5, <3>2 DEF FileInv, AtEnd, l
  <2>3. QED BY <1>2, <1>4, <1>5, <2>2 DEF InFile
<1>6. CASE ~rewound
  <2>1. cursor = pos /\ pos = Len(out)
    BY <1>1, <1>6 DEF AtEnd
  <2>2. out' = out \o cells
    BY <1>1, <1>2, <2>1, OverwriteEnd
  <2>3. \A rd, c : IsSeq(c) /\ Holds(out, rd, c) => Holds(out', rd, c)
    BY <1>1, <2>2, HoldsGrown
  <2>4. \A orig, flags : Holds(out', Descriptor(pos, Len(cells), orig, flags), cells)
    <3>1. TAKE orig, flags
    <3>2. Holds(out \o cells, Descriptor(Len(out), Len(cells), orig, flags), cells)
      BY <1>1, HoldsNew
    <3>3. QED BY <2>1, <2>2, <3>2, Zenon
  <2>5. FileInv'
    <3>1. Len(out') = Len(out) + Len(cells)
      BY <1>1, <2>2, SeqConcat
    <3> DEFINE m == Len(cells)
               n == Len(out)
               l == Len(out')
    <3>2. /\ m \in Nat /\ n \in Nat /\ n >= 1 /\ l = n + m /\ pos = n /\ cursor = n
          /\ cursor' = cursor + m /\ pos' = pos + m
      BY <1>1, <1>2, <1>3, <2>1, <3>1
    <3> HIDE DEF m, n, l
    <3>3. l >= 1 /\ cursor' \in Nat /\ pos' \in Nat /\ pos' = l /\ cursor' = pos'
      BY <3>2
    <3>4. QED BY <1>1, <1>4, <1>6, <3>3 DEF FileInv, AtEnd, l
  <2>6. /\ \A rd, c : IsSeq(c) /\ InFile(rewound, out, rd, c) => InFile(rewound', out', rd, c)
        /\ \A orig, flags : InFile(rewound', out', Descriptor(pos, Len(cells), orig, flags), cells)
    BY <1>6, <2>3, <2>4 DEF InFile
  <2>7. QED BY <1>2, <1>4, <2>5, <2>6
<1>7. QED BY <1>1, <1>5, <1>6

\* What a failing write leaves is a write of less.
LEMMA FailureWrites ==
  ASSUME PlaceInv, AtEnd, NEW cells, IsSeq(cells), WriteFails(cells), rewound' = rewound
  PROVE  /\ FileInv'
         /\ \A rd, c : IsSeq(c) /\ InFile(rewound, out, rd, c) => InFile(rewound', out', rd, c)
         /\ failures' \in 0..MaxFailures
<1>1. Len(cells) \in Nat
  BY SeqHas
<1>2. PICK n \in {0, Len(cells) - 1} : Write(SubSeq(cells, 1, n))
  BY DEF WriteFails
<1>3. n \in Int /\ n <= Len(cells)
  BY <1>1, <1>2
<1>4. IsSeq(SubSeq(cells, 1, n))
  BY <1>3, SeqFront
<1>5. failures' \in 0..MaxFailures
  <2>1. failures \in 0..MaxFailures /\ MaxFailures \in Nat
    BY WriterAssumption DEF PlaceInv
  <2>2. failures < MaxFailures /\ failures' = failures + 1
    BY DEF WriteFails, Fail
  <2>3. QED BY <2>1, <2>2
<1>6. QED BY <1>2, <1>4, <1>5, WriteGrows

--------------------------------------------------------------------------------
(* The chunks of a content. *)

\* Concatenating sequences gives a sequence.
LEMMA SeqFlatten ==
  ASSUME NEW ss, IsSeq(ss), \A k \in 1..Len(ss) : IsSeq(ss[k])
  PROVE  IsSeq(FlattenSeq(ss))
<1> DEFINE S == UNION {ToSet(ss[k]) : k \in 1..Len(ss)}
<1>1. Len(ss) \in Nat /\ DOMAIN ss = 1..Len(ss) /\ ss \in Seq(ToSet(ss))
  BY SeqHas DEF IsSeq
<1>2. \A k \in 1..Len(ss) : ss[k] \in Seq(S)
  <2>1. TAKE k \in 1..Len(ss)
  <2>2. ToSet(ss[k]) \subseteq S /\ ss[k] \in Seq(ToSet(ss[k]))
    BY DEF IsSeq
  <2> HIDE DEF S
  <2>3. QED BY <2>2, SeqMonotonic
<1> HIDE DEF S
<1>3. \A x \in ToSet(ss) : x \in Seq(S)
  BY <1>1, <1>2 DEF ToSet
<1>4. ss \in Seq(Seq(S))
  BY <1>1, <1>3, SeqMonotonic
<1>5. FlattenSeq(ss) \in Seq(S)
  BY <1>4, FlattenIsUnion
<1>6. QED BY <1>5, SeqIs

\* As many chunks as it takes, the last of which need not be whole.
LEMMA ChunkCount ==
  ASSUME NEW size \in Nat \ {0}
  PROVE  /\ NumChunks(size, ChunkSize) \in Nat \ {0}
         /\ (NumChunks(size, ChunkSize) - 1) * ChunkSize < size
         /\ size <= NumChunks(size, ChunkSize) * ChunkSize
<1> DEFINE n == NumChunks(size, ChunkSize)
<1>1. ChunkSize \in Nat \ {0}
  BY WriterAssumption
<1>2. size + ChunkSize - 1 \in Nat
  BY <1>1
<1>3. n \in Nat /\ n * ChunkSize <= size + ChunkSize - 1 /\ size + ChunkSize - 1 < n * ChunkSize + ChunkSize
  BY <1>1, <1>2, DivBounds DEF NumChunks
<1> HIDE DEF n
<1>4. n * ChunkSize \in Nat /\ (n - 1) * ChunkSize = n * ChunkSize - ChunkSize
  BY <1>1, <1>3
<1>5. n # 0
  <2>1. n = 0 => n * ChunkSize = 0
    BY <1>1
  <2>2. QED BY <1>1, <1>3, <2>1
<1>6. QED BY <1>1, <1>3, <1>4, <1>5 DEF n

\* The size the reader takes a chunk to have is what is left for it.
LEMMA ChunkLength ==
  ASSUME NEW size \in Nat \ {0}, NEW i \in 0..(NumChunks(size, ChunkSize) - 1)
  PROVE  UncompressedChunkSize(i, size, ChunkSize) =
           IF i < NumChunks(size, ChunkSize) - 1 THEN ChunkSize ELSE size - i * ChunkSize
<1> DEFINE n == NumChunks(size, ChunkSize)
<1>1. ChunkSize \in Nat \ {0}
  BY WriterAssumption
<1>2. n \in Nat \ {0} /\ (n - 1) * ChunkSize < size /\ size <= n * ChunkSize
  BY ChunkCount
<1> HIDE DEF n
<1> DEFINE q == size \div ChunkSize
           r == size % ChunkSize
<1>3. q \in Nat /\ r \in 0..(ChunkSize - 1) /\ size = q * ChunkSize + r
  BY <1>1
<1> HIDE DEF q, r
<1>4. CASE i < n - 1
  BY <1>4 DEF UncompressedChunkSize, n
<1>5. CASE i = n - 1
  <2>1. n * ChunkSize = (n - 1) * ChunkSize + ChunkSize /\ (n - 1) * ChunkSize \in Int
    BY <1>1, <1>2
  <2>2. CASE r = 0
    <3>1. ~(q < n)
      <4>1. q < n => q * ChunkSize <= (n - 1) * ChunkSize
        <5>1. q < n => q <= n - 1 /\ n - 1 \in Nat
          BY <1>2, <1>3
        <5>2. QED BY <1>1, <1>3, <5>1, Multiples
      <4>2. QED BY <1>1, <1>2, <1>3, <2>1, <2>2, <4>1
    <3>2. ~(n < q)
      <4>1. n < q => n * ChunkSize + ChunkSize <= q * ChunkSize
        BY <1>1, <1>2, <1>3, Multiples
      <4>2. QED BY <1>1, <1>2, <1>3, <2>1, <2>2, <4>1
    <3>3. q = n
      BY <1>2, <1>3, <3>1, <3>2
    <3>4. size = n * ChunkSize
      BY <1>1, <1>2, <1>3, <2>2, <3>3
    <3>5. size - i * ChunkSize = ChunkSize
      BY <1>1, <1>5, <2>1, <3>4
    <3>6. QED BY <1>5, <2>2, <3>5 DEF UncompressedChunkSize, n, r
  <2>3. CASE r # 0
    <3>1. ~(q < n - 1)
      <4>1. q < n - 1 => q * ChunkSize + ChunkSize <= (n - 1) * ChunkSize
        <5>1. n - 1 \in Nat
          BY <1>2
        <5>2. QED BY <1>1, <1>3, <5>1, Multiples
      <4>2. q * ChunkSize \in Nat
        BY <1>1, <1>3
      <4>3. QED BY <1>1, <1>2, <1>3, <2>1, <4>1, <4>2
    <3>2. ~(n - 1 < q)
      <4>1. n - 1 < q => n * ChunkSize <= q * ChunkSize
        <5>1. n - 1 < q => n <= q
          BY <1>2, <1>3
        <5>2. QED BY <1>1, <1>2, <1>3, <5>1, Multiples
      <4>2. q * ChunkSize \in Nat
        BY <1>1, <1>3
      <4>3. QED BY <1>1, <1>2, <1>3, <2>1, <2>3, <4>1, <4>2
    <3>3. q = n - 1
      BY <1>2, <1>3, <3>1, <3>2
    <3>4. size - i * ChunkSize = r
      BY <1>1, <1>3, <1>5, <2>1, <3>3
    <3>5. QED BY <1>5, <2>3, <3>4 DEF UncompressedChunkSize, n, r
  <2>4. QED BY <2>2, <2>3
<1>6. QED BY <1>2, <1>4, <1>5 DEF n

\* A chunk of a content: so long, and not empty.
LEMMA RawIs ==
  ASSUME NEW c, IsSeq(c), c # <<>>, NEW i \in 0..(NumChunks(Len(c), ChunkSize) - 1)
  PROVE  /\ IsSeq(Raw(c, i)) /\ Len(Raw(c, i)) = UncompressedChunkSize(i, Len(c), ChunkSize)
         /\ Len(Raw(c, i)) \in Nat \ {0}
         /\ Raw(c, i) = SubSeq(c, i * ChunkSize + 1,
                               IF i < NumChunks(Len(c), ChunkSize) - 1 THEN (i + 1) * ChunkSize ELSE Len(c))
<1> DEFINE n == NumChunks(Len(c), ChunkSize)
           from == i * ChunkSize
           to == IF i < n - 1 THEN (i + 1) * ChunkSize ELSE Len(c)
<1>1. ChunkSize \in Nat \ {0} /\ Len(c) \in Nat \ {0} /\ DOMAIN c = 1..Len(c) /\ c \in Seq(ToSet(c))
  BY WriterAssumption, SeqHas DEF IsSeq
<1>2. n \in Nat \ {0} /\ (n - 1) * ChunkSize < Len(c) /\ Len(c) <= n * ChunkSize
  BY <1>1, ChunkCount
<1>3. UncompressedChunkSize(i, Len(c), ChunkSize) = IF i < n - 1 THEN ChunkSize ELSE Len(c) - from
  BY <1>1, ChunkLength
<1>a. i \in Nat /\ i <= n - 1
  BY <1>2
<1> HIDE DEF n
<1>4. from \in Nat /\ (i + 1) * ChunkSize = from + ChunkSize
  BY <1>1, <1>a
<1>5. i < n - 1 => (i + 1) * ChunkSize <= (n - 1) * ChunkSize
  <2>1. i < n - 1 => i + 1 \in Nat /\ n - 1 \in Nat /\ i + 1 <= n - 1
    BY <1>2, <1>a
  <2>2. QED BY <1>1, <2>1, Multiples
<1>6. ~(i < n - 1) => i = n - 1 /\ (i + 1) * ChunkSize = n * ChunkSize
  BY <1>1, <1>2, <1>a
<1>b. (n - 1) * ChunkSize \in Int /\ n * ChunkSize \in Int
  BY <1>1, <1>2
<1>7. Min({Len(c), (i + 1) * ChunkSize}) = to
  <2>1. (i + 1) * ChunkSize \in Int
    BY <1>1, <1>4
  <2>2. Min({Len(c), (i + 1) * ChunkSize}) = IF Len(c) <= (i + 1) * ChunkSize THEN Len(c) ELSE (i + 1) * ChunkSize
    BY <1>1, <2>1, MinOfTwo
  <2>3. CASE i < n - 1
    <3>1. ~(Len(c) <= (i + 1) * ChunkSize)
      BY <1>1, <1>2, <1>5, <1>b, <2>1, <2>3
    <3>2. QED BY <2>2, <2>3, <3>1
  <2>4. CASE ~(i < n - 1)
    BY <1>2, <1>6, <2>2, <2>4
  <2>5. QED BY <2>3, <2>4
<1>8. to \in Int /\ from + 1 \in Int /\ to <= Len(c) /\ from < to
  <2>1. CASE i < n - 1
    <3>1. (i + 1) * ChunkSize <= Len(c)
      BY <1>1, <1>2, <1>4, <1>5, <1>b, <2>1
    <3>2. QED BY <1>1, <1>4, <2>1, <3>1
  <2>2. CASE ~(i < n - 1)
    <3>1. from < Len(c)
      BY <1>2, <1>6, <2>2
    <3>2. QED BY <1>1, <1>4, <2>2, <3>1
  <2>3. QED BY <2>1, <2>2
<1>9. to - from = UncompressedChunkSize(i, Len(c), ChunkSize)
  <2>1. i < n - 1 => to - from = ChunkSize
    BY <1>1, <1>4
  <2>2. ~(i < n - 1) => to - from = Len(c) - from
    OBVIOUS
  <2>3. QED BY <1>3, <2>1, <2>2
<1>10. Raw(c, i) = SubSeq(c, from + 1, to)
  BY <1>7 DEF Raw
<1> HIDE DEF from, to
<1>11. \A k \in (from + 1)..to : c[k] \in ToSet(c)
  <2>1. \A k \in (from + 1)..to : k \in 1..Len(c)
    BY <1>1, <1>4, <1>8
  <2>2. QED BY <2>1, SeqHas
<1>12. SubSeq(c, from + 1, to) \in Seq(ToSet(c)) /\ Len(SubSeq(c, from + 1, to)) = to - from
  <2>1. from \in Int
    BY <1>4
  <2>2. /\ SubSeq(c, from + 1, to) \in Seq(ToSet(c))
        /\ Len(SubSeq(c, from + 1, to)) = IF from + 1 <= to THEN to - (from + 1) + 1 ELSE 0
    BY <1>8, <1>11, SubSeqProperties
  <2>3. to \in Int /\ from < to
    BY <1>8
  <2>4. from + 1 <= to /\ to - (from + 1) + 1 = to - from
    BY <2>1, <2>3
  <2>5. QED BY <2>2, <2>4
<1>13. IsSeq(Raw(c, i)) /\ Len(Raw(c, i)) = to - from
  BY <1>10, <1>12, SeqIs
<1>14. to - from \in Nat \ {0}
  <2>1. from \in Nat
    BY <1>4
  <2>2. to \in Int /\ from < to
    BY <1>8
  <2>3. QED BY <2>1, <2>2
<1>15. Len(Raw(c, i)) \in Nat \ {0} /\ Len(Raw(c, i)) = UncompressedChunkSize(i, Len(c), ChunkSize)
  BY <1>9, <1>13, <1>14
<1>16. QED BY <1>10, <1>13, <1>15 DEF from, to, n

\* FlattenSeq of one sequence more.
LEMMA FlattenStep ==
  ASSUME NEW ss, IsSeq(ss), \A k \in 1..Len(ss) : IsSeq(ss[k]), NEW i \in 1..Len(ss)
  PROVE  FlattenSeq(SubSeq(ss, 1, i)) = FlattenSeq(SubSeq(ss, 1, i - 1)) \o ss[i]
<1> DEFINE a == SubSeq(ss, 1, i)
           b == SubSeq(ss, 1, i - 1)
<1>1. Len(ss) \in Nat /\ i \in Nat \ {0} /\ i <= Len(ss) /\ ss \in Seq(ToSet(ss))
  BY SeqHas DEF IsSeq
<1>2. Len(a) = i /\ \A k \in 1..i : a[k] = ss[k]
  BY <1>1
<1>3. Len(b) = i - 1 /\ (\A k \in 1..(i - 1) : b[k] = ss[k]) /\ b \in Seq(ToSet(ss))
  BY <1>1
<1> HIDE DEF a, b
<1>4. PICK f : f[1] = a[1] /\ (\A j \in 2..i : f[j] = f[j-1] \o a[j]) /\ FlattenSeq(a) = f[i]
  <2>1. Len(a) \in Nat \ {0}
    BY <1>1, <1>2
  <2>2. QED BY <1>2, <2>1, FlattenSteps
<1>5. IsSeq(ss[i])
  OBVIOUS
<1>6. CASE i = 1
  <2>1. b = <<>> /\ FlattenSeq(b) = b
    <3>1. Len(b) = 0
      BY <1>3, <1>6
    <3>2. b = <<>>
      BY <1>3, <3>1, SeqIs
    <3>3. FlattenSeq(b) = b
      BY <3>1 DEF FlattenSeq
    <3>4. QED BY <3>2, <3>3
  <2>2. FlattenSeq(a) = ss[1]
    BY <1>2, <1>4, <1>6
  <2>3. ss[1] \in Seq(ToSet(ss[1]))
    BY <1>1, <1>5, <1>6 DEF IsSeq
  <2>4. <<>> \o ss[1] = ss[1]
    BY <2>3, ConcatEmptySeq
  <2>5. QED BY <1>6, <2>1, <2>2, <2>4 DEF a, b
<1>7. CASE i # 1
  <2>1. PICK g : g[1] = b[1] /\ (\A j \in 2..(i - 1) : g[j] = g[j-1] \o b[j]) /\ FlattenSeq(b) = g[i - 1]
    <3>1. Len(b) \in Nat \ {0}
      BY <1>1, <1>3, <1>7
    <3>2. QED BY <1>3, <3>1, FlattenSteps
  <2> DEFINE bad == {j \in 1..(i - 1) : f[j] # g[j]}
  <2>2. bad = {}
    <3>1. SUFFICES ASSUME bad # {} PROVE FALSE
      OBVIOUS
    <3>2. bad \in SUBSET Nat
      OBVIOUS
    <3>3. PICK m \in bad : \A j \in bad : m <= j
      BY <3>1, <3>2, LeastExists
    <3>4. m \in 1..(i - 1) /\ f[m] # g[m] /\ m \in 1..i /\ a[m] = b[m]
      BY <1>1, <1>2, <1>3, <3>3
    <3>5. m # 1
      BY <1>4, <2>1, <3>4
    <3>6. m - 1 \in 1..(i - 1) /\ m \in 2..(i - 1) /\ m \in 2..i /\ ~(m <= m - 1)
      BY <1>1, <3>4, <3>5
    <3>7. f[m - 1] = g[m - 1]
      BY <3>3, <3>6
    <3>8. QED BY <1>4, <2>1, <3>4, <3>6, <3>7
  <2>3. i - 1 \in 1..(i - 1) /\ i \in 2..i /\ i \in 1..i
    BY <1>1, <1>7
  <2>4. f[i] = g[i - 1] \o ss[i]
    BY <1>2, <1>4, <2>2, <2>3
  <2>5. QED BY <1>4, <2>1, <2>4 DEF a, b
<1>8. QED BY <1>6, <1>7

\* Where in a concatenation its parts are.
LEMMA FlattenParts ==
  ASSUME NEW ss, IsSeq(ss), \A k \in 1..Len(ss) : IsSeq(ss[k])
  PROVE  /\ \A m \in 0..Len(ss) : IsSeq(FlattenSeq(SubSeq(ss, 1, m)))
         /\ FlattenSeq(SubSeq(ss, 1, 0)) = <<>>
         /\ FlattenSeq(SubSeq(ss, 1, Len(ss))) = FlattenSeq(ss)
         /\ \A i \in 1..Len(ss) :
              LET from == Len(FlattenSeq(SubSeq(ss, 1, i - 1)))
              IN  /\ Len(FlattenSeq(SubSeq(ss, 1, i))) = from + Len(ss[i])
                  /\ from + Len(ss[i]) <= Len(FlattenSeq(ss))
                  /\ \A k \in 1..Len(ss[i]) : FlattenSeq(ss)[from + k] = ss[i][k]
<1> DEFINE n == Len(ss)
           F(m) == FlattenSeq(SubSeq(ss, 1, m))
<1>1. n \in Nat /\ ss \in Seq(ToSet(ss))
  BY SeqHas DEF IsSeq
<1>2. \A i \in 1..n : F(i) = F(i - 1) \o ss[i]
  BY FlattenStep
<1>3. F(0) = <<>> /\ IsSeq(F(0))
  <2>1. SubSeq(ss, 1, 0) = <<>>
    BY SubSeqEmpty
  <2>2. FlattenSeq(<<>>) = <<>>
    BY DEF FlattenSeq
  <2>3. <<>> \in Seq({}) /\ IsSeq(<<>>)
    BY EmptySeq, SeqIs
  <2>4. QED BY <2>1, <2>2, <2>3
<1>4. F(n) = FlattenSeq(ss)
  BY <1>1, SubSeqFull
<1> HIDE DEF F
<1> DEFINE bad == {m \in 0..n : ~IsSeq(F(m))}
<1>5. bad = {}
  <2>1. SUFFICES ASSUME bad # {} PROVE FALSE
    OBVIOUS
  <2>2. bad \in SUBSET Nat
    OBVIOUS
  <2>3. PICK m \in bad : \A j \in bad : m <= j
    BY <2>1, <2>2, LeastExists
  <2>4. m \in 0..n /\ ~IsSeq(F(m)) /\ m # 0
    BY <1>3, <2>3
  <2>5. m - 1 \in 0..n /\ m \in 1..n /\ ~(m <= m - 1)
    BY <1>1, <2>4
  <2>6. IsSeq(F(m - 1))
    BY <2>3, <2>5
  <2>7. IsSeq(ss[m])
    BY <2>5
  <2>8. F(m) = F(m - 1) \o ss[m]
    BY <1>2, <2>5
  <2>9. IsSeq(F(m - 1) \o ss[m])
    BY <2>6, <2>7, SeqConcat
  <2>10. QED BY <2>4, <2>8, <2>9
<1>6. \A m \in 0..n : IsSeq(F(m)) /\ Len(F(m)) \in Nat
  BY <1>5, SeqHas
<1>7. \A i \in 1..n : /\ i - 1 \in 0..n /\ i \in 0..n /\ Len(ss[i]) \in Nat
                      /\ Len(F(i)) = Len(F(i - 1)) + Len(ss[i])
                      /\ \A k \in 1..(Len(F(i - 1)) + Len(ss[i])) :
                           F(i)[k] = IF k <= Len(F(i - 1)) THEN F(i - 1)[k] ELSE ss[i][k - Len(F(i - 1))]
  <2>1. TAKE i \in 1..n
  <2>2. i - 1 \in 0..n /\ i \in 0..n
    BY <1>1
  <2>3. IsSeq(F(i - 1)) /\ IsSeq(ss[i])
    BY <1>6, <2>2
  <2>4. F(i) = F(i - 1) \o ss[i]
    BY <1>2
  <2>5. Len(ss[i]) \in Nat
    BY <2>3, SeqHas
  <2>6. /\ Len(F(i - 1) \o ss[i]) = Len(F(i - 1)) + Len(ss[i])
        /\ \A k \in 1..(Len(F(i - 1)) + Len(ss[i])) :
             (F(i - 1) \o ss[i])[k] = IF k <= Len(F(i - 1)) THEN F(i - 1)[k] ELSE ss[i][k - Len(F(i - 1))]
    BY <2>3, SeqConcat
  <2>7. QED BY <2>2, <2>4, <2>5, <2>6
<1>8. ASSUME NEW i \in 1..n
      PROVE  /\ Len(F(i - 1)) + Len(ss[i]) <= Len(F(n))
             /\ \A k \in 1..Len(ss[i]) : F(n)[Len(F(i - 1)) + k] = ss[i][k]
  <2> DEFINE from == Len(F(i - 1))
             Good(m) == /\ from + Len(ss[i]) <= Len(F(m))
                        /\ \A k \in 1..Len(ss[i]) : F(m)[from + k] = ss[i][k]
             worse == {m \in i..n : ~Good(m)}
  <2>1. from \in Nat /\ Len(ss[i]) \in Nat /\ i \in Nat
    BY <1>6, <1>7
  <2>2. Good(i)
    <3>1. \A k \in 1..Len(ss[i]) : F(i)[from + k] = ss[i][k]
      <4>1. TAKE k \in 1..Len(ss[i])
      <4>2. from + k \in 1..(from + Len(ss[i])) /\ ~(from + k <= from) /\ from + k - from = k
        BY <2>1
      <4> DEFINE x == from + k
      <4>5. x \in 1..(from + Len(ss[i])) /\ ~(x <= from) /\ x - from = k
        BY <4>2
      <4> HIDE DEF x
      <4>3. F(i)[x] = ss[i][x - from]
        BY <1>7, <4>5
      <4>4. QED BY <4>3, <4>5 DEF x
    <3>2. Len(F(i)) = from + Len(ss[i])
      BY <1>7
    <3>3. from + Len(ss[i]) <= Len(F(i))
      BY <2>1, <3>2
    <3>4. QED BY <3>1, <3>3
  <2> HIDE DEF from, Good
  <2>3. worse = {}
    <3>1. SUFFICES ASSUME worse # {} PROVE FALSE
      OBVIOUS
    <3>2. worse \in SUBSET Nat
      BY <2>1
    <3>3. PICK m \in worse : \A j \in worse : m <= j
      BY <3>1, <3>2, LeastExists
    <3>4. m \in i..n /\ ~Good(m) /\ m # i
      BY <2>2, <3>3
    <3>5. m - 1 \in i..n /\ m \in 1..n /\ ~(m <= m - 1)
      BY <1>1, <2>1, <3>4
    <3>6. Good(m - 1)
      BY <3>3, <3>5
    <3>7. /\ Len(F(m - 1)) \in Nat /\ Len(ss[m]) \in Nat /\ Len(F(m)) = Len(F(m - 1)) + Len(ss[m])
          /\ \A k \in 1..(Len(F(m - 1)) + Len(ss[m])) :
               F(m)[k] = IF k <= Len(F(m - 1)) THEN F(m - 1)[k] ELSE ss[m][k - Len(F(m - 1))]
      BY <1>6, <1>7, <3>5
    <3>a. from + Len(ss[i]) <= Len(F(m - 1)) /\ \A k \in 1..Len(ss[i]) : F(m - 1)[from + k] = ss[i][k]
      BY <3>6 DEF Good
    <3> DEFINE a == Len(F(m - 1))
               b == Len(ss[m])
               l == Len(ss[i])
    <3>b. a \in Nat /\ b \in Nat /\ l \in Nat /\ from \in Nat /\ from + l <= a
      BY <2>1, <3>7, <3>a
    <3>c. Len(F(m)) = a + b
      BY <3>7
    <3>d. /\ \A k \in 1..(a + b) : F(m)[k] = IF k <= a THEN F(m - 1)[k] ELSE ss[m][k - a]
          /\ \A k \in 1..l : F(m - 1)[from + k] = ss[i][k]
      BY <3>7, <3>a
    <3> HIDE DEF a, b, l
    <3>8. from + l <= Len(F(m))
      BY <3>b, <3>c
    <3>9. \A k \in 1..l : F(m)[from + k] = ss[i][k]
      <4>1. TAKE k \in 1..l
      <4>2. \A x : x = from + k => x <= a /\ x \in 1..(a + b)
        BY <3>b
      <4>3. F(m)[from + k] = F(m - 1)[from + k]
        BY <3>d, <4>2
      <4>4. QED BY <3>d, <4>3
    <3>10. QED BY <3>4, <3>8, <3>9 DEF Good, l
  <2>4. n \in i..n
    BY <1>1
  <2>5. Good(n)
    BY <2>3, <2>4
  <2>6. QED BY <2>5 DEF Good, from
<1>9. \A i \in 1..n :
        /\ Len(F(i)) = Len(F(i - 1)) + Len(ss[i])
        /\ Len(F(i - 1)) + Len(ss[i]) <= Len(FlattenSeq(ss))
        /\ \A k \in 1..Len(ss[i]) : FlattenSeq(ss)[Len(F(i - 1)) + k] = ss[i][k]
  BY <1>4, <1>7, <1>8
<1>10. QED BY <1>3, <1>4, <1>6, <1>9 DEF F

\* The chunks of a content, compressed where that is shorter.
LEMMA ZippedIs ==
  ASSUME NEW c, IsSeq(c), c # <<>>
  PROVE  /\ NumChunks(Len(c), ChunkSize) \in Nat \ {0} /\ IsSeq(Zipped(c))
         /\ Len(Zipped(c)) = NumChunks(Len(c), ChunkSize)
         /\ \A i \in 1..Len(Zipped(c)) :
              /\ Zipped(c)[i] = Smaller(Raw(c, i - 1))
              /\ IsSeq(Zipped(c)[i]) /\ Zipped(c)[i] # <<>>
<1> DEFINE n == NumChunks(Len(c), ChunkSize)
<1>1. Len(c) \in Nat \ {0}
  BY SeqHas
<1>2. n \in Nat \ {0}
  BY <1>1, ChunkCount
<1> HIDE DEF n
<1>3. Zipped(c) = [i \in 1..n |-> Smaller(Raw(c, i - 1))]
  BY DEF Zipped, n
<1>4. IsSeq(Zipped(c)) /\ Len(Zipped(c)) = n
  BY <1>2, <1>3, SeqOfFunction
<1>5. \A i \in 1..n : IsSeq(Smaller(Raw(c, i - 1))) /\ Smaller(Raw(c, i - 1)) # <<>>
  <2>1. TAKE i \in 1..n
  <2> DEFINE raw == Raw(c, i - 1)
             m == IF raw \in Shrinks THEN 1 ELSE Len(raw)
  <2>2. i - 1 \in 0..(n - 1)
    BY <1>2
  <2>3. IsSeq(raw) /\ Len(raw) \in Nat \ {0}
    BY <2>2, RawIs DEF n
  <2> HIDE DEF raw
  <2>4. m \in Nat \ {0} /\ Compressed(raw) = [k \in 1..m |-> [zip |-> raw, no |-> k]]
    BY <2>3 DEF Compressed
  <2> HIDE DEF m
  <2>5. IsSeq(Compressed(raw)) /\ Len(Compressed(raw)) = m
    BY <2>4, SeqOfFunction
  <2>6. IsSeq(Smaller(raw)) /\ Len(Smaller(raw)) \in Nat \ {0}
    BY <2>3, <2>4, <2>5 DEF Smaller
  <2>7. Smaller(raw) # <<>>
    BY <2>6, SeqHas
  <2>8. QED BY <2>6, <2>7 DEF raw
<1>6. QED BY <1>2, <1>3, <1>4, <1>5 DEF n

\* The table of the chunks has an entry, of one cell or two, for each but the first.
LEMMA TableIs ==
  ASSUME NEW cs, IsSeq(cs), cs # <<>>, NEW size \in Nat
  PROVE  /\ IsSeq(ChunkTable(cs, size)) /\ Len(ChunkTable(cs, size)) = (Len(cs) - 1) * EntrySize(size)
         /\ Len(ChunkTable(cs, size)) \in Nat
         /\ \A i \in 1..(Len(cs) - 1) :
              /\ (i - 1) * EntrySize(size) + 1 \in 1..Len(ChunkTable(cs, size))
              /\ ChunkTable(cs, size)[(i - 1) * EntrySize(size) + 1].num = Len(FlattenSeq(SubSeq(cs, 1, i)))
<1> DEFINE e == EntrySize(size)
           n == (Len(cs) - 1) * e
           t == ChunkTable(cs, size)
<1>1. Len(cs) \in Nat \ {0} /\ e \in {1, 2}
  BY SeqHas DEF EntrySize
<1> HIDE DEF e
<1>2. n \in Nat
  BY <1>1
<1>3. t = [j \in 1..n |-> IF (j - 1) % e # 0 THEN Blank
                          ELSE [num |-> Len(FlattenSeq(SubSeq(cs, 1, (j - 1) \div e + 1)))]]
  BY DEF ChunkTable, e
<1>4. \A i \in 1..(Len(cs) - 1) : \A j : j = (i - 1) * e + 1 => j \in 1..n /\ (j - 1) % e = 0 /\ (j - 1) \div e + 1 = i
  <2>1. CASE e = 1
    BY <1>1, <2>1
  <2>2. CASE e = 2
    <3>1. TAKE i \in 1..(Len(cs) - 1)
    <3>2. n = (Len(cs) - 1) * 2 /\ (i - 1) * e + 1 = 2 * i - 1
      BY <1>1, <2>2
    <3>3. 2 * i - 1 \in 1..n
      BY <1>1, <3>2
    <3>4. (2 * i - 1 - 1) % 2 = 0 /\ (2 * i - 1 - 1) \div 2 + 1 = i
      BY <1>1
    <3>5. QED BY <2>2, <3>2, <3>3, <3>4
  <2>3. QED BY <1>1, <2>1, <2>2
<1>a. \A i \in 1..(Len(cs) - 1) : (i - 1) * e + 1 \in 1..n
  BY <1>4
<1> HIDE DEF n, t
<1>5. IsSeq(t) /\ Len(t) = n
  <2>1. t = [j \in 1..n |-> t[j]]
    BY <1>3
  <2>2. QED BY <1>2, <2>1, SeqOfFunction
<1>6. \A i \in 1..(Len(cs) - 1) : t[(i - 1) * e + 1].num = Len(FlattenSeq(SubSeq(cs, 1, i)))
  <2>1. TAKE i \in 1..(Len(cs) - 1)
  <2> DEFINE j == (i - 1) * e + 1
  <2>2. j \in 1..n /\ (j - 1) % e = 0 /\ (j - 1) \div e + 1 = i
    BY <1>4
  <2> HIDE DEF j
  <2>3. t[j] = [num |-> Len(FlattenSeq(SubSeq(cs, 1, (j - 1) \div e + 1)))]
    BY <1>3, <2>2
  <2>4. t[j].num = Len(FlattenSeq(SubSeq(cs, 1, i)))
    BY <2>2, <2>3
  <2>5. QED BY <2>4 DEF j
<1>7. QED BY <1>2, <1>a, <1>5, <1>6 DEF e, n, t

\* The resource of a content.
LEMMA ResourceIs ==
  ASSUME NEW c, IsSeq(c), c # <<>>
  PROVE  IsSeq(ResourceOf(c))
<1>1. CASE Comp = "none"
  BY <1>1 DEF ResourceOf
<1>2. CASE Comp # "none"
  <2>1. Zipped(c) # <<>>
    BY ZippedIs, SeqHas
  <2>2. IsSeq(ChunkTable(Zipped(c), Len(c)))
    BY <2>1, ZippedIs, TableIs, SeqHas
  <2>3. IsSeq(FlattenSeq(Zipped(c)))
    BY ZippedIs, SeqFlatten
  <2>4. QED BY <1>2, <2>2, <2>3, SeqConcat DEF ResourceOf
<1>3. QED BY <1>1, <1>2

--------------------------------------------------------------------------------
(* Reading what was written. *)

\* A chunk as it is stored opens as the chunk it was made of.
LEMMA ChunkOpens ==
  ASSUME Comp # "none", NEW raw, IsSeq(raw), Len(raw) \in Nat \ {0}
  PROVE  OpenChunk(Smaller(raw), Len(raw), Comp) = Got(raw)
<1> DEFINE m == IF raw \in Shrinks THEN 1 ELSE Len(raw)
           z == Compressed(raw)
<1>1. m \in Nat \ {0} /\ z = [k \in 1..m |-> [zip |-> raw, no |-> k]]
  BY DEF Compressed
<1> HIDE DEF m
<1>2. IsSeq(z) /\ Len(z) = m
  BY <1>1, SeqOfFunction
<1>3. z[1] = [zip |-> raw, no |-> 1] /\ z # <<>>
  <2>1. 1 \in 1..m
    BY <1>1
  <2>2. z # <<>>
    BY <1>1, <1>2, SeqHas
  <2>3. QED BY <1>1, <2>1, <2>2
<1>4. Decompress(z, Len(raw)) = Got(raw)
  <2>1. z[1].zip = raw /\ "zip" \in DOMAIN z[1]
    BY <1>3
  <2>2. z = Compressed(z[1].zip)
    BY <2>1
  <2> HIDE DEF z
  <2>3. QED BY <1>3, <2>1, <2>2 DEF Decompress
<1>5. CASE Len(z) >= Len(raw)
  BY <1>5 DEF Smaller, OpenChunk
<1>6. CASE ~(Len(z) >= Len(raw))
  <2>1. Smaller(raw) = z /\ Len(z) # Len(raw)
    <3>1. Len(z) # Len(raw)
      BY <1>1, <1>2, <1>6
    <3>2. QED BY <1>6, <3>1 DEF Smaller
  <2>2. Comp \in Codecs
    BY WriterAssumption DEF Codecs
  <2> HIDE DEF z
  <2>3. QED BY <1>4, <2>1, <2>2 DEF OpenChunk
<1>7. QED BY <1>5, <1>6

\* Where the chunks start in a resource: behind the table, one behind the other.
LEMMA ChunkOffsets ==
  ASSUME NEW c, IsSeq(c), c # <<>>, NEW i \in 0..Len(Zipped(c))
  PROVE  ChunkOffset(ChunkTable(Zipped(c), Len(c)) \o FlattenSeq(Zipped(c)), i, Len(c)) =
           Len(ChunkTable(Zipped(c), Len(c))) + Len(FlattenSeq(SubSeq(Zipped(c), 1, i)))
<1> DEFINE cs == Zipped(c)
           t == ChunkTable(cs, Len(c))
           d == FlattenSeq(cs)
           n == NumChunks(Len(c), ChunkSize)
           e == EntrySize(Len(c))
<1>1. /\ n \in Nat \ {0} /\ IsSeq(cs) /\ Len(cs) = n /\ cs # <<>> /\ Len(c) \in Nat
      /\ \A k \in 1..n : IsSeq(cs[k])
  BY ZippedIs, SeqHas
<1> HIDE DEF cs, n
<1>2. /\ IsSeq(t) /\ Len(t) = (n - 1) * e /\ Len(t) \in Nat
      /\ \A k \in 1..(n - 1) : /\ (k - 1) * e + 1 \in 1..Len(t)
                               /\ t[(k - 1) * e + 1].num = Len(FlattenSeq(SubSeq(cs, 1, k)))
  BY <1>1, TableIs
<1>3. IsSeq(d) /\ Len(d) \in Nat
  BY <1>1, SeqFlatten, SeqHas
<1>4. FlattenSeq(SubSeq(cs, 1, 0)) = <<>> /\ FlattenSeq(SubSeq(cs, 1, n)) = d
  BY <1>1, FlattenParts
<1> HIDE DEF t, d, e
<1>5. /\ Len(t \o d) = Len(t) + Len(d)
      /\ \A k \in 1..(Len(t) + Len(d)) : (t \o d)[k] = IF k <= Len(t) THEN t[k] ELSE d[k - Len(t)]
  BY <1>2, <1>3, SeqConcat
<1>6. ChunkOffset(t \o d, i, Len(c)) = Len(t) + Len(FlattenSeq(SubSeq(cs, 1, i)))
  <2>0. ChunkOffset(t \o d, i, Len(c)) = IF i = 0 THEN Len(t) ELSE IF i = n THEN Len(t \o d)
                                         ELSE Len(t) + (t \o d)[(i - 1) * e + 1].num
    BY <1>2 DEF ChunkOffset, n, e
  <2>1. CASE i = 0
    <3>1. Len(FlattenSeq(SubSeq(cs, 1, i))) = 0
      BY <1>4, <2>1
    <3>2. QED BY <1>2, <2>0, <2>1, <3>1
  <2>2. CASE i = n
    BY <1>1, <1>4, <1>5, <2>0, <2>2
  <2>3. CASE i # 0 /\ i # n
    <3>1. i \in 1..(n - 1)
      BY <1>1, <2>3 DEF cs
    <3> DEFINE j == (i - 1) * e + 1
    <3>2. j \in 1..Len(t) /\ t[j].num = Len(FlattenSeq(SubSeq(cs, 1, i)))
      BY <1>2, <3>1
    <3> HIDE DEF j
    <3>3. j \in 1..(Len(t) + Len(d)) /\ j <= Len(t)
      BY <1>2, <1>3, <3>2
    <3>4. (t \o d)[j] = t[j]
      BY <1>5, <3>3
    <3>5. ChunkOffset(t \o d, i, Len(c)) = Len(t) + (t \o d)[j].num
      BY <2>0, <2>3 DEF j
    <3>6. QED BY <3>2, <3>4, <3>5
  <2>4. QED BY <2>1, <2>2, <2>3
<1>7. QED BY <1>6 DEF cs, t, d

\* A part of a sequence that is another, cell by cell.
LEMMA SliceIs ==
  ASSUME NEW s, NEW t, IsSeq(s), IsSeq(t), NEW at \in Nat, at + Len(t) <= Len(s),
         \A k \in 1..Len(t) : s[at + k] = t[k]
  PROVE  SubSeq(s, at + 1, at + Len(t)) = t
<1> DEFINE l == Len(t)
           u == SubSeq(s, at + 1, at + l)
<1>1. Len(s) \in Nat /\ l \in Nat
  BY SeqHas
<1> HIDE DEF l
<1>2. \A i \in (at + 1)..(at + l) : s[i] \in ToSet(s)
  <2>1. \A i \in (at + 1)..(at + l) : i \in 1..Len(s)
    BY <1>1 DEF l
  <2>2. QED BY <2>1, SeqHas
<1>3. /\ u \in Seq(ToSet(s)) /\ Len(u) = l
      /\ \A i \in 1..l : u[i] = s[at + 1 + i - 1]
  <2> DEFINE m == at + 1
             n == at + l
  <2>1. m \in Int /\ n \in Int /\ \A i \in m..n : s[i] \in ToSet(s)
    BY <1>1, <1>2
  <2>2. n - m + 1 = l /\ (m <= n <=> l # 0)
    BY <1>1
  <2>3. u = SubSeq(s, m, n)
    OBVIOUS
  <2> HIDE DEF u, m, n
  <2>4. /\ SubSeq(s, m, n) \in Seq(ToSet(s))
        /\ Len(SubSeq(s, m, n)) = IF m <= n THEN n - m + 1 ELSE 0
        /\ \A i \in 1..(n - m + 1) : SubSeq(s, m, n)[i] = s[m + i - 1]
    BY <2>1, SubSeqProperties
  <2>5. QED BY <1>1, <2>2, <2>3, <2>4 DEF m
<1> HIDE DEF u
<1>4. \A i \in 1..l : u[i] = t[i]
  <2>1. TAKE i \in 1..l
  <2>2. at + 1 + i - 1 = at + i
    OBVIOUS
  <2>3. QED BY <1>3, <2>2 DEF l
<1>5. u = t
  BY <1>3, <1>4, SeqIs, SeqSame DEF l
<1>6. QED BY <1>5 DEF u, l

\* The chunks of a content make it up.
LEMMA RawsJoin ==
  ASSUME NEW c, IsSeq(c), c # <<>>
  PROVE  FlattenSeq([i \in 1..NumChunks(Len(c), ChunkSize) |-> Raw(c, i - 1)]) = c
<1> DEFINE n == NumChunks(Len(c), ChunkSize)
           cut == [k \in 0..n |-> IF k < n THEN k * ChunkSize ELSE Len(c)]
<1>1. Len(c) \in Nat \ {0} /\ ChunkSize \in Nat \ {0} /\ c \in Seq(ToSet(c))
  BY SeqHas, WriterAssumption DEF IsSeq
<1>2. n \in Nat \ {0} /\ (n - 1) * ChunkSize < Len(c) /\ Len(c) <= n * ChunkSize
  BY <1>1, ChunkCount
<1>3. \A i \in 1..n : Raw(c, i - 1) = SubSeq(c, (i - 1) * ChunkSize + 1,
                                            IF i - 1 < n - 1 THEN (i - 1 + 1) * ChunkSize ELSE Len(c))
  <2>1. \A i \in 1..n : i - 1 \in 0..(n - 1)
    BY <1>2
  <2>2. QED BY <2>1, RawIs
<1> HIDE DEF n
<1>4. \A k \in 0..n : k < n => k * ChunkSize \in Nat /\ k * ChunkSize <= (n - 1) * ChunkSize
  <2>1. \A k \in 0..n : k < n => k \in Nat /\ n - 1 \in Nat /\ k <= n - 1
    BY <1>2
  <2>2. QED BY <1>1, <2>1, Multiples
<1>5. \A k \in 0..n : cut[k] \in 0..Len(c)
  <2>1. (n - 1) * ChunkSize \in Int
    BY <1>1, <1>2
  <2>2. \A k \in 0..n : k < n => k * ChunkSize \in 0..Len(c)
    BY <1>1, <1>2, <1>4, <2>1
  <2>3. QED BY <1>1, <2>2
<1>6. cut[0] = 0 /\ cut[n] = Len(c)
  BY <1>1, <1>2
<1>7. \A k \in 1..n : cut[k-1] <= cut[k]
  <2>1. TAKE k \in 1..n
  <2>2. k - 1 \in 0..n /\ k \in 0..n /\ k - 1 < n
    BY <1>2
  <2>3. CASE k < n
    <3>1. cut[k-1] = (k - 1) * ChunkSize /\ cut[k] = k * ChunkSize
      BY <2>2, <2>3
    <3>2. (k - 1) * ChunkSize <= k * ChunkSize
      <4>1. k - 1 \in Nat /\ k \in Nat /\ k - 1 <= k
        BY <1>2
      <4>2. QED BY <1>1, <4>1, Multiples
    <3>3. QED BY <3>1, <3>2
  <2>4. CASE ~(k < n)
    <3>1. cut[k] = Len(c) /\ cut[k-1] \in 0..Len(c)
      BY <1>5, <2>2, <2>4
    <3>2. QED BY <1>1, <3>1
  <2>5. QED BY <2>3, <2>4
<1>8. \A i \in 1..n : Raw(c, i - 1) = SubSeq(c, cut[i-1] + 1, cut[i])
  <2>1. TAKE i \in 1..n
  <2>2. i - 1 \in 0..n /\ i \in 0..n /\ i - 1 < n /\ i - 1 + 1 = i /\ (i - 1 < n - 1 <=> i < n)
    BY <1>2
  <2>3. cut[i-1] = (i - 1) * ChunkSize /\ cut[i] = IF i < n THEN i * ChunkSize ELSE Len(c)
    BY <2>2
  <2> HIDE DEF cut
  <2>4. QED BY <1>3, <2>2, <2>3
<1>9. cut \in [0..n -> 0..Len(c)]
  BY <1>5
<1> HIDE DEF cut
<1>10. FlattenSeq([k \in 1..n |-> SubSeq(c, cut[k-1] + 1, cut[k])]) = c
  BY <1>1, <1>2, <1>6, <1>7, <1>9, SlicesJoin
<1>11. [k \in 1..n |-> SubSeq(c, cut[k-1] + 1, cut[k])] = [i \in 1..n |-> Raw(c, i - 1)]
  BY <1>8
<1>12. QED BY <1>10, <1>11 DEF n

\* A content is read from the resource that was made of it.
LEMMA ContentRead ==
  ASSUME NEW f, NEW c, IsSeq(f), IsSeq(c), c # <<>>, NEW rd, Holds(f, rd, ResourceOf(c)),
         rd.orig = Len(c), rd.flags = ResourceFlags, f[1].comp = Comp
  PROVE  BlobBytes(f, [solid |-> NoSolid, rd |-> rd]) = Got(c)
<1> DEFINE loc == [solid |-> NoSolid, rd |-> rd]
<1>1. BlobBytes(f, loc) = IF "compressed" \in rd.flags THEN ReadCompressed(f, rd, f[1].comp)
                          ELSE ReadResourceRaw(f, rd)
  BY DEF BlobBytes
<1>2. CASE Comp = "none"
  <2>1. ResourceOf(c) = c /\ rd.flags = {}
    BY <1>2 DEF ResourceOf, ResourceFlags
  <2>2. QED BY <1>1, <2>1, HeldIsRead
<1>3. CASE Comp # "none"
  <2> DEFINE n == NumChunks(Len(c), ChunkSize)
             cs == Zipped(c)
             t == ChunkTable(cs, Len(c))
             cells == t \o FlattenSeq(cs)
             L(i) == Len(FlattenSeq(SubSeq(cs, 1, i)))
  <2>1. BlobBytes(f, loc) = ReadChunked(f, rd, Comp)
    <3>1. rd.flags = {"compressed"}
      BY <1>3 DEF ResourceFlags
    <3>2. QED BY <1>1, <3>1 DEF ReadCompressed
  <2>2. /\ n \in Nat \ {0} /\ IsSeq(cs) /\ Len(cs) = n /\ cs # <<>> /\ Len(c) \in Nat
        /\ \A k \in 1..n : IsSeq(cs[k]) /\ cs[k] = Smaller(Raw(c, k - 1))
    BY ZippedIs, SeqHas
  <2>3. ReadAt(f, rd.at, rd.size) = Got(cells)
    <3>1. ResourceOf(c) = cells
      BY <1>3 DEF ResourceOf
    <3>2. IsSeq(cells)
      BY <3>1, ResourceIs
    <3> HIDE DEF cells
    <3>3. QED BY <3>1, <3>2, HeldIsRead
  <2>4. \A i \in 0..n : ChunkOffset(cells, i, Len(c)) = Len(t) + L(i)
    BY <2>2, ChunkOffsets
  <2>5. IsSeq(t) /\ Len(t) \in Nat
    BY <2>2, TableIs
  <2>6. IsSeq(FlattenSeq(cs)) /\ Len(FlattenSeq(cs)) \in Nat
    BY <2>2, SeqFlatten, SeqHas
  <2>7. \A i \in 1..n : /\ L(i - 1) \in Nat /\ Len(cs[i]) \in Nat
                        /\ L(i) = L(i - 1) + Len(cs[i])
                        /\ L(i - 1) + Len(cs[i]) <= Len(FlattenSeq(cs))
                        /\ \A k \in 1..Len(cs[i]) : FlattenSeq(cs)[L(i - 1) + k] = cs[i][k]
    <3>1. \A i \in 1..n : i - 1 \in 0..n
      BY <2>2
    <3> HIDE DEF n, cs
    <3>2. \A m \in 0..n : IsSeq(FlattenSeq(SubSeq(cs, 1, m)))
      BY <2>2, FlattenParts
    <3>3. \A i \in 1..n : L(i - 1) \in Nat /\ Len(cs[i]) \in Nat
      BY <2>2, <3>1, <3>2, SeqHas
    <3>4. QED BY <2>2, <3>3, FlattenParts
  <2> DEFINE flat == FlattenSeq(cs)
  <2>8. /\ IsSeq(cells) /\ Len(cells) = Len(t) + Len(flat)
        /\ \A k \in 1..(Len(t) + Len(flat)) : cells[k] = IF k <= Len(t) THEN t[k] ELSE flat[k - Len(t)]
    BY <2>5, <2>6, SeqConcat
  <2> HIDE DEF n, cs, t, cells, L, flat
  <2>9. ASSUME NEW i \in 1..n
        PROVE  OpenChunk(SubSeq(cells, ChunkOffset(cells, i - 1, Len(c)) + 1, ChunkOffset(cells, i, Len(c))),
                         UncompressedChunkSize(i - 1, Len(c), ChunkSize), Comp) = Got(Raw(c, i - 1))
    <3> DEFINE at == Len(t) + L(i - 1)
               l == Len(cs[i])
    <3>1. i - 1 \in 0..n /\ i \in 0..n /\ i - 1 \in 0..(n - 1)
      BY <2>2
    <3>2. /\ at \in Nat /\ l \in Nat /\ at + l <= Len(cells)
          /\ ChunkOffset(cells, i - 1, Len(c)) = at /\ ChunkOffset(cells, i, Len(c)) = at + l
      <4>1. L(i - 1) \in Nat /\ l \in Nat /\ L(i) = L(i - 1) + l /\ L(i - 1) + l <= Len(flat)
        BY <2>7 DEF flat
      <4>2. ChunkOffset(cells, i - 1, Len(c)) = Len(t) + L(i - 1) /\ ChunkOffset(cells, i, Len(c)) = Len(t) + L(i)
        BY <2>4, <3>1
      <4>3. Len(flat) \in Nat
        BY <2>6 DEF flat
      <4> HIDE DEF l
      <4>4. QED BY <2>5, <2>8, <4>1, <4>2, <4>3
    <3>3. \A k \in 1..l : cells[at + k] = cs[i][k]
      <4>1. TAKE k \in 1..l
      <4>2. L(i - 1) \in Nat /\ l \in Nat /\ L(i - 1) + l <= Len(flat) /\ flat[L(i - 1) + k] = cs[i][k]
        BY <2>7 DEF flat
      <4>3. Len(flat) \in Nat
        BY <2>6 DEF flat
      <4> HIDE DEF l
      <4> DEFINE x == at + k
      <4>4. x \in 1..(Len(t) + Len(flat)) /\ ~(x <= Len(t)) /\ x - Len(t) = L(i - 1) + k
        <5> DEFINE a == Len(t)
                   b == L(i - 1)
                   d == Len(flat)
        <5>1. a \in Nat /\ b \in Nat /\ d \in Nat /\ l \in Nat /\ b + l <= d /\ x = a + b + k
          BY <2>5, <4>2, <4>3
        <5> HIDE DEF a, b, d, x
        <5>2. x \in 1..(a + d) /\ ~(x <= a) /\ x - a = b + k
          BY <5>1
        <5>3. QED BY <5>2 DEF a, b, d
      <4> HIDE DEF x
      <4>5. cells[x] = flat[x - Len(t)]
        BY <2>8, <4>4
      <4>6. cells[x] = cs[i][k]
        BY <4>2, <4>4, <4>5
      <4>7. QED BY <4>6 DEF x
    <3>4. SubSeq(cells, at + 1, at + l) = cs[i]
      <4>1. IsSeq(cs[i])
        BY <2>2
      <4> HIDE DEF at
      <4>2. QED BY <2>8, <3>2, <3>3, <4>1, SliceIs
    <3>5. cs[i] = Smaller(Raw(c, i - 1))
      BY <2>2
    <3>6. /\ IsSeq(Raw(c, i - 1)) /\ Len(Raw(c, i - 1)) \in Nat \ {0}
          /\ Len(Raw(c, i - 1)) = UncompressedChunkSize(i - 1, Len(c), ChunkSize)
      BY <3>1, RawIs DEF n
    <3>7. OpenChunk(Smaller(Raw(c, i - 1)), Len(Raw(c, i - 1)), Comp) = Got(Raw(c, i - 1))
      BY <1>3, <3>6, ChunkOpens
    <3> HIDE DEF at, l
    <3>8. QED BY <3>2, <3>4, <3>5, <3>6, <3>7
  <2> DEFINE all == [i \in 1..n |-> Got(Raw(c, i - 1))]
  <2>10. ReadChunked(f, rd, Comp) = AllOf(all)
    <3>1. Got(cells).ok /\ Got(cells).data = cells
      BY DEF Got
    <3>2. \A i \in 1..n : i - 1 + 1 = i
      BY <2>2
    <3>3. ReadChunked(f, rd, Comp) =
            AllOf([i \in 1..n |->
              OpenChunk(SubSeq(cells, ChunkOffset(cells, i - 1, Len(c)) + 1, ChunkOffset(cells, i - 1 + 1, Len(c))),
                        UncompressedChunkSize(i - 1, Len(c), ChunkSize), Comp)])
      BY <2>2, <2>3, <3>1 DEF ReadChunked, n
    <3>4. [i \in 1..n |->
              OpenChunk(SubSeq(cells, ChunkOffset(cells, i - 1, Len(c)) + 1, ChunkOffset(cells, i - 1 + 1, Len(c))),
                        UncompressedChunkSize(i - 1, Len(c), ChunkSize), Comp)] = all
      BY <2>9, <3>2
    <3>5. QED BY <3>3, <3>4
  <2>11. AllOf(all) = Got(FlattenSeq([i \in 1..n |-> Raw(c, i - 1)]))
    <3>1. DOMAIN all = 1..n /\ \A i \in 1..n : all[i].ok /\ all[i].data = Raw(c, i - 1)
      BY DEF Got
    <3> HIDE DEF all
    <3>2. [i \in DOMAIN all |-> all[i].data] = [i \in 1..n |-> Raw(c, i - 1)]
      BY <3>1
    <3>3. QED BY <3>1, <3>2 DEF AllOf, Contents
  <2>12. QED BY <2>1, <2>10, <2>11, RawsJoin DEF n
<1>4. QED BY <1>2, <1>3

--------------------------------------------------------------------------------
(* Putting positions in order. *)

\* In a are the elements of s at the positions in keep, in that order.
Follows(a, s, keep, L) ==
  /\ Len(a) = Cardinality(keep)
  /\ \A k \in 1..Cardinality(keep) : (\E i \in keep : Cardinality(L[i]) = k - 1) =>
       \E i \in keep : Cardinality(L[i]) = k - 1 /\ a[k] = s[i]

\* Counting those before it, L, numbers the positions in keep from 0.
LEMMA RanksBy ==
  ASSUME NEW n \in Nat, NEW keep \in SUBSET (1..n), NEW L, IsOrder(L, keep)
  PROVE  /\ IsFiniteSet(keep) /\ Cardinality(keep) \in Nat
         /\ \A k \in 1..Cardinality(keep) : \E i \in keep : Cardinality(L[i]) = k - 1
         /\ \A i \in keep : \E k \in 1..Cardinality(keep) : Cardinality(L[i]) = k - 1
         /\ \A i, m \in keep : i \in L[m] =>
              Cardinality(L[i]) < Cardinality(L[m])
<1>1. IsFiniteSet(keep)
  <2>1. IsFiniteSet(1..n)
    BY FS_Interval
  <2>2. QED BY <2>1, FS_Subset
<1>2. /\ Cardinality(keep) \in Nat
      /\ \A k \in 1..Cardinality(keep) : \E i \in keep : Cardinality(L[i]) = k - 1
      /\ \A i \in keep : \E k \in 1..Cardinality(keep) : Cardinality(L[i]) = k - 1
      /\ \A i, m \in keep : i \in L[m] => Cardinality(L[i]) < Cardinality(L[m])
  BY <1>1, RankedBy
<1>3. QED BY <1>1, <1>2

\* The elements of a sequence at some positions, those before each being L.
LEMMA ArrangedBy ==
  ASSUME NEW s, IsSeq(s), NEW n \in Nat, n = Len(s), NEW keep \in SUBSET (1..n), NEW L, IsOrder(L, keep),
         NEW a, IsSeq(a), Follows(a, s, keep, L)
  PROVE  \A x : x \in ToSet(a) <=> \E i \in keep : s[i] = x
<1> USE DEF Follows
<1>a. /\ IsFiniteSet(keep) /\ Cardinality(keep) \in Nat
      /\ \A k \in 1..Cardinality(keep) : \E i \in keep : Cardinality(L[i]) = k - 1
      /\ \A i \in keep : \E k \in 1..Cardinality(keep) : Cardinality(L[i]) = k - 1
      /\ \A i, m \in keep : i \in L[m] =>
           Cardinality(L[i]) < Cardinality(L[m])
  BY RanksBy
<1> DEFINE rank(i) == Cardinality(L[i])
<1>2. \A i \in keep : rank(i) \in Int
  BY <1>a
<1>3. \A k \in 1..Cardinality(keep) : \E i \in keep : rank(i) = k - 1 /\ a[k] = s[i]
  BY <1>a
<1>4. \A i, m \in keep : rank(i) = rank(m) => i = m
  <2>1. TAKE i, m \in keep
  <2>2. rank(i) \in Int /\ rank(m) \in Int
    BY <1>2
  <2>3. (i \in L[m] => rank(i) < rank(m)) /\ (m \in L[i] => rank(m) < rank(i))
    BY <1>a
  <2> HIDE DEF rank
  <2>4. QED BY <2>2, <2>3 DEF IsOrder
<1>5. DOMAIN a = 1..Cardinality(keep)
  BY SeqHas
<1>6. \A i \in keep : \E k \in 1..Cardinality(keep) : a[k] = s[i]
  <2>1. TAKE i \in keep
  <2>2. PICK k \in 1..Cardinality(keep) : rank(i) = k - 1
    BY <1>a
  <2>3. PICK m \in keep : rank(m) = k - 1 /\ a[k] = s[m]
    BY <1>3
  <2> HIDE DEF rank
  <2>4. m = i
    BY <1>4, <2>2, <2>3
  <2>5. QED BY <2>3, <2>4
<1>7. \A x : x \in ToSet(a) <=> \E k \in 1..Cardinality(keep) : a[k] = x
  BY <1>5 DEF ToSet
<1>8. \A x : x \in ToSet(a) <=> \E i \in keep : s[i] = x
  <2>1. \A k \in 1..Cardinality(keep) : \E i \in keep : a[k] = s[i]
    BY <1>3
  <2>2. TAKE x
  <2>3. ASSUME x \in ToSet(a) PROVE \E i \in keep : s[i] = x
    BY <1>7, <2>1, <2>3
  <2>4. ASSUME NEW i \in keep, s[i] = x PROVE x \in ToSet(a)
    BY <1>6, <1>7, <2>4
  <2>5. QED BY <2>3, <2>4
<1>9. QED BY <1>8

\* What Arranged makes of a sequence, L being the positions before each position.
Picked(s, keep, L) ==
  [k \in 1..Cardinality(keep) |-> s[CHOOSE i \in keep : Cardinality(L[i]) = k - 1]]

\* The elements at the positions in keep, as many as there are.
LEMMA PickedIs ==
  ASSUME NEW s, IsSeq(s), NEW n \in Nat, n = Len(s), NEW keep \in SUBSET (1..n), NEW L, IsOrder(L, keep)
  PROVE  /\ IsSeq(Picked(s, keep, L)) /\ Len(Picked(s, keep, L)) = Cardinality(keep)
         /\ \A x : x \in ToSet(Picked(s, keep, L)) <=> \E i \in keep : s[i] = x
<1> DEFINE a == Picked(s, keep, L)
<1>1. IsSeq(a) /\ Len(a) = Cardinality(keep)
  <2>1. a = [k \in 1..Cardinality(keep) |-> a[k]]
    BY DEF Picked
  <2>2. Cardinality(keep) \in Nat
    BY RanksBy
  <2> HIDE DEF a
  <2>3. QED BY <2>1, <2>2, SeqOfFunction
<1>2. ASSUME NEW k \in 1..Cardinality(keep), \E i \in keep : Cardinality(L[i]) = k - 1
      PROVE  \E i \in keep : Cardinality(L[i]) = k - 1 /\ a[k] = s[i]
  <2> DEFINE at == CHOOSE i \in keep : Cardinality(L[i]) = k - 1
  <2>1. at \in keep /\ Cardinality(L[at]) = k - 1
    BY <1>2
  <2>2. a[k] = s[at]
    BY DEF Picked
  <2> HIDE DEF at, a
  <2>3. QED BY <2>1, <2>2
<1> HIDE DEF a
<1>3. Follows(a, s, keep, L)
  BY <1>1, <1>2 DEF Follows
<1>4. \A x : x \in ToSet(a) <=> \E i \in keep : s[i] = x
  BY <1>1, <1>3, ArrangedBy
<1>5. QED BY <1>1, <1>4 DEF a

\* Of two of them the one before the other was so in the order.
Ordered(a, s, keep, L) ==
  \A k, m \in 1..Cardinality(keep) : k < m =>
    \E i, j \in keep : i \in L[j] /\ i # j /\ a[k] = s[i] /\ a[m] = s[j]

\* Positions are picked in their order.
LEMMA PickedOrdered ==
  ASSUME NEW s, NEW n \in Nat, NEW keep \in SUBSET (1..n), NEW L, IsOrder(L, keep)
  PROVE  Ordered(Picked(s, keep, L), s, keep, L)
<1> DEFINE a == Picked(s, keep, L)
           rank(i) == Cardinality(L[i])
<1>a. /\ IsFiniteSet(keep) /\ Cardinality(keep) \in Nat
      /\ \A k \in 1..Cardinality(keep) : \E i \in keep : Cardinality(L[i]) = k - 1
      /\ \A i \in keep : \E k \in 1..Cardinality(keep) : Cardinality(L[i]) = k - 1
      /\ \A i, m \in keep : i \in L[m] => Cardinality(L[i]) < Cardinality(L[m])
  BY RanksBy
<1>1. /\ Cardinality(keep) \in Nat
      /\ \A k \in 1..Cardinality(keep) : \E i \in keep : rank(i) = k - 1
      /\ \A i, m \in keep : i \in L[m] => rank(i) < rank(m)
  BY <1>a
<1>2. ASSUME NEW k \in 1..Cardinality(keep)
      PROVE  \E i \in keep : rank(i) = k - 1 /\ a[k] = s[i]
  <2> DEFINE at == CHOOSE i \in keep : rank(i) = k - 1
  <2>1. at \in keep /\ rank(at) = k - 1
    BY <1>1
  <2>2. a[k] = s[at]
    BY DEF Picked
  <2> HIDE DEF at, a
  <2>3. QED BY <2>1, <2>2
<1> HIDE DEF a, rank
<1>3. ASSUME NEW k \in 1..Cardinality(keep), NEW m \in 1..Cardinality(keep), k < m
      PROVE  \E i, j \in keep : i \in L[j] /\ i # j /\ a[k] = s[i] /\ a[m] = s[j]
  <2>1. PICK i \in keep : rank(i) = k - 1 /\ a[k] = s[i]
    BY <1>2
  <2>2. PICK j \in keep : rank(j) = m - 1 /\ a[m] = s[j]
    BY <1>2
  <2>3. rank(i) < rank(j) /\ ~(rank(j) < rank(i)) /\ rank(i) # rank(j)
    BY <1>1, <1>3, <2>1, <2>2
  <2>4. i # j /\ j \notin L[i]
    BY <1>1, <2>3
  <2>5. i \in L[j]
    BY <2>4 DEF IsOrder
  <2>6. QED BY <2>1, <2>2, <2>4, <2>5
<1>4. QED BY <1>3 DEF Ordered, a

\* No element comes twice.
Distinct(s) == \A k, m \in 1..Len(s) : k < m => s[k] # s[m]

\* The contents still to be written, each once.
LEMMA PendingIs ==
  ASSUME NEW hashes, IsSeq(hashes), NEW known
  PROVE  /\ IsSeq(Pending(hashes, known))
         /\ \A h : h \in ToSet(Pending(hashes, known)) <=> h \in ToSet(hashes) /\ h \notin known \cup {<<>>}
         /\ Distinct(Pending(hashes, known))
<1> DEFINE n == Len(hashes)
           keep == {k \in DOMAIN hashes : /\ hashes[k] \notin known \cup {<<>>}
                                          /\ \A j \in 1..(k - 1) : hashes[j] # hashes[k]}
           L == [i \in keep |-> {j \in keep : j < i}]
           a == Pending(hashes, known)
<1>1. n \in Nat /\ DOMAIN hashes = 1..n
  BY SeqHas
<1>2. keep \in SUBSET (1..n)
  BY <1>1
<1>3. a = Picked(hashes, keep, L)
  BY DEF Pending, Arranged, Picked
<1>4. \A k \in 1..n : k \in keep <=> /\ hashes[k] \notin known \cup {<<>>}
                                     /\ \A j \in 1..(k - 1) : hashes[j] # hashes[k]
  BY <1>1
<1> HIDE DEF keep, a
<1>5. L \in [keep -> SUBSET keep] /\ \A i, j \in keep : j \in L[i] <=> j < i
  OBVIOUS
<1> HIDE DEF L
<1>6. \A i \in keep : i \in Nat
  BY <1>1, <1>2
<1>7. /\ \A i \in keep : i \notin L[i]
      /\ \A i, j, k \in keep : i \in L[j] /\ j \in L[k] => i \in L[k]
      /\ \A i, j \in keep : i = j \/ i \in L[j] \/ j \in L[i]
  BY <1>5, <1>6
<1>8. /\ IsSeq(a) /\ Len(a) = Cardinality(keep) /\ Ordered(a, hashes, keep, L)
      /\ \A x : x \in ToSet(a) <=> \E i \in keep : hashes[i] = x
  <2>1. n \in Nat /\ n = Len(hashes)
    BY <1>1
  <2>2. IsOrder(L, keep)
    BY <1>5, <1>7 DEF IsOrder
  <2> HIDE DEF n
  <2>3. /\ IsSeq(Picked(hashes, keep, L)) /\ Len(Picked(hashes, keep, L)) = Cardinality(keep)
        /\ \A x : x \in ToSet(Picked(hashes, keep, L)) <=> \E i \in keep : hashes[i] = x
    BY <2>1, <2>2, <1>2, PickedIs
  <2>5. Ordered(Picked(hashes, keep, L), hashes, keep, L)
    BY <2>1, <2>2, <1>2, PickedOrdered
  <2>4. QED BY <1>3, <2>3, <2>5
<1>9. ASSUME NEW h, h \in ToSet(hashes), h \notin known \cup {<<>>}
      PROVE  \E i \in keep : hashes[i] = h
  <2> DEFINE at == {k \in 1..n : hashes[k] = h}
  <2>1. at # {} /\ at \in SUBSET Nat
    BY <1>9, SeqHas
  <2>2. PICK k \in at : \A j \in at : k <= j
    BY <2>1, LeastExists
  <2>3. k \in 1..n /\ hashes[k] = h /\ \A j \in 1..(k - 1) : hashes[j] # h
    <3>1. \A j \in 1..(k - 1) : j \in 1..n /\ ~(k <= j)
      BY <1>1, <2>2
    <3>2. QED BY <2>2, <3>1
  <2>4. k \in keep
    BY <1>4, <1>9, <2>3
  <2>5. QED BY <2>3, <2>4
<1>10. \A i \in keep : hashes[i] \in ToSet(hashes) /\ hashes[i] \notin known \cup {<<>>}
  BY <1>2, <1>4, SeqHas DEF n
<1>11. \A h : h \in ToSet(a) <=> h \in ToSet(hashes) /\ h \notin known \cup {<<>>}
  BY <1>8, <1>9, <1>10
<1>13. Distinct(a)
  <2>1. \A i, j \in keep : i \in L[j] => hashes[i] # hashes[j]
    <3>1. TAKE i, j \in keep
    <3>2. HAVE i \in L[j]
    <3>3. i < j /\ i \in Nat /\ j \in 1..n /\ i \in 1..n
      BY <1>2, <1>5, <1>6, <3>2
    <3>4. i \in 1..(j - 1)
      BY <1>1, <3>3
    <3>5. QED BY <1>4, <3>3, <3>4
  <2>2. QED BY <1>8, <2>1 DEF Ordered, Distinct
<1>12. QED BY <1>8, <1>11, <1>13 DEF a

\* Of two contents in one solid resource the first comes first.
BySource(s, r) ==
  \A k, m \in 1..Len(s) :
    k < m /\ SolidOf(r, s[k]) # NoSolid /\ SolidOf(r, s[k]) = SolidOf(r, s[m]) =>
      s[k] # s[m] /\ r.blobs[s[k]].at <= r.blobs[s[m]].at

\* Sorting contents by where the source has them leaves out none and adds none.
LEMMA SortedIs ==
  ASSUME NEW hashes, IsSeq(hashes), NEW r,
         \A h \in DOMAIN r.blobs : r.blobs[h].solid # NoSolid => r.blobs[h].at \in Nat
  PROVE  /\ IsSeq(SortBlobsBySource(r, hashes))
         /\ \A h : h \in ToSet(SortBlobsBySource(r, hashes)) <=> h \in ToSet(hashes)
         /\ Distinct(hashes) => BySource(SortBlobsBySource(r, hashes), r)
<1> DEFINE n == Len(hashes)
           solid(k) == SolidOf(r, hashes[k])
           Group(k) == IF solid(k) = NoSolid THEN n + 1
                       ELSE Min({j \in DOMAIN hashes : solid(j) = solid(k)})
           Offset(k) == IF solid(k) = NoSolid THEN 0 ELSE r.blobs[hashes[k]].at
           keep == DOMAIN hashes
           L == [i \in keep |-> {j \in keep :
                   \/ Group(j) < Group(i)
                   \/ /\ Group(j) = Group(i)
                      /\ Offset(j) < Offset(i) \/ (Offset(j) = Offset(i) /\ j < i)}]
           a == SortBlobsBySource(r, hashes)
<1>1. n \in Nat /\ keep = 1..n
  BY SeqHas
<1>2. a = Picked(hashes, keep, L)
  BY DEF SortBlobsBySource, Arranged, Picked
<1>3. \A k \in keep : Group(k) \in Int
  <2>1. TAKE k \in keep
  <2> DEFINE mates == {j \in DOMAIN hashes : solid(j) = solid(k)}
  <2>2. mates \in SUBSET Nat /\ k \in mates
    BY <1>1
  <2>3. Min(mates) \in mates
    BY <2>2, MinIsIn
  <2>4. Min(mates) \in Int
    BY <2>2, <2>3
  <2> HIDE DEF mates
  <2>5. n + 1 \in Int
    BY <1>1
  <2>6. QED BY <2>4, <2>5 DEF mates
<1>4. \A k \in keep : Offset(k) \in Int
  <2>1. TAKE k \in keep
  <2>2. solid(k) # NoSolid => hashes[k] \in DOMAIN r.blobs /\ r.blobs[hashes[k]].solid # NoSolid
    BY DEF SolidOf
  <2>3. QED BY <2>2
<1> HIDE DEF Group, Offset, a, keep
<1>5. L \in [keep -> SUBSET keep] /\ \A i, j \in keep : j \in L[i] <=>
        \/ Group(j) < Group(i)
        \/ /\ Group(j) = Group(i)
           /\ Offset(j) < Offset(i) \/ (Offset(j) = Offset(i) /\ j < i)
  OBVIOUS
<1> HIDE DEF L
<1>6. \A i \in keep : i \in Int
  BY <1>1
<1>7. /\ \A i \in keep : i \notin L[i]
      /\ \A i, j, k \in keep : i \in L[j] /\ j \in L[k] => i \in L[k]
      /\ \A i, j \in keep : i = j \/ i \in L[j] \/ j \in L[i]
  <2>1. \A i \in keep : i \notin L[i]
    BY <1>3, <1>4, <1>5, <1>6
  <2>2. \A i, j, k \in keep : i \in L[j] /\ j \in L[k] => i \in L[k]
    BY <1>3, <1>4, <1>5, <1>6
  <2>3. \A i, j \in keep : i = j \/ i \in L[j] \/ j \in L[i]
    BY <1>3, <1>4, <1>5, <1>6
  <2>4. QED BY <2>1, <2>2, <2>3
<1>8. /\ IsSeq(a) /\ Len(a) = Cardinality(keep) /\ Ordered(a, hashes, keep, L)
      /\ \A x : x \in ToSet(a) <=> \E i \in keep : hashes[i] = x
  <2>1. n \in Nat /\ n = Len(hashes) /\ keep \in SUBSET (1..n)
    BY <1>1
  <2>2. IsOrder(L, keep)
    BY <1>5, <1>7 DEF IsOrder
  <2> HIDE DEF n
  <2>3. /\ IsSeq(Picked(hashes, keep, L)) /\ Len(Picked(hashes, keep, L)) = Cardinality(keep)
        /\ \A x : x \in ToSet(Picked(hashes, keep, L)) <=> \E i \in keep : hashes[i] = x
    BY <2>1, <2>2, PickedIs
  <2>5. Ordered(Picked(hashes, keep, L), hashes, keep, L)
    BY <2>1, <2>2, PickedOrdered
  <2>4. QED BY <1>2, <2>3, <2>5
<1>9. \A h : h \in ToSet(hashes) <=> \E i \in keep : hashes[i] = h
  BY <1>1, SeqHas DEF n
<1>11. ASSUME Distinct(hashes) PROVE BySource(a, r)
  <2> DEFINE Off(h) == r.blobs[h].at
  <2>1. ASSUME NEW i \in keep, NEW j \in keep, i \in L[j], solid(i) # NoSolid, solid(i) = solid(j)
        PROVE  Off(hashes[i]) <= Off(hashes[j])
    <3>1. Group(i) = Group(j)
      BY <2>1 DEF Group
    <3>2. ~(Group(i) < Group(j)) /\ Offset(i) \in Int /\ Offset(j) \in Int
      BY <1>3, <1>4, <3>1
    <3>3. Offset(i) <= Offset(j)
      BY <1>5, <2>1, <3>2
    <3>4. Offset(i) = Off(hashes[i]) /\ Offset(j) = Off(hashes[j])
      BY <2>1 DEF Offset
    <3>5. QED BY <3>3, <3>4
  <2>2. \A i, j \in keep : i # j => hashes[i] # hashes[j]
    <3>1. TAKE i, j \in keep
    <3>2. i < j \/ j < i \/ i = j
      BY <1>6
    <3>3. i \in 1..Len(hashes) /\ j \in 1..Len(hashes)
      BY <1>1 DEF n
    <3>4. QED BY <1>11, <3>2, <3>3 DEF Distinct
  <2> HIDE DEF Off
  <2>3. ASSUME NEW k \in 1..Len(a), NEW m \in 1..Len(a), k < m,
               SolidOf(r, a[k]) # NoSolid, SolidOf(r, a[k]) = SolidOf(r, a[m])
        PROVE  a[k] # a[m] /\ Off(a[k]) <= Off(a[m])
    <3>1. PICK i, j \in keep : i \in L[j] /\ i # j /\ a[k] = hashes[i] /\ a[m] = hashes[j]
      BY <1>8, <2>3 DEF Ordered
    <3>2. Off(hashes[i]) <= Off(hashes[j])
      BY <2>1, <2>3, <3>1
    <3>3. QED BY <2>2, <3>1, <3>2
  <2>4. QED BY <2>3 DEF BySource, Off
<1>10. QED BY <1>8, <1>9, <1>11 DEF a

--------------------------------------------------------------------------------
(* The steps of the Writer. *)

\* What the file holds it still holds.
Kept == \A rd, c : IsSeq(c) /\ InFile(rewound, out, rd, c) => InFile(rewound', out', rd, c)

\* What was written of the contents is still there in a file that has grown.
LEMMA BlobsKept ==
  ASSUME BlobsInv, Kept, blobs' = blobs, seen \subseteq seen', lost' \subseteq seen',
         \A h \in seen' : h \in Hashes \/ h \in lost' \/ (Zipping' /\ h = content')
  PROVE  BlobsInv'
<1>1. Hashes' = Hashes
  BY DEF Hashes
<1>2. \A k \in DOMAIN blobs : InFile(rewound', out', blobs[k].rd, ResourceOf(blobs[k].hash))
  <2>1. TAKE k \in DOMAIN blobs
  <2>2. IsSeq(blobs[k].hash) /\ blobs[k].hash # <<>> /\ InFile(rewound, out, blobs[k].rd, ResourceOf(blobs[k].hash))
    BY DEF BlobsInv
  <2>3. IsSeq(ResourceOf(blobs[k].hash))
    BY <2>2, ResourceIs
  <2>4. QED BY <2>2, <2>3 DEF Kept
<1>3. Hashes \subseteq seen'
  BY DEF BlobsInv
<1>4. \A k \in DOMAIN blobs :
        LET b == blobs[k] IN
        /\ IsSeq(b.hash) /\ b.hash # <<>>
        /\ b = Entry(Descriptor(b.rd.at, Len(ResourceOf(b.hash)), Len(b.hash), ResourceFlags), b.hash)
  BY DEF BlobsInv
<1>5. IsSeq(blobs) /\ \A j, k \in DOMAIN blobs : blobs[j].hash = blobs[k].hash => j = k
  BY DEF BlobsInv
<1>6. IsSeq(blobs')
  BY <1>5
<1>7. QED BY <1>1, <1>2, <1>3, <1>4, <1>5, <1>6 DEF BlobsInv

\* What was written of the images is still there in a file that has grown.
LEMMA ImagesKept ==
  ASSUME ImagesInv, Kept, images' = images, added' = added, seen \subseteq seen'
  PROVE  ImagesInv'
<1>1. \A i \in DOMAIN added : InFile(rewound', out', images[i].rd, BuildMetadata(added[i]))
  <2>1. TAKE i \in DOMAIN added
  <2>2. added[i] \in Trees /\ InFile(rewound, out, images[i].rd, BuildMetadata(added[i]))
    BY DEF ImagesInv
  <2>3. IsSeq(BuildMetadata(added[i]))
    BY <2>2, TreesAssumption
  <2>4. QED BY <2>2, <2>3 DEF Kept
<1>2. \A i \in DOMAIN added :
       LET m == BuildMetadata(added[i]) im == images[i] IN
       /\ added[i] \in Trees /\ ToSet(Walk(added[i])) \subseteq seen \cup {<<>>}
       /\ im.rd = Descriptor(im.rd.at, Len(m), Len(m), {"metadata"}) /\ im.hash = m
       /\ im.info.windows # "none" =>
            \E k \in DOMAIN SourceTrees :
              Images(Source).data[k].windows = im.info.windows /\ SourceTrees[k] = added[i]
  BY DEF ImagesInv
<1>3. IsSeq(images) /\ IsSeq(added) /\ Len(images) = Len(added)
  BY DEF ImagesInv
<1>4. IsSeq(images') /\ IsSeq(added') /\ Len(images') = Len(added')
  BY <1>3
<1>5. \A i \in DOMAIN added : ToSet(Walk(added[i])) \subseteq seen' \cup {<<>>}
  BY <1>2
<1>6. QED BY <1>1, <1>2, <1>4, <1>5 DEF ImagesInv

\* A step that does not write keeps the place of the Writer.
LEMMA SilentKeeps ==
  ASSUME UNCHANGED <<out, rewound>>
  PROVE  Kept
BY DEF Kept

\* A failure is within its bound.
LEMMA FailBound ==
  ASSUME PlaceInv, Fail
  PROVE  failures' \in 0..MaxFailures
<1>1. failures \in 0..MaxFailures /\ MaxFailures \in Nat
  BY WriterAssumption DEF PlaceInv
<1>2. failures < MaxFailures /\ failures' = failures + 1
  BY DEF Fail
<1>3. QED BY <1>1, <1>2

\* The source is opened as it is, also after a failure.
LEMMA SourceOpened ==
  ASSUME PlaceInv
  PROVE  LoadOffsetTable(Source, src, -1) = Loaded
<1>1. src = EmptyReader \/ src = Loaded
  BY DEF PlaceInv
<1>2. Loaded.loaded
  BY SourceAssumption
<1>3. LoadOffsetTable(Source, Loaded, -1) = Loaded
  <2>1. \A w : w.loaded => LoadOffsetTable(Source, w, -1) = w
    BY DEF LoadOffsetTable
  <2>2. QED BY <1>2, <2>1
<1>4. QED BY <1>1, <1>3 DEF Loaded

\* Before its content is compressed every content seen is in the file or lost.
LEMMA SeenAt ==
  ASSUME BlobsInv, ~Zipping
  PROVE  \A h \in seen : h \in Hashes \/ h \in lost
BY DEF BlobsInv

\* AddImage plans the contents of its walk: each is still to come.
LEMMA AddImageKeeps ==
  ASSUME WriterInv, NEW tree \in Dirs, AddImage(tree)
  PROVE  WriterInv'
<1> USE DEF AddImage
<1>0. pc = "idle" /\ pc' = "walking" /\ ~Zipping
  BY DEF Zipping
<1>1. PlaceInv'
  BY <1>0 DEF WriterInv, PlaceInv, AtEnd, Finished
<1>2. BlobsInv'
  <2>1. Kept
    BY SilentKeeps
  <2>2. \A h \in seen : h \in Hashes \/ h \in lost
    BY <1>0, SeenAt DEF WriterInv
  <2>3. QED BY <2>1, <2>2, BlobsKept DEF WriterInv, BlobsInv
<1>3. ImagesInv'
  BY SilentKeeps, ImagesKept DEF WriterInv
<1>4. JobInv'
  <2>1. tree \in Trees
    BY DEF Trees
  <2>2. IsSeq(Walk(tree))
    BY <2>1, TreesAssumption
  <2>3. QED BY <1>0, <2>2 DEF JobInv, Info
<1>5. PoolInv'
  BY <1>0 DEF WriterInv, PoolInv, Zipping, zipVars
<1>6. CloseInv'
  BY <1>0 DEF CloseInv, Finished
<1>7. QED BY <1>1, <1>2, <1>3, <1>4, <1>5, <1>6 DEF WriterInv

\* AddImageFromWIM plans the contents of the image that are not written yet, and the
\* source it has opened is read as the tree it holds there.
LEMMA AddImageFromWIMKeeps ==
  ASSUME WriterInv, NEW i \in DOMAIN SourceTrees, AddImageFromWIM(i)
  PROVE  WriterInv'
<1> DEFINE tree == SourceTrees[i]
           todo == SortBlobsBySource(Loaded, Pending(Walk(tree), seen))
<1>0. pc = "idle" /\ pc' = "copying" /\ ~Zipping /\ UNCHANGED <<out, cursor, pos, rewound, blobs, seen, images, zipVars, failures, added, lost>>
  BY DEF Zipping, AddImageFromWIM
<1>1. LoadOffsetTable(Source, src, -1) = Loaded /\ OpenImage(Source, Loaded, i) = Got(tree)
  BY SourceOpened, SourceAssumption DEF WriterInv
<1>2. /\ src' = Loaded
      /\ job' = [tree |-> tree, info |-> Info(Len(images) + 1, Images(Source).data[i].windows),
                 todo |-> todo, of |-> i]
  BY <1>1 DEF AddImageFromWIM, Got
<1>3. i # 0 /\ tree \in ToSet(SourceTrees) /\ tree \in Trees
  <2>1. SourceTrees \in Seq(ToSet(SourceTrees))
    BY WriterAssumption
  <2>2. DOMAIN SourceTrees = 1..Len(SourceTrees) /\ \A k \in 1..Len(SourceTrees) : SourceTrees[k] \in ToSet(SourceTrees)
    BY <2>1, SeqIs
  <2>3. QED BY <2>2 DEF Trees
<1>4. IsSeq(todo) /\ \A h : h \in ToSet(todo) <=> h \in ToSet(Walk(tree)) /\ h \notin seen \cup {<<>>}
  <2>1. IsSeq(Walk(tree))
    BY <1>3, TreesAssumption
  <2>2. IsSeq(Pending(Walk(tree), seen)) /\ \A h : h \in ToSet(Pending(Walk(tree), seen)) <=> h \in ToSet(Walk(tree)) /\ h \notin seen \cup {<<>>}
    BY <2>1, PendingIs
  <2>3. \A h \in DOMAIN Loaded.blobs : Loaded.blobs[h].solid # NoSolid => Loaded.blobs[h].at \in Nat
    BY SourceAssumption
  <2>4. QED BY <2>2, <2>3, SortedIs
<1> HIDE DEF tree, todo
<1>5. PlaceInv'
  BY <1>0, <1>2 DEF WriterInv, PlaceInv, AtEnd, Finished
<1>6. BlobsInv'
  <2>1. Kept
    BY <1>0, SilentKeeps
  <2>2. \A h \in seen : h \in Hashes \/ h \in lost
    BY <1>0, SeenAt DEF WriterInv
  <2>3. QED BY <1>0, <2>1, <2>2, BlobsKept DEF WriterInv, BlobsInv
<1>7. ImagesInv'
  BY <1>0, SilentKeeps, ImagesKept DEF WriterInv
<1>8. JobInv'
  <2>1. job'.tree = tree /\ job'.todo = todo /\ job'.of = i /\ job'.info.windows = Images(Source).data[i].windows
    BY <1>2 DEF Info
  <2>2. job' = [tree |-> job'.tree, info |-> job'.info, todo |-> job'.todo, of |-> job'.of]
    BY <1>2
  <2>3. QED BY <1>0, <1>2, <1>3, <1>4, <2>1, <2>2 DEF JobInv, tree
<1>9. PoolInv'
  BY <1>0 DEF WriterInv, PoolInv, Zipping, zipVars
<1>10. CloseInv'
  BY <1>0 DEF CloseInv, Finished
<1>11. QED BY <1>5, <1>6, <1>7, <1>8, <1>9, <1>10 DEF WriterInv

\* The calls that end before anything was written.
LEMMA FailuresKeep ==
  ASSUME Reopen, WriterInv, OpenFails \/ SourceFails \/ CopyFails
  PROVE  WriterInv'
<1>0. /\ pc \in {"idle", "walking", "copying"} /\ pc' = "idle" /\ ~Zipping /\ ~Zipping' /\ Fail
      /\ UNCHANGED <<out, cursor, pos, rewound, blobs, seen, images, added, lost>>
      /\ src' \in {src, EmptyReader}
      /\ \/ UNCHANGED <<holds, chunks>>
         \/ holds' = [w \in Workers |-> Free] /\ chunks' = <<>>
  BY DEF OpenFails, SourceFails, CopyFails, Leave, Silent, Zipping, zipVars
<1>1. PlaceInv'
  <2>1. failures' \in 0..MaxFailures
    BY <1>0, FailBound DEF WriterInv
  <2>2. QED BY <1>0, <2>1 DEF WriterInv, PlaceInv, AtEnd, Finished
<1>2. BlobsInv'
  <2>1. Kept
    BY <1>0, SilentKeeps
  <2>2. \A h \in seen : h \in Hashes \/ h \in lost
    BY <1>0, SeenAt DEF WriterInv
  <2>3. QED BY <1>0, <2>1, <2>2, BlobsKept DEF WriterInv, BlobsInv
<1>3. ImagesInv'
  BY <1>0, SilentKeeps, ImagesKept DEF WriterInv
<1>4. JobInv' /\ CloseInv'
  BY <1>0 DEF JobInv, Busy, CloseInv, Finished
<1>5. PoolInv'
  BY <1>0 DEF WriterInv, PoolInv
<1>6. QED BY <1>1, <1>2, <1>3, <1>4, <1>5 DEF WriterInv

\* A content that is skipped is empty or has been seen.
LEMMA SkipKeeps ==
  ASSUME WriterInv, SkipContent
  PROVE  WriterInv'
<1>0. /\ pc \in {"walking", "copying"} /\ pc' = pc /\ ~Zipping
      /\ job.todo # <<>> /\ Head(job.todo) \in seen \cup {<<>>} /\ job' = [job EXCEPT !.todo = Tail(@)]
      /\ UNCHANGED <<out, cursor, pos, rewound, blobs, seen, images, src, holds, chunks, failures, added, lost>>
  BY DEF SkipContent, Zipping, zipVars
<1>1. PlaceInv'
  BY <1>0 DEF WriterInv, PlaceInv, AtEnd, Finished
<1>2. BlobsInv'
  <2>1. Kept
    BY <1>0, SilentKeeps
  <2>2. \A h \in seen : h \in Hashes \/ h \in lost
    BY <1>0, SeenAt DEF WriterInv
  <2>3. QED BY <1>0, <2>1, <2>2, BlobsKept DEF WriterInv, BlobsInv
<1>3. ImagesInv'
  BY <1>0, SilentKeeps, ImagesKept DEF WriterInv
<1>4. JobInv'
  <2>1. JobInv /\ Busy
    BY <1>0 DEF WriterInv, Busy
  <2>2. job = [tree |-> job.tree, info |-> job.info, todo |-> job.todo, of |-> job.of] /\ IsSeq(job.todo)
    BY <2>1 DEF JobInv
  <2>3. job' = [tree |-> job.tree, info |-> job.info, todo |-> Tail(job.todo), of |-> job.of]
    BY <1>0, <2>2
  <2>4. IsSeq(Tail(job.todo)) /\ ToSet(job.todo) = {Head(job.todo)} \cup ToSet(Tail(job.todo))
    BY <1>0, <2>2, SeqTail
  <2>5. job'.tree = job.tree /\ job'.info = job.info /\ job'.todo = Tail(job.todo) /\ job'.of = job.of
    BY <2>3
  <2>6. job' = [tree |-> job'.tree, info |-> job'.info, todo |-> job'.todo, of |-> job'.of]
    BY <2>3
  <2>7. QED BY <1>0, <2>1, <2>4, <2>5, <2>6 DEF JobInv
<1>5. PoolInv'
  BY <1>0 DEF WriterInv, PoolInv, Zipping
<1>6. CloseInv'
  BY <1>0 DEF CloseInv, Finished
<1>7. QED BY <1>1, <1>2, <1>3, <1>4, <1>5, <1>6 DEF WriterInv

\* A content that is started is one of the tree's that is not in the file.
LEMMA StartKeeps ==
  ASSUME WriterInv, StartContent
  PROVE  WriterInv'
<1> DEFINE h == Head(job.todo)
           n == NumChunks(Len(h), ChunkSize)
<1>0. /\ pc \in {"walking", "copying"} /\ ~Zipping /\ job.todo # <<>>
      /\ pc' = (IF pc = "walking" THEN "zipping" ELSE "zipping copy") /\ Zipping'
      /\ h \notin seen \cup {<<>>} /\ seen' = seen \cup {h}
      /\ UNCHANGED <<out, cursor, pos, rewound, blobs, images, src, job, failures, added, lost>>
  BY DEF StartContent, Zipping
<1>1. JobInv /\ Busy
  BY <1>0 DEF WriterInv, Busy
<1>2. job.tree \in Trees /\ h \in ToSet(job.todo) /\ h \in ToSet(Walk(job.tree))
  <2>1. job.tree \in Trees
    <3>1. job.of = 0 => job.tree \in Dirs
      BY <1>0, <1>1 DEF JobInv
    <3>2. job.of # 0 => job.of \in DOMAIN SourceTrees /\ job.tree = SourceTrees[job.of]
      BY <1>1 DEF JobInv
    <3>3. job.of # 0 => job.tree \in ToSet(SourceTrees)
      BY <3>2 DEF ToSet
    <3>4. QED BY <3>1, <3>3 DEF Trees
  <2>2. h \in ToSet(job.todo)
    BY <1>0, <1>1, SeqTail DEF JobInv
  <2>3. QED BY <1>1, <2>1, <2>2 DEF JobInv
<1>3. IsSeq(h) /\ h # <<>>
  BY <1>0, <1>2, TreesAssumption
<1>4. n \in Nat
  <2>1. Len(h) \in Nat \ {0}
    BY <1>3, SeqHas
  <2>2. QED BY <2>1, ChunkCount
<1>5. /\ content' = h /\ next' = 0 /\ chunks' = [k \in 1..n |-> <<>>]
      /\ holds' \in [Workers -> {Free, Done}]
  <2> DEFINE data == IF pc = "walking" THEN Got(h) ELSE ReadFile(Source, src, h)
  <2>1. data = Got(h)
    <3>1. CASE pc = "walking"
      BY <3>1
    <3>2. CASE pc = "copying"
      <4>1. job.of # 0 /\ src = Loaded
        BY <1>1, <3>2 DEF JobInv
      <4>2. job.of \in DOMAIN SourceTrees /\ job.tree = SourceTrees[job.of]
        BY <1>1, <4>1 DEF JobInv
      <4>3. job.tree \in ToSet(SourceTrees)
        BY <4>2 DEF ToSet
      <4>4. ReadFile(Source, Loaded, h) = Got(h)
        BY <1>2, <1>3, <4>3, SourceAssumption
      <4>5. QED BY <3>2, <4>1, <4>4
    <3>3. QED BY <1>0, <3>1, <3>2
  <2>2. /\ content' = data.data /\ next' = 0
        /\ chunks' = [k \in 1..NumChunks(Len(data.data), ChunkSize) |-> <<>>]
        /\ \E team \in SUBSET Workers :
             holds' = [w \in Workers |-> IF w \in team /\ Comp # "none" THEN Free ELSE Done]
    BY DEF StartContent
  <2>3. data.data = h
    BY <2>1 DEF Got
  <2> HIDE DEF data, h
  <2>4. QED BY <2>2, <2>3
<1> HIDE DEF h
<1>6. PlaceInv'
  BY <1>0 DEF WriterInv, PlaceInv, AtEnd, Finished
<1>7. BlobsInv'
  <2>1. Kept
    BY <1>0, SilentKeeps
  <2>2. \A x \in seen : x \in Hashes \/ x \in lost
    BY <1>0, SeenAt DEF WriterInv
  <2>3. lost \subseteq seen
    BY DEF WriterInv, BlobsInv
  <2>4. QED BY <1>0, <1>5, <2>1, <2>2, <2>3, BlobsKept DEF WriterInv
<1>8. ImagesInv'
  BY <1>0, SilentKeeps, ImagesKept DEF WriterInv
<1>9. JobInv'
  BY <1>0, <1>1 DEF JobInv, Busy
<1>10. PoolInv'
  <2>1. h \notin Hashes \cup lost
    BY <1>0 DEF WriterInv, BlobsInv
  <2>2. Hashes' = Hashes
    BY <1>0 DEF Hashes
  <2>3. IsSeq(chunks') /\ DOMAIN chunks' = 1..n /\ \A k \in 1..n : chunks'[k] = <<>>
    <3>1. chunks' = [k \in 1..n |-> chunks'[k]]
      BY <1>5
    <3>2. QED BY <1>4, <1>5, <3>1, SeqOfFunction
  <2>4. job'.todo # <<>> /\ content' = Head(job'.todo) /\ content' # <<>> /\ content' \in seen' /\ content' \notin Hashes' \cup lost'
    BY <1>0, <1>3, <1>5, <2>1, <2>2 DEF h
  <2>5. next' \in Nat /\ IsSeq(chunks') /\ DOMAIN chunks' = 1..NumChunks(Len(content'), ChunkSize)
    BY <1>5, <2>3
  <2>6. \A i \in DOMAIN chunks' : chunks'[i] \in {<<>>, Smaller(Raw(content', i - 1))}
    BY <2>3
  <2>7. holds' \in [Workers -> {Free, Done} \cup DOMAIN chunks']
    BY <1>5
  <2>8. QED BY <1>0, <2>4, <2>5, <2>6, <2>7 DEF PoolInv
<1>11. CloseInv'
  BY <1>0 DEF CloseInv, Finished
<1>12. QED BY <1>6, <1>7, <1>8, <1>9, <1>10, <1>11 DEF WriterInv

\* The goroutines change nothing but the chunks.
LEMMA PoolKeeps ==
  ASSUME WriterInv, Zipping, UNCHANGED otherVars, failures' \in 0..MaxFailures, PoolInv'
  PROVE  WriterInv'
<1>0. /\ UNCHANGED <<out, cursor, pos, rewound, blobs, seen, images, src, pc, job, content, table, added, lost>>
      /\ Zipping' /\ Busy
  BY DEF otherVars, Zipping, Busy
<1>1. PlaceInv'
  BY <1>0 DEF WriterInv, PlaceInv, AtEnd, Finished
<1>2. BlobsInv'
  <2>1. Kept
    BY <1>0, SilentKeeps
  <2>2. QED BY <1>0, <2>1, BlobsKept DEF WriterInv, BlobsInv
<1>3. ImagesInv'
  BY <1>0, SilentKeeps, ImagesKept DEF WriterInv
<1>4. JobInv'
  BY <1>0 DEF WriterInv, JobInv, Busy
<1>5. CloseInv'
  BY <1>0, Zipping DEF Zipping, CloseInv, Finished
<1>6. QED BY <1>1, <1>2, <1>3, <1>4, <1>5 DEF WriterInv

\* A goroutine takes a chunk there is, or ends.
LEMMA TakeKeeps ==
  ASSUME WriterInv, NEW w \in Workers, TakeChunk(w)
  PROVE  WriterInv'
<1>0. /\ Zipping /\ UNCHANGED otherVars /\ UNCHANGED <<chunks, failures>>
      /\ next' = next + 1 /\ holds' = [holds EXCEPT ![w] = IF next >= Len(chunks) THEN Done ELSE next + 1]
  BY DEF TakeChunk
<1>1. UNCHANGED <<job, content, seen, blobs, lost, pc>> /\ Hashes' = Hashes /\ Zipping'
  BY <1>0 DEF otherVars, Hashes, Zipping
<1>2. PoolInv
  BY DEF WriterInv
<1>3. holds' \in [Workers -> {Free, Done} \cup DOMAIN chunks']
  <2>1. holds \in [Workers -> {Free, Done} \cup DOMAIN chunks] /\ next \in Nat /\ IsSeq(chunks)
    BY <1>0, <1>2 DEF PoolInv
  <2>2. DOMAIN chunks = 1..Len(chunks) /\ Len(chunks) \in Nat
    BY <2>1, SeqHas
  <2>3. (IF next >= Len(chunks) THEN Done ELSE next + 1) \in {Free, Done} \cup DOMAIN chunks
    BY <2>1, <2>2
  <2>4. QED BY <1>0, <2>1, <2>3
<1>4. PoolInv'
  BY <1>0, <1>1, <1>2, <1>3 DEF PoolInv
<1>5. failures' \in 0..MaxFailures
  BY <1>0 DEF WriterInv, PlaceInv
<1>6. QED BY <1>0, <1>4, <1>5, PoolKeeps

\* A chunk that was compressed is what it is to be, whatever the others hold.
LEMMA ZipKeeps ==
  ASSUME WriterInv, NEW w \in Workers, ZipChunk(w)
  PROVE  WriterInv'
<1> DEFINE i == holds[w]
<1>0. /\ Zipping /\ UNCHANGED otherVars /\ UNCHANGED <<next, failures>> /\ i > 0
      /\ chunks' = [chunks EXCEPT ![i] = Smaller(Raw(content, i - 1))]
      /\ holds' = [holds EXCEPT ![w] = Free]
  BY DEF ZipChunk
<1>1. UNCHANGED <<job, content, seen, blobs, lost, pc>> /\ Hashes' = Hashes /\ Zipping'
  BY <1>0 DEF otherVars, Hashes, Zipping
<1>2. PoolInv
  BY DEF WriterInv
<1>3. /\ holds \in [Workers -> {Free, Done} \cup DOMAIN chunks] /\ next \in Nat /\ IsSeq(chunks)
      /\ \A k \in DOMAIN chunks : chunks[k] \in {<<>>, Smaller(Raw(content, k - 1))}
  BY <1>0, <1>2 DEF PoolInv
<1>4. DOMAIN chunks = 1..Len(chunks) /\ Len(chunks) \in Nat
  BY <1>3, SeqHas
<1>5. i \in DOMAIN chunks
  BY <1>0, <1>3 DEF Free, Done
<1> HIDE DEF i
<1>6. /\ DOMAIN chunks' = DOMAIN chunks
      /\ \A k \in DOMAIN chunks : chunks'[k] \in {<<>>, Smaller(Raw(content, k - 1))}
  BY <1>0, <1>3, <1>5
<1>7. IsSeq(chunks')
  <2>1. chunks' = [k \in 1..Len(chunks) |-> chunks'[k]]
    BY <1>0, <1>4
  <2>2. QED BY <1>4, <2>1, SeqOfFunction
<1>8. holds' \in [Workers -> {Free, Done} \cup DOMAIN chunks']
  BY <1>0, <1>3, <1>6
<1>9. PoolInv'
  <2>1. DOMAIN chunks' = 1..NumChunks(Len(content), ChunkSize)
    BY <1>0, <1>2, <1>6 DEF PoolInv
  <2>2. QED BY <1>0, <1>1, <1>2, <1>3, <1>6, <1>7, <1>8, <2>1 DEF PoolInv
<1>10. failures' \in 0..MaxFailures
  BY <1>0 DEF WriterInv, PlaceInv
<1>11. QED BY <1>0, <1>9, <1>10, PoolKeeps

\* A goroutine that ends leaves its chunk empty.
LEMMA ZipFailsKeeps ==
  ASSUME WriterInv, NEW w \in Workers, ZipFails(w)
  PROVE  WriterInv'
<1>0. /\ Zipping /\ UNCHANGED otherVars /\ UNCHANGED <<next, chunks>> /\ Fail
      /\ holds' = [holds EXCEPT ![w] = Done]
  BY DEF ZipFails
<1>1. UNCHANGED <<job, content, seen, blobs, lost, pc>> /\ Hashes' = Hashes /\ Zipping'
  BY <1>0 DEF otherVars, Hashes, Zipping
<1>2. PoolInv
  BY DEF WriterInv
<1>3. holds' \in [Workers -> {Free, Done} \cup DOMAIN chunks']
  <2>1. holds \in [Workers -> {Free, Done} \cup DOMAIN chunks]
    BY <1>0, <1>2 DEF PoolInv
  <2>2. QED BY <1>0, <2>1
<1>4. PoolInv'
  BY <1>0, <1>1, <1>2, <1>3 DEF PoolInv
<1>5. failures' \in 0..MaxFailures
  BY <1>0, FailBound DEF WriterInv
<1>6. QED BY <1>0, <1>4, <1>5, PoolKeeps

\* When no chunk is missing, what is stored is the resource of the content.
LEMMA StoredIs ==
  ASSUME WriterInv, Zipping, ~Missing
  PROVE  Resource = ResourceOf(content) /\ IsSeq(Resource) /\ IsSeq(content) /\ content # <<>>
<1>1. PoolInv /\ JobInv /\ Busy
  BY DEF WriterInv, Busy, Zipping
<1>2. /\ content # <<>> /\ content \in ToSet(Walk(job.tree)) /\ job.tree \in Trees
  <2>1. job.todo # <<>> /\ content = Head(job.todo) /\ content # <<>> /\ IsSeq(job.todo)
    BY <1>1 DEF PoolInv, JobInv
  <2>2. content \in ToSet(job.todo)
    BY <2>1, SeqTail
  <2>3. job.of = 0 => job.tree \in Dirs
    BY <1>1 DEF JobInv, Zipping
  <2>4. job.of # 0 => job.of \in DOMAIN SourceTrees /\ job.tree = SourceTrees[job.of]
    BY <1>1 DEF JobInv
  <2>5. job.of # 0 => job.tree \in ToSet(SourceTrees)
    BY <2>4 DEF ToSet
  <2>6. QED BY <1>1, <2>1, <2>2, <2>3, <2>5 DEF JobInv, Trees
<1>3. IsSeq(content)
  BY <1>2, TreesAssumption
<1>4. CASE Comp = "none"
  BY <1>2, <1>3, <1>4 DEF Resource, ResourceOf
<1>5. CASE Comp # "none"
  <2>1. /\ IsSeq(chunks) /\ DOMAIN chunks = 1..NumChunks(Len(content), ChunkSize)
        /\ \A i \in DOMAIN chunks : chunks[i] = Smaller(Raw(content, i - 1))
    BY <1>1, <1>5 DEF PoolInv, Missing
  <2>2. chunks = Zipped(content)
    <3>1. chunks \in Seq(ToSet(chunks))
      BY <2>1 DEF IsSeq
    <3>2. chunks = [i \in DOMAIN chunks |-> chunks[i]]
      BY <3>1
    <3>3. QED BY <2>1, <3>2 DEF Zipped
  <2>3. QED BY <1>2, <1>3, <1>5, <2>2, ResourceIs DEF Resource, ResourceOf
<1>6. QED BY <1>2, <1>3, <1>4, <1>5

\* The resource that is written holds the content and no other; it is seen and
\* was not written before.
LEMMA StoreKeeps ==
  ASSUME WriterInv, StoreContent
  PROVE  WriterInv'
<1> DEFINE rd == Descriptor(pos, Len(Resource), Len(content), ResourceFlags)
<1>0. /\ Zipping /\ pc \in {"zipping", "zipping copy"} /\ pc' = (IF pc = "zipping" THEN "walking" ELSE "copying")
      /\ ~Zipping' /\ ~Missing
      /\ Write(Resource) /\ blobs' = Append(blobs, Entry(rd, Head(job.todo)))
      /\ job' = [job EXCEPT !.todo = Tail(@)] /\ holds' = [w \in Workers |-> Free] /\ chunks' = <<>>
      /\ UNCHANGED <<seen, images, src, table, rewound, failures, added, lost>>
  BY DEF StoreContent, AllDone, Zipping, ResourceFlags
<1>1. /\ PlaceInv /\ BlobsInv /\ ImagesInv /\ JobInv /\ PoolInv /\ Busy
      /\ content = Head(job.todo) /\ content \in seen /\ content \notin Hashes \cup lost /\ job.todo # <<>>
  BY <1>0 DEF WriterInv, PoolInv, Busy
<1>2. Resource = ResourceOf(content) /\ IsSeq(Resource) /\ IsSeq(content) /\ content # <<>>
  BY <1>0, StoredIs
<1>3. AtEnd
  BY <1>0, <1>1 DEF PlaceInv, Finished
<1>4. /\ FileInv'
      /\ Kept /\ InFile(rewound', out', rd, Resource)
  BY <1>0, <1>1, <1>2, <1>3, WriteGrows DEF Kept
<1>5. PlaceInv'
  BY <1>0, <1>1, <1>4 DEF PlaceInv, FileInv, Finished
<1>6. BlobsInv'
  <2> DEFINE e == Entry(rd, content)
             n == Len(blobs)
  <2>1. IsSeq(blobs) /\ n \in Nat /\ DOMAIN blobs = 1..n
    BY <1>1, SeqHas DEF BlobsInv
  <2>b. blobs' = Append(blobs, e)
    BY <1>0, <1>1
  <2> HIDE DEF e
  <2>2. /\ IsSeq(blobs') /\ Len(blobs') = n + 1 /\ \A k \in 1..n : blobs'[k] = blobs[k]
        /\ blobs'[n + 1] = e
    BY <2>1, <2>b, SeqAppend
  <2>3. DOMAIN blobs' = 1..(n + 1)
    BY <2>2, SeqHas
  <2>4. e.hash = content /\ e.rd = rd
    BY DEF Entry, e
  <2>5. /\ IsSeq(e.hash) /\ e.hash # <<>>
        /\ e = Entry(Descriptor(e.rd.at, Len(ResourceOf(e.hash)), Len(e.hash), ResourceFlags), e.hash)
        /\ InFile(rewound', out', e.rd, ResourceOf(e.hash))
    <3>1. rd.at = pos
      BY DEF Descriptor
    <3>2. QED BY <1>2, <1>4, <2>4, <3>1 DEF e
  <2> HIDE DEF n
  <2>6. ASSUME NEW k \in 1..n
        PROVE  LET b == blobs'[k] IN
               /\ IsSeq(b.hash) /\ b.hash # <<>>
               /\ b = Entry(Descriptor(b.rd.at, Len(ResourceOf(b.hash)), Len(b.hash), ResourceFlags), b.hash)
               /\ InFile(rewound', out', b.rd, ResourceOf(b.hash))
    <3> DEFINE b == blobs[k]
    <3>1. /\ IsSeq(b.hash) /\ b.hash # <<>>
          /\ b = Entry(Descriptor(b.rd.at, Len(ResourceOf(b.hash)), Len(b.hash), ResourceFlags), b.hash)
          /\ InFile(rewound, out, b.rd, ResourceOf(b.hash))
      BY <1>1, <2>1 DEF BlobsInv
    <3>2. InFile(rewound', out', b.rd, ResourceOf(b.hash))
      <4>1. IsSeq(ResourceOf(b.hash))
        BY <3>1, ResourceIs
      <4>2. QED BY <1>4, <3>1, <4>1 DEF Kept
    <3>3. blobs'[k] = b
      BY <2>2
    <3>4. QED BY <3>1, <3>2, <3>3
  <2>7. \A k \in 1..(n + 1) : k \in 1..n \/ k = n + 1
    BY <2>1
  <2>8. \A k \in 1..(n + 1) :
          LET b == blobs'[k] IN
          /\ IsSeq(b.hash) /\ b.hash # <<>>
          /\ b = Entry(Descriptor(b.rd.at, Len(ResourceOf(b.hash)), Len(b.hash), ResourceFlags), b.hash)
          /\ InFile(rewound', out', b.rd, ResourceOf(b.hash))
    BY <2>2, <2>5, <2>6, <2>7
  <2>9. Hashes' = Hashes \cup {content}
    <3>1. Hashes' = {blobs'[k].hash : k \in 1..(n + 1)}
      BY <2>3 DEF Hashes
    <3>2. \A x \in Hashes' : x \in Hashes \cup {content}
      BY <2>1, <2>2, <2>4, <2>7, <3>1 DEF Hashes
    <3>3. n + 1 \in 1..(n + 1) /\ \A k \in 1..n : k \in 1..(n + 1)
      BY <2>1
    <3>4. content \in Hashes' /\ \A x \in Hashes : x \in Hashes'
      BY <2>1, <2>2, <2>4, <3>1, <3>3 DEF Hashes
    <3>5. QED BY <3>2, <3>4
  <2>10. \A j, k \in 1..(n + 1) : blobs'[j].hash = blobs'[k].hash => j = k
    <3>1. \A j \in 1..n : blobs'[j].hash \in Hashes /\ blobs'[j].hash # content
      BY <1>1, <2>1, <2>2 DEF Hashes
    <3>2. \A j, k \in 1..n : blobs'[j].hash = blobs'[k].hash => j = k
      BY <1>1, <2>1, <2>2 DEF BlobsInv
    <3>3. QED BY <2>2, <2>4, <2>7, <3>1, <3>2
  <2>11. /\ lost' \subseteq seen' /\ Hashes' \subseteq seen'
         /\ \A x \in seen' : x \in Hashes' \/ x \in lost'
    <3>1. lost \subseteq seen /\ Hashes \subseteq seen /\ \A x \in seen : x \in Hashes \/ x \in lost \/ x = content
      BY <1>1 DEF BlobsInv
    <3>2. QED BY <1>0, <1>1, <2>9, <3>1
  <2>12. QED BY <2>2, <2>3, <2>8, <2>10, <2>11 DEF BlobsInv
<1>7. ImagesInv'
  BY <1>0, <1>1, <1>4, ImagesKept
<1>8. JobInv'
  <2>2. job = [tree |-> job.tree, info |-> job.info, todo |-> job.todo, of |-> job.of] /\ IsSeq(job.todo)
    BY <1>1 DEF JobInv
  <2>3. job' = [tree |-> job.tree, info |-> job.info, todo |-> Tail(job.todo), of |-> job.of]
    BY <1>0, <2>2
  <2>4. IsSeq(Tail(job.todo)) /\ ToSet(job.todo) = {Head(job.todo)} \cup ToSet(Tail(job.todo))
    BY <1>1, <2>2, SeqTail
  <2>5. job'.tree = job.tree /\ job'.info = job.info /\ job'.todo = Tail(job.todo) /\ job'.of = job.of
    BY <2>3
  <2>6. job' = [tree |-> job'.tree, info |-> job'.info, todo |-> job'.todo, of |-> job'.of]
    BY <2>3
  <2>7. Head(job.todo) \in seen
    BY <1>1
  <2>8. QED BY <1>0, <1>1, <2>4, <2>5, <2>6, <2>7 DEF JobInv
<1>9. PoolInv'
  BY <1>0 DEF PoolInv
<1>10. CloseInv'
  BY <1>0 DEF CloseInv, Finished
<1>11. QED BY <1>5, <1>6, <1>7, <1>8, <1>9, <1>10 DEF WriterInv

\* A write that fails leaves what was there.
LEMMA StoreFailsKeeps ==
  ASSUME WriterInv, StoreFails
  PROVE  WriterInv'
<1>0. /\ Zipping /\ pc \in {"zipping", "zipping copy"} /\ pc' = "idle" /\ ~Zipping'
      /\ lost' = lost \cup {Head(job.todo)}
      /\ holds' = [w \in Workers |-> Free] /\ chunks' = <<>>
      /\ UNCHANGED <<blobs, seen, images, src, rewound, added>>
  BY DEF StoreFails, AllDone, Zipping, Leave
<1>1. /\ PlaceInv /\ BlobsInv /\ ImagesInv /\ content = Head(job.todo) /\ content \in seen
  BY <1>0 DEF WriterInv, PoolInv
<1>2. AtEnd
  BY <1>0, <1>1 DEF PlaceInv, Finished
<1>3. /\ FileInv'
      /\ Kept /\ failures' \in 0..MaxFailures
  <2>1. CASE Missing
    <3>1. UNCHANGED <<out, cursor, pos, rewound, failures>>
      BY <2>1 DEF StoreFails, Silent
    <3>2. QED BY <1>1, <1>2, <3>1, SilentKeeps DEF PlaceInv, FileInv, AtEnd
  <2>2. CASE ~Missing
    <3>1. WriteFails(Resource)
      BY <2>2 DEF StoreFails
    <3>2. IsSeq(Resource)
      BY <1>0, <2>2, StoredIs
    <3>3. QED BY <1>0, <1>1, <1>2, <3>1, <3>2, FailureWrites DEF Kept
  <2>3. QED BY <2>1, <2>2
<1>4. PlaceInv'
  BY <1>0, <1>1, <1>3 DEF PlaceInv, FileInv, Finished
<1>5. BlobsInv'
  <2>1. \A h \in seen : h \in Hashes \/ h \in lost \/ h = content
    BY <1>1 DEF BlobsInv
  <2>2. lost' \subseteq seen'
    BY <1>0, <1>1 DEF BlobsInv
  <2>3. QED BY <1>0, <1>1, <1>3, <2>1, <2>2, BlobsKept
<1>6. ImagesInv'
  BY <1>0, <1>1, <1>3, ImagesKept
<1>7. JobInv' /\ PoolInv' /\ CloseInv'
  BY <1>0 DEF JobInv, Busy, PoolInv, CloseInv, Finished
<1>8. QED BY <1>4, <1>5, <1>6, <1>7 DEF WriterInv

\* The tree of the image being written is one of the trees.
LEMMA JobTree ==
  ASSUME JobInv, Busy
  PROVE  /\ job.tree \in Trees
         /\ job.tree = (IF job.of = 0 THEN job.tree ELSE SourceTrees[job.of])
         /\ job.info.windows # "none" =>
              \E k \in DOMAIN SourceTrees :
                Images(Source).data[k].windows = job.info.windows /\ SourceTrees[k] = job.tree
<1>1. CASE job.of = 0
  <2>1. job.tree \in Dirs /\ job.info.windows = "none"
    BY <1>1 DEF JobInv, Busy
  <2>2. QED BY <1>1, <2>1 DEF Trees
<1>2. CASE job.of # 0
  <2>1. /\ job.of \in DOMAIN SourceTrees /\ job.tree = SourceTrees[job.of]
        /\ job.info.windows = Images(Source).data[job.of].windows
    BY <1>2 DEF JobInv
  <2>2. job.tree \in ToSet(SourceTrees)
    BY <2>1 DEF ToSet
  <2>3. QED BY <1>2, <2>1, <2>2 DEF Trees
<1>3. QED BY <1>1, <1>2

\* The image that is recorded has its metadata in the file, and its contents seen.
LEMMA MetadataKeeps ==
  ASSUME WriterInv, AddMetadata
  PROVE  WriterInv'
<1> DEFINE m == Metadata
           rd == Descriptor(pos, Len(m), Len(m), {"metadata"})
           im == [rd |-> rd, hash |-> m, info |-> job.info]
<1>0. /\ pc \in {"walking", "copying"} /\ job.todo = <<>> /\ pc' = "idle" /\ ~Zipping /\ ~Zipping'
      /\ Write(m) /\ images' = Append(images, im)
      /\ added' = Append(added, IF job.of = 0 THEN job.tree ELSE SourceTrees[job.of])
      /\ holds' = [w \in Workers |-> Free] /\ chunks' = <<>>
      /\ UNCHANGED <<blobs, seen, src, rewound, failures, lost>>
  BY DEF AddMetadata, Zipping, Leave
<1>1. PlaceInv /\ BlobsInv /\ ImagesInv /\ JobInv /\ Busy /\ AtEnd
  BY <1>0 DEF WriterInv, Busy, PlaceInv, Finished
<1>2. /\ job.tree \in Trees /\ added' = Append(added, job.tree)
      /\ job.info.windows # "none" =>
           \E k \in DOMAIN SourceTrees :
             Images(Source).data[k].windows = job.info.windows /\ SourceTrees[k] = job.tree
  BY <1>0, <1>1, JobTree
<1>3. m = BuildMetadata(job.tree) /\ IsSeq(m)
  BY <1>2, TreesAssumption DEF Metadata
<1>4. /\ FileInv'
      /\ Kept /\ InFile(rewound', out', rd, m)
  <2> HIDE DEF m
  <2>1. QED BY <1>0, <1>1, <1>3, WriteGrows DEF Kept
<1>5. PlaceInv'
  BY <1>0, <1>1, <1>4 DEF PlaceInv, FileInv, Finished
<1>6. BlobsInv'
  <2>1. \A h \in seen : h \in Hashes \/ h \in lost
    BY <1>0, <1>1, SeenAt
  <2>2. QED BY <1>0, <1>1, <1>4, <2>1, BlobsKept DEF BlobsInv
<1>7. ToSet(Walk(job.tree)) \subseteq seen \cup {<<>>}
  <2>1. ToSet(job.todo) = {}
    BY <1>0 DEF ToSet
  <2>2. QED BY <1>1, <2>1 DEF JobInv
<1>8. ImagesInv'
  <2> DEFINE n == Len(images)
  <2>1. IsSeq(images) /\ IsSeq(added) /\ n \in Nat /\ Len(added) = n /\ DOMAIN added = 1..n /\ DOMAIN images = 1..n
    BY <1>1, SeqHas DEF ImagesInv
  <2> HIDE DEF im
  <2>2. /\ IsSeq(images') /\ Len(images') = n + 1 /\ \A k \in 1..n : images'[k] = images[k]
        /\ images'[n + 1] = im
    BY <1>0, <2>1, SeqAppend
  <2>3. /\ IsSeq(added') /\ Len(added') = n + 1 /\ \A k \in 1..n : added'[k] = added[k]
        /\ added'[n + 1] = job.tree
    BY <1>2, <2>1, SeqAppend
  <2>4. DOMAIN added' = 1..(n + 1)
    BY <2>3, SeqHas
  <2> DEFINE Right(t, x) ==
        LET c == BuildMetadata(t) IN
        /\ t \in Trees /\ ToSet(Walk(t)) \subseteq seen' \cup {<<>>}
        /\ x.rd = Descriptor(x.rd.at, Len(c), Len(c), {"metadata"}) /\ x.hash = c
        /\ InFile(rewound', out', x.rd, c)
        /\ x.info.windows # "none" =>
             \E k \in DOMAIN SourceTrees :
               Images(Source).data[k].windows = x.info.windows /\ SourceTrees[k] = t
  <2>5. Right(job.tree, im)
    <3>1. im.rd = rd /\ im.hash = m /\ im.info = job.info /\ rd.at = pos
      BY DEF im, Descriptor
    <3> HIDE DEF m
    <3>2. QED BY <1>0, <1>2, <1>3, <1>4, <1>7, <3>1
  <2>6. \A k \in 1..n : Right(added[k], images[k])
    <3>1. TAKE k \in 1..n
    <3>2. /\ added[k] \in Trees /\ ToSet(Walk(added[k])) \subseteq seen \cup {<<>>}
          /\ images[k].rd = Descriptor(images[k].rd.at, Len(BuildMetadata(added[k])), Len(BuildMetadata(added[k])), {"metadata"})
          /\ images[k].hash = BuildMetadata(added[k])
          /\ InFile(rewound, out, images[k].rd, BuildMetadata(added[k]))
          /\ images[k].info.windows # "none" =>
             \E j \in DOMAIN SourceTrees :
               Images(Source).data[j].windows = images[k].info.windows /\ SourceTrees[j] = added[k]
      BY <1>1, <2>1 DEF ImagesInv
    <3>3. InFile(rewound', out', images[k].rd, BuildMetadata(added[k]))
      BY <1>4, <3>2, TreesAssumption DEF Kept
    <3>4. QED BY <1>0, <3>2, <3>3
  <2>7. \A k \in 1..(n + 1) : Right(added'[k], images'[k])
    <3> HIDE DEF Right, n
    <3>1. TAKE k \in 1..(n + 1)
    <3>2. k \in 1..n \/ k = n + 1
      BY <2>1
    <3>3. QED BY <2>2, <2>3, <2>5, <2>6, <3>2
  <2>8. QED BY <2>2, <2>3, <2>4, <2>7 DEF ImagesInv
<1>9. JobInv' /\ PoolInv' /\ CloseInv'
  BY <1>0 DEF JobInv, Busy, PoolInv, CloseInv, Finished
<1>10. QED BY <1>5, <1>6, <1>8, <1>9 DEF WriterInv

\* An image whose metadata was not written is forgotten.
LEMMA MetadataFailsKeeps ==
  ASSUME WriterInv, MetadataFails
  PROVE  WriterInv'
<1>0. /\ pc \in {"walking", "copying"} /\ pc' = "idle" /\ ~Zipping /\ ~Zipping'
      /\ WriteFails(Metadata)
      /\ holds' = [w \in Workers |-> Free] /\ chunks' = <<>>
      /\ UNCHANGED <<blobs, seen, images, src, rewound, added, lost>>
  BY DEF MetadataFails, Zipping, Leave
<1>1. PlaceInv /\ BlobsInv /\ ImagesInv /\ JobInv /\ Busy /\ AtEnd
  BY <1>0 DEF WriterInv, Busy, PlaceInv, Finished
<1>2. IsSeq(Metadata)
  BY <1>1, JobTree, TreesAssumption DEF Metadata
<1>3. /\ FileInv'
      /\ Kept /\ failures' \in 0..MaxFailures
  BY <1>0, <1>1, <1>2, FailureWrites DEF Kept
<1>4. PlaceInv'
  BY <1>0, <1>1, <1>3 DEF PlaceInv, FileInv, Finished
<1>5. BlobsInv'
  <2>1. \A h \in seen : h \in Hashes \/ h \in lost
    BY <1>0, <1>1, SeenAt
  <2>2. QED BY <1>0, <1>1, <1>3, <2>1, BlobsKept DEF BlobsInv
<1>6. ImagesInv'
  BY <1>0, <1>1, <1>3, ImagesKept
<1>7. JobInv' /\ PoolInv' /\ CloseInv'
  BY <1>0 DEF JobInv, Busy, PoolInv, CloseInv, Finished
<1>8. QED BY <1>4, <1>5, <1>6, <1>7 DEF WriterInv
--------------------------------------------------------------------------------
(* The steps of Close. *)

\* The tables that Close writes.
LEMMA TablesAre ==
  ASSUME BlobsInv, ImagesInv
  PROVE  IsSeq(TableCells) /\ IsSeq(Catalog) /\ Len(Catalog) = 1
<1>1. IsSeq(blobs) /\ Len(images) \in Nat /\ DOMAIN images = 1..Len(images)
  BY SeqHas DEF BlobsInv, ImagesInv
<1> DEFINE entries == [i \in DOMAIN images |-> Entry(images[i].rd, images[i].hash)]
<1>2. entries = [i \in 1..Len(images) |-> entries[i]]
  BY <1>1
<1>3. IsSeq(entries)
  <2> HIDE DEF entries
  <2>1. QED BY <1>1, <1>2, SeqOfFunction
<1>4. IsSeq(TableCells)
  <2> HIDE DEF entries
  <2>1. IsSeq(blobs \o entries)
    BY <1>1, <1>3, SeqConcat
  <2>2. QED BY <2>1 DEF TableCells, entries
<1>5. IsSeq(Catalog) /\ Len(Catalog) = 1
  <2> DEFINE c == [catalog |-> [i \in DOMAIN images |-> images[i].info]]
  <2>1. Catalog = <<c>>
    BY DEF Catalog
  <2> HIDE DEF c
  <2>2. <<c>> \in Seq({c}) /\ Len(<<c>>) = 1
    OBVIOUS
  <2>3. QED BY <2>1, <2>2, SeqIs
<1>6. QED BY <1>4, <1>5

\* Nothing of an image changes while Close runs.
LEMMA ClosingKeeps ==
  ASSUME WriterInv, UNCHANGED closeVars, pc \in {"idle", "catalog", "header", "closed", "splitting"},
         pc' \notin {"walking", "copying", "zipping", "zipping copy"}, Kept, PlaceInv', CloseInv'
  PROVE  WriterInv'
<1>0. UNCHANGED <<blobs, seen, images, src, job, holds, chunks, added, lost>> /\ ~Zipping /\ ~Zipping' /\ ~Busy'
  BY DEF closeVars, zipVars, Zipping, Busy
<1>1. BlobsInv'
  <2>1. \A h \in seen : h \in Hashes \/ h \in lost
    BY <1>0, SeenAt DEF WriterInv
  <2>2. QED BY <1>0, <2>1, BlobsKept DEF WriterInv, BlobsInv
<1>2. ImagesInv'
  BY <1>0, ImagesKept DEF WriterInv
<1>3. JobInv' /\ PoolInv'
  BY <1>0 DEF WriterInv, JobInv, PoolInv
<1>4. QED BY <1>1, <1>2, <1>3 DEF WriterInv

\* There is an entry for each image.
LEMMA TableIsThere ==
  ASSUME BlobsInv, ImagesInv, images # <<>>
  PROVE  Len(TableCells) \in Nat \ {0}
<1> DEFINE metas == [i \in DOMAIN images |-> Entry(images[i].rd, images[i].hash)]
<1>1. IsSeq(blobs) /\ Len(blobs) \in Nat /\ IsSeq(images) /\ Len(images) \in Nat /\ DOMAIN images = 1..Len(images)
  BY SeqHas DEF BlobsInv, ImagesInv
<1>2. Len(images) # 0
  BY <1>1, SeqHas
<1>3. IsSeq(metas) /\ Len(metas) = Len(images)
  BY <1>1, SeqOfFunction
<1> HIDE DEF metas
<1>4. Len(blobs \o metas) = Len(blobs) + Len(images)
  BY <1>1, <1>3, SeqConcat
<1>5. QED BY <1>1, <1>2, <1>4 DEF TableCells, metas

\* The table is behind all it refers to.
LEMMA CloseTableKeeps ==
  ASSUME WriterInv, CloseTable
  PROVE  WriterInv'
<1>0. /\ pc = "idle" /\ pc' = "catalog" /\ images # <<>> /\ Write(TableCells)
      /\ table' = <<Plain(pos, Len(TableCells))>>
      /\ UNCHANGED closeVars /\ UNCHANGED <<blobs, images, src, rewound, failures>>
  BY DEF CloseTable, closeVars
<1>1. PlaceInv /\ BlobsInv /\ ImagesInv /\ AtEnd
  BY <1>0 DEF WriterInv, PlaceInv, Finished
<1>2. IsSeq(TableCells)
  BY <1>1, TablesAre
<1>3. /\ FileInv'
      /\ Kept /\ InFile(rewound', out', Plain(pos, Len(TableCells)), TableCells)
      /\ pos' = pos + Len(TableCells) /\ Len(out') \in {Len(out), cursor + Len(TableCells)}
  BY <1>0, <1>1, <1>2, WriteGrows DEF Kept, Plain
<1>4. PlaceInv'
  BY <1>0, <1>1, <1>3 DEF PlaceInv, FileInv, Finished
<1>5. CloseInv'
  <2>1. TableCells' = TableCells /\ table'[1] = Plain(pos, Len(TableCells)) /\ table' = <<table'[1]>>
    BY <1>0 DEF TableCells
  <2>2. table'[1].at = pos /\ table'[1].size = Len(TableCells)
    BY <2>1 DEF Plain, Descriptor
  <2>3. rewound' => table'[1].at \in Nat /\ Len(out') < table'[1].at + table'[1].size
    <3>1. SUFFICES ASSUME rewound PROVE Len(out') < pos + Len(TableCells)
      BY <1>0, <1>1, <2>2 DEF PlaceInv
    <3>2. Len(out) <= pos /\ cursor + 1 < pos
      BY <1>1, <3>1 DEF AtEnd
    <3>3. Len(TableCells) \in Nat \ {0} /\ Len(out) \in Nat /\ cursor \in Nat /\ pos \in Nat
      BY <1>0, <1>1, TableIsThere, SeqHas DEF PlaceInv
    <3> DEFINE n == Len(TableCells)
               l == Len(out')
    <3>4. l \in {Len(out), cursor + n} /\ n \in Nat \ {0}
      BY <1>3, <3>3
    <3> HIDE DEF n, l
    <3>5. l < pos + n
      BY <3>2, <3>3, <3>4
    <3>6. QED BY <3>5 DEF n, l
  <2>4. pos' = table'[1].at + table'[1].size
    BY <1>3, <2>2
  <2>5. QED BY <1>0, <1>3, <2>1, <2>2, <2>3, <2>4 DEF CloseInv, Finished
<1>6. QED BY <1>0, <1>3, <1>4, <1>5, ClosingKeeps

\* The catalog is behind the table.
LEMMA CloseCatalogKeeps ==
  ASSUME WriterInv, CloseCatalog
  PROVE  WriterInv'
<1>0. /\ pc = "catalog" /\ pc' = "header" /\ Write(Catalog)
      /\ table' = Append(table, Plain(pos, Len(Catalog)))
      /\ UNCHANGED closeVars /\ UNCHANGED <<blobs, images, src, rewound, failures>>
  BY DEF CloseCatalog, closeVars
<1>1. PlaceInv /\ BlobsInv /\ ImagesInv /\ CloseInv /\ AtEnd
  BY <1>0 DEF WriterInv, PlaceInv, Finished
<1>2. IsSeq(Catalog) /\ IsSeq(TableCells)
  BY <1>1, TablesAre
<1>3. /\ FileInv'
      /\ Kept /\ InFile(rewound', out', Plain(pos, Len(Catalog)), Catalog)
      /\ Len(out') \in {Len(out), cursor + Len(Catalog)}
  BY <1>0, <1>1, <1>2, WriteGrows DEF Kept, Plain
<1>4. PlaceInv'
  BY <1>0, <1>1, <1>3 DEF PlaceInv, FileInv, Finished
<1>5. CloseInv'
  <2>1. images # <<>> /\ table = <<table[1]>> /\ table[1] = Plain(table[1].at, Len(TableCells)) /\ InFile(rewound, out, table[1], TableCells)
    BY <1>0, <1>1 DEF CloseInv
  <2>2. table' = <<table[1], Plain(pos, Len(Catalog))>>
    <3> DEFINE a == table[1]
               b == Plain(pos, Len(Catalog))
    <3>1. table = <<a>> /\ table' = Append(table, b)
      BY <1>0, <2>1
    <3> HIDE DEF a, b
    <3>2. table' = <<a, b>>
      <4>1. <<a>> \in Seq({a, b}) /\ <<a, b>> \in Seq({a, b}) /\ Len(<<a>>) = 1 /\ Len(<<a, b>>) = 2
        OBVIOUS
      <4>2. IsSeq(<<a>>) /\ IsSeq(<<a, b>>)
        BY <4>1, SeqIs
      <4>3. /\ IsSeq(Append(<<a>>, b)) /\ Len(Append(<<a>>, b)) = 2
            /\ Append(<<a>>, b)[1] = a /\ Append(<<a>>, b)[2] = b
        <5>1. 1 \in 1..1 /\ 1 + 1 = 2 /\ <<a>>[1] = a
          OBVIOUS
        <5>2. QED BY <4>1, <4>2, <5>1, SeqAppend
      <4>4. \A k \in 1..2 : Append(<<a>>, b)[k] = <<a, b>>[k]
        BY <4>3
      <4>5. QED BY <3>1, <4>1, <4>2, <4>3, <4>4, SeqSame
    <3>3. QED BY <3>2 DEF a, b
  <2>3. table'[1] = table[1] /\ table'[2] = Plain(pos, Len(Catalog)) /\ table' = <<table'[1], table'[2]>>
    BY <2>2
  <2>4. table'[2].at = pos
    BY <2>3 DEF Plain, Descriptor
  <2>5. TableCells' = TableCells /\ Catalog' = Catalog
    BY <1>0 DEF TableCells, Catalog
  <2>6. InFile(rewound', out', table[1], TableCells)
    BY <1>2, <1>3, <2>1 DEF Kept
  <2>8. rewound' => table'[1].at \in Nat /\ Len(out') < table'[1].at + table'[1].size
    <3>1. SUFFICES ASSUME rewound PROVE table[1].at \in Nat /\ Len(out') < table[1].at + table[1].size
      BY <1>0, <2>3
    <3>2. table[1].at \in Nat /\ Len(out) < table[1].at + table[1].size /\ pos = table[1].at + table[1].size /\ cursor + 1 < pos
      BY <1>0, <1>1, <3>1 DEF CloseInv, AtEnd
    <3>3. Len(Catalog) = 1
      BY <1>1, TablesAre
    <3>4. QED BY <1>3, <3>2, <3>3
  <2>7. QED BY <1>0, <1>3, <2>1, <2>3, <2>4, <2>5, <2>6, <2>8 DEF CloseInv, Finished
<1>6. QED BY <1>0, <1>3, <1>4, <1>5, ClosingKeeps

\* A Close that fails has added to the file and changed nothing.
LEMMA CloseFailsKeeps ==
  ASSUME WriterInv, CloseFails \/ HeaderRefused
  PROVE  WriterInv'
<1>0. pc \in {"idle", "catalog", "header"} /\ pc' = "idle" /\ UNCHANGED closeVars /\ src' = src /\ rewound' = rewound
  BY DEF CloseFails, HeaderRefused, closeVars
<1>1. PlaceInv /\ BlobsInv /\ ImagesInv /\ CloseInv /\ AtEnd
  BY <1>0 DEF WriterInv, PlaceInv, Finished
<1>2. /\ FileInv'
      /\ Kept /\ failures' \in 0..MaxFailures
  <2>1. CASE CloseFails
    <3> DEFINE cells == IF pc = "idle" THEN TableCells ELSE Catalog
    <3>1. IsSeq(cells)
      BY <1>1, TablesAre
    <3>2. WriteFails(cells)
      BY <2>1 DEF CloseFails
    <3> HIDE DEF cells
    <3>3. QED BY <1>0, <1>1, <3>1, <3>2, FailureWrites DEF Kept
  <2>2. CASE HeaderRefused
    <3>1. UNCHANGED <<out, cursor, pos, rewound>> /\ Fail
      BY <2>2 DEF HeaderRefused
    <3>2. failures' \in 0..MaxFailures
      BY <1>1, <3>1, FailBound
    <3>3. QED BY <1>1, <3>1, <3>2, SilentKeeps DEF PlaceInv, FileInv, AtEnd
  <2>3. QED BY <2>1, <2>2
<1>3. PlaceInv'
  BY <1>0, <1>1, <1>2 DEF PlaceInv, FileInv, Finished
<1>4. CloseInv'
  BY <1>0 DEF CloseInv, Finished
<1>5. QED BY <1>0, <1>2, <1>3, <1>4, ClosingKeeps

\* The header replaces the placeholder, and nothing else.
LEMMA FinalizeKeeps ==
  ASSUME WriterInv, FinalizeHeader
  PROVE  WriterInv'
<1> DEFINE h == Header({}, Comp, 1, 1, Len(images), table[1], table[2], BootResource, BootIndex)
<1>0. /\ pc = "header" /\ pc' = "closed" /\ BootIndex <= Len(images)
      /\ out' = Overwrite(out, 0, <<h>>) /\ cursor' = 1
      /\ UNCHANGED closeVars /\ UNCHANGED <<blobs, images, src, pos, table, rewound, failures>>
  BY DEF FinalizeHeader, closeVars
<1> HIDE DEF h
<1>1. PlaceInv /\ BlobsInv /\ ImagesInv /\ CloseInv
  BY DEF WriterInv
<1>2. IsSeq(out) /\ Len(out) >= 1 /\ pos \in Nat
  BY <1>1 DEF PlaceInv
<1>3. /\ IsSeq(out') /\ Len(out') = Len(out) /\ out'[1] = h
      /\ \A k \in 2..Len(out) : out'[k] = out[k]
  BY <1>0, <1>2, OverwriteStart
<1>4. Kept
  <2>1. \A rd, c : IsSeq(c) /\ Holds(out, rd, c) => Holds(out', rd, c)
    BY <1>2, <1>3, HoldsBehind
  <2>2. QED BY <1>0, <2>1 DEF Kept, InFile
<1>5. PlaceInv'
  BY <1>0, <1>1, <1>2, <1>3 DEF PlaceInv, Finished
<1>6. CloseInv'
  <2>1. /\ images # <<>> /\ table = <<table[1], table[2]>>
        /\ table[1] = Plain(table[1].at, Len(TableCells)) /\ InFile(rewound, out, table[1], TableCells)
        /\ table[2] = Plain(table[2].at, Len(Catalog)) /\ InFile(rewound, out, table[2], Catalog)
    BY <1>0, <1>1 DEF CloseInv
  <2>2. TableCells' = TableCells /\ Catalog' = Catalog /\ BootResource' = BootResource
    BY <1>0 DEF TableCells, Catalog, BootResource
  <2>3. InFile(rewound', out', table[1], TableCells) /\ InFile(rewound', out', table[2], Catalog)
    BY <1>1, <1>4, <2>1, TablesAre DEF Kept
  <2>4. rewound => table[1].at \in Nat /\ Len(out') < table[1].at + table[1].size
    BY <1>0, <1>1, <1>3 DEF CloseInv
  <2>5. QED BY <1>0, <1>3, <2>1, <2>2, <2>3, <2>4 DEF CloseInv, Finished, h
<1>7. QED BY <1>0, <1>4, <1>5, <1>6, ClosingKeeps

\* A header that could not be written leaves the file as it is, and the Writer at its
\* start.
LEMMA HeaderFailsKeeps ==
  ASSUME WriterInv, HeaderFails
  PROVE  WriterInv'
<1>0. /\ pc = "header" /\ pc' = "idle" /\ Fail /\ cursor' = 0 /\ rewound' = TRUE
      /\ UNCHANGED closeVars /\ UNCHANGED <<src, out, pos>>
  BY DEF HeaderFails, closeVars
<1>1. failures' \in 0..MaxFailures
  BY <1>0, FailBound DEF WriterInv
<1>2. /\ PlaceInv /\ BlobsInv /\ ImagesInv /\ CloseInv /\ AtEnd
  BY <1>0 DEF WriterInv, PlaceInv, Finished
<1>3. IsSeq(out) /\ Len(out) \in Nat /\ Len(out) >= 1 /\ cursor \in Nat /\ pos \in Nat /\ rewound \in BOOLEAN
  BY <1>2, SeqHas DEF PlaceInv
<1>4. Len(out) <= pos /\ 1 < pos
  <2>1. CASE rewound
    BY <1>2, <1>3, <2>1 DEF AtEnd
  <2>2. CASE ~rewound
    <3>1. pos = Len(out)
      BY <1>2, <2>2 DEF PlaceInv
    <3>2. Holds(out, table[2], Catalog) /\ Len(Catalog) = 1
      BY <1>0, <1>2, <2>2, TablesAre DEF CloseInv, InFile
    <3>3. table[2].at \in Nat \ {0} /\ table[2].size = 1 /\ table[2].at + table[2].size <= Len(out)
      BY <3>2 DEF Holds
    <3>4. QED BY <1>3, <3>1, <3>3
  <2>3. QED BY <1>3, <2>1, <2>2
<1>5. PlaceInv'
  <2>1. AtEnd'
    BY <1>0, <1>3, <1>4 DEF AtEnd
  <2>2. QED BY <1>0, <1>1, <1>2, <1>3, <2>1 DEF PlaceInv
<1>6. CloseInv'
  BY <1>0 DEF CloseInv, Finished
<1>7. Kept
  BY <1>0 DEF Kept, InFile
<1>8. QED BY <1>0, <1>5, <1>6, <1>7, ClosingKeeps

\* A WIM that was closed after a header write had failed has no table where its header
\* says, and is not split.
LEMMA RewoundIsNotSplit ==
  ASSUME WriterInv, rewound, pc = "closed"
  PROVE  ~CanSplit(out)
<1> DEFINE rd == table[1]
           none == {k \in DOMAIN Table(out) : IsMeta(Table(out)[k])}
<1>1. PlaceInv /\ BlobsInv /\ ImagesInv /\ CloseInv
  BY DEF WriterInv
<1>2. images # <<>> /\ rd = Plain(rd.at, Len(TableCells)) /\ rd.at \in Nat /\ Len(out) < rd.at + rd.size
  BY <1>1 DEF CloseInv
<1>3. out[1].table = rd
  BY <1>1 DEF CloseInv, Finished, Header
<1>4. Len(TableCells) \in Nat \ {0}
  BY <1>1, <1>2, TableIsThere
<1>5. rd.size = Len(TableCells)
  BY <1>2 DEF Plain, Descriptor
<1> HIDE DEF rd
<1>6. Table(out) = <<>>
  <2>1. ReadAt(out, rd.at, rd.size) = Failed
    <3>1. Len(out) \in Nat /\ rd.size \in Nat
      BY <1>1, <1>4, <1>5, SeqHas DEF PlaceInv
    <3>2. ~(rd.at + rd.size <= Len(out))
      BY <1>2, <3>1
    <3>3. QED BY <3>2 DEF ReadAt
  <2>2. rd.size # 0
    BY <1>4, <1>5
  <2>3. ReadResourceRaw(out, rd) = Failed
    BY <2>1, <2>2 DEF ReadResourceRaw
  <2>4. QED BY <1>3, <2>3 DEF Table, Failed
<1>7. none = {}
  BY <1>6
<1> HIDE DEF none
<1>8. MetaItems(out) = <<>>
  <2>1. MetaItems(out) = Arranged(Table(out), none, LAMBDA i, j : i < j)
    BY DEF MetaItems, Select, none
  <2>2. Cardinality({}) = 0
    BY FS_EmptySet
  <2>3. MetaItems(out) = [k \in 1..0 |-> Table(out)[CHOOSE i \in none : Cardinality([x \in none |-> {j \in none : j < x}][i]) = k - 1]]
    BY <1>7, <2>1, <2>2 DEF Arranged
  <2>4. \A f : DOMAIN f = {} /\ f = [x \in {} |-> f[x]] => f = <<>>
    OBVIOUS
  <2>5. QED BY <2>3
<1>9. QED BY <1>8 DEF CanSplit

\* A closed WIM stays as it is while it is split and joined.
LEMMA ClosedKeeps ==
  ASSUME WriterInv, Finished, Finished', UNCHANGED <<out, cursor, pos, rewound, closeVars, table>>, failures' \in 0..MaxFailures,
         rewound => pc' = pc
  PROVE  WriterInv'
<1>0. UNCHANGED closeVars /\ UNCHANGED <<blobs, images, src, out, cursor, pos, rewound, table>>
  BY DEF closeVars
<1>1. PlaceInv'
  <2>1. rewound => pc' # "splitting"
    BY DEF WriterInv, PlaceInv
  <2>2. src' \in {EmptyReader, Loaded}
    BY <1>0 DEF WriterInv, PlaceInv
  <2>3. PlaceInv
    BY DEF WriterInv
  <2>4. /\ IsSeq(out') /\ Len(out') >= 1 /\ cursor' \in Nat /\ pos' \in Nat /\ rewound' \in BOOLEAN
        /\ ~rewound' => pos' = Len(out')
    <3>1. out' = out /\ cursor' = cursor /\ pos' = pos /\ rewound' = rewound
      BY <1>0
    <3>2. /\ IsSeq(out) /\ Len(out) >= 1 /\ cursor \in Nat /\ pos \in Nat /\ rewound \in BOOLEAN
          /\ ~rewound => pos = Len(out)
      BY <2>3 DEF PlaceInv
    <3>3. IsSeq(out')
      BY <3>1, <3>2, Zenon
    <3>4. Len(out') = Len(out)
      BY <3>1, Zenon
    <3> DEFINE l == Len(out)
    <3> HIDE DEF l
    <3>5. /\ l >= 1 /\ cursor' \in Nat /\ pos' \in Nat /\ rewound' \in BOOLEAN
          /\ ~rewound' => pos' = l
      BY <3>1, <3>2 DEF l
    <3>6. QED BY <3>3, <3>4, <3>5 DEF l
  <2>5. rewound' => pc' # "splitting"
    BY <1>0, <2>1
  <2>6. Finished' /\ pc' \in {"closed", "splitting"}
    BY DEF Finished
  <2>7. QED BY <2>2, <2>4, <2>5, <2>6 DEF PlaceInv
<1>2. CloseInv'
  <2>1. TableCells' = TableCells /\ Catalog' = Catalog /\ BootResource' = BootResource
    BY <1>0 DEF TableCells, Catalog, BootResource
  <2>2. CloseInv
    BY DEF WriterInv
  <2>3. QED BY <1>0, <2>1, <2>2 DEF CloseInv, Finished
<1>3. Kept
  BY <1>0, SilentKeeps
<1>4. QED BY <1>0, <1>1, <1>2, <1>3, ClosingKeeps DEF Finished

--------------------------------------------------------------------------------
(* The invariant. *)

\* A new Writer: the file is the placeholder of its header.
LEMMA InitInv ==
  ASSUME Init
  PROVE  MediaInv
<1> USE DEF Init, WriterInit, IdleZip
<1>1. IsSeq(<<>>) /\ Len(<<>>) = 0 /\ DOMAIN <<>> = {}
  <2>1. <<>> \in Seq({}) /\ Len(<<>>) = 0
    OBVIOUS
  <2>2. IsSeq(<<>>) /\ DOMAIN <<>> = 1..Len(<<>>)
    BY <2>1, SeqIs
  <2>3. 1..0 = {}
    OBVIOUS
  <2>4. QED BY <2>1, <2>2, <2>3
<1>2. IsSeq(<<Blank>>) /\ Len(<<Blank>>) = 1
  <2>1. <<Blank>> \in Seq({Blank}) /\ Len(<<Blank>>) = 1
    OBVIOUS
  <2>2. QED BY <2>1, SeqIs
<1>3. PlaceInv
  <2>1. AtEnd
    BY DEF AtEnd
  <2>2. IsSeq(out) /\ Len(out) = 1 /\ cursor = 1 /\ pos = 1 /\ rewound = FALSE /\ pc = "idle" /\ src = EmptyReader
    BY <1>2
  <2>3. failures \in 0..MaxFailures
    BY WriterAssumption
  <2> HIDE DEF Init, WriterInit
  <2>4. /\ IsSeq(out) /\ Len(out) >= 1 /\ cursor \in Nat /\ pos \in Nat /\ rewound \in BOOLEAN
        /\ ~rewound => pos = Len(out)
    <3>1. Len(out) >= 1 /\ cursor \in Nat /\ pos \in Nat /\ pos = Len(out)
      BY <2>2
    <3>2. rewound \in BOOLEAN
      BY <2>2, Zenon
    <3>3. QED BY <2>2, <3>1, <3>2, Zenon
  <2>5. QED BY <2>1, <2>2, <2>3, <2>4 DEF PlaceInv
<1>4. BlobsInv
  BY <1>1 DEF BlobsInv, Hashes
<1>5. ImagesInv
  BY <1>1 DEF ImagesInv
<1>6. JobInv /\ PoolInv /\ CloseInv
  BY DEF JobInv, Busy, PoolInv, Zipping, CloseInv, Finished
<1>7. PartsInv
  BY MediaAssumption DEF PartsInv
<1>8. QED BY <1>3, <1>4, <1>5, <1>6, <1>7 DEF MediaInv, WriterInv

\* Every step of the Writer.
LEMMA WriterStep ==
  ASSUME Reopen, WriterInv, WriterNext
  PROVE  WriterInv'
<1>1. ASSUME NEW tree \in Dirs, AddImage(tree) PROVE WriterInv'
  BY <1>1, AddImageKeeps
<1>2. ASSUME NEW i \in DOMAIN SourceTrees, AddImageFromWIM(i) PROVE WriterInv'
  BY <1>2, AddImageFromWIMKeeps
<1>3. CASE OpenFails \/ SourceFails \/ CopyFails
  BY <1>3, FailuresKeep
<1>4. CASE SkipContent
  BY <1>4, SkipKeeps
<1>5. CASE StartContent
  BY <1>5, StartKeeps
<1>6. ASSUME NEW w \in Workers, TakeChunk(w) \/ ZipChunk(w) \/ ZipFails(w) PROVE WriterInv'
  BY <1>6, TakeKeeps, ZipKeeps, ZipFailsKeeps
<1>7. CASE StoreContent
  BY <1>7, StoreKeeps
<1>8. CASE StoreFails
  BY <1>8, StoreFailsKeeps
<1>9. CASE AddMetadata
  BY <1>9, MetadataKeeps
<1>10. CASE MetadataFails
  BY <1>10, MetadataFailsKeeps
<1>11. CASE CloseTable
  BY <1>11, CloseTableKeeps
<1>12. CASE CloseCatalog
  BY <1>12, CloseCatalogKeeps
<1>13. CASE CloseFails \/ HeaderRefused
  BY <1>13, CloseFailsKeeps
<1>14. CASE FinalizeHeader
  BY <1>14, FinalizeKeeps
<1>15. CASE HeaderFails
  BY <1>15, HeaderFailsKeeps
<1>16. QED
  BY <1>1, <1>2, <1>3, <1>4, <1>5, <1>6, <1>7, <1>8, <1>9, <1>10, <1>11, <1>12, <1>13, <1>14, <1>15
     DEF WriterNext

\* The parts in the folder are those that were written.
LEMMA StoreGrows ==
  ASSUME NEW n, NEW file, Store(n, file)
  PROVE  DOMAIN folder' = DOMAIN folder \cup {n}
BY DEF Store, Updated, Only

\* Every step of the Writer, of Split and of Join.
LEMMA MediaStep ==
  ASSUME Reopen, MediaInv, [Next]_vars
  PROVE  MediaInv'
<1>0. WriterInv /\ PartsInv
  BY DEF MediaInv
<1>1. CASE WriterNext /\ UNCHANGED mediaVars
  <2>1. PartsInv'
    BY <1>0, <1>1 DEF PartsInv, mediaVars
  <2>2. QED BY <1>0, <1>1, <2>1, WriterStep DEF MediaInv
<1>2. ASSUME NEW size \in PartSizes, Split(size) PROVE MediaInv'
  <2>0. ~rewound
    BY <1>0, <1>2, RewoundIsNotSplit DEF Split, WriterInv, PlaceInv
  <2>1. /\ Finished /\ Finished' /\ UNCHANGED <<out, cursor, pos, rewound, closeVars, table>> /\ failures' = failures
        /\ splits < MaxSplits /\ splits' = splits + 1 /\ given' = {} /\ max' = size /\ UNCHANGED <<folder, torn>>
    BY <1>2 DEF Split, Finished
  <2>2. failures' \in 0..MaxFailures
    BY <1>0, <2>1 DEF WriterInv, PlaceInv
  <2>3. WriterInv'
    BY <1>0, <2>0, <2>1, <2>2, ClosedKeeps
  <2>4. splits' \in 0..MaxSplits
    <3>1. splits \in 0..MaxSplits /\ MaxSplits \in Nat
      BY <1>0, MediaAssumption DEF PartsInv
    <3>2. QED BY <2>1, <3>1
  <2>5. PartsInv'
    BY <1>0, <2>1, <2>4, MediaAssumption DEF PartsInv
  <2>6. QED BY <2>3, <2>5 DEF MediaInv
<1>3. CASE WritePart
  <2>0. ~rewound
    BY <1>0, <1>3 DEF WritePart, WriterInv, PlaceInv
  <2>1. /\ Finished /\ Finished' /\ UNCHANGED <<out, cursor, pos, rewound, closeVars, table>> /\ failures' = failures
        /\ DOMAIN folder' = DOMAIN folder \cup {part} /\ torn' = torn \ {part} /\ UNCHANGED <<given, splits, max>>
    BY <1>3, StoreGrows DEF WritePart, Store, Finished
  <2>2. failures' \in 0..MaxFailures
    BY <1>0, <2>1 DEF WriterInv, PlaceInv
  <2>3. WriterInv'
    BY <1>0, <2>0, <2>1, <2>2, ClosedKeeps
  <2>4. PartsInv'
    BY <1>0, <2>1 DEF PartsInv
  <2>5. QED BY <2>3, <2>4 DEF MediaInv
<1>4. CASE WritePartFails
  <2>a. PICK n : Store(part, Torn(PartFile(out, part, max), n))
    BY <1>4 DEF WritePartFails
  <2>0. ~rewound
    BY <1>0, <1>4 DEF WritePartFails, WriterInv, PlaceInv
  <2>1. /\ Finished /\ Finished' /\ UNCHANGED <<out, cursor, pos, rewound, closeVars, table>> /\ Fail
        /\ DOMAIN folder' = DOMAIN folder \cup {part} /\ torn' = torn \cup {part} /\ UNCHANGED <<given, splits, max>>
    BY <1>4, <2>a, StoreGrows DEF WritePartFails, Store, Finished
  <2>2. failures' \in 0..MaxFailures
    BY <1>0, <2>1, FailBound DEF WriterInv
  <2>3. WriterInv'
    BY <1>0, <2>0, <2>1, <2>2, ClosedKeeps
  <2>4. PartsInv'
    BY <1>0, <2>1 DEF PartsInv
  <2>5. QED BY <2>3, <2>4 DEF MediaInv
<1>5. ASSUME NEW names \in SUBSET DOMAIN folder, JoinParts(names) PROVE MediaInv'
  <2>0. pc' = pc
    BY <1>5 DEF JoinParts, writerVars
  <2>1. /\ Finished /\ Finished' /\ UNCHANGED <<out, cursor, pos, rewound, closeVars, table>> /\ failures' = failures
        /\ given' = names /\ UNCHANGED <<folder, torn, splits, max>>
    BY <1>5 DEF JoinParts, writerVars, closeVars, Finished
  <2>2. failures' \in 0..MaxFailures
    BY <1>0, <2>1 DEF WriterInv, PlaceInv
  <2>3. WriterInv'
    BY <1>0, <2>0, <2>1, <2>2, ClosedKeeps
  <2>4. PartsInv'
    BY <1>0, <2>1 DEF PartsInv
  <2>5. QED BY <2>3, <2>4 DEF MediaInv
<1>6. CASE UNCHANGED vars
  <2>1. UNCHANGED <<out, cursor, pos, rewound, blobs, seen, images, src, pc, job, content, next, holds, chunks,
                    table, failures, added, lost, folder, torn, given, splits, max>>
    BY <1>6 DEF vars, writerVars, zipVars, mediaVars
  <2>7. PlaceInv' /\ PartsInv'
    BY <1>0, <2>1 DEF WriterInv, PlaceInv, AtEnd, Finished, PartsInv
  <2>2. BlobsInv'
    <3>1. Kept
      BY <2>1, SilentKeeps
    <3>2. Zipping' = Zipping
      BY <2>1 DEF Zipping
    <3>3. QED BY <1>0, <2>1, <3>1, <3>2, BlobsKept DEF WriterInv, BlobsInv
  <2>3. ImagesInv' /\ JobInv'
    BY <1>0, <2>1 DEF WriterInv, ImagesInv, JobInv, Busy
  <2>4. PoolInv'
    BY <1>0, <2>1 DEF WriterInv, PoolInv, Zipping, Hashes
  <2>5. CloseInv'
    BY <1>0, <2>1 DEF WriterInv, CloseInv, Finished, TableCells, Catalog, BootResource
  <2>6. QED BY <2>2, <2>3, <2>4, <2>5, <2>7 DEF MediaInv, WriterInv
<1>7. QED BY <1>1, <1>2, <1>3, <1>4, <1>5, <1>6 DEF Next

--------------------------------------------------------------------------------
(* Opening what was written. *)

\* What the entries of a table from each on fill the reader with.
Fills(c, t, n) ==
  c = [i \in 1..(n + 1) |->
             IF i > n THEN [EmptyReader EXCEPT !.loaded = TRUE]
             ELSE [loaded |-> c[i + 1].loaded,
                   metas  |-> (IF IsMeta(t[i]) THEN <<t[i].rd>> ELSE <<>>) \o c[i + 1].metas,
                   blobs  |-> Updated(IF IsMeta(t[i]) \/ t[i].hash = <<>> THEN <<>>
                                      ELSE Only(t[i].hash, [solid |-> NoSolid, rd |-> t[i].rd]),
                                      c[i + 1].blobs)]]

\* A table without solid resources is scanned to that.
LEMMA ScanIs ==
  ASSUME NEW f, NEW t, NEW n \in Nat, n = Len(t), \A i \in 1..n : ~IsSolid(t[i]), NEW c, Fills(c, t, n)
  PROVE  Scan(f, t, -1) = c[1]
<1> DEFINE Plainly(g, i) ==
             IF i > n THEN [EmptyReader EXCEPT !.loaded = TRUE]
             ELSE [loaded |-> g[i + 1].loaded,
                   metas  |-> (IF IsMeta(t[i]) THEN <<t[i].rd>> ELSE <<>>) \o g[i + 1].metas,
                   blobs  |-> Updated(IF IsMeta(t[i]) \/ t[i].hash = <<>> THEN <<>>
                                      ELSE Only(t[i].hash, [solid |-> NoSolid, rd |-> t[i].rd]),
                                      g[i + 1].blobs)]
           Body(g, i) ==
             IF i > Len(t) THEN [EmptyReader EXCEPT !.loaded = TRUE]
             ELSE LET e == t[i]
                      solid == ~IsMeta(e) /\ IsSolid(e)
                      found == IF solid THEN RunBlobs(f, t, i)
                               ELSE IF IsMeta(e) \/ e.hash = <<>> THEN <<>>
                               ELSE Only(e.hash, [solid |-> NoSolid, rd |-> e.rd])
                      rest == g[IF solid THEN RunEnd(t, i) ELSE i + 1]
                  IN  IF solid /\ \E k \in i..(RunEnd(t, i) - 1) :
                                    DescribesRun(t[k]) /\ t[k].rd.at = -1
                      THEN EmptyReader
                      ELSE [loaded |-> rest.loaded,
                            metas  |-> (IF IsMeta(e) THEN <<e.rd>> ELSE <<>>) \o rest.metas,
                            blobs  |-> Updated(found, rest.blobs)]
           scan == CHOOSE g : g = [i \in 1..(Len(t) + 1) |-> Body(g, i)]
<1>1. \A g : \A i \in 1..(n + 1) : Body(g, i) = Plainly(g, i)
  <2>1. TAKE g
  <2>2. TAKE i \in 1..(n + 1)
  <2>3. CASE i > n
    BY <2>3
  <2>4. CASE ~(i > n)
    <3>1. ~IsSolid(t[i])
      BY <2>4
    <3>2. QED BY <2>4, <3>1
  <2>5. QED BY <2>3, <2>4
<1>2. Scan(f, t, -1) = scan[1]
  BY DEF Scan
<1>3. c = [i \in 1..(n + 1) |-> Plainly(c, i)]
  BY DEF Fills
<1> HIDE DEF Plainly, Body
<1>4. c = [i \in 1..(Len(t) + 1) |-> Body(c, i)]
  BY <1>1, <1>3
<1>5. scan = [i \in 1..(Len(t) + 1) |-> Body(scan, i)]
  BY ZenonT(30), <1>4
<1> HIDE DEF scan
<1>6. \A i \in 1..(n + 1) : scan[i] = Plainly(scan, i) /\ c[i] = Plainly(c, i)
  BY <1>1, <1>3, <1>5
<1> DEFINE bad == {i \in 1..(n + 1) : scan[i] # c[i]}
<1>7. bad = {}
  <2>1. SUFFICES ASSUME bad # {} PROVE FALSE
    OBVIOUS
  <2>a. bad \in SUBSET (1..(n + 1))
    OBVIOUS
  <2>b. n + 1 \in Nat
    OBVIOUS
  <2>3. PICK i \in bad : \A j \in bad : j <= i
    BY <2>1, <2>a, <2>b, GreatestExists
  <2>4. i \in 1..(n + 1) /\ scan[i] # c[i]
    BY <2>3
  <2>5. CASE i > n
    BY <1>6, <2>4, <2>5 DEF Plainly
  <2>6. CASE ~(i > n)
    <3>1. i + 1 \in 1..(n + 1) /\ ~(i + 1 <= i)
      BY <2>4, <2>6
    <3>2. scan[i + 1] = c[i + 1]
      BY <2>3, <3>1
    <3>3. Plainly(scan, i) = Plainly(c, i)
      BY <2>6, <3>2 DEF Plainly
    <3>4. QED BY <1>6, <2>4, <3>3
  <2>7. QED BY <2>5, <2>6
<1>8. 1 \in 1..(n + 1)
  OBVIOUS
<1>9. QED BY <1>2, <1>7, <1>8

\* Nothing in front of a sequence.
LEMMA NothingBefore ==
  ASSUME NEW s, IsSeq(s)
  PROVE  <<>> \o s = s
BY ConcatEmptySeq DEF IsSeq

\* The table of a closed WIM: the blobs, then the metadata of the images.
LEMMA TableCellsAre ==
  ASSUME WriterInv
  PROVE  /\ Len(blobs) \in Nat /\ Len(images) \in Nat /\ IsSeq(TableCells)
         /\ Len(TableCells) = Len(blobs) + Len(images)
         /\ \A i \in 1..Len(blobs) :
              TableCells[i] = blobs[i] /\ ~IsSolid(blobs[i]) /\ ~IsMeta(blobs[i]) /\ blobs[i].hash # <<>>
         /\ \A i \in 1..Len(images) :
              /\ TableCells[Len(blobs) + i] = Entry(images[i].rd, images[i].hash)
              /\ TableCells[Len(blobs) + i].rd = images[i].rd
              /\ TableCells[Len(blobs) + i].hash = images[i].hash
              /\ IsMeta(TableCells[Len(blobs) + i]) /\ ~IsSolid(TableCells[Len(blobs) + i])
<1> DEFINE nb == Len(blobs)
           ni == Len(images)
           entries == [i \in DOMAIN images |-> Entry(images[i].rd, images[i].hash)]
<1>1. BlobsInv /\ ImagesInv
  BY DEF WriterInv
<1>2. nb \in Nat /\ ni \in Nat /\ IsSeq(blobs) /\ DOMAIN images = 1..ni /\ DOMAIN blobs = 1..nb
  BY <1>1, SeqHas DEF BlobsInv, ImagesInv
<1>3. IsSeq(entries) /\ Len(entries) = ni /\ \A i \in 1..ni : entries[i] = Entry(images[i].rd, images[i].hash)
  <2>1. \A i \in 1..ni : entries[i] = Entry(images[i].rd, images[i].hash)
    BY <1>2
  <2>2. entries = [i \in 1..ni |-> entries[i]]
    BY <1>2
  <2> HIDE DEF entries
  <2>3. QED BY <1>2, <2>1, <2>2, SeqOfFunction
<1>4. TableCells = blobs \o entries
  BY DEF TableCells
<1> HIDE DEF entries
<1>5. /\ IsSeq(TableCells) /\ Len(TableCells) = nb + ni
      /\ \A k \in 1..(nb + ni) : TableCells[k] = IF k <= nb THEN blobs[k] ELSE entries[k - nb]
  BY <1>2, <1>3, <1>4, SeqConcat
<1> HIDE DEF nb, ni
<1>6. ASSUME NEW i \in 1..nb
      PROVE  TableCells[i] = blobs[i] /\ ~IsSolid(blobs[i]) /\ ~IsMeta(blobs[i]) /\ blobs[i].hash # <<>>
  <2>1. i \in 1..(nb + ni) /\ i <= nb
    BY <1>2
  <2>2. /\ blobs[i].hash # <<>>
        /\ blobs[i] = Entry(Descriptor(blobs[i].rd.at, Len(ResourceOf(blobs[i].hash)), Len(blobs[i].hash), ResourceFlags), blobs[i].hash)
    BY <1>1, <1>2 DEF BlobsInv
  <2>3. blobs[i].rd.flags = ResourceFlags
    BY <2>2 DEF Entry, Descriptor
  <2>4. "solid" \notin ResourceFlags /\ "metadata" \notin ResourceFlags
    BY DEF ResourceFlags
  <2>5. QED BY <1>5, <2>1, <2>2, <2>3, <2>4 DEF IsSolid, IsMeta
<1>7. ASSUME NEW i \in 1..ni
      PROVE  /\ TableCells[nb + i] = Entry(images[i].rd, images[i].hash)
             /\ TableCells[nb + i].rd = images[i].rd /\ TableCells[nb + i].hash = images[i].hash
             /\ IsMeta(TableCells[nb + i]) /\ ~IsSolid(TableCells[nb + i])
  <2> DEFINE k == nb + i
  <2>1. k \in 1..(nb + ni) /\ ~(k <= nb) /\ k - nb = i
    BY <1>2
  <2> HIDE DEF k
  <2>2. TableCells[k] = Entry(images[i].rd, images[i].hash)
    BY <1>3, <1>5, <2>1
  <2>3. TableCells[k].rd = images[i].rd /\ TableCells[k].hash = images[i].hash
    BY <2>2 DEF Entry
  <2>4. images[i].rd = Descriptor(images[i].rd.at, Len(BuildMetadata(added[i])), Len(BuildMetadata(added[i])), {"metadata"})
    <3>1. i \in DOMAIN added
      BY <1>1, <1>2, SeqHas DEF ImagesInv, ni
    <3>2. QED BY <1>1, <3>1 DEF ImagesInv
  <2>5. images[i].rd.flags = {"metadata"}
    BY <2>4 DEF Descriptor
  <2>6. IsMeta(TableCells[k]) /\ ~IsSolid(TableCells[k])
    BY <2>3, <2>5 DEF IsMeta, IsSolid
  <2>7. QED BY <2>2, <2>3, <2>6 DEF k
<1>8. QED BY <1>2, <1>5, <1>6, <1>7 DEF nb, ni

\* The header of a closed WIM says where its table and its catalog are.
LEMMA ClosedIs ==
  ASSUME WriterInv, Closed
  PROVE  /\ Table(out) = TableCells /\ out[1].comp = Comp /\ out[1].count = Len(images)
         /\ Images(out) = Got([i \in DOMAIN images |-> images[i].info])
         /\ ReadResourceRaw(out, out[1].table).ok
<1>1. PlaceInv /\ BlobsInv /\ ImagesInv /\ CloseInv
  BY DEF WriterInv
<1>2. /\ out[1] = Header({}, Comp, 1, 1, Len(images), table[1], table[2], BootResource, BootIndex)
      /\ Holds(out, table[1], TableCells) /\ Holds(out, table[2], Catalog)
      /\ table[2] = Plain(table[2].at, Len(Catalog))
  BY <1>1 DEF CloseInv, Closed, Finished, InFile
<1>3. /\ out[1].comp = Comp /\ out[1].count = Len(images) /\ out[1].table = table[1] /\ out[1].xml = table[2]
      /\ table[2].size = 1 /\ table[2].flags = {}
  <2>1. Len(Catalog) = 1
    BY <1>1, TablesAre
  <2>2. QED BY <1>2, <2>1 DEF Header, Plain, Descriptor
<1>4. ReadResourceRaw(out, table[1]) = Got(TableCells) /\ ReadResourceRaw(out, table[2]) = Got(Catalog)
  BY <1>1, <1>2, TablesAre, HeldIsRead DEF PlaceInv
<1>5. Table(out) = TableCells
  BY <1>3, <1>4 DEF Table, Got
<1>6. Images(out) = Got([i \in DOMAIN images |-> images[i].info])
  <2>1. Catalog[1].catalog = [i \in DOMAIN images |-> images[i].info]
    BY DEF Catalog
  <2>2. ReadResourceRaw(out, out[1].xml).ok /\ ReadResourceRaw(out, out[1].xml).data = Catalog
    BY <1>3, <1>4 DEF Got
  <2>3. QED BY <1>3, <2>1, <2>2 DEF Images
<1>7. ReadResourceRaw(out, out[1].table).ok
  BY <1>3, <1>4 DEF Got
<1>8. QED BY <1>3, <1>5, <1>6, <1>7

\* The reader of a closed WIM has its images in order and each of its contents.
LEMMA OpenedIs ==
  ASSUME WriterInv, Closed
  PROVE  /\ Opened(out).loaded
         /\ IsSeq(Opened(out).metas) /\ Len(Opened(out).metas) = Len(images)
         /\ \A i \in 1..Len(images) : Opened(out).metas[i] = images[i].rd
         /\ DOMAIN Opened(out).blobs = Hashes
         /\ \A k \in DOMAIN blobs :
              Opened(out).blobs[blobs[k].hash] = [solid |-> NoSolid, rd |-> blobs[k].rd]
<1> DEFINE t == TableCells
           nb == Len(blobs)
           ni == Len(images)
           n == nb + ni
           loc(k) == [solid |-> NoSolid, rd |-> blobs[k].rd]
           H(i) == {blobs[k].hash : k \in i..nb}
           R == [h \in Hashes |-> loc(CHOOSE k \in 1..nb : blobs[k].hash = h)]
           B(i) == [h \in H(i) |-> R[h]]
           first(i) == IF i <= nb THEN 1 ELSE i - nb
           M(i) == [k \in 1..(ni + 1 - first(i)) |-> images[first(i) - 1 + k].rd]
           c == [i \in 1..(n + 1) |-> [loaded |-> TRUE, metas |-> M(i), blobs |-> B(i)]]
<1>1. /\ nb \in Nat /\ ni \in Nat /\ IsSeq(t) /\ Len(t) = n /\ n \in Nat /\ DOMAIN blobs = 1..nb
      /\ \A i \in 1..nb : t[i] = blobs[i] /\ ~IsSolid(t[i]) /\ ~IsMeta(t[i]) /\ t[i].hash # <<>>
      /\ \A i \in 1..ni : t[nb + i].rd = images[i].rd /\ IsMeta(t[nb + i]) /\ ~IsSolid(t[nb + i])
  <2>1. DOMAIN blobs = 1..nb
    BY SeqHas DEF WriterInv, BlobsInv
  <2> HIDE DEF t
  <2>2. QED BY <2>1, TableCellsAre DEF t
<1>2. \A j, k \in 1..nb : blobs[j].hash = blobs[k].hash => j = k
  BY <1>1 DEF WriterInv, BlobsInv
<1>3. \A k \in 1..nb : blobs[k].hash \in Hashes /\ R[blobs[k].hash] = loc(k)
  <2>1. TAKE k \in 1..nb
  <2> DEFINE j == CHOOSE j \in 1..nb : blobs[j].hash = blobs[k].hash
  <2>2. j \in 1..nb /\ blobs[j].hash = blobs[k].hash
    OBVIOUS
  <2>3. blobs[k].hash \in Hashes
    BY <1>1 DEF Hashes
  <2>4. R[blobs[k].hash] = loc(j)
    BY <2>3
  <2> HIDE DEF j, R
  <2>5. j = k
    BY <1>2, <2>2
  <2>6. QED BY <2>3, <2>4, <2>5
<1> HIDE DEF R, t, nb, ni, loc
<1>4. \A i \in 1..n : ~IsSolid(t[i])
  <2>1. TAKE i \in 1..n
  <2>2. CASE i <= nb
    BY <1>1, <2>2
  <2>3. CASE ~(i <= nb)
    <3> DEFINE j == i - nb
    <3>1. j \in 1..ni /\ i = nb + j
      BY <1>1, <2>3
    <3> HIDE DEF j
    <3>2. QED BY <1>1, <3>1
  <2>4. QED BY <2>2, <2>3
<1>5. \A i \in 1..(n + 1) : first(i) \in Nat \ {0} /\ ni + 1 - first(i) \in Nat
  BY <1>1
<1>6. \A i \in 1..(n + 1) : IsSeq(M(i)) /\ Len(M(i)) = ni + 1 - first(i)
  <2>1. TAKE i \in 1..(n + 1)
  <2>2. ni + 1 - first(i) \in Nat
    BY <1>5
  <2> DEFINE l == ni + 1 - first(i)
             s == M(i)
  <2>3. s = [k \in 1..l |-> s[k]] /\ l \in Nat
    BY <2>2
  <2> HIDE DEF l, s
  <2>4. IsSeq(s) /\ Len(s) = l
    BY <2>3, SeqOfFunction
  <2>5. QED BY <2>4 DEF l, s
<1>7. ASSUME NEW i \in 1..nb
      PROVE  /\ M(i) = <<>> \o M(i + 1)
             /\ B(i) = Updated(Only(t[i].hash, [solid |-> NoSolid, rd |-> t[i].rd]), B(i + 1))
  <2>1. i \in 1..(n + 1) /\ i + 1 \in 1..(n + 1) /\ first(i) = 1 /\ first(i + 1) = 1
    BY <1>1
  <2>2. M(i) = M(i + 1)
    BY <2>1
  <2>3. IsSeq(M(i + 1))
    BY <1>6, <2>1
  <2>4. M(i) = <<>> \o M(i + 1)
    <3> HIDE DEF M
    <3>1. QED BY <2>2, <2>3, NothingBefore
  <2>5. H(i) = H(i + 1) \cup {blobs[i].hash}
    <3>1. \A k : k \in i..nb <=> k \in (i + 1)..nb \/ k = i
      BY <1>1
    <3>2. QED BY <3>1
  <2>6. t[i] = blobs[i] /\ R[blobs[i].hash] = loc(i) /\ loc(i) = [solid |-> NoSolid, rd |-> t[i].rd]
    BY <1>1, <1>3 DEF loc
  <2> HIDE DEF H
  <2>7. B(i) = Updated(Only(t[i].hash, [solid |-> NoSolid, rd |-> t[i].rd]), B(i + 1))
    <3> DEFINE h == blobs[i].hash
               v == loc(i)
               old == B(i + 1)
    <3>1. Only(h, v) = [z \in {h} |-> v]
      BY DEF Only
    <3>2. DOMAIN old = H(i + 1) /\ \A x \in H(i + 1) : old[x] = R[x]
      OBVIOUS
    <3> HIDE DEF old, h, v
    <3>3. Updated(Only(h, v), old) = [x \in H(i + 1) \cup {h} |-> IF x \in H(i + 1) THEN R[x] ELSE v]
      <4>1. DOMAIN Only(h, v) = {h} /\ Only(h, v)[h] = v
        BY <3>1
      <4>2. Updated(Only(h, v), old) = [x \in DOMAIN old \cup DOMAIN Only(h, v) |->
                                          IF x \in DOMAIN old THEN old[x] ELSE Only(h, v)[x]]
        BY DEF Updated
      <4>3. QED BY <3>2, <4>1, <4>2
    <3>4. R[h] = v /\ H(i) = H(i + 1) \cup {h} /\ t[i].hash = h /\ v = [solid |-> NoSolid, rd |-> t[i].rd]
      BY <2>5, <2>6 DEF h, v
    <3>5. B(i) = [x \in H(i + 1) \cup {h} |-> IF x \in H(i + 1) THEN R[x] ELSE v]
      BY <3>4
    <3>6. QED BY <3>3, <3>4, <3>5 DEF old
  <2>8. QED BY <2>4, <2>7
<1>8. ASSUME NEW i \in (nb + 1)..n
      PROVE  M(i) = <<t[i].rd>> \o M(i + 1) /\ B(i) = Updated(<<>>, B(i + 1))
  <2> DEFINE j == i - nb
  <2>1. /\ j \in 1..ni /\ i = nb + j /\ i \in 1..(n + 1) /\ i + 1 \in 1..(n + 1)
        /\ first(i) = j /\ first(i + 1) = j + 1
    BY <1>1
  <2> HIDE DEF j
  <2> DEFINE s == M(i + 1)
             r == M(i)
             u == <<t[i].rd>>
  <2>2. /\ IsSeq(s) /\ Len(s) = ni - j /\ \A k \in 1..(ni - j) : s[k] = images[j + k].rd
    <3>1. IsSeq(s) /\ Len(s) = ni + 1 - (j + 1)
      BY <1>6, <2>1
    <3>2. ni + 1 - (j + 1) = ni - j /\ \A k \in Int : j + 1 - 1 + k = j + k
      BY <1>1, <2>1
    <3>3. \A k \in 1..(ni - j) : s[k] = images[j + k].rd
      BY <2>1, <3>2
    <3>4. QED BY <3>1, <3>2, <3>3
  <2>3. /\ IsSeq(r) /\ Len(r) = ni + 1 - j /\ \A k \in 1..(ni + 1 - j) : r[k] = images[j - 1 + k].rd
    BY <1>6, <2>1
  <2>4. u \in Seq({t[i].rd}) /\ Len(u) = 1 /\ u[1] = images[j].rd
    <3>1. t[i].rd = images[j].rd
      BY <1>1, <2>1
    <3> DEFINE x == t[i].rd
    <3>2. x = images[j].rd
      BY <3>1
    <3> HIDE DEF x
    <3>3. <<x>> \in Seq({x}) /\ Len(<<x>>) = 1 /\ <<x>>[1] = x
      OBVIOUS
    <3>4. QED BY <3>2, <3>3 DEF x
  <2> HIDE DEF s, r, u
  <2>5. IsSeq(u)
    BY <2>4, SeqIs
  <2>6. /\ IsSeq(u \o s) /\ Len(u \o s) = 1 + (ni - j)
        /\ \A k \in 1..(1 + (ni - j)) : (u \o s)[k] = IF k <= 1 THEN u[k] ELSE s[k - 1]
    <3>1. /\ IsSeq(u \o s) /\ Len(u \o s) = Len(u) + Len(s)
          /\ \A k \in 1..(Len(u) + Len(s)) : (u \o s)[k] = IF k <= Len(u) THEN u[k] ELSE s[k - Len(u)]
      BY <2>2, <2>5, SeqConcat
    <3>2. Len(u) = 1 /\ Len(s) = ni - j
      BY <2>2, <2>4
    <3>3. QED BY <3>1, <3>2
  <2>7. \A k \in 1..(ni + 1 - j) : r[k] = (u \o s)[k]
    <3>1. TAKE k \in 1..(ni + 1 - j)
    <3>2. k \in 1..(1 + (ni - j))
      BY <1>1, <2>1
    <3>3. CASE k = 1
      <4>1. j - 1 + k = j
        BY <2>1, <3>3
      <4>2. QED BY <2>3, <2>4, <2>6, <3>2, <3>3, <4>1
    <3>4. CASE k # 1
      <4> DEFINE q == k - 1
      <4>1. q \in 1..(ni - j) /\ ~(k <= 1) /\ j + q = j - 1 + k
        BY <1>1, <2>1, <3>4
      <4> HIDE DEF q
      <4>2. (u \o s)[k] = s[q]
        BY <2>6, <3>2, <4>1 DEF q
      <4>3. QED BY <2>2, <2>3, <4>1, <4>2
    <3>5. QED BY <3>3, <3>4
  <2>8. r = u \o s
    <3>1. ni + 1 - j = 1 + (ni - j)
      BY <1>1, <2>1
    <3>2. QED BY <2>3, <2>6, <2>7, <3>1, SeqSame
  <2>9. H(i) = {} /\ H(i + 1) = {}
    <3>1. \A k : k \notin i..nb /\ k \notin (i + 1)..nb
      BY <1>1, <2>1
    <3>2. QED BY <3>1
  <2> HIDE DEF H
  <2>10. B(i) = Updated(<<>>, B(i + 1))
    <3> DEFINE old == B(i + 1)
    <3>1. DOMAIN old = {} /\ DOMAIN <<>> = {} /\ B(i) = [x \in {} |-> R[x]]
      BY <2>9
    <3> HIDE DEF old
    <3>2. Updated(<<>>, old) = [x \in {} |-> IF x \in DOMAIN old THEN old[x] ELSE <<>>[x]]
      BY <3>1 DEF Updated
    <3>3. [x \in {} |-> IF x \in DOMAIN old THEN old[x] ELSE <<>>[x]] = [x \in {} |-> R[x]]
      OBVIOUS
    <3>4. QED BY <3>1, <3>2, <3>3 DEF old
  <2>11. QED BY <2>8, <2>10 DEF r, u, s
<1>9. M(n + 1) = <<>> /\ B(n + 1) = <<>>
  <2>1. n + 1 \in 1..(n + 1) /\ ni + 1 - first(n + 1) = 0
    BY <1>1
  <2>2. IsSeq(M(n + 1)) /\ Len(M(n + 1)) = 0
    BY <1>6, <2>1
  <2>3. M(n + 1) = <<>>
    <3> HIDE DEF M
    <3>1. QED BY <2>2, SeqHas
  <2>4. H(n + 1) = {}
    <3>1. \A k : k \notin (n + 1)..nb
      BY <1>1
    <3>2. QED BY <3>1
  <2>5. B(n + 1) = <<>>
    <3> HIDE DEF H
    <3>1. B(n + 1) = [x \in {} |-> R[x]]
      BY <2>4
    <3>2. <<>> = [x \in {} |-> R[x]]
      OBVIOUS
    <3>3. QED BY <3>1, <3>2
  <2>6. QED BY <2>3, <2>5
<1> HIDE DEF M, B, H, first
<1>10. Fills(c, t, n)
  <2> DEFINE Right(i) ==
        IF i > n THEN [EmptyReader EXCEPT !.loaded = TRUE]
        ELSE [loaded |-> c[i + 1].loaded,
              metas  |-> (IF IsMeta(t[i]) THEN <<t[i].rd>> ELSE <<>>) \o c[i + 1].metas,
              blobs  |-> Updated(IF IsMeta(t[i]) \/ t[i].hash = <<>> THEN <<>>
                                 ELSE Only(t[i].hash, [solid |-> NoSolid, rd |-> t[i].rd]),
                                 c[i + 1].blobs)]
  <2>1. ASSUME NEW i \in 1..(n + 1) PROVE [loaded |-> TRUE, metas |-> M(i), blobs |-> B(i)] = Right(i)
    <3>1. CASE i > n
      <4>1. i = n + 1
        BY <1>1, <3>1
      <4>2. QED BY <1>9, <3>1, <4>1 DEF EmptyReader
    <3>2. CASE ~(i > n)
      <4>1. i + 1 \in 1..(n + 1)
        BY <1>1, <3>2
      <4>2. c[i + 1] = [loaded |-> TRUE, metas |-> M(i + 1), blobs |-> B(i + 1)]
        BY <4>1
      <4>3. c[i + 1].loaded = TRUE /\ c[i + 1].metas = M(i + 1) /\ c[i + 1].blobs = B(i + 1)
        BY <4>2
      <4> HIDE DEF c
      <4>4. CASE i \in 1..nb
        <5>1. ~IsMeta(t[i]) /\ t[i].hash # <<>>
          BY <1>1, <4>4
        <5>2. QED BY <1>7, <3>2, <4>3, <4>4, <5>1
      <4>5. CASE i \in (nb + 1)..n
        <5> DEFINE j == i - nb
        <5>1. j \in 1..ni /\ i = nb + j
          BY <1>1, <4>5
        <5> HIDE DEF j
        <5>2. IsMeta(t[i])
          BY <1>1, <5>1
        <5>3. QED BY <1>8, <3>2, <4>3, <4>5, <5>2
      <4>6. i \in 1..nb \/ i \in (nb + 1)..n
        BY <1>1, <3>2
      <4>7. QED BY <4>4, <4>5, <4>6
    <3>3. QED BY <3>1, <3>2
  <2> DEFINE Left(i) == [loaded |-> TRUE, metas |-> M(i), blobs |-> B(i)]
  <2>2. \A i \in 1..(n + 1) : Left(i) = Right(i)
    BY <2>1
  <2>3. c = [i \in 1..(n + 1) |-> Left(i)]
    OBVIOUS
  <2> HIDE DEF Left, Right, c
  <2>4. c = [i \in 1..(n + 1) |-> Right(i)]
    BY <2>2, <2>3
  <2>5. QED BY <2>4 DEF Right, Fills
<1>11. c[1] = [loaded |-> TRUE, metas |-> M(1), blobs |-> B(1)]
  <2>1. 1 \in 1..(n + 1)
    BY <1>1
  <2>2. QED BY <2>1
<1> HIDE DEF c, n
<1>12. Scan(out, t, -1) = c[1]
  BY <1>1, <1>4, <1>10, ScanIs
<1>13. IsSeq(M(1)) /\ Len(M(1)) = ni /\ \A i \in 1..ni : M(1)[i] = images[i].rd
  <2>1. 1 \in 1..(n + 1) /\ first(1) = 1 /\ ni + 1 - first(1) = ni /\ \A i \in 1..ni : 1 - 1 + i = i
    BY <1>1 DEF first, n
  <2>2. M(1) = [k \in 1..ni |-> images[1 - 1 + k].rd]
    BY <2>1 DEF M
  <2>3. \A i \in 1..ni : M(1)[i] = images[i].rd
    BY <2>1, <2>2
  <2>4. QED BY <1>6, <2>1, <2>3
<1>14. B(1) = R
  <2>1. H(1) = Hashes
    BY <1>1 DEF H, Hashes
  <2>2. R = [h \in Hashes |-> R[h]]
    BY DEF R
  <2>3. QED BY <2>1, <2>2 DEF B
<1>15. Opened(out) = [loaded |-> TRUE, metas |-> M(1), blobs |-> R]
  <2>1. Table(out) = t
    BY ClosedIs DEF t
  <2>2. <<>> \o M(1) = M(1)
    BY <1>13, NothingBefore
  <2>3. ~EmptyReader.loaded /\ EmptyReader.metas = <<>>
    BY DEF EmptyReader
  <2> DEFINE s == c[1]
  <2>4. s = [loaded |-> TRUE, metas |-> M(1), blobs |-> R]
    BY <1>11, <1>14
  <2>5. Opened(out) = [s EXCEPT !.metas = EmptyReader.metas \o @]
    <3>1. ReadResourceRaw(out, out[1].table).ok
      BY ClosedIs
    <3>2. QED BY <1>12, <2>1, <2>3, <3>1 DEF Opened, LoadOffsetTable
  <2> HIDE DEF s
  <2>6. QED BY <2>2, <2>3, <2>4, <2>5
<1>16. DOMAIN R = Hashes
  BY DEF R
<1>17. Opened(out).loaded /\ Opened(out).metas = M(1) /\ Opened(out).blobs = R
  BY <1>15
<1>18. \A k \in DOMAIN blobs : R[blobs[k].hash] = [solid |-> NoSolid, rd |-> blobs[k].rd]
  BY <1>1, <1>3 DEF loc
<1>19. QED BY <1>13, <1>16, <1>17, <1>18 DEF ni

--------------------------------------------------------------------------------
(* What the invariant means. *)

\* The invariant has the types in it.
LEMMA InvTypes ==
  ASSUME MediaInv
  PROVE  TypeOK
<1>1. PlaceInv /\ BlobsInv /\ ImagesInv /\ PoolInv /\ PartsInv
  BY DEF MediaInv, WriterInv
<1>2. cursor \in Nat /\ pos \in Nat
  BY <1>1, SeqHas DEF PlaceInv
<1>3. holds \in [Workers -> {Free, Done} \cup 1..Len(chunks)]
  <2>1. CASE Zipping
    <3>1. IsSeq(chunks) /\ holds \in [Workers -> {Free, Done} \cup DOMAIN chunks]
      BY <1>1, <2>1 DEF PoolInv
    <3>2. DOMAIN chunks = 1..Len(chunks)
      BY <3>1, SeqHas
    <3>3. QED BY <3>1, <3>2
  <2>2. CASE ~Zipping
    <3>1. holds = [w \in Workers |-> Free]
      BY <1>1, <2>2 DEF PoolInv
    <3>2. QED BY <3>1
  <2>3. QED BY <2>1, <2>2
<1>4. QED BY <1>1, <1>2, <1>3 DEF TypeOK, PlaceInv, BlobsInv, ImagesInv, PartsInv

\* An image opens as the tree that was added.
LEMMA ImageOpens ==
  ASSUME WriterInv, Closed, NEW i \in DOMAIN added
  PROVE  OpenImage(out, Opened(out), i) = Got(added[i])
<1>1. PlaceInv /\ ImagesInv /\ IsSeq(out)
  BY DEF WriterInv, PlaceInv
<1> DEFINE m == BuildMetadata(added[i])
           rd == images[i].rd
<1>2. /\ added[i] \in Trees /\ Holds(out, rd, m)
      /\ rd = Descriptor(rd.at, Len(m), Len(m), {"metadata"})
  BY <1>1 DEF ImagesInv, Closed, InFile
<1>3. rd.flags = {"metadata"}
  BY <1>2 DEF Descriptor
<1>4. IsSeq(m) /\ ParseImageMetadata(m) = Got(added[i])
  BY <1>2, TreesAssumption
<1>5. i \in 1..Len(images)
  <2>1. DOMAIN added = 1..Len(added) /\ Len(images) = Len(added)
    BY <1>1, SeqHas DEF ImagesInv
  <2>2. QED BY <2>1
<1>6. Opened(out).loaded /\ Len(Opened(out).metas) = Len(images) /\ Opened(out).metas[i] = rd
  BY <1>5, OpenedIs
<1> HIDE DEF m, rd
<1>7. ReadMetadata(out, rd) = Got(m)
  <2>1. ReadResourceRaw(out, rd) = Got(m)
    BY <1>1, <1>2, <1>4, HeldIsRead
  <2>2. QED BY <1>3, <2>1 DEF ReadMetadata
<1> DEFINE w == Opened(out)
<1>8. w.loaded /\ i \in 1..Len(w.metas) /\ w.metas[i] = rd
  BY <1>5, <1>6
<1> HIDE DEF w
<1>9. OpenImage(out, w, i) = LET a == ReadMetadata(out, rd)
                            IN  IF a.ok THEN ParseImageMetadata(a.data) ELSE Failed
  BY <1>8 DEF OpenImage
<1>10. Got(m).ok /\ Got(m).data = m
  BY DEF Got
<1>11. OpenImage(out, w, i) = Got(added[i])
  BY <1>4, <1>7, <1>9, <1>10
<1>12. QED BY <1>11 DEF w

\* Every content that was written, and the empty one, is read from a closed WIM.
LEMMA FileReads ==
  ASSUME WriterInv, Closed, NEW h \in Hashes \cup {<<>>}
  PROVE  ReadFile(out, Opened(out), h) = Got(h)
<1>1. CASE h = <<>>
  BY <1>1 DEF ReadFile
<1>2. CASE h # <<>>
  <2>1. PICK k \in DOMAIN blobs : blobs[k].hash = h
    BY <1>2 DEF Hashes
  <2> DEFINE rd == blobs[k].rd
  <2>2. /\ IsSeq(h) /\ Holds(out, rd, ResourceOf(h)) /\ IsSeq(out)
        /\ blobs[k] = Entry(Descriptor(rd.at, Len(ResourceOf(h)), Len(h), ResourceFlags), h)
    BY <2>1 DEF WriterInv, PlaceInv, BlobsInv, Closed, InFile
  <2>3. rd.orig = Len(h) /\ rd.flags = ResourceFlags
    BY <2>2 DEF Entry, Descriptor
  <2>4. /\ h \in DOMAIN Opened(out).blobs
        /\ Opened(out).blobs[h] = [solid |-> NoSolid, rd |-> rd]
    BY <1>2, <2>1, OpenedIs
  <2> HIDE DEF rd
  <2>5. out[1].comp = Comp
    BY ClosedIs
  <2>6. BlobBytes(out, [solid |-> NoSolid, rd |-> rd]) = Got(h)
    BY <1>2, <2>2, <2>3, <2>5, ContentRead
  <2>7. QED BY <1>2, <2>4, <2>6 DEF ReadFile
<1>3. QED BY <1>1, <1>2

\* A content that was lost is not found.
LEMMA LostFails ==
  ASSUME WriterInv, Closed, NEW h, h \notin Hashes \cup {<<>>}
  PROVE  ReadFile(out, Opened(out), h) = Failed
BY OpenedIs DEF ReadFile

\* What is extracted of an image is what it was made of, but for lost contents.
LEMMA ExtractedIs ==
  ASSUME WriterInv, Closed, NEW i \in DOMAIN added,
         NEW x \in Extracted(out, Opened(out), added[i])
  PROVE  x \in Expected(added[i]) \/ Lacks(x, added[i])
<1> DEFINE root == added[i]
           files == {p \in Nodes(root) : "reparse" \notin NodeAt(root, p).attrs}
           names(at) == [k \in DOMAIN at |-> NodeAt(root, SubSeq(at, 1, k)).name]
           Read(h) == ReadFile(out, Opened(out), h)
           Plainly(at) == [path |-> names(at), dir |-> TRUE]
           With(at, d) == [path |-> names(at), dir |-> FALSE, data |-> d]
<1>1. PICK at \in files : x = IF IsDir(NodeAt(root, at)) THEN Plainly(at) ELSE With(at, Read(NodeAt(root, at).hash))
  BY DEF Extracted, TreeOf
<1>2. \A p \in files : (IF IsDir(NodeAt(root, p)) THEN Plainly(p) ELSE With(p, Got(NodeAt(root, p).hash)))
                         \in Expected(root)
  BY DEF Expected, TreeOf
<1> DEFINE node == NodeAt(root, at)
           h == node.hash
<1>3. CASE IsDir(node)
  BY <1>1, <1>2, <1>3
<1>4. CASE ~IsDir(node)
  <2>1. x = With(at, Read(h)) /\ With(at, Got(h)) \in Expected(root)
    BY <1>1, <1>2, <1>4
  <2>2. h \in seen \cup {<<>>}
    <3>1. /\ root \in Trees /\ ToSet(Walk(root)) \subseteq seen \cup {<<>>}
      BY DEF WriterInv, ImagesInv
    <3>2. at \in Nodes(root) /\ "reparse" \notin node.attrs
      BY <1>1
    <3>3. h \in ToSet(Walk(root))
      BY <1>4, <3>1, <3>2, TreesAssumption
    <3>4. QED BY <3>1, <3>3
  <2>3. CASE h \in Hashes \cup {<<>>}
    <3>1. Read(h) = Got(h)
      BY <2>3, FileReads
    <3>2. QED BY <2>1, <3>1
  <2>4. CASE h \notin Hashes \cup {<<>>}
    <3>1. h \in lost
      <4>1. ~Zipping
        BY DEF Closed, Finished, Zipping
      <4>2. QED BY <2>2, <2>4, <4>1 DEF WriterInv, BlobsInv
    <3>2. Read(h) = Failed
      BY <2>4, LostFails
    <3> DEFINE path == names(at)
               data == Got(h)
    <3>a. x = [path |-> path, dir |-> FALSE, data |-> Failed]
      BY <2>1, <3>2
    <3>b. With(at, Got(h)) = [path |-> path, dir |-> FALSE, data |-> data]
      OBVIOUS
    <3> HIDE DEF names, h, node, root, files, Read, path, data, With
    <3>c. ~x.dir /\ x.data = Failed /\ ~Failed.ok
      BY <3>a DEF Failed
    <3>3. [path |-> x.path, dir |-> FALSE, data |-> Got(h)] = With(at, Got(h))
      BY <3>a, <3>b DEF data
    <3>4. Lacks(x, root)
      BY <2>1, <3>1, <3>c, <3>3 DEF Lacks
    <3>5. QED BY <3>4 DEF root
  <2>5. QED BY <2>3, <2>4
<1>5. QED BY <1>3, <1>4

\* A file that is as the invariant says reads back.
LEMMA InvReadsBack ==
  ASSUME MediaInv
  PROVE  WrittenReadsBack
<1>1. SUFFICES ASSUME Closed
               PROVE  /\ Len(Opened(out).metas) = Len(added) /\ out[1].count = Len(added)
                      /\ Len(Images(out).data) = Len(added)
                      /\ \A i \in DOMAIN added :
                           LET image == OpenImage(out, Opened(out), i)
                           IN  /\ image.ok /\ image.data = added[i]
                               /\ WindowsOf(i) # "none" =>
                                    \E k \in DOMAIN SourceTrees :
                                      Images(Source).data[k].windows = WindowsOf(i) /\ SourceTrees[k] = added[i]
                               /\ \A x \in Extracted(out, Opened(out), image.data) :
                                    x \in Expected(added[i]) \/ Lacks(x, added[i])
  BY DEF WrittenReadsBack, Closed, Finished
<1>2. WriterInv /\ ImagesInv
  BY DEF MediaInv, WriterInv
<1>3. Len(images) \in Nat /\ DOMAIN images = 1..Len(images) /\ DOMAIN added = 1..Len(added) /\ Len(images) = Len(added)
  BY <1>2, SeqHas DEF ImagesInv
<1>4. Len(Opened(out).metas) = Len(added) /\ out[1].count = Len(added)
  BY <1>1, <1>2, <1>3, OpenedIs, ClosedIs
<1> DEFINE infos == [i \in DOMAIN images |-> images[i].info]
<1>5. Images(out).data = infos
  BY <1>1, <1>2, ClosedIs DEF Got
<1>6. Len(Images(out).data) = Len(added)
  <2>1. infos = [i \in 1..Len(images) |-> infos[i]]
    BY <1>3
  <2> HIDE DEF infos
  <2>2. Len(infos) = Len(images)
    BY <1>3, <2>1, SeqOfFunction
  <2>3. QED BY <1>3, <1>5, <2>2
<1>7. ASSUME NEW i \in DOMAIN added
      PROVE  /\ OpenImage(out, Opened(out), i).ok /\ OpenImage(out, Opened(out), i).data = added[i]
             /\ WindowsOf(i) # "none" =>
                  \E k \in DOMAIN SourceTrees :
                    Images(Source).data[k].windows = WindowsOf(i) /\ SourceTrees[k] = added[i]
             /\ \A x \in Extracted(out, Opened(out), added[i]) :
                  x \in Expected(added[i]) \/ Lacks(x, added[i])
  <2>1. OpenImage(out, Opened(out), i) = Got(added[i])
    BY <1>1, <1>2, ImageOpens
  <2>2. WindowsOf(i) = images[i].info.windows
    BY <1>3, <1>5 DEF WindowsOf
  <2>3. images[i].info.windows # "none" =>
          \E k \in DOMAIN SourceTrees :
            Images(Source).data[k].windows = images[i].info.windows /\ SourceTrees[k] = added[i]
    BY <1>2 DEF ImagesInv
  <2>4. QED BY <1>1, <1>2, <2>1, <2>2, <2>3, ExtractedIs DEF Got
<1>8. QED BY <1>4, <1>6, <1>7

--------------------------------------------------------------------------------
\* A caller that opens the source again after it could not be read keeps the
\* invariant of the Writer and of the file it writes.
THEOREM MediaInvariant == Reopen => (Spec => []MediaInv)
<1>1. Init => MediaInv
  BY InitInv
<1>2. Reopen /\ MediaInv /\ [Next]_vars => MediaInv'
  BY MediaStep
<1>3. ASSUME Reopen PROVE MediaInv /\ [Next]_vars => MediaInv'
  BY <1>2, <1>3
<1>4. ASSUME Reopen PROVE Spec => []MediaInv
  BY <1>1, <1>3, <1>4, PTL DEF Spec
<1>5. QED BY <1>4

\* The Writer, its goroutines and the folder of parts stay within their types.
THEOREM TypeOKTheorem == Reopen => (Spec => []TypeOK)
<1>1. MediaInv => TypeOK
  BY InvTypes
<1>2. QED BY <1>1, MediaInvariant, PTL

\* writer.go, writer_copy.go, reader.go: a WIM that Close has finished extracts to
\* the trees that were added, each content as it was, for every tree, chunk size,
\* compression, number of goroutines and order in which they work, and however
\* often a call has failed before, except that nothing is said of a Close that
\* follows one whose header could not be written (writer.go:268-273 leaves the
\* file at its start, and the next table goes there).
THEOREM WrittenReadsBackTheorem == Reopen => (Spec => []WrittenReadsBack)
<1>1. MediaInv => WrittenReadsBack
  BY InvReadsBack
<1>2. QED BY <1>1, MediaInvariant, PTL

--------------------------------------------------------------------------------
(* The parts of a split WIM. *)

\* A function defined step by step on 0..n.
Steps(g, n, base, step) == g = [k \in 0..n |-> IF k = 0 THEN base ELSE step[<<k, g[k-1]>>]]

\* Such a function exists: a least length at which there is none would have
\* one, extended from the length before.
LEMMA StepsDefined ==
  ASSUME NEW n \in Nat, NEW S, NEW base \in S, NEW step \in [(1..n) \X S -> S]
  PROVE  \E g : Steps(g, n, base, step)
<1> USE DEF Steps
<1> DEFINE Is(g, m) == g = [k \in 0..m |-> IF k = 0 THEN base ELSE step[<<k, g[k-1]>>]]
           bad == {m \in 0..n : ~ \E g : Is(g, m)}
<1>1. SUFFICES ASSUME bad # {} PROVE FALSE
  OBVIOUS
<1>2. bad \in SUBSET Nat
  <2>1. \A m \in 0..n : m \in Nat
    OBVIOUS
  <2> HIDE DEF Is
  <2>2. QED BY <2>1
<1>3. PICK b \in bad : \A j \in bad : b <= j
  BY <1>1, <1>2, LeastExists
<1>4. b \in 0..n /\ ~ \E g : Is(g, b)
  BY <1>3
<1>5. CASE b = 0
  <2> DEFINE g == [k \in 0..0 |-> base]
  <2>1. g = [k \in 0..0 |-> IF k = 0 THEN base ELSE step[<<k, g[k-1]>>]]
    OBVIOUS
  <2>2. Is(g, b)
    BY <1>5, <2>1
  <2>3. QED BY <1>4, <2>2
<1>6. CASE b # 0
  <2>1. b - 1 \in 0..n /\ ~(b <= b - 1) /\ b - 1 \in 0..b
    BY <1>4, <1>6
  <2>2. b - 1 \notin bad
    BY <1>3, <2>1
  <2>3. PICK g : Is(g, b - 1)
    BY <2>1, <2>2
  <2> DEFINE h == [k \in 0..b |-> IF k = b THEN step[<<b, g[b-1]>>] ELSE g[k]]
  <2>4. \A k \in 0..b : k = 0 \/ (k - 1 \in 0..b /\ k - 1 # b)
    BY <1>4
  <2>5. \A k \in 0..b : k # b => k \in 0..(b-1)
    BY <1>4
  <2>6. \A k \in 0..b : h[k] = IF k = 0 THEN base ELSE step[<<k, h[k-1]>>]
    <3>1. TAKE k \in 0..b
    <3>2. CASE k = b
      <4>1. h[k] = step[<<b, g[b-1]>>]
        BY <3>2
      <4>2. b - 1 # b
        BY <1>4
      <4>3. h[b-1] = g[b-1]
        BY <2>1, <4>2
      <4>4. QED BY <1>6, <3>2, <4>1, <4>3
    <3>3. CASE k # b
      <4>1. h[k] = g[k] /\ g[k] = IF k = 0 THEN base ELSE step[<<k, g[k-1]>>]
        BY <2>3, <2>5, <3>3
      <4>2. k = 0 \/ h[k-1] = g[k-1]
        BY <2>4
      <4>3. QED BY <4>1, <4>2
    <3>4. QED BY <3>2, <3>3
  <2>7. Is(h, b)
    BY <2>6
  <2>8. QED BY <1>4, <2>7
<1>7. QED BY <1>5, <1>6

\* Its values, each in S.
Stepped(g, n, S, base, step) ==
  /\ g[0] = base /\ \A k \in 0..n : g[k] \in S
  /\ \A k \in 1..n : g[k - 1] \in S /\ g[k] = step[<<k, g[k-1]>>]

\* The steps of such a function, each in S.
LEMMA StepsIn ==
  ASSUME NEW n \in Nat, NEW S, NEW base \in S, NEW step \in [(1..n) \X S -> S],
         NEW g, Steps(g, n, base, step)
  PROVE  Stepped(g, n, S, base, step)
<1> USE DEF Stepped
<1>1. \A k \in 0..n : g[k] = IF k = 0 THEN base ELSE step[<<k, g[k-1]>>]
  BY DEF Steps
<1>2. g[0] = base
  <2>1. 0 \in 0..n
    OBVIOUS
  <2>2. QED BY <1>1, <2>1
<1> DEFINE bad == {k \in 0..n : g[k] \notin S}
<1>3. bad = {}
  <2>1. SUFFICES ASSUME bad # {} PROVE FALSE
    OBVIOUS
  <2>2. bad \in SUBSET Nat
    OBVIOUS
  <2>3. PICK b \in bad : \A j \in bad : b <= j
    BY <2>1, <2>2, LeastExists
  <2>4. b \in 0..n /\ g[b] \notin S /\ b # 0
    BY <1>2, <2>3
  <2>5. b - 1 \in 0..n /\ ~(b <= b - 1) /\ b \in 1..n
    BY <2>4
  <2>6. g[b - 1] \in S
    BY <2>3, <2>5
  <2>7. step[<<b, g[b-1]>>] \in S
    BY <2>5, <2>6
  <2>8. QED BY <1>1, <2>4, <2>7
<1>4. ASSUME NEW k \in 1..n PROVE g[k - 1] \in S /\ g[k] = step[<<k, g[k-1]>>]
  <2>1. k \in 0..n /\ k - 1 \in 0..n /\ k # 0
    OBVIOUS
  <2>2. QED BY <1>1, <1>3, <2>1
<1>5. QED BY <1>2, <1>3, <1>4

\* Entries of resources that are not empty.
Sized(s) == IsSeq(s) /\ \A k \in 1..Len(s) : s[k].rd.size \in Nat \ {0}

\* packParts' running: the sizes so far.
LEMMA RunningBy ==
  ASSUME NEW s, Sized(s)
  PROVE  \E g : /\ g[0] = 0 /\ \A k \in 0..Len(s) : g[k] \in Nat
                /\ \A k \in 1..Len(s) : g[k] = g[k - 1] + s[k].rd.size
                /\ RunningSize(s) = g[Len(s)]
<1> DEFINE n == Len(s)
           Is(g) == g = [k \in 0..n |-> IF k = 0 THEN 0 ELSE g[k - 1] + s[k].rd.size]
           running == CHOOSE g : Is(g)
           step == [x \in (1..n) \X Nat |-> x[2] + s[x[1]].rd.size]
<1>1. n \in Nat /\ \A k \in 1..n : s[k].rd.size \in Nat
  BY SeqHas DEF Sized
<1>2. RunningSize(s) = running[n]
  BY DEF RunningSize
<1>3. step \in [(1..n) \X Nat -> Nat] /\ \A k \in 1..n, r \in Nat : step[<<k, r>>] = r + s[k].rd.size
  <2>1. \A x \in (1..n) \X Nat : x[2] \in Nat /\ x[1] \in 1..n
    OBVIOUS
  <2>2. \A x \in (1..n) \X Nat : x[2] + s[x[1]].rd.size \in Nat
    BY <1>1, <2>1
  <2>3. QED BY <2>2
<1> HIDE DEF step, n
<1>a. n \in Nat /\ 0 \in Nat /\ step \in [(1..n) \X Nat -> Nat]
  BY <1>1, <1>3
<1>4. PICK f : Steps(f, n, 0, step)
  BY <1>a, StepsDefined, Zenon
<1>5. Stepped(f, n, Nat, 0, step)
  BY <1>a, <1>4, StepsIn, Zenon
<1>6. Is(f)
  <2>1. \A k \in 0..n : f[k] = IF k = 0 THEN 0 ELSE f[k - 1] + s[k].rd.size
    <3>1. TAKE k \in 0..n
    <3>2. CASE k = 0
      BY <1>5, <3>2 DEF Stepped
    <3>3. CASE k # 0
      <4>1. k \in 1..n
        BY <1>1, <3>3
      <4>2. f[k - 1] \in Nat /\ f[k] = step[<<k, f[k-1]>>]
        BY <1>5, <4>1 DEF Stepped
      <4>3. QED BY <1>3, <3>3, <4>1, <4>2
    <3>4. QED BY <3>2, <3>3
  <2>2. f = [k \in 0..n |-> f[k]]
    BY <1>4 DEF Steps
  <2>3. QED BY <2>1, <2>2
<1>7. Is(running)
  <2> HIDE DEF Is
  <2>1. QED BY <1>6, ZenonT(30)
<1>8. running[0] = 0 /\ \A k \in 1..n : running[k] = running[k - 1] + s[k].rd.size
  <2> HIDE DEF running
  <2>1. 0 \in 0..n /\ \A k \in 1..n : k \in 0..n /\ k # 0
    BY <1>1
  <2>2. QED BY <1>7, <2>1
<1> DEFINE bad == {k \in 0..n : running[k] \notin Nat}
<1> HIDE DEF running, Is
<1>9. bad = {}
  <2>1. SUFFICES ASSUME bad # {} PROVE FALSE
    OBVIOUS
  <2>2. bad \in SUBSET Nat
    BY <1>1
  <2>3. PICK b \in bad : \A j \in bad : b <= j
    BY <2>1, <2>2, LeastExists
  <2>4. b \in 1..n /\ running[b] \notin Nat
    BY <1>1, <1>8, <2>3
  <2>5. b - 1 \in 0..n /\ ~(b <= b - 1)
    BY <1>1, <2>4
  <2>6. running[b - 1] \in Nat
    BY <2>3, <2>5
  <2>7. QED BY <1>1, <1>8, <2>4, <2>6
<1>10. QED BY <1>2, <1>8, <1>9 DEF n

\* The size of nothing, of something, and of one resource more.
LEMMA RunningGrows ==
  ASSUME NEW s, Sized(s)
  PROVE  /\ RunningSize(s) \in Nat /\ (RunningSize(s) = 0 => s = <<>>)
         /\ \A e : e.rd.size \in Nat \ {0} =>
              Sized(Append(s, e)) /\ RunningSize(Append(s, e)) = RunningSize(s) + e.rd.size
<1> DEFINE n == Len(s)
<1>1. n \in Nat /\ IsSeq(s) /\ (s = <<>> <=> n = 0) /\ \A k \in 1..n : s[k].rd.size \in Nat \ {0}
  BY SeqHas DEF Sized
<1>2. PICK g : /\ g[0] = 0 /\ \A k \in 0..n : g[k] \in Nat
               /\ \A k \in 1..n : g[k] = g[k - 1] + s[k].rd.size
               /\ RunningSize(s) = g[n]
  BY RunningBy
<1> HIDE DEF n
<1>3. RunningSize(s) \in Nat
  BY <1>1, <1>2
<1>4. RunningSize(s) = 0 => s = <<>>
  <2>1. SUFFICES ASSUME n # 0 PROVE RunningSize(s) # 0
    BY <1>1
  <2>2. n \in 1..n /\ n - 1 \in 0..n
    BY <1>1, <2>1
  <2>3. g[n] = g[n - 1] + s[n].rd.size /\ g[n - 1] \in Nat /\ s[n].rd.size \in Nat \ {0}
    BY <1>1, <1>2, <2>2
  <2>4. QED BY <1>2, <2>3
<1>5. ASSUME NEW e, e.rd.size \in Nat \ {0}
      PROVE  Sized(Append(s, e)) /\ RunningSize(Append(s, e)) = RunningSize(s) + e.rd.size
  <2> DEFINE t == Append(s, e)
             size == e.rd.size
  <2>1. IsSeq(t) /\ Len(t) = n + 1 /\ (\A k \in 1..n : t[k] = s[k]) /\ t[n + 1] = e
    BY <1>1, SeqAppend DEF n
  <2> HIDE DEF t
  <2>2. Sized(t)
    <3>1. \A k \in 1..(n + 1) : k \in 1..n \/ k = n + 1
      BY <1>1
    <3>2. \A k \in 1..(n + 1) : t[k].rd.size \in Nat \ {0}
      BY <1>1, <1>5, <2>1, <3>1
    <3>3. QED BY <2>1, <3>2 DEF Sized
  <2>3. PICK h : /\ h[0] = 0 /\ \A k \in 0..(n + 1) : h[k] \in Nat
                 /\ \A k \in 1..(n + 1) : h[k] = h[k - 1] + t[k].rd.size
                 /\ RunningSize(t) = h[n + 1]
    BY <2>1, <2>2, RunningBy
  <2> DEFINE bad == {k \in 0..n : h[k] # g[k]}
  <2>4. bad = {}
    <3>1. SUFFICES ASSUME bad # {} PROVE FALSE
      OBVIOUS
    <3>2. bad \in SUBSET Nat
      BY <1>1
    <3>3. PICK b \in bad : \A j \in bad : b <= j
      BY <3>1, <3>2, LeastExists
    <3>4. b \in 1..n /\ h[b] # g[b]
      BY <1>1, <1>2, <2>3, <3>3
    <3>5. b - 1 \in 0..n /\ ~(b <= b - 1) /\ b \in 1..(n + 1)
      BY <1>1, <3>4
    <3>6. h[b - 1] = g[b - 1]
      BY <3>3, <3>5
    <3>7. QED BY <1>2, <2>1, <2>3, <3>4, <3>5, <3>6
  <2>5. n \in 0..n /\ n + 1 \in 1..(n + 1) /\ n + 1 - 1 = n
    BY <1>1
  <2>6. h[n + 1] = h[n] + t[n + 1].rd.size /\ h[n] = g[n]
    BY <2>3, <2>4, <2>5
  <2>7. RunningSize(t) = RunningSize(s) + e.rd.size
    BY <1>2, <2>1, <2>3, <2>6
  <2>8. QED BY <2>2, <2>7 DEF t
<1>6. QED BY <1>3, <1>4, <1>5

\* A concatenation ends with its last part.
LEMMA FlattenLast ==
  ASSUME NEW ss, IsSeq(ss), ss # <<>>, \A k \in 1..Len(ss) : IsSeq(ss[k])
  PROVE  LET front == FlattenSeq(SubSeq(ss, 1, Len(ss) - 1))
             last  == ss[Len(ss)]
         IN  /\ IsSeq(front) /\ IsSeq(last) /\ IsSeq(FlattenSeq(ss))
             /\ FlattenSeq(ss) = front \o last
             /\ Len(FlattenSeq(ss)) = Len(front) + Len(last)
             /\ ToSet(FlattenSeq(ss)) = ToSet(front) \cup ToSet(last)
<1> DEFINE n == Len(ss)
           front == FlattenSeq(SubSeq(ss, 1, n - 1))
           last == ss[n]
           whole == FlattenSeq(ss)
<1>1. n \in Nat \ {0} /\ n \in 1..n /\ n - 1 \in 0..n
  BY SeqHas
<1>2. IsSeq(front) /\ FlattenSeq(SubSeq(ss, 1, n)) = whole /\ IsSeq(last) /\ IsSeq(whole)
  BY <1>1, FlattenParts, SeqFlatten
<1>3. whole = front \o last
  BY <1>1, <1>2, FlattenStep
<1> HIDE DEF n, front, last, whole
<1> DEFINE a == Len(front)
           b == Len(last)
<1>4. a \in Nat /\ b \in Nat /\ DOMAIN front = 1..a /\ DOMAIN last = 1..b
  BY <1>2, SeqHas
<1>5. /\ Len(whole) = a + b /\ DOMAIN whole = 1..(a + b)
      /\ \A k \in 1..(a + b) : whole[k] = IF k <= a THEN front[k] ELSE last[k - a]
  BY <1>2, <1>3, SeqConcat, SeqHas
<1> HIDE DEF a, b
<1>6. ToSet(whole) = {whole[k] : k \in 1..(a + b)} /\ ToSet(front) = {front[k] : k \in 1..a}
      /\ ToSet(last) = {last[k] : k \in 1..b}
  BY <1>4, <1>5 DEF ToSet
<1>7. ASSUME NEW x \in ToSet(whole) PROVE x \in ToSet(front) \cup ToSet(last)
  <2>1. PICK k \in 1..(a + b) : whole[k] = x
    BY <1>6
  <2>2. CASE k <= a
    <3>1. k \in 1..a /\ front[k] = x
      BY <1>4, <1>5, <2>1, <2>2
    <3>2. QED BY <1>6, <3>1
  <2>3. CASE ~(k <= a)
    <3>1. k - a \in 1..b /\ last[k - a] = x
      BY <1>4, <1>5, <2>1, <2>3
    <3>2. QED BY <1>6, <3>1
  <2>4. QED BY <2>2, <2>3
<1>8. ASSUME NEW x \in ToSet(front) PROVE x \in ToSet(whole)
  <2>1. PICK k \in 1..a : front[k] = x
    BY <1>6
  <2>2. k \in 1..(a + b) /\ k <= a
    BY <1>4
  <2>3. QED BY <1>5, <1>6, <2>1, <2>2
<1>9. ASSUME NEW x \in ToSet(last) PROVE x \in ToSet(whole)
  <2>1. PICK k \in 1..b : last[k] = x
    BY <1>6
  <2> DEFINE m == a + k
  <2>2. m \in 1..(a + b) /\ ~(m <= a) /\ m - a = k
    BY <1>4
  <2> HIDE DEF m
  <2>3. whole[m] = x
    BY <1>5, <2>1, <2>2
  <2>4. QED BY <1>6, <2>2, <2>3
<1>10. ToSet(whole) = ToSet(front) \cup ToSet(last)
  BY <1>7, <1>8, <1>9
<1>11. QED BY <1>2, <1>3, <1>5, <1>10 DEF n, front, last, whole, a, b

\* packParts' loop: one resource more, in the last part or in a part of its own.
Grown(parts, e, m) ==
  IF Full(Last(parts), e, m) THEN Append(parts, <<e>>)
  ELSE [parts EXCEPT ![Len(parts)] = Append(@, e)]

\* A part that is allowed, and parts that hold n resources, which are E.
PartIs(p, j, first, m) ==
  Sized(p) /\ (RunningSize(p) < m \/ Len(p) = 1 \/ (j = 1 /\ p = first))

Packed(parts, first, n, E, m) ==
  /\ IsSeq(parts) /\ parts # <<>>
  /\ \A j \in 1..Len(parts) : PartIs(parts[j], j, first, m)
  /\ ToSet(FlattenSeq(parts)) = E /\ Len(FlattenSeq(parts)) = n

\* One resource and no other.
LEMMA OneResource ==
  ASSUME NEW e, e.rd.size \in Nat \ {0}
  PROVE  /\ Sized(<<e>>) /\ IsSeq(<<e>>) /\ Len(<<e>>) = 1 /\ ToSet(<<e>>) = {e}
         /\ Append(<<>>, e) = <<e>>
<1>1. <<e>> \in Seq({e}) /\ Len(<<e>>) = 1 /\ <<e>>[1] = e /\ Append(<<>>, e) = <<e>>
  OBVIOUS
<1>2. IsSeq(<<e>>) /\ DOMAIN <<e>> = 1..1
  BY <1>1, SeqIs
<1>3. \A k \in 1..1 : <<e>>[k] = e
  BY <1>1
<1>4. ToSet(<<e>>) = {e}
  BY <1>1, <1>2, <1>3 DEF ToSet
<1>5. QED BY <1>1, <1>2, <1>3, <1>4 DEF Sized

\* A resource more in a part that is not full.
LEMMA PartGrows ==
  ASSUME NEW p, Sized(p), NEW e, e.rd.size \in Nat \ {0}, NEW m \in Int, ~Full(p, e, m), NEW j, NEW first
  PROVE  PartIs(Append(p, e), j, first, m)
<1>1. /\ RunningSize(p) \in Nat /\ (RunningSize(p) = 0 => p = <<>>)
      /\ Sized(Append(p, e)) /\ RunningSize(Append(p, e)) = RunningSize(p) + e.rd.size
  BY RunningGrows
<1>2. CASE RunningSize(p) = 0
  <2>1. Append(p, e) = <<e>> /\ Len(<<e>>) = 1
    BY <1>1, <1>2, OneResource
  <2>2. QED BY <1>1, <2>1 DEF PartIs
<1>3. CASE RunningSize(p) # 0
  <2>1. ~(RunningSize(p) > 0 /\ RunningSize(p) + e.rd.size >= m)
    BY DEF Full
  <2> DEFINE r == RunningSize(p)
             x == e.rd.size
  <2>2. r \in Nat /\ x \in Nat /\ r # 0 /\ ~(r > 0 /\ r + x >= m)
    BY <1>1, <1>3, <2>1
  <2> HIDE DEF r, x
  <2>3. r + x < m
    BY <2>2
  <2>4. QED BY <1>1, <2>3 DEF r, x, PartIs
<1>4. QED BY <1>2, <1>3

\* One resource more keeps the parts allowed.
LEMMA GrownKeeps ==
  ASSUME NEW parts, NEW first, NEW n \in Nat, NEW E, NEW m \in Int, Packed(parts, first, n, E, m),
         NEW e, e.rd.size \in Nat \ {0}
  PROVE  Packed(Grown(parts, e, m), first, n + 1, E \cup {e}, m)
<1> DEFINE l == Len(parts)
           new == Grown(parts, e, m)
           last == parts[l]
<1>1. /\ IsSeq(parts) /\ l \in Nat \ {0} /\ l \in 1..l
      /\ \A j \in 1..l : PartIs(parts[j], j, first, m) /\ Sized(parts[j]) /\ IsSeq(parts[j])
      /\ ToSet(FlattenSeq(parts)) = E /\ Len(FlattenSeq(parts)) = n /\ parts # <<>>
  BY SeqHas DEF Packed, PartIs, Sized
<1>2. CASE Full(last, e, m)
  <2>1. new = Append(parts, <<e>>)
    BY <1>2 DEF Grown, Last
  <2>2. /\ IsSeq(new) /\ Len(new) = l + 1 /\ (\A k \in 1..l : new[k] = parts[k]) /\ new[l + 1] = <<e>>
    BY <1>1, <2>1, SeqAppend
  <2>3. PartIs(<<e>>, l + 1, first, m) /\ IsSeq(<<e>>) /\ Len(<<e>>) = 1 /\ ToSet(<<e>>) = {e}
    BY OneResource DEF PartIs
  <2>4. \A j \in 1..(l + 1) : j \in 1..l \/ j = l + 1
    BY <1>1
  <2> HIDE DEF new, l
  <2>5. \A j \in 1..(l + 1) : PartIs(new[j], j, first, m) /\ IsSeq(new[j])
    BY <1>1, <2>2, <2>3, <2>4
  <2>6. new # <<>> /\ Len(new) - 1 = l /\ new[Len(new)] = <<e>> /\ \A k \in 1..Len(new) : IsSeq(new[k])
    BY <1>1, <2>2, <2>5, SeqHas
  <2>7. SubSeq(new, 1, l) = parts
    <3>1. new \in Seq(ToSet(new)) /\ l \in 0..Len(new)
      BY <1>1, <2>2 DEF IsSeq
    <3> DEFINE a == SubSeq(new, 1, l)
    <3>2. IsSeq(a)
      BY <1>1, <2>2, SeqFront
    <3>3. Len(a) = l /\ \A k \in 1..l : a[k] = new[k]
      BY <3>1
    <3> HIDE DEF a
    <3>4. \A k \in 1..Len(a) : a[k] = parts[k]
      BY <2>2, <3>3
    <3>5. a = parts
      BY <1>1, <3>2, <3>3, <3>4, SeqSame DEF l
    <3>6. QED BY <3>5 DEF a
  <2>8. /\ Len(FlattenSeq(new)) = Len(FlattenSeq(parts)) + Len(<<e>>)
        /\ ToSet(FlattenSeq(new)) = ToSet(FlattenSeq(parts)) \cup ToSet(<<e>>)
    <3> DEFINE front == FlattenSeq(SubSeq(new, 1, Len(new) - 1))
    <3>1. front = FlattenSeq(parts)
      BY <2>6, <2>7
    <3>2. /\ Len(FlattenSeq(new)) = Len(front) + Len(new[Len(new)])
          /\ ToSet(FlattenSeq(new)) = ToSet(front) \cup ToSet(new[Len(new)])
      BY <2>2, <2>6, FlattenLast
    <3> HIDE DEF front
    <3>3. QED BY <2>6, <3>1, <3>2
  <2>9. QED BY <1>1, <2>2, <2>3, <2>5, <2>6, <2>8 DEF Packed, new
<1>3. CASE ~Full(last, e, m)
  <2> DEFINE grown == Append(last, e)
  <2>0. DOMAIN parts = 1..l
    BY <1>1, SeqHas
  <2>1. new = [parts EXCEPT ![l] = grown]
    BY <1>3 DEF Grown, Last
  <2>2. new = [k \in 1..l |-> new[k]] /\ new[l] = grown /\ \A k \in 1..l : k # l => new[k] = parts[k]
    BY <1>1, <2>0, <2>1
  <2>3. /\ IsSeq(grown) /\ Len(grown) = Len(last) + 1 /\ ToSet(grown) = ToSet(last) \cup {e}
        /\ PartIs(grown, l, first, m)
    BY <1>1, <1>3, SeqAppend, PartGrows
  <2> HIDE DEF new, grown
  <2>4. IsSeq(new) /\ Len(new) = l
    BY <1>1, <2>2, SeqOfFunction
  <2> HIDE DEF l
  <2>5. \A j \in 1..l : PartIs(new[j], j, first, m) /\ IsSeq(new[j])
    BY <1>1, <2>2, <2>3
  <2>6. SubSeq(new, 1, l - 1) = SubSeq(parts, 1, l - 1)
    <3>1. new \in Seq(ToSet(new)) /\ parts \in Seq(ToSet(parts)) /\ l - 1 \in Nat /\ l - 1 <= Len(new) /\ l - 1 <= Len(parts)
      BY <1>1, <2>4 DEF IsSeq, l
    <3> DEFINE a == SubSeq(new, 1, l - 1)
               b == SubSeq(parts, 1, l - 1)
    <3>2. /\ IsSeq(a) /\ IsSeq(b)
      BY <1>1, <2>4, <3>1, SeqFront
    <3>3. Len(a) = l - 1 /\ Len(b) = l - 1 /\ \A k \in 1..(l - 1) : a[k] = new[k] /\ b[k] = parts[k]
      BY <3>1
    <3>4. \A k \in 1..(l - 1) : k \in 1..l /\ k # l
      BY <1>1
    <3> HIDE DEF a, b
    <3>5. \A k \in 1..Len(a) : a[k] = b[k]
      BY <2>2, <3>3, <3>4
    <3>6. a = b
      BY <3>2, <3>3, <3>5, SeqSame
    <3>7. QED BY <3>6 DEF a, b
  <2> DEFINE front == FlattenSeq(SubSeq(parts, 1, l - 1))
  <2>7. /\ IsSeq(front) /\ Len(FlattenSeq(parts)) = Len(front) + Len(last)
        /\ ToSet(FlattenSeq(parts)) = ToSet(front) \cup ToSet(last)
    BY <1>1, FlattenLast DEF l
  <2>a. new # <<>>
    BY <1>1, <2>4, SeqHas
  <2>8. /\ Len(FlattenSeq(new)) = Len(front) + Len(grown)
        /\ ToSet(FlattenSeq(new)) = ToSet(front) \cup ToSet(grown)
    BY <2>2, <2>4, <2>5, <2>6, <2>a, FlattenLast
  <2>9. Len(front) \in Nat /\ Len(last) \in Nat
    BY <1>1, <2>7, SeqHas
  <2> HIDE DEF front, last
  <2>10. Len(FlattenSeq(new)) = n + 1
    BY <1>1, <2>3, <2>7, <2>8, <2>9
  <2>11. ToSet(FlattenSeq(new)) = E \cup {e}
    BY <1>1, <2>3, <2>7, <2>8
  <2>12. QED BY <2>4, <2>5, <2>a, <2>10, <2>11 DEF Packed, new
<1>4. QED BY <1>2, <1>3

\* Parts of which only the first has metadata, and these first.
Fronted(parts, first) ==
  /\ \E rest : IsSeq(rest) /\ parts[1] = first \o rest /\ \A x \in ToSet(rest) : ~IsMeta(x)
  /\ \A j \in 2..Len(parts) : \A x \in ToSet(parts[j]) : ~IsMeta(x)

\* One blob more keeps them so.
LEMMA FrontedKeeps ==
  ASSUME NEW parts, NEW first, IsSeq(first), NEW n, NEW E, NEW m, Packed(parts, first, n, E, m),
         Fronted(parts, first), NEW e, ~IsMeta(e)
  PROVE  Fronted(Grown(parts, e, m), first)
<1> DEFINE l == Len(parts)
           new == Grown(parts, e, m)
           last == parts[l]
<1>1. /\ IsSeq(parts) /\ l \in Nat \ {0} /\ l \in 1..l /\ DOMAIN parts = 1..l
      /\ \A j \in 1..l : IsSeq(parts[j])
  BY SeqHas DEF Packed, PartIs, Sized
<1>2. PICK rest : IsSeq(rest) /\ parts[1] = first \o rest /\ \A x \in ToSet(rest) : ~IsMeta(x)
  BY DEF Fronted
<1>3. \A j \in 2..l : \A x \in ToSet(parts[j]) : ~IsMeta(x)
  BY DEF Fronted
<1>4. CASE Full(last, e, m)
  <2> DEFINE own == <<e>>
  <2>0. \A x \in ToSet(own) : ~IsMeta(x)
    <3>1. ToSet(own) = {e}
      BY DEF ToSet
    <3>2. QED BY <3>1
  <2>1. new = Append(parts, own)
    BY <1>4 DEF Grown, Last
  <2> HIDE DEF new, own
  <2>2. Len(new) = l + 1 /\ (\A k \in 1..l : new[k] = parts[k]) /\ new[l + 1] = own
    BY <1>1, <2>1, SeqAppend
  <2>3. new[1] = parts[1]
    BY <1>1, <2>2
  <2>4. \A j \in 2..Len(new) : \A x \in ToSet(new[j]) : ~IsMeta(x)
    <3>1. TAKE j \in 2..Len(new)
    <3>2. CASE j = l + 1
      BY <2>0, <2>2, <3>2
    <3>3. CASE j # l + 1
      <4>1. j \in 2..l /\ j \in 1..l
        BY <1>1, <2>2, <3>3
      <4>2. QED BY <1>3, <2>2, <4>1
    <3>4. QED BY <3>2, <3>3
  <2>5. QED BY <1>2, <2>3, <2>4 DEF Fronted, new
<1>5. CASE ~Full(last, e, m)
  <2> DEFINE grown == Append(last, e)
             more == Append(rest, e)
  <2>1. new = [parts EXCEPT ![l] = grown]
    BY <1>5 DEF Grown, Last
  <2>2. /\ new[l] = grown /\ \A k \in 1..l : k # l => new[k] = parts[k]
        /\ new = [k \in 1..l |-> new[k]]
    BY <1>1, <2>1
  <2>3. /\ ToSet(grown) = ToSet(last) \cup {e} /\ ToSet(more) = ToSet(rest) \cup {e} /\ IsSeq(more)
    BY <1>1, <1>2, SeqAppend
  <2> HIDE DEF new, last
  <2>4. Len(new) = l
    BY <1>1, <2>2, SeqOfFunction
  <2>5. Append(first \o rest, e) = first \o more
    <3> DEFINE S == ToSet(first) \cup ToSet(rest) \cup {e}
    <3>1. first \in Seq(S) /\ rest \in Seq(S) /\ e \in S
      BY <1>2, SeqMonotonic DEF IsSeq
    <3>2. <<e>> \in Seq(S) /\ first \o rest \in Seq(S)
      <4> HIDE DEF S
      <4>1. QED BY <3>1
    <3> HIDE DEF S
    <3>3. Append(first \o rest, e) = (first \o rest) \o <<e>> /\ more = rest \o <<e>>
      BY <3>1, <3>2, AppendIsConcat
    <3>4. (first \o rest) \o <<e>> = first \o (rest \o <<e>>)
      BY <3>1, <3>2, ConcatAssociative
    <3>5. QED BY <3>3, <3>4
  <2> HIDE DEF grown, more
  <2>6. CASE l = 1
    <3>1. grown = first \o more
      BY <1>2, <2>5, <2>6 DEF grown, last
    <3>2. new[1] = first \o more /\ \A x \in ToSet(more) : ~IsMeta(x)
      BY <1>2, <2>2, <2>3, <2>6, <3>1
    <3>3. \A j \in 2..Len(new) : FALSE
      BY <2>4, <2>6
    <3>4. QED BY <2>3, <3>2, <3>3 DEF Fronted, new
  <2>7. CASE l # 1
    <3>1. new[1] = parts[1] /\ l \in 2..l
      BY <1>1, <2>2, <2>7
    <3>2. \A j \in 2..Len(new) : \A x \in ToSet(new[j]) : ~IsMeta(x)
      <4>1. TAKE j \in 2..Len(new)
      <4>2. CASE j = l
        BY <1>3, <2>2, <2>3, <3>1, <4>2 DEF last
      <4>3. CASE j # l
        <5>1. j \in 2..l /\ j \in 1..l
          BY <1>1, <2>4, <4>3
        <5>2. QED BY <1>3, <2>2, <4>3, <5>1
      <4>4. QED BY <4>2, <4>3
    <3>3. QED BY <1>2, <3>1, <3>2 DEF Fronted, new
  <2>8. QED BY <2>6, <2>7
<1>6. QED BY <1>4, <1>5

\* Parts made of given resources.
Parted(E) == Seq(Seq(E)) \ {<<>>}

\* A resource more leaves them such parts.
LEMMA GrownIn ==
  ASSUME NEW E, NEW parts \in Parted(E), NEW e \in E, NEW m
  PROVE  Grown(parts, e, m) \in Parted(E)
<1> DEFINE l == Len(parts)
           S == Seq(E)
<1>1. parts \in Seq(S) /\ parts # <<>>
  BY DEF Parted
<1>2. <<e>> \in S
  OBVIOUS
<1>3. l \in Nat \ {0} /\ l \in 1..l /\ DOMAIN parts = 1..l /\ parts[l] \in S
  <2> HIDE DEF S
  <2>1. QED BY <1>1
<1>4. Append(parts[l], e) \in S
  BY <1>3
<1>5. Append(parts, <<e>>) \in Seq(S) /\ Append(parts, <<e>>) # <<>>
  <2> HIDE DEF S
  <2>1. /\ Append(parts, <<e>>) \in Seq(S) /\ Len(Append(parts, <<e>>)) = l + 1
    BY <1>1, <1>2
  <2>2. QED BY <1>3, <2>1
<1>6. [parts EXCEPT ![l] = Append(@, e)] \in Seq(S) /\ [parts EXCEPT ![l] = Append(@, e)] # <<>>
  <2> HIDE DEF S
  <2> DEFINE new == [parts EXCEPT ![l] = Append(@, e)]
  <2>1. new \in Seq(S) /\ DOMAIN new = 1..l
    BY <1>1, <1>3, <1>4
  <2> HIDE DEF new
  <2>2. new # <<>>
    <3>1. Len(new) = l
      BY <1>3, <2>1
    <3>2. QED BY <1>3, <2>1, <3>1
  <2>3. QED BY <2>1, <2>2 DEF new
<1>7. QED BY <1>5, <1>6 DEF Grown, Parted

\* packParts: the metadata first, then the resources one after another.
LEMMA PackedAll ==
  ASSUME NEW f, NEW m \in Int, Sized(MetaItems(f)), Sized(BlobItems(f)),
         \A x \in ToSet(BlobItems(f)) : ~IsMeta(x)
  PROVE  /\ Packed(PackParts(f, m), MetaItems(f), Len(MetaItems(f)) + Len(BlobItems(f)),
                   ToSet(MetaItems(f)) \cup ToSet(BlobItems(f)), m)
         /\ Fronted(PackParts(f, m), MetaItems(f))
<1> DEFINE first == MetaItems(f)
           items == BlobItems(f)
           n == Len(items)
           E == ToSet(first) \cup ToSet(items)
           base == <<first>>
           S == Parted(E)
           step == [x \in (1..n) \X S |-> Grown(x[2], items[x[1]], m)]
           Is(g) == g = [k \in 0..n |-> IF k = 0 THEN <<first>>
                                        ELSE LET parts == g[k - 1]
                                             IN  IF Full(Last(parts), items[k], m) THEN Append(parts, <<items[k]>>)
                                                 ELSE [parts EXCEPT ![Len(parts)] = Append(@, items[k])]]
           pack == CHOOSE g : Is(g)
<1>1. PackParts(f, m) = pack[n]
  BY DEF PackParts
<1>2. /\ n \in Nat /\ IsSeq(items) /\ IsSeq(first) /\ Len(first) \in Nat
      /\ \A k \in 1..n : items[k] \in ToSet(items) /\ items[k].rd.size \in Nat \ {0}
      /\ \A x \in ToSet(items) : \E k \in 1..n : items[k] = x
  BY SeqHas DEF Sized
<1>3. Sized(first)
  OBVIOUS
<1>4. base \in S
  <2>1. first \in Seq(ToSet(first)) /\ ToSet(first) \subseteq E
    BY <1>2 DEF IsSeq
  <2> HIDE DEF E
  <2>2. first \in Seq(E)
    BY <2>1, SeqMonotonic
  <2> HIDE DEF first
  <2>3. <<first>> \in Seq(Seq(E)) /\ <<first>> # <<>>
    BY <2>2
  <2>4. QED BY <2>3 DEF Parted
<1>5. step \in [(1..n) \X S -> S] /\ \A k \in 1..n, p \in S : step[<<k, p>>] = Grown(p, items[k], m)
  <2>1. \A x \in (1..n) \X S : x[2] \in S /\ x[1] \in 1..n
    OBVIOUS
  <2>2. \A k \in 1..n : items[k] \in E
    BY <1>2
  <2> HIDE DEF n, items, E
  <2>3. \A x \in (1..n) \X S : Grown(x[2], items[x[1]], m) \in S
    BY <2>1, <2>2, GrownIn
  <2> HIDE DEF S
  <2>4. QED BY <2>3
<1> HIDE DEF step, n, items, S, base
<1>6. PICK g : Steps(g, n, base, step)
  BY <1>2, <1>4, <1>5, StepsDefined, Zenon
<1>7. Stepped(g, n, S, base, step)
  BY <1>2, <1>4, <1>5, <1>6, StepsIn, Zenon
<1>8. Is(g)
  <2>1. \A k \in 0..n : g[k] = IF k = 0 THEN <<first>> ELSE Grown(g[k - 1], items[k], m)
    <3>1. TAKE k \in 0..n
    <3>2. CASE k = 0
      BY <1>7, <3>2 DEF Stepped, base
    <3>3. CASE k # 0
      <4>1. k \in 1..n
        BY <1>2, <3>3
      <4>2. g[k - 1] \in S /\ g[k] = step[<<k, g[k-1]>>]
        BY <1>7, <4>1 DEF Stepped
      <4>3. QED BY <1>5, <3>3, <4>1, <4>2
    <3>4. QED BY <3>2, <3>3
  <2>2. g = [k \in 0..n |-> g[k]]
    BY <1>6 DEF Steps
  <2>3. g = [k \in 0..n |-> IF k = 0 THEN <<first>> ELSE Grown(g[k - 1], items[k], m)]
    BY <2>1, <2>2
  <2> HIDE DEF first
  <2>4. QED BY <2>3 DEF Grown
<1>9. Is(pack)
  <2> HIDE DEF Is
  <2>1. QED BY <1>8, ZenonT(30)
<1>10. pack[0] = <<first>> /\ \A k \in 1..n : pack[k] = Grown(pack[k - 1], items[k], m)
  <2> HIDE DEF pack, first
  <2>1. pack = [k \in 0..n |-> IF k = 0 THEN <<first>> ELSE Grown(pack[k - 1], items[k], m)]
    BY <1>9 DEF Grown
  <2> HIDE DEF Is
  <2>2. 0 \in 0..n /\ \A k \in 1..n : k \in 0..n /\ k # 0
    BY <1>2
  <2>3. QED BY <2>1, <2>2
<1> HIDE DEF pack, Is
<1> DEFINE Among(k) == ToSet(first) \cup {items[j] : j \in 1..k}
           Good(k) == Packed(pack[k], first, Len(first) + k, Among(k), m) /\ Fronted(pack[k], first)
           bad == {k \in 0..n : ~Good(k)}
<1>11. Good(0)
  <2>1. Packed(<<first>>, first, Len(first), ToSet(first), m) /\ Fronted(<<first>>, first)
    <3> DEFINE ss == <<first>>
    <3>1. ss \in Seq({first}) /\ Len(ss) = 1 /\ ss[1] = first /\ ss # <<>>
      OBVIOUS
    <3>a. IsSeq(ss)
      BY <3>1, SeqIs
    <3>2. IsSeq(ss) /\ Len(ss) \in Nat \ {0} /\ \A j \in 1..Len(ss) : j = 1
      BY <3>1, <3>a
    <3>3. FlattenSeq(ss) = first
      <4>1. PICK h : h[1] = ss[1] /\ FlattenSeq(ss) = h[Len(ss)]
        BY <3>2, FlattenSteps
      <4>2. QED BY <3>1, <4>1
    <3> HIDE DEF ss, first
    <3>4. \A j \in 1..Len(ss) : PartIs(ss[j], j, first, m)
      BY <1>3, <3>1, <3>2 DEF PartIs
    <3>5. Fronted(ss, first)
      <4>1. IsSeq(<<>>) /\ ToSet(<<>>) = {} /\ first \o <<>> = first
        <5>1. <<>> \in Seq({}) /\ ToSet(<<>>) = {}
          BY DEF ToSet
        <5>2. first \in Seq(ToSet(first))
          BY <1>2 DEF IsSeq, first
        <5>3. QED BY <5>1, <5>2, SeqIs, ConcatEmptySeq
      <4>2. \A j \in 2..Len(ss) : FALSE
        BY <3>1
      <4>3. QED BY <3>1, <4>1, <4>2 DEF Fronted
    <3>6. QED BY <3>1, <3>2, <3>3, <3>4, <3>5 DEF Packed, ss
  <2>2. Among(0) = ToSet(first) /\ Len(first) + 0 = Len(first)
    BY <1>2
  <2>3. QED BY <1>10, <2>1, <2>2
<1>12. ASSUME NEW k \in 1..n, Good(k - 1) PROVE Good(k)
  <2>1. k - 1 \in Nat /\ Len(first) + (k - 1) \in Nat /\ Len(first) + (k - 1) + 1 = Len(first) + k
    BY <1>2
  <2>2. items[k].rd.size \in Nat \ {0} /\ pack[k] = Grown(pack[k - 1], items[k], m) /\ ~IsMeta(items[k])
    BY <1>2, <1>10 DEF items
  <2>3. Among(k) = Among(k - 1) \cup {items[k]}
    <3>1. \A j \in 1..k : j \in 1..(k - 1) \/ j = k
      BY <2>1
    <3>2. \A j \in 1..(k - 1) : j \in 1..k
      BY <2>1
    <3>3. k \in 1..k
      OBVIOUS
    <3>4. QED BY <3>1, <3>2, <3>3
  <2> DEFINE before == pack[k - 1]
             had == Len(first) + (k - 1)
             A == Among(k - 1)
  <2>4. Packed(before, first, had, A, m) /\ Fronted(before, first) /\ had \in Nat /\ IsSeq(first)
    BY <1>2, <1>12, <2>1
  <2> HIDE DEF before, had, A
  <2>5. Packed(Grown(before, items[k], m), first, had + 1, A \cup {items[k]}, m)
    BY <2>2, <2>4, GrownKeeps
  <2>6. Fronted(Grown(before, items[k], m), first)
    BY <2>2, <2>4, FrontedKeeps
  <2>7. QED BY <2>1, <2>2, <2>3, <2>5, <2>6 DEF before, had, A
<1> HIDE DEF Good
<1>13. bad = {}
  <2>1. SUFFICES ASSUME bad # {} PROVE FALSE
    OBVIOUS
  <2>2. bad \in SUBSET Nat
    BY <1>2
  <2>3. PICK b \in bad : \A j \in bad : b <= j
    BY <2>1, <2>2, LeastExists
  <2>4. b \in 1..n /\ ~Good(b)
    BY <1>2, <1>11, <2>3
  <2>5. b - 1 \in 0..n /\ ~(b <= b - 1)
    BY <1>2, <2>4
  <2>6. Good(b - 1)
    BY <2>3, <2>5
  <2>7. QED BY <1>12, <2>4, <2>6
<1>14. Good(n)
  <2>1. n \in 0..n
    BY <1>2
  <2>2. QED BY <1>13, <2>1
<1>15. Among(n) = E
  BY <1>2
<1>16. QED BY <1>1, <1>14, <1>15 DEF Good, n, items


\* It is not empty.
LEMMA ResourceFilled ==
  ASSUME NEW c, IsSeq(c), c # <<>>
  PROVE  ResourceOf(c) # <<>>
<1>1. CASE Comp = "none"
  BY <1>1 DEF ResourceOf
<1>2. CASE Comp # "none"
  <2> DEFINE z == Zipped(c)
             tbl == ChunkTable(z, Len(c))
             data == FlattenSeq(z)
  <2>1. IsSeq(z) /\ z # <<>> /\ Len(z) \in Nat \ {0} /\ \A i \in 1..Len(z) : IsSeq(z[i]) /\ z[i] # <<>>
    BY ZippedIs, SeqHas
  <2>2. IsSeq(tbl) /\ Len(tbl) \in Nat
    BY <2>1, ZippedIs, TableIs, SeqHas
  <2>3. IsSeq(data) /\ Len(data) \in Nat
    BY <2>1, SeqFlatten, SeqHas
  <2> HIDE DEF z
  <2>4. Len(data) # 0
    <3>1. 1 \in 1..Len(z)
      BY <2>1
    <3> DEFINE from == Len(FlattenSeq(SubSeq(z, 1, 1 - 1)))
    <3>2. IsSeq(z[1]) /\ Len(z[1]) \in Nat /\ Len(z[1]) # 0
      BY <2>1, <3>1, SeqHas
    <3>3. from \in Nat
      <4>1. 1 - 1 \in 0..Len(z)
        BY <2>1
      <4>2. IsSeq(FlattenSeq(SubSeq(z, 1, 1 - 1)))
        BY <2>1, <4>1, FlattenParts
      <4>3. QED BY <4>2, SeqHas
    <3>4. from + Len(z[1]) <= Len(data)
      BY <2>1, <3>1, FlattenParts
    <3> HIDE DEF from, data
    <3>5. QED BY <2>3, <3>2, <3>3, <3>4
  <2> HIDE DEF tbl, data
  <2>5. Len(tbl \o data) = Len(tbl) + Len(data) /\ IsSeq(tbl \o data)
    BY <2>2, <2>3, SeqConcat
  <2>6. tbl \o data # <<>>
    BY <2>2, <2>3, <2>4, <2>5, SeqHas
  <2>7. QED BY <1>2, <2>6 DEF ResourceOf, tbl, data, z
<1>3. QED BY <1>1, <1>2


\* packParts' metadata and blobs: each resource of a closed WIM is one or the
\* other, and none is empty.
LEMMA ItemsAre ==
  ASSUME WriterInv, Closed
  PROVE  /\ Sized(MetaItems(out)) /\ Sized(BlobItems(out))
         /\ Len(MetaItems(out)) + Len(BlobItems(out)) = Len(Table(out))
         /\ ToSet(MetaItems(out)) \cup ToSet(BlobItems(out)) = {e \in ToSet(Table(out)) : e.hash # <<>>}
         /\ \A x \in ToSet(BlobItems(out)) : ~IsMeta(x)
<1> DEFINE t == TableCells
           nb == Len(blobs)
           ni == Len(images)
           n == nb + ni
           metas == {k \in DOMAIN t : IsMeta(t[k])}
           rest == {k \in DOMAIN t : ~IsMeta(t[k]) /\ t[k].hash # <<>>}
           first == MetaItems(out)
           items == BlobItems(out)
<1>1. PlaceInv /\ BlobsInv /\ ImagesInv
  BY DEF WriterInv
<1>2. /\ nb \in Nat /\ ni \in Nat /\ IsSeq(t) /\ Len(t) = n /\ DOMAIN t = 1..n
      /\ DOMAIN blobs = 1..nb /\ DOMAIN images = 1..ni /\ DOMAIN added = 1..ni
      /\ \A i \in 1..nb : t[i] = blobs[i] /\ ~IsMeta(t[i]) /\ t[i].hash # <<>>
      /\ \A i \in 1..ni : /\ t[nb + i].rd = images[i].rd /\ t[nb + i].hash = images[i].hash
                          /\ IsMeta(t[nb + i])
  BY <1>1, TableCellsAre, SeqHas DEF BlobsInv, ImagesInv
<1>3. Table(out) = t
  BY ClosedIs
<1>4. ASSUME NEW i \in 1..nb
      PROVE  t[i].rd.size \in Nat \ {0} /\ t[i].rd.at \in Int
  <2> DEFINE b == blobs[i]
             c == b.hash
  <2>1. IsSeq(c) /\ c # <<>> /\ Holds(out, b.rd, ResourceOf(c))
    BY <1>1, <1>2 DEF BlobsInv, Closed, InFile
  <2>2. b.rd.at \in Int /\ b.rd.size = Len(ResourceOf(c))
    BY <2>1 DEF Holds
  <2>3. IsSeq(ResourceOf(c)) /\ ResourceOf(c) # <<>>
    BY <2>1, ResourceIs, ResourceFilled
  <2>4. Len(ResourceOf(c)) \in Nat \ {0}
    BY <2>3, SeqHas
  <2>5. QED BY <1>2, <2>2, <2>4
<1>5. ASSUME NEW i \in 1..ni
      PROVE  t[nb + i].rd.size \in Nat \ {0} /\ t[nb + i].rd.at \in Int /\ t[nb + i].hash # <<>>
  <2> DEFINE m == BuildMetadata(added[i])
  <2>1. added[i] \in Trees /\ Holds(out, images[i].rd, m) /\ images[i].hash = m
    BY <1>1, <1>2 DEF ImagesInv, Closed, InFile
  <2>2. IsSeq(m) /\ ParseImageMetadata(m) = Got(added[i])
    BY <2>1, TreesAssumption
  <2>3. m # <<>>
    <3>1. ParseImageMetadata(<<>>) = Failed
      BY DEF ParseImageMetadata
    <3>2. Failed # Got(added[i])
      BY DEF Failed, Got
    <3>3. QED BY <2>2, <3>1, <3>2
  <2>4. Len(m) \in Nat \ {0}
    BY <2>2, <2>3, SeqHas
  <2>5. images[i].rd.at \in Int /\ images[i].rd.size = Len(m)
    BY <2>1 DEF Holds
  <2>6. QED BY <1>2, <2>1, <2>3, <2>4, <2>5
<1> HIDE DEF t, nb, ni, first, items
<1>6. \A k \in 1..n : /\ t[k].rd.size \in Nat \ {0} /\ t[k].rd.at \in Int /\ t[k].hash # <<>>
                      /\ IsMeta(t[k]) <=> ~(k \in 1..nb)
  <2>1. TAKE k \in 1..n
  <2>2. CASE k \in 1..nb
    BY <1>2, <1>4, <2>2
  <2>3. CASE k \notin 1..nb
    <3> DEFINE i == k - nb
    <3>1. i \in 1..ni /\ nb + i = k
      BY <1>2, <2>3
    <3> HIDE DEF i
    <3>2. QED BY <1>2, <1>5, <2>3, <3>1
  <2>4. QED BY <2>2, <2>3
<1>7. /\ \A k \in 1..n : k \in metas <=> ~(k \in 1..nb)
      /\ \A k \in 1..n : k \in rest <=> k \in 1..nb
      /\ metas \in SUBSET (1..n) /\ rest \in SUBSET (1..n) /\ \A k \in metas \cup rest : k \in Int
  <2>1. n \in Nat
    BY <1>2
  <2>2. \A k \in 1..n : k \in DOMAIN t
    BY <1>2
  <2> HIDE DEF n
  <2>3. metas \in SUBSET (1..n) /\ rest \in SUBSET (1..n)
    BY <1>2
  <2>4. \A k \in 1..n : (k \in metas <=> IsMeta(t[k])) /\ (k \in rest <=> ~IsMeta(t[k]))
    BY <1>6, <2>2
  <2> HIDE DEF metas, rest
  <2>5. QED BY <1>6, <2>1, <2>3, <2>4
<1> DEFINE BeforeMeta == [i \in metas |-> {j \in metas : j < i}]
           BeforeRest == [i \in rest |-> {j \in rest : \/ t[j].rd.at < t[i].rd.at
                                                       \/ t[j].rd.at = t[i].rd.at /\ j < i}]
<1>8. first = Picked(t, metas, BeforeMeta)
  BY <1>3 DEF Picked, first, MetaItems, Select, Arranged
<1>9. items = Picked(t, rest, BeforeRest)
  BY <1>3 DEF Picked, items, BlobItems, Arranged
<1> HIDE DEF metas, rest
<1>10. IsOrder(BeforeMeta, metas)
  <2>1. /\ BeforeMeta \in [metas -> SUBSET metas]
        /\ \A i, j \in metas : j \in BeforeMeta[i] <=> j < i
    OBVIOUS
  <2>2. \A i \in metas : i \in Int
    BY <1>7
  <2> HIDE DEF BeforeMeta
  <2>3. QED BY <2>1, <2>2 DEF IsOrder
<1>11. IsOrder(BeforeRest, rest)
  <2> DEFINE at(k) == t[k].rd.at
  <2>1. /\ BeforeRest \in [rest -> SUBSET rest]
        /\ \A i, j \in rest : j \in BeforeRest[i] <=> at(j) < at(i) \/ (at(j) = at(i) /\ j < i)
    OBVIOUS
  <2>2. \A i \in rest : i \in Int /\ at(i) \in Int
    BY <1>6, <1>7
  <2> HIDE DEF BeforeRest, at
  <2>3. \A i \in rest : i \notin BeforeRest[i]
    BY <2>1, <2>2
  <2>4. \A i, j, k \in rest : i \in BeforeRest[j] /\ j \in BeforeRest[k] => i \in BeforeRest[k]
    BY <2>1, <2>2
  <2>5. \A i, j \in rest : i = j \/ i \in BeforeRest[j] \/ j \in BeforeRest[i]
    BY <2>1, <2>2
  <2>6. QED BY <2>1, <2>3, <2>4, <2>5 DEF IsOrder
<1> HIDE DEF BeforeMeta, BeforeRest
<1>12. n \in Nat /\ n = Len(t)
  BY <1>2
<1> HIDE DEF n
<1>13. /\ IsSeq(first) /\ Len(first) = Cardinality(metas)
       /\ \A x : x \in ToSet(first) <=> \E i \in metas : t[i] = x
  <2>1. IsSeq(t) /\ metas \in SUBSET (1..n)
    BY <1>2, <1>7
  <2>2. /\ IsSeq(Picked(t, metas, BeforeMeta)) /\ Len(Picked(t, metas, BeforeMeta)) = Cardinality(metas)
        /\ \A x : x \in ToSet(Picked(t, metas, BeforeMeta)) <=> \E i \in metas : t[i] = x
    BY <1>10, <1>12, <2>1, PickedIs
  <2>3. QED BY <1>8, <2>2
<1>14. /\ IsSeq(items) /\ Len(items) = Cardinality(rest)
       /\ \A x : x \in ToSet(items) <=> \E i \in rest : t[i] = x
  <2>1. IsSeq(t) /\ rest \in SUBSET (1..n)
    BY <1>2, <1>7
  <2>2. /\ IsSeq(Picked(t, rest, BeforeRest)) /\ Len(Picked(t, rest, BeforeRest)) = Cardinality(rest)
        /\ \A x : x \in ToSet(Picked(t, rest, BeforeRest)) <=> \E i \in rest : t[i] = x
    BY <1>11, <1>12, <2>1, PickedIs
  <2>3. QED BY <1>9, <2>2
<1>15. Sized(first) /\ Sized(items)
  <2>1. \A x \in ToSet(first) \cup ToSet(items) : x.rd.size \in Nat \ {0}
    BY <1>6, <1>7, <1>13, <1>14
  <2>2. QED BY <1>13, <1>14, <2>1, SeqHas DEF Sized
<1>16. Len(first) + Len(items) = n
  <2>1. IsFiniteSet(metas) /\ IsFiniteSet(rest) /\ Cardinality(metas) \in Nat /\ Cardinality(rest) \in Nat
    BY <1>7, <1>10, <1>11, <1>12, RanksBy
  <2>2. metas \cup rest = 1..n /\ metas \cap rest = {}
    BY <1>7
  <2>3. Cardinality(1..n) = n /\ Cardinality({}) = 0
    <3>1. 1 \in Int /\ n \in Int /\ (1 > n => n = 0)
      BY <1>12
    <3>2. Cardinality(1..n) = IF 1 > n THEN 0 ELSE n - 1 + 1
      BY <3>1, FS_Interval
    <3>3. QED BY <1>12, <3>1, <3>2, FS_EmptySet
  <2>4. Cardinality(metas \cup rest) = Cardinality(metas) + Cardinality(rest) - Cardinality(metas \cap rest)
    BY <2>1, FS_Union
  <2> DEFINE a == Cardinality(metas)
             b == Cardinality(rest)
  <2>5. n = a + b - 0
    BY <2>2, <2>3, <2>4
  <2>6. a \in Nat /\ b \in Nat /\ Len(first) = a /\ Len(items) = b
    BY <1>13, <1>14, <2>1
  <2> HIDE DEF a, b
  <2>7. QED BY <1>12, <2>5, <2>6
<1>17. \A x : x \in ToSet(first) \cup ToSet(items) <=> \E i \in 1..n : t[i] = x
  BY <1>7, <1>13, <1>14
<1>18. \A x : x \in ToSet(t) <=> \E i \in 1..n : t[i] = x
  <2>1. \A k \in 1..n : t[k] \in ToSet(t)
    BY <1>2, <1>12, SeqHas
  <2>2. \A x \in ToSet(t) : \E i \in 1..n : t[i] = x
    BY <1>2, <1>12, SeqHas
  <2>3. QED BY <2>1, <2>2
<1>19. \A x \in ToSet(t) : x.hash # <<>>
  BY <1>6, <1>18
<1>20. ToSet(first) \cup ToSet(items) = {e \in ToSet(t) : e.hash # <<>>}
  BY <1>17, <1>18, <1>19
<1>21. \A x \in ToSet(items) : ~IsMeta(x)
  <2>1. TAKE x \in ToSet(items)
  <2>2. PICK i \in rest : t[i] = x
    BY <1>14
  <2>3. i \in 1..n /\ i \in 1..nb
    BY <1>7, <2>2
  <2>4. QED BY <1>6, <2>2, <2>3
<1>22. QED BY <1>3, <1>12, <1>15, <1>16, <1>20, <1>21 DEF first, items

\* The parts that packParts makes of a closed WIM.
LEMMA InvPacked ==
  ASSUME MediaInv
  PROVE  PartsPacked
<1>1. SUFFICES ASSUME pc = "splitting"
      PROVE  LET parts == PackParts(out, max)
             IN  /\ \A k \in DOMAIN parts :
                      \/ RunningSize(parts[k]) < max
                      \/ Len(parts[k]) = 1
                      \/ k = 1 /\ parts[k] = MetaItems(out)
                 /\ ToSet(FlattenSeq(parts)) = {e \in ToSet(Table(out)) : e.hash # <<>>}
                 /\ Len(FlattenSeq(parts)) = Len(Table(out))
  BY DEF PartsPacked
<1> DEFINE parts == PackParts(out, max)
           first == MetaItems(out)
           items == BlobItems(out)
<1>2. WriterInv /\ Closed /\ max \in Int
  BY <1>1 DEF MediaInv, WriterInv, PlaceInv, PartsInv, Closed, Finished
<1>3. /\ Sized(first) /\ Sized(items) /\ Len(first) + Len(items) = Len(Table(out))
      /\ ToSet(first) \cup ToSet(items) = {e \in ToSet(Table(out)) : e.hash # <<>>}
      /\ \A x \in ToSet(items) : ~IsMeta(x)
  BY <1>2, ItemsAre
<1>4. Packed(parts, first, Len(first) + Len(items), ToSet(first) \cup ToSet(items), max)
  BY <1>2, <1>3, PackedAll
<1> HIDE DEF parts, first, items
<1>5. /\ IsSeq(parts) /\ \A j \in 1..Len(parts) : PartIs(parts[j], j, first, max)
      /\ ToSet(FlattenSeq(parts)) = {e \in ToSet(Table(out)) : e.hash # <<>>}
      /\ Len(FlattenSeq(parts)) = Len(Table(out))
  BY <1>3, <1>4 DEF Packed
<1>6. \A k \in DOMAIN parts : RunningSize(parts[k]) < max \/ Len(parts[k]) = 1 \/ (k = 1 /\ parts[k] = first)
  <2>1. DOMAIN parts = 1..Len(parts)
    BY <1>5, SeqHas
  <2>2. \A k \in 1..Len(parts) : RunningSize(parts[k]) < max \/ Len(parts[k]) = 1 \/ (k = 1 /\ parts[k] = first)
    BY <1>5 DEF PartIs
  <2>3. QED BY <2>1, <2>2
<1>7. QED BY <1>5, <1>6 DEF parts, first

\* split.go: whatever a closed WIM holds, and whatever the part size, each of its
\* resources is in one part, and a part with more than one stays below the size,
\* but for the first, which has all the metadata.
THEOREM PartsPackedTheorem == Reopen => (Spec => []PartsPacked)
<1>1. MediaInv => PartsPacked
  BY InvPacked
<1>2. QED BY <1>1, MediaInvariant, PTL

--------------------------------------------------------------------------------
(* Copying from a solid source. *)

\* A content of the source that is in a solid resource, and its first chunk.
InSolid(h) == h \in DOMAIN Loaded.blobs /\ Loaded.blobs[h].solid # NoSolid
First(h)   == Loaded.blobs[h].at \div Loaded.blobs[h].solid.chunk
Finish(h)  == Loaded.blobs[h].at + Loaded.blobs[h].size

\* The contents still to be read.
Unread == IF pc = "zipping copy" THEN Tail(job.todo) ELSE job.todo

\* Contents of one solid resource are one behind the other.
InTurn(todo) ==
  \A k, m \in 1..Len(todo) :
    k < m /\ InSolid(todo[k]) /\ InSolid(todo[m])
      /\ Loaded.blobs[todo[k]].solid.at = Loaded.blobs[todo[m]].solid.at =>
    Finish(todo[k]) <= Loaded.blobs[todo[m]].at

\* No chunk has been decompressed that comes after what is still to be read, and
\* the one with which that starts is the one the resource has kept.
Ahead(todo, u) ==
  \A k \in DOMAIN u : \A h \in ToSet(todo) :
    InSolid(h) /\ k[1] = Loaded.blobs[h].solid.at => k[2] <= First(h) /\ (k[2] = First(h) => u[k].last)

Copying == pc \in {"copying", "zipping copy"}

OnceInv ==
  /\ ~Copying => unpacked = <<>>
  /\ \A k \in DOMAIN unpacked : unpacked[k].times = 1 /\ k[2] \in Int
  /\ Copying => InTurn(Unread) /\ Ahead(Unread, unpacked)

\* Contents of the source: sizes, and where they are.
LEMMA SolidIs ==
  ASSUME NEW h, InSolid(h)
  PROVE  LET b == Loaded.blobs[h] IN
         /\ b.at \in Nat /\ b.size \in Nat \ {0} /\ b.solid.chunk \in Nat \ {0}
         /\ First(h) \in Int /\ Finish(h) \in Int
         /\ First(h) <= (Finish(h) - 1) \div b.solid.chunk /\ (Finish(h) - 1) \div b.solid.chunk \in Int
<1> DEFINE a == Loaded.blobs[h].at
           n == Loaded.blobs[h].size
           c == Loaded.blobs[h].solid.chunk
<1>1. a \in Nat /\ n \in Nat \ {0} /\ c \in Nat \ {0}
  BY SourceAssumption, SolidAssumption DEF InSolid
<1>2. First(h) = a \div c /\ Finish(h) = a + n
  BY DEF First, Finish
<1> HIDE DEF a, n, c
<1>3. a + n - 1 \in Nat /\ a <= a + n - 1
  BY <1>1
<1>4. a \div c \in Nat /\ (a + n - 1) \div c \in Nat /\ a \div c <= (a + n - 1) \div c
  BY <1>1, <1>3, DivGrows
<1>5. QED BY <1>1, <1>2, <1>4 DEF a, n, c

\* What is read next of a solid resource unpacks no chunk again.
LEMMA UnpackOnce ==
  ASSUME NEW todo, IsSeq(todo), todo # <<>>, InTurn(todo), Ahead(todo, unpacked), src = Loaded,
         \A k \in DOMAIN unpacked : unpacked[k].times = 1 /\ k[2] \in Int,
         Head(todo) \in DOMAIN Loaded.blobs
  PROVE  LET u == Unpack(Head(todo)) IN
         /\ \A k \in DOMAIN u : u[k].times = 1 /\ k[2] \in Int
         /\ InTurn(Tail(todo)) /\ Ahead(Tail(todo), u)
<1> DEFINE h == Head(todo)
           loc == Loaded.blobs[h]
           s == loc.solid
           lo == loc.at \div s.chunk
           hi == (loc.at + loc.size - 1) \div s.chunk
           keys == IF s = NoSolid THEN {} ELSE {<<s.at, k>> : k \in lo..hi}
           News == {k \in keys : ~(k \in DOMAIN unpacked /\ unpacked[k].last /\ k[2] = lo)}
           touched == {k[1] : k \in keys}
           times(k) == (IF k \in DOMAIN unpacked THEN unpacked[k].times ELSE 0)
                         + (IF k \in News THEN 1 ELSE 0)
           last(k) == IF k[1] \in touched
                      THEN k[2] = Max({q[2] : q \in {x \in keys : x[1] = k[1]}})
                      ELSE unpacked[k].last
           u == Unpack(h)
<1>1. u = [k \in DOMAIN unpacked \cup keys |-> [times |-> times(k), last |-> last(k)]]
  BY DEF Unpack, ChunksOf
<1>2. /\ todo \in Seq(ToSet(todo)) /\ h = todo[1] /\ h \in ToSet(todo) /\ 1 \in 1..Len(todo) /\ Len(todo) \in Nat
      /\ Tail(todo) \in Seq(ToSet(todo)) /\ Len(Tail(todo)) = Len(todo) - 1
      /\ \A k \in 1..(Len(todo) - 1) : Tail(todo)[k] = todo[k + 1]
  <2>1. todo \in Seq(ToSet(todo)) /\ Len(todo) \in Nat /\ Len(todo) # 0
    BY SeqHas DEF IsSeq
  <2>2. 1 \in 1..Len(todo) /\ h = todo[1]
    BY <2>1
  <2>3. h \in ToSet(todo)
    BY <2>2, SeqHas
  <2>4. /\ Tail(todo) \in Seq(ToSet(todo)) /\ Len(Tail(todo)) = Len(todo) - 1
        /\ \A k \in 1..Len(Tail(todo)) : Tail(todo)[k] = todo[k + 1]
    BY <2>1, HeadTailProperties
  <2>5. QED BY <2>1, <2>2, <2>3, <2>4
<1>3. IsSeq(Tail(todo)) /\ \A g \in ToSet(Tail(todo)) : \E m \in 2..Len(todo) : todo[m] = g /\ g \in ToSet(todo)
  <2>1. IsSeq(Tail(todo))
    BY <1>2, SeqIs
  <2>2. ASSUME NEW g \in ToSet(Tail(todo))
        PROVE  \E m \in 2..Len(todo) : todo[m] = g /\ g \in ToSet(todo)
    <3>a. PICK k \in 1..Len(Tail(todo)) : Tail(todo)[k] = g
      BY <2>1, SeqHas
    <3>1. k \in 1..(Len(todo) - 1) /\ Tail(todo)[k] = g
      BY <1>2, <3>a
    <3>2. k + 1 \in 2..Len(todo) /\ k + 1 \in 1..Len(todo) /\ todo[k + 1] = g
      BY <1>2, <3>1
    <3>3. todo[k + 1] \in ToSet(todo)
      BY <3>2, SeqHas
    <3>4. QED BY <3>2, <3>3
  <2>3. QED BY <2>1, <2>2
<1>4. InTurn(Tail(todo))
  <2> DEFINE t == Tail(todo)
             n == Len(todo)
  <2>1. n \in Nat /\ Len(t) = n - 1 /\ \A k \in 1..(n - 1) : t[k] = todo[k + 1]
    BY <1>2
  <2>2. \A k \in 1..(n - 1) : k + 1 \in 1..n
    BY <2>1
  <2>3. \A k, m \in 1..(n - 1) : k < m => k + 1 < m + 1
    BY <2>1
  <2> HIDE DEF t, n
  <2>4. \A k, m \in 1..n : k < m /\ InSolid(todo[k]) /\ InSolid(todo[m])
                             /\ Loaded.blobs[todo[k]].solid.at = Loaded.blobs[todo[m]].solid.at =>
                           Finish(todo[k]) <= Loaded.blobs[todo[m]].at
    BY DEF InTurn, n
  <2>5. \A k, m \in 1..(n - 1) : k < m /\ InSolid(t[k]) /\ InSolid(t[m])
                             /\ Loaded.blobs[t[k]].solid.at = Loaded.blobs[t[m]].solid.at =>
                           Finish(t[k]) <= Loaded.blobs[t[m]].at
    BY <2>1, <2>2, <2>3, <2>4
  <2>6. QED BY <2>1, <2>5 DEF InTurn, t
<1>5. \A k \in DOMAIN unpacked : unpacked[k].times = 1 /\ k[2] \in Int
  OBVIOUS
<1>6. \A k \in DOMAIN unpacked : \A g \in ToSet(todo) :
        InSolid(g) /\ k[1] = Loaded.blobs[g].solid.at => k[2] <= First(g) /\ (k[2] = First(g) => unpacked[k].last)
  BY DEF Ahead
<1>7. CASE s = NoSolid
  <2>1. keys = {} /\ News = {} /\ touched = {}
    BY <1>7
  <2>2. DOMAIN u = DOMAIN unpacked /\ \A k \in DOMAIN unpacked : u[k].times = 1 /\ u[k].last = unpacked[k].last
    <3>1. DOMAIN unpacked \cup keys = DOMAIN unpacked
      BY <2>1
    <3>2. \A k \in DOMAIN unpacked : times(k) = 1 /\ last(k) = unpacked[k].last
      <4> HIDE DEF keys, News, touched
      <4>1. TAKE k \in DOMAIN unpacked
      <4>2. unpacked[k].times = 1 /\ k \notin News /\ k[1] \notin touched
        BY <1>5, <2>1
      <4>3. QED BY <4>2
    <3> HIDE DEF times, last, keys, u
    <3>3. u = [k \in DOMAIN unpacked |-> [times |-> times(k), last |-> last(k)]]
      BY <1>1, <3>1
    <3>4. QED BY <3>2, <3>3
  <2> HIDE DEF u
  <2>3. Ahead(Tail(todo), u)
    BY <1>3, <1>6, <2>2 DEF Ahead
  <2>4. QED BY <1>4, <1>5, <2>2, <2>3 DEF u
<1>8. CASE s # NoSolid
  <2>1. InSolid(h) /\ keys = {<<s.at, k>> : k \in lo..hi}
    BY <1>8 DEF InSolid
  <2>2. lo \in Int /\ hi \in Int /\ lo <= hi /\ First(h) = lo
    <3>1. /\ First(h) \in Int /\ (Finish(h) - 1) \div s.chunk \in Int
          /\ First(h) <= (Finish(h) - 1) \div s.chunk
      BY <2>1, SolidIs
    <3>2. First(h) = lo
      BY DEF First
    <3>3. Finish(h) - 1 = loc.at + loc.size - 1
      <4>1. loc.at \in Nat /\ loc.size \in Nat \ {0}
        BY <2>1, SolidIs
      <4>2. QED BY <4>1 DEF Finish
    <3>4. (Finish(h) - 1) \div s.chunk = hi
      BY <3>3
    <3>5. QED BY <3>1, <3>2, <3>4
  <2> HIDE DEF keys, lo, hi
  <2>3. \A k \in keys : k[1] = s.at /\ k[2] \in lo..hi /\ k = <<s.at, k[2]>>
    BY <2>1
  <2>4. <<s.at, hi>> \in keys /\ touched = {s.at}
    <3>1. <<s.at, hi>> \in keys
      BY <2>1, <2>2
    <3>2. QED BY <2>3, <3>1
  <2>5. Max({q[2] : q \in {x \in keys : x[1] = s.at}}) = hi
    <3> DEFINE T == {q[2] : q \in {x \in keys : x[1] = s.at}}
    <3>1. T \subseteq lo..hi /\ hi \in T
      BY <2>3, <2>4
    <3> HIDE DEF T
    <3>2. hi \in T /\ \A y \in T : y \in Int /\ hi >= y
      BY <2>2, <3>1
    <3>3. Max(T) \in T /\ \A y \in T : Max(T) >= y
      BY <3>2 DEF Max
    <3>4. Max(T) = hi
      BY <3>2, <3>3
    <3>5. QED BY <3>4 DEF T
  <2>6. \A k \in DOMAIN unpacked : k[1] = s.at => k[2] <= lo /\ (k[2] = lo => unpacked[k].last)
    BY <1>2, <1>6, <2>1, <2>2
  <2>7. \A k \in DOMAIN unpacked \cup keys : times(k) = 1 /\ k[2] \in Int
    <3>1. TAKE k \in DOMAIN unpacked \cup keys
    <3>2. CASE k \notin keys
      BY <1>5, <3>2
    <3>3. CASE k \in keys /\ k \notin DOMAIN unpacked
      BY <2>2, <2>3, <3>3
    <3>4. CASE k \in keys /\ k \in DOMAIN unpacked
      <4>1. k[1] = s.at /\ k[2] \in lo..hi /\ k[2] <= lo
        BY <2>3, <2>6, <3>4
      <4>2. k[2] = lo /\ unpacked[k].last
        BY <2>2, <2>6, <3>4, <4>1
      <4>3. k \notin News
        BY <3>4, <4>2
      <4>4. QED BY <1>5, <3>4, <4>3
    <3>5. QED BY <3>2, <3>3, <3>4
  <2>8. \A k \in DOMAIN unpacked \cup keys : last(k) = IF k[1] = s.at THEN k[2] = hi ELSE unpacked[k].last
    BY <2>4, <2>5
  <2> HIDE DEF times, last, u, News, touched
  <2>9. DOMAIN u = DOMAIN unpacked \cup keys /\ \A k \in DOMAIN u :
          u[k].times = 1 /\ k[2] \in Int /\ u[k].last = IF k[1] = s.at THEN k[2] = hi ELSE unpacked[k].last
    BY <1>1, <2>7, <2>8
  <2>10. ASSUME NEW k \in DOMAIN u, NEW g \in ToSet(Tail(todo)), InSolid(g), k[1] = Loaded.blobs[g].solid.at
         PROVE  k[2] <= First(g) /\ (k[2] = First(g) => u[k].last)
    <3>1. PICK m \in 2..Len(todo) : todo[m] = g /\ g \in ToSet(todo)
      BY <1>3
    <3>2. CASE k[1] # s.at
      <4>1. k \in DOMAIN unpacked /\ u[k].last = unpacked[k].last
        BY <2>3, <2>9, <3>2
      <4>2. QED BY <1>6, <2>10, <3>1, <4>1
    <3>3. CASE k[1] = s.at
      <4>1. m \in 1..Len(todo) /\ 1 < m
        BY <1>2
      <4>2. Finish(h) <= Loaded.blobs[g].at
        BY <1>2, <2>1, <2>10, <3>1, <3>3, <4>1 DEF InTurn
      <4>3. Loaded.blobs[g].solid = s
        BY <2>1, <2>10, <3>3, SolidAssumption DEF InSolid
      <4>4. hi <= First(g) /\ First(g) \in Int
        <5> DEFINE a == Loaded.blobs[g].at
                   e == Finish(h)
                   c == s.chunk
        <5>1. a \in Nat /\ c \in Nat \ {0} /\ First(g) = a \div c
          BY <2>10, <4>3, SolidIs DEF First
        <5>2. e \in Nat \ {0} /\ hi = (e - 1) \div c
          <6> DEFINE x == loc.at
                     y == loc.size
          <6>1. x \in Nat /\ y \in Nat \ {0}
            BY <2>1, SolidIs
          <6>2. e = x + y
            BY DEF Finish
          <6>3. hi = (x + y - 1) \div c
            BY DEF hi
          <6> HIDE DEF x, y, e
          <6>4. e \in Nat \ {0} /\ e - 1 = x + y - 1
            BY <6>1, <6>2
          <6>5. QED BY <6>3, <6>4 DEF x, y, e
        <5>3. e <= a
          BY <4>2
        <5> HIDE DEF a, e, c
        <5>4. e - 1 \in Nat /\ e - 1 <= a
          BY <5>1, <5>2, <5>3
        <5>5. (e - 1) \div c <= a \div c /\ a \div c \in Nat
          BY <5>1, <5>4, DivGrows
        <5>6. QED BY <5>1, <5>2, <5>5
      <4>5. k[2] \in Int /\ k[2] <= hi
        <5>1. k \in keys => k[2] \in lo..hi
          BY <2>3
        <5>2. k \in DOMAIN unpacked => k[2] <= lo
          BY <2>6, <3>3
        <5>3. QED BY <2>2, <2>9, <5>1, <5>2
      <4>6. k[2] = First(g) => k[2] = hi
        BY <2>2, <4>4, <4>5
      <4>7. k[2] <= First(g)
        BY <2>2, <4>4, <4>5
      <4>8. u[k].last = (k[2] = hi)
        BY <2>9, <3>3
      <4>9. QED BY <4>6, <4>7, <4>8
    <3>4. QED BY <3>2, <3>3
  <2>11. Ahead(Tail(todo), u)
    BY <2>10 DEF Ahead
  <2>12. QED BY <1>4, <2>9, <2>11 DEF u
<1>9. QED BY <1>7, <1>8

\* What is skipped or written leaves the rest in turn.
LEMMA TailInTurn ==
  ASSUME NEW todo, IsSeq(todo), todo # <<>>, InTurn(todo), NEW u, Ahead(todo, u)
  PROVE  InTurn(Tail(todo)) /\ Ahead(Tail(todo), u)
<1> DEFINE t == Tail(todo)
           n == Len(todo)
<1>1. /\ n \in Nat /\ Len(t) = n - 1 /\ \A k \in 1..(n - 1) : t[k] = todo[k + 1]
  <2>1. todo \in Seq(ToSet(todo)) /\ n \in Nat
    BY SeqHas DEF IsSeq
  <2>2. Len(t) = n - 1 /\ \A k \in 1..Len(t) : t[k] = todo[k + 1]
    BY <2>1, HeadTailProperties
  <2>3. QED BY <2>1, <2>2
<1>2. \A g \in ToSet(t) : g \in ToSet(todo)
  BY SeqTail
<1>3. Ahead(t, u)
  BY <1>2 DEF Ahead
<1>4. InTurn(t)
  <2>2. \A k \in 1..(n - 1) : k + 1 \in 1..n
    BY <1>1
  <2>3. \A k, m \in 1..(n - 1) : k < m => k + 1 < m + 1
    BY <1>1
  <2> HIDE DEF t, n
  <2>4. \A k, m \in 1..n : k < m /\ InSolid(todo[k]) /\ InSolid(todo[m])
                             /\ Loaded.blobs[todo[k]].solid.at = Loaded.blobs[todo[m]].solid.at =>
                           Finish(todo[k]) <= Loaded.blobs[todo[m]].at
    BY DEF InTurn, n
  <2>5. \A k, m \in 1..(n - 1) : k < m /\ InSolid(t[k]) /\ InSolid(t[m])
                             /\ Loaded.blobs[t[k]].solid.at = Loaded.blobs[t[m]].solid.at =>
                           Finish(t[k]) <= Loaded.blobs[t[m]].at
    BY <1>1, <2>2, <2>3, <2>4
  <2>6. QED BY <1>1, <2>5 DEF InTurn, t
<1>5. QED BY <1>3, <1>4

\* The plan: what is in one solid resource is taken in its order.
LEMMA PlanInTurn ==
  ASSUME NEW hashes, IsSeq(hashes)
  PROVE  InTurn(SortBlobsBySource(Loaded, Pending(hashes, seen)))
<1> DEFINE p == Pending(hashes, seen)
           s == SortBlobsBySource(Loaded, p)
<1>1. IsSeq(p) /\ Distinct(p)
  BY PendingIs
<1>2. \A h \in DOMAIN Loaded.blobs : Loaded.blobs[h].solid # NoSolid => Loaded.blobs[h].at \in Nat
  BY SourceAssumption
<1> HIDE DEF p
<1>3. BySource(s, Loaded)
  BY <1>1, <1>2, SortedIs
<1> HIDE DEF s
<1>4. ASSUME NEW k \in 1..Len(s), NEW m \in 1..Len(s), k < m, InSolid(s[k]), InSolid(s[m]),
             Loaded.blobs[s[k]].solid.at = Loaded.blobs[s[m]].solid.at
      PROVE  Finish(s[k]) <= Loaded.blobs[s[m]].at
  <2>1. Loaded.blobs[s[k]].solid = Loaded.blobs[s[m]].solid
    BY <1>4, SolidAssumption DEF InSolid
  <2>2. SolidOf(Loaded, s[k]) # NoSolid /\ SolidOf(Loaded, s[k]) = SolidOf(Loaded, s[m])
    BY <1>4, <2>1 DEF InSolid, SolidOf
  <2>3. s[k] # s[m] /\ Loaded.blobs[s[k]].at <= Loaded.blobs[s[m]].at
    BY <1>3, <1>4, <2>2 DEF BySource
  <2>4. QED BY <1>4, <2>3, SolidAssumption DEF InSolid, Finish
<1>5. QED BY <1>4 DEF InTurn, s, p

\* Nothing is unpacked but while copying.
LEMMA OnceKept ==
  ASSUME OnceInv, UNCHANGED <<job, unpacked>>, pc' = pc \/ (~Copying /\ ~Copying')
  PROVE  OnceInv'
<1>1. CASE pc' = pc
  BY <1>1 DEF OnceInv, Copying, Unread
<1>2. CASE ~Copying /\ ~Copying'
  BY <1>2 DEF OnceInv
<1>3. QED BY <1>1, <1>2

\* An image is finished or given up.
LEMMA OnceLeft ==
  ASSUME Leave
  PROVE  OnceInv'
<1>1. unpacked' = <<>> /\ ~Copying'
  BY DEF Leave, Copying
<1>2. DOMAIN <<>> = {}
  OBVIOUS
<1>3. QED BY <1>1, <1>2 DEF OnceInv

\* Every step keeps to the plan.
LEMMA OnceStep ==
  ASSUME Reopen, MediaInv, OnceInv, [Next]_vars
  PROVE  OnceInv'
<1>0. WriterInv /\ PlaceInv /\ JobInv /\ PoolInv
  BY DEF MediaInv, WriterInv
<1>a. DOMAIN <<>> = {}
  OBVIOUS
<1>1. ASSUME NEW tree \in Dirs, AddImage(tree) PROVE OnceInv'
  <2>1. ~Copying /\ ~Copying' /\ unpacked' = unpacked
    BY <1>1 DEF AddImage, Copying
  <2>2. QED BY <2>1 DEF OnceInv
<1>2. ASSUME NEW i \in DOMAIN SourceTrees, AddImageFromWIM(i) PROVE OnceInv'
  <2> DEFINE root == OpenImage(Source, Loaded, i)
             p == Pending(Walk(root.data), seen)
  <2>1. ~Copying /\ pc' = "copying" /\ unpacked' = unpacked /\ LoadOffsetTable(Source, src, -1) = Loaded
    BY <1>0, <1>2, SourceOpened DEF AddImageFromWIM, Copying
  <2>2. root.data = SourceTrees[i] /\ SourceTrees[i] \in Trees
    <3>1. root = Got(SourceTrees[i])
      BY SourceAssumption
    <3>2. QED BY <3>1 DEF Got, Trees, ToSet
  <2>3. IsSeq(Walk(root.data))
    BY <2>2, TreesAssumption
  <2>4. job'.todo = SortBlobsBySource(Loaded, p)
    BY <1>2, <2>1 DEF AddImageFromWIM
  <2>5. InTurn(SortBlobsBySource(Loaded, p))
    BY <2>3, PlanInTurn
  <2> HIDE DEF p, root
  <2>6. unpacked' = <<>>
    BY <2>1 DEF OnceInv
  <2>7. Unread' = SortBlobsBySource(Loaded, p)
    BY <2>1, <2>4 DEF Unread
  <2>8. Ahead(Unread', unpacked')
    BY <1>a, <2>6 DEF Ahead
  <2>9. QED BY <1>a, <2>1, <2>5, <2>6, <2>7, <2>8 DEF OnceInv
<1>3. CASE OpenFails
  <2>1. UNCHANGED <<job, unpacked>> /\ pc' = pc
    BY <1>3 DEF OpenFails
  <2>2. QED BY <2>1, OnceKept
<1>4. CASE SourceFails \/ CopyFails \/ StoreFails \/ AddMetadata \/ MetadataFails
  <2>1. Leave
    BY <1>4 DEF SourceFails, CopyFails, StoreFails, AddMetadata, MetadataFails
  <2>2. QED BY <2>1, OnceLeft
<1>5. CASE SkipContent
  <2>1. /\ pc \in {"walking", "copying"} /\ pc' = pc /\ unpacked' = unpacked /\ job.todo # <<>>
        /\ job' = [job EXCEPT !.todo = Tail(@)]
    BY <1>5 DEF SkipContent
  <2>2. CASE pc = "walking"
    <3>1. ~Copying /\ ~Copying'
      BY <2>1, <2>2 DEF Copying
    <3>2. QED BY <2>1, <3>1 DEF OnceInv
  <2>3. CASE pc = "copying"
    <3>1. IsSeq(job.todo) /\ job'.todo = Tail(job.todo)
      BY <1>0, <2>1, <2>3 DEF JobInv, Busy
    <3>2. Copying /\ Unread = job.todo /\ Unread' = Tail(job.todo)
      BY <2>1, <2>3, <3>1 DEF Copying, Unread
    <3>3. /\ InTurn(job.todo) /\ Ahead(job.todo, unpacked)
          /\ \A k \in DOMAIN unpacked : unpacked[k].times = 1 /\ k[2] \in Int
      BY <3>2 DEF OnceInv
    <3>4. InTurn(Tail(job.todo)) /\ Ahead(Tail(job.todo), unpacked)
      BY <2>1, <3>1, <3>3, TailInTurn
    <3>5. InTurn(Unread') /\ Ahead(Unread', unpacked')
      BY <2>1, <3>2, <3>4
    <3>6. Copying'
      BY <2>1, <2>3 DEF Copying
    <3>7. QED BY <2>1, <3>3, <3>5, <3>6 DEF OnceInv
  <2>4. QED BY <2>1, <2>2, <2>3
<1>6. CASE StartContent
  <2>1. CASE pc = "walking"
    <3>1. ~Copying /\ ~Copying' /\ unpacked' = unpacked
      BY <1>6, <2>1 DEF StartContent, Copying
    <3>2. QED BY <3>1 DEF OnceInv
  <2>2. CASE pc = "copying"
    <3> DEFINE h == Head(job.todo)
    <3>1. /\ pc' = "zipping copy" /\ job' = job /\ job.todo # <<>> /\ unpacked' = Unpack(h)
          /\ h # <<>> /\ ReadFile(Source, src, h).ok
      BY <1>6, <2>2 DEF StartContent
    <3>2. src = Loaded /\ IsSeq(job.todo)
      BY <1>0, <2>2 DEF JobInv, Busy
    <3>3. h \in DOMAIN Loaded.blobs
      BY <3>1, <3>2 DEF ReadFile, Failed
    <3>4. Copying /\ Unread = job.todo /\ Unread' = Tail(job.todo)
      BY <2>2, <3>1 DEF Copying, Unread
    <3>5. /\ InTurn(job.todo) /\ Ahead(job.todo, unpacked)
          /\ \A k \in DOMAIN unpacked : unpacked[k].times = 1 /\ k[2] \in Int
      BY <3>4 DEF OnceInv
    <3>6. /\ \A k \in DOMAIN unpacked' : unpacked'[k].times = 1 /\ k[2] \in Int
          /\ InTurn(Tail(job.todo)) /\ Ahead(Tail(job.todo), unpacked')
      BY <3>1, <3>2, <3>3, <3>5, UnpackOnce
    <3>7. Copying'
      BY <3>1 DEF Copying
    <3>8. QED BY <3>4, <3>6, <3>7 DEF OnceInv
  <2>3. QED BY <1>6, <2>1, <2>2 DEF StartContent
<1>7. ASSUME NEW w \in Workers, TakeChunk(w) \/ ZipChunk(w) \/ ZipFails(w) PROVE OnceInv'
  <2>1. UNCHANGED <<job, unpacked>> /\ pc' = pc
    BY <1>7 DEF TakeChunk, ZipChunk, ZipFails, otherVars
  <2>2. QED BY <2>1, OnceKept
<1>8. CASE StoreContent
  <2>1. /\ pc \in {"zipping", "zipping copy"} /\ unpacked' = unpacked /\ job' = [job EXCEPT !.todo = Tail(@)]
        /\ pc' = IF pc = "zipping" THEN "walking" ELSE "copying"
    BY <1>8 DEF StoreContent, AllDone, Zipping
  <2>2. CASE pc = "zipping"
    <3>1. ~Copying /\ ~Copying'
      BY <2>1, <2>2 DEF Copying
    <3>2. QED BY <2>1, <3>1 DEF OnceInv
  <2>3. CASE pc = "zipping copy"
    <3>1. job'.todo = Tail(job.todo)
      BY <1>0, <2>1, <2>3 DEF JobInv, Busy
    <3>2. Copying /\ Unread = Tail(job.todo) /\ Unread' = Tail(job.todo)
      BY <2>1, <2>3, <3>1 DEF Copying, Unread
    <3>3. /\ InTurn(Tail(job.todo)) /\ Ahead(Tail(job.todo), unpacked)
          /\ \A k \in DOMAIN unpacked : unpacked[k].times = 1 /\ k[2] \in Int
      BY <3>2 DEF OnceInv
    <3>4. InTurn(Unread') /\ Ahead(Unread', unpacked')
      BY <2>1, <3>2, <3>3
    <3>5. Copying'
      BY <2>1, <2>3 DEF Copying
    <3>6. QED BY <2>1, <3>3, <3>4, <3>5 DEF OnceInv
  <2>4. QED BY <2>1, <2>2, <2>3
<1>9. CASE CloseTable \/ CloseCatalog \/ CloseFails \/ FinalizeHeader \/ HeaderRefused \/ HeaderFails
  <2>1. UNCHANGED <<job, unpacked>> /\ ~Copying /\ ~Copying'
    BY <1>9 DEF CloseTable, CloseCatalog, CloseFails, FinalizeHeader, HeaderRefused, HeaderFails, closeVars, Copying
  <2>2. QED BY <2>1, OnceKept
<1>10. ASSUME NEW size \in PartSizes, Split(size) PROVE OnceInv'
  <2>1. UNCHANGED <<job, unpacked>> /\ ~Copying /\ ~Copying'
    BY <1>10 DEF Split, closeVars, Copying
  <2>2. QED BY <2>1, OnceKept
<1>11. CASE WritePart \/ WritePartFails
  <2>1. UNCHANGED <<job, unpacked>> /\ ~Copying /\ ~Copying'
    BY <1>11 DEF WritePart, WritePartFails, Store, closeVars, Copying
  <2>2. QED BY <2>1, OnceKept
<1>12. ASSUME NEW names \in SUBSET DOMAIN folder, JoinParts(names) PROVE OnceInv'
  <2>1. UNCHANGED <<job, unpacked>> /\ pc' = pc
    BY <1>12 DEF JoinParts, writerVars
  <2>2. QED BY <2>1, OnceKept
<1>13. CASE UNCHANGED vars
  <2>1. UNCHANGED <<job, unpacked>> /\ pc' = pc
    BY <1>13 DEF vars, writerVars
  <2>2. QED BY <2>1, OnceKept
<1>14. QED
  BY <1>1, <1>2, <1>3, <1>4, <1>5, <1>6, <1>7, <1>8, <1>9, <1>10, <1>11, <1>12, <1>13 DEF Next, WriterNext

\* writer_copy.go ("decompresses each chunk exactly once"): an image copied from a
\* solid source unpacks no chunk of it twice, whatever order its files are in and
\* whatever was written before.
THEOREM ChunksOnceTheorem == Reopen => (Spec => []ChunksOnce)
<1>1. Init => OnceInv
  <2>1. DOMAIN <<>> = {}
    OBVIOUS
  <2>2. QED BY <2>1 DEF Init, WriterInit, OnceInv, Copying
<1>2. OnceInv => ChunksOnce
  BY DEF OnceInv, ChunksOnce
<1>3. ASSUME Reopen PROVE MediaInv /\ OnceInv /\ [Next]_vars => OnceInv'
  BY <1>3, OnceStep
<1>4. ASSUME Reopen PROVE Spec => []ChunksOnce
  <2>1. Spec => []MediaInv
    BY <1>4, MediaInvariant
  <2>2. MediaInv /\ OnceInv /\ [Next]_vars => OnceInv'
    BY <1>3, <1>4
  <2>3. QED BY <1>1, <1>2, <2>1, <2>2, PTL DEF Spec
<1>5. QED BY <1>4

--------------------------------------------------------------------------------
(* Resources copied into a part or a joined WIM. *)

\* Entries that describe these cells.
Measured(items, bytes) ==
  /\ IsSeq(items) /\ IsSeq(bytes) /\ Len(bytes) = Len(items)
  /\ \A k \in 1..Len(items) :
       LET e == items[k] IN
       /\ IsSeq(bytes[k]) /\ bytes[k] # <<>>
       /\ e = Entry(Descriptor(e.rd.at, Len(bytes[k]), e.rd.orig, e.rd.flags), e.hash)

\* The cells copied, with the entries that describe them.
Relocated(f, es, items, bytes) ==
  /\ IsSeq(es) /\ Len(es) = Len(items)
  /\ \A k \in 1..Len(items) :
       /\ es[k] = Entry(Descriptor(es[k].rd.at, Len(bytes[k]), items[k].rd.orig, items[k].rd.flags), items[k].hash)
       /\ Holds(f, es[k].rd, bytes[k])
  /\ \A j, k \in 1..Len(items) : j < k => es[j].rd.at < es[k].rd.at

\* Behind a header they are where the entries say.
LEMMA MovedIs ==
  ASSUME NEW items, NEW bytes, Measured(items, bytes), NEW head
  PROVE  Relocated(<<head>> \o FlattenSeq(bytes), Moved(items, bytes), items, bytes)
<1> DEFINE n == Len(items)
           data == FlattenSeq(bytes)
           from(k) == Len(FlattenSeq(SubSeq(bytes, 1, k - 1)))
           es == Moved(items, bytes)
           f == <<head>> \o data
<1>1. /\ n \in Nat /\ DOMAIN items = 1..n /\ IsSeq(bytes) /\ Len(bytes) = n
      /\ \A k \in 1..n : IsSeq(bytes[k]) /\ Len(bytes[k]) \in Nat \ {0}
  <2>1. IsSeq(items) /\ IsSeq(bytes) /\ Len(bytes) = n
    BY DEF Measured
  <2>2. \A k \in 1..n : IsSeq(bytes[k]) /\ bytes[k] # <<>>
    BY DEF Measured
  <2>3. \A k \in 1..n : Len(bytes[k]) \in Nat \ {0}
    BY <2>2, SeqHas
  <2>4. QED BY <2>1, <2>2, <2>3, SeqHas
<1>2. \A k \in 1..n :
        items[k] = Entry(Descriptor(items[k].rd.at, Len(bytes[k]), items[k].rd.orig, items[k].rd.flags), items[k].hash)
  BY DEF Measured
<1>3. \A k \in 1..n : /\ from(k) \in Nat /\ Len(FlattenSeq(SubSeq(bytes, 1, k))) = from(k) + Len(bytes[k])
                      /\ from(k) + Len(bytes[k]) <= Len(data)
                      /\ \A i \in 1..Len(bytes[k]) : data[from(k) + i] = bytes[k][i]
  <2>1. TAKE k \in 1..n
  <2>2. k - 1 \in 0..n
    BY <1>1
  <2>3. from(k) \in Nat
    BY <1>1, <2>2, FlattenParts, SeqHas
  <2>4. k \in 1..Len(bytes) /\ \A i \in 1..Len(bytes) : IsSeq(bytes[i])
    BY <1>1
  <2>5. /\ Len(FlattenSeq(SubSeq(bytes, 1, k))) = from(k) + Len(bytes[k])
        /\ from(k) + Len(bytes[k]) <= Len(data)
        /\ \A i \in 1..Len(bytes[k]) : data[from(k) + i] = bytes[k][i]
    BY <1>1, <2>4, FlattenParts
  <2>6. QED BY <2>3, <2>5
<1>4. IsSeq(data) /\ Len(data) \in Nat
  BY <1>1, SeqFlatten, SeqHas
<1>5. /\ IsSeq(<<head>>) /\ Len(<<head>>) = 1
  <2>1. <<head>> \in Seq({head}) /\ Len(<<head>>) = 1
    OBVIOUS
  <2>2. QED BY <2>1, SeqIs
<1> HIDE DEF data
<1>6. /\ IsSeq(f) /\ Len(f) = 1 + Len(data)
      /\ \A k \in 1..(1 + Len(data)) : f[k] = IF k <= 1 THEN <<head>>[k] ELSE data[k - 1]
  BY <1>4, <1>5, SeqConcat
<1>7. es = [k \in 1..n |-> Entry([items[k].rd EXCEPT !.at = 1 + from(k)], items[k].hash)]
  BY <1>1 DEF Moved
<1>8. ASSUME NEW k \in 1..n
      PROVE  /\ es[k] = Entry(Descriptor(1 + from(k), Len(bytes[k]), items[k].rd.orig, items[k].rd.flags), items[k].hash)
             /\ es[k].rd.at = 1 + from(k) /\ es[k].rd.size = Len(bytes[k])
  <2> DEFINE r == items[k].rd
             s == 1 + from(k)
  <2>1. r = Descriptor(r.at, Len(bytes[k]), r.orig, r.flags)
    <3>1. items[k].rd = Entry(Descriptor(r.at, Len(bytes[k]), r.orig, r.flags), items[k].hash).rd
      BY <1>2
    <3>2. QED BY <3>1 DEF Entry
  <2>2. es[k] = Entry([r EXCEPT !.at = s], items[k].hash)
    BY <1>7
  <2> HIDE DEF r, s, from
  <2>3. [r EXCEPT !.at = s] = Descriptor(s, Len(bytes[k]), r.orig, r.flags)
    BY <2>1 DEF Descriptor
  <2>4. es[k] = Entry(Descriptor(s, Len(bytes[k]), r.orig, r.flags), items[k].hash)
    BY <2>2, <2>3
  <2>5. es[k].rd.at = s /\ es[k].rd.size = Len(bytes[k])
    BY <2>4 DEF Entry, Descriptor
  <2>6. QED BY <2>4, <2>5 DEF r, s
<1>9. IsSeq(es) /\ Len(es) = n
  <2>1. es = [k \in 1..n |-> es[k]]
    BY <1>7
  <2> HIDE DEF es
  <2>2. QED BY <1>1, <2>1, SeqOfFunction
<1> HIDE DEF es, f, from
<1>10. ASSUME NEW k \in 1..n PROVE Holds(f, es[k].rd, bytes[k])
  <2> DEFINE s == 1 + from(k)
             l == Len(bytes[k])
  <2>1. es[k].rd.at = s /\ es[k].rd.size = l
    BY <1>8
  <2>2. s \in Nat \ {0} /\ l \in Nat /\ s + l <= Len(f)
    BY <1>1, <1>3, <1>4, <1>6
  <2>3. \A i \in 1..l : f[s + i] = bytes[k][i]
    <3>1. TAKE i \in 1..l
    <3> DEFINE x == s + i
               y == from(k) + i
    <3>2. x \in 1..(1 + Len(data)) /\ ~(x <= 1) /\ x - 1 = y
      BY <1>1, <1>3, <1>4, SMTT(30)
    <3>3. data[y] = bytes[k][i]
      BY <1>3
    <3> HIDE DEF x, y
    <3>4. f[x] = data[y]
      BY <1>6, <3>2
    <3>5. QED BY <3>3, <3>4 DEF x
  <2> HIDE DEF s, l
  <2>4. QED BY <2>1, <2>2, <2>3 DEF Holds, l
<1>11. ASSUME NEW j \in 1..n, NEW k \in 1..n, j < k PROVE es[j].rd.at < es[k].rd.at
  <2>1. from(j) + Len(bytes[j]) <= from(k)
    <3> DEFINE b == SubSeq(bytes, 1, k - 1)
    <3>1. /\ b \in Seq(ToSet(bytes)) /\ Len(b) = k - 1 /\ \A i \in 1..(k - 1) : b[i] = bytes[i]
      <4>1. bytes \in Seq(ToSet(bytes)) /\ k - 1 \in Nat /\ k - 1 <= Len(bytes)
        BY <1>1 DEF IsSeq
      <4>2. QED BY <4>1
    <3>2. IsSeq(b) /\ j \in 1..Len(b) /\ \A i \in 1..Len(b) : IsSeq(b[i])
      <4>1. j \in 1..(k - 1) /\ \A i \in 1..(k - 1) : i \in 1..n
        BY <1>1, <1>11
      <4> HIDE DEF b
      <4>2. IsSeq(b)
        BY <3>1, SeqIs
      <4>3. QED BY <1>1, <3>1, <4>1, <4>2
    <3>3. SubSeq(b, 1, j - 1) = SubSeq(bytes, 1, j - 1) /\ b[j] = bytes[j]
      <4> DEFINE x == SubSeq(b, 1, j - 1)
                 y == SubSeq(bytes, 1, j - 1)
      <4>1. bytes \in Seq(ToSet(bytes)) /\ j - 1 \in Nat /\ j - 1 <= Len(bytes) /\ j - 1 <= k - 1 /\ k - 1 \in Nat
        BY <1>1, <1>11 DEF IsSeq
      <4> HIDE DEF b
      <4>2. IsSeq(x) /\ IsSeq(y)
        BY <1>1, <3>1, <3>2, <4>1, SeqFront
      <4>3. Len(x) = j - 1 /\ Len(y) = j - 1 /\ \A i \in 1..(j - 1) : x[i] = b[i] /\ y[i] = bytes[i]
        BY <3>1, <4>1
      <4>4. \A i \in 1..(j - 1) : i \in 1..(k - 1)
        BY <4>1
      <4>5. j \in 1..(k - 1)
        BY <1>11
      <4> HIDE DEF x, y
      <4>6. \A i \in 1..Len(x) : x[i] = y[i]
        BY <3>1, <4>3, <4>4
      <4>7. x = y
        BY <4>2, <4>3, <4>6, SeqSame
      <4>8. QED BY <3>1, <4>5, <4>7 DEF x, y
    <3>4. Len(FlattenSeq(SubSeq(b, 1, j - 1))) + Len(b[j]) <= Len(FlattenSeq(b))
      <4> HIDE DEF b
      <4>1. QED BY <3>2, FlattenParts
    <3>5. QED BY <3>3, <3>4 DEF from
  <2>2. QED BY <1>1, <1>3, <1>8, <2>1
<1>12. QED BY <1>8, <1>9, <1>10, <1>11 DEF Relocated, es, f, data

\* The header of a part or of a joined WIM, and what it leads to.
Headed(f, h, items, bytes, xml, flags, number, boot) ==
  LET es == Moved(items, bytes)
  IN  /\ IsSeq(f) /\ f # <<>> /\ "table" \in DOMAIN f[1]
      /\ f[1].flags = flags /\ f[1].comp = h.comp /\ f[1].part = number /\ f[1].count = h.count
      /\ f[1].boot = (IF boot THEN MovedBoot(h, items, es) ELSE NoResource)
      /\ f[1].bootIndex = (IF boot THEN h.bootIndex ELSE 0)
      /\ f[1].xml.size = Len(xml) /\ f[1].xml.flags = {} /\ ReadResourceRaw(f, f[1].xml) = Got(xml)
      /\ Table(f) = es /\ ReadResourceRaw(f, f[1].table).ok

\* What is assembled has its resources where its table says.
LEMMA AssembledIs ==
  ASSUME NEW h, NEW items, NEW bytes, Measured(items, bytes), NEW xml, IsSeq(xml), NEW flags,
         NEW number, NEW parts, NEW boot
  PROVE  LET f == Assemble(h, items, bytes, xml, flags, number, parts, boot)
         IN  /\ Headed(f, h, items, bytes, xml, flags, number, boot)
             /\ Relocated(f, Moved(items, bytes), items, bytes)
<1> DEFINE es == Moved(items, bytes)
           data == FlattenSeq(bytes)
           at == 1 + Len(data)
           table0 == Descriptor(at, Len(es), Len(es), {})
           xml0 == Descriptor(at + Len(es), Len(xml), Len(xml), {})
           boot0 == IF boot THEN MovedBoot(h, items, es) ELSE NoResource
           index0 == IF boot THEN h.bootIndex ELSE 0
           head == [flags |-> flags, comp |-> h.comp, part |-> number, parts |-> parts, count |-> h.count,
                    table |-> table0, xml |-> xml0, boot |-> boot0, bootIndex |-> index0]
           a == <<head>> \o data
           b == a \o es
           f == b \o xml
<1>1. Assemble(h, items, bytes, xml, flags, number, parts, boot) = f
  BY DEF Assemble
<1>2. Relocated(a, es, items, bytes)
  BY MovedIs
<1>3. IsSeq(data) /\ IsSeq(es) /\ Len(data) \in Nat /\ Len(es) \in Nat /\ Len(es) = Len(items)
  <2>1. IsSeq(bytes) /\ \A k \in 1..Len(bytes) : IsSeq(bytes[k])
    BY DEF Measured
  <2>2. IsSeq(data)
    BY <2>1, SeqFlatten
  <2>3. IsSeq(es) /\ Len(es) = Len(items)
    BY <1>2 DEF Relocated
  <2>4. QED BY <2>2, <2>3, SeqHas
<1>4. /\ head.table = table0 /\ head.xml = xml0 /\ head.flags = flags /\ head.comp = h.comp /\ head.part = number
      /\ head.count = h.count /\ head.boot = boot0 /\ head.bootIndex = index0 /\ "table" \in DOMAIN head
  OBVIOUS
<1>5. IsSeq(<<head>>) /\ Len(<<head>>) = 1 /\ <<head>>[1] = head
  <2> HIDE DEF head
  <2>1. <<head>> \in Seq({head}) /\ Len(<<head>>) = 1 /\ <<head>>[1] = head
    OBVIOUS
  <2>2. QED BY <2>1, SeqIs
<1> HIDE DEF head
<1>6. IsSeq(a) /\ Len(a) = at /\ at \in Nat \ {0} /\ a[1] = head
  <2> HIDE DEF data
  <2>1. /\ IsSeq(a) /\ Len(a) = 1 + Len(data)
        /\ \A k \in 1..(1 + Len(data)) : a[k] = IF k <= 1 THEN <<head>>[k] ELSE data[k - 1]
    BY <1>3, <1>5, SeqConcat
  <2>2. 1 \in 1..(1 + Len(data))
    BY <1>3
  <2>3. QED BY <1>3, <1>5, <2>1, <2>2
<1> HIDE DEF a, at, es
<1>7. IsSeq(b) /\ Len(b) = at + Len(es) /\ b[1] = head /\ Holds(b, table0, es)
  <2>1. /\ IsSeq(b) /\ Len(b) = at + Len(es)
        /\ \A k \in 1..(at + Len(es)) : b[k] = IF k <= at THEN a[k] ELSE es[k - at]
    BY <1>3, <1>6, SeqConcat
  <2>2. 1 \in 1..(at + Len(es)) /\ 1 <= at
    BY <1>3, <1>6
  <2>3. Holds(b, table0, es)
    BY <1>3, <1>6, HoldsNew
  <2>4. QED BY <1>6, <2>1, <2>2, <2>3
<1> HIDE DEF b, table0
<1>8. Len(xml) \in Nat
  BY SeqHas
<1>9. IsSeq(f) /\ f[1] = head /\ f # <<>> /\ Holds(f, xml0, xml) /\ Holds(f, table0, es)
  <2>1. /\ IsSeq(f) /\ Len(f) = Len(b) + Len(xml)
        /\ \A k \in 1..(Len(b) + Len(xml)) : f[k] = IF k <= Len(b) THEN b[k] ELSE xml[k - Len(b)]
    BY <1>7, SeqConcat
  <2>2. Len(b) \in Nat /\ Len(b) >= 1
    BY <1>3, <1>6, <1>7
  <2>3. 1 \in 1..(Len(b) + Len(xml)) /\ 1 <= Len(b) /\ Len(b) + Len(xml) # 0
    BY <1>8, <2>2
  <2>4. Holds(f, xml0, xml)
    BY <1>7, <2>2, HoldsNew
  <2>5. Holds(f, table0, es)
    BY <1>3, <1>7, HoldsGrown
  <2> HIDE DEF f
  <2>6. f # <<>>
    BY <2>1, <2>3, SeqHas
  <2>7. QED BY <1>7, <2>1, <2>3, <2>4, <2>5, <2>6
<1>10. \A rd, c : IsSeq(c) /\ Holds(a, rd, c) => Holds(f, rd, c)
  <2>1. TAKE rd, c
  <2>2. HAVE IsSeq(c) /\ Holds(a, rd, c)
  <2>3. Holds(b, rd, c)
    BY <1>3, <1>6, <2>2, HoldsGrown DEF b
  <2>4. QED BY <1>7, <2>2, <2>3, HoldsGrown
<1>11. xml0.size = Len(xml) /\ xml0.flags = {}
  BY DEF Descriptor
<1> HIDE DEF f, xml0, boot0, index0
<1>12. Relocated(f, es, items, bytes)
  <2>1. \A k \in 1..Len(items) : IsSeq(bytes[k])
    BY DEF Measured
  <2>2. \A k \in 1..Len(items) : Holds(f, es[k].rd, bytes[k])
    BY <1>2, <1>10, <2>1 DEF Relocated
  <2>3. QED BY <1>2, <2>2 DEF Relocated
<1>13. Table(f) = es /\ ReadResourceRaw(f, f[1].table).ok /\ ReadResourceRaw(f, f[1].xml) = Got(xml)
  <2>1. ReadResourceRaw(f, table0) = Got(es) /\ ReadResourceRaw(f, xml0) = Got(xml)
    BY <1>3, <1>9, HeldIsRead
  <2>2. f[1].table = table0 /\ f[1].xml = xml0
    BY <1>4, <1>9
  <2>3. ReadResourceRaw(f, f[1].table).data = es
    BY <2>1, <2>2 DEF Got
  <2>4. ReadResourceRaw(f, f[1].table).ok
    BY <2>1, <2>2 DEF Got
  <2>5. QED BY <2>1, <2>2, <2>3, <2>4 DEF Table
<1>14. Headed(f, h, items, bytes, xml, flags, number, boot)
  BY <1>4, <1>9, <1>11, <1>13 DEF Headed, es, boot0, index0
<1>15. QED BY <1>1, <1>12, <1>14 DEF es

\* The positions before each, from left to right.
Leftward(L, keep) == L = [i \in keep |-> {j \in keep : j < i}]

\* They order the positions.
LEMMA LeftwardOrder ==
  ASSUME NEW keep, \A i \in keep : i \in Int, NEW L, Leftward(L, keep)
  PROVE  IsOrder(L, keep) /\ \A i, j \in keep : j \in L[i] <=> j < i
<1>1. L \in [keep -> SUBSET keep] /\ \A i, j \in keep : j \in L[i] <=> j < i
  BY DEF Leftward
<1>2. QED BY <1>1 DEF IsOrder

\* The l elements of s behind the first a.
RunOf(t, s, a, l) == IsSeq(t) /\ Len(t) = l /\ \A k \in 1..l : t[k] = s[a + k]

\* Of positions one behind the other, those picked in their order.
LEMMA PickedRun ==
  ASSUME NEW s, NEW a \in Nat, NEW l \in Nat, NEW keep, keep = (a + 1)..(a + l),
         NEW L, Leftward(L, keep)
  PROVE  IsOrder(L, keep) /\ RunOf(Picked(s, keep, L), s, a, l)
<1> DEFINE rank(i) == Cardinality(L[i])
<1>a. L \in [keep -> SUBSET keep] /\ \A i, j \in keep : j \in L[i] <=> j < i
  BY DEF Leftward
<1>1. IsOrder(L, keep)
  <2>1. \A i \in keep : i \in Int
    OBVIOUS
  <2>2. QED BY <2>1, LeftwardOrder
<1>2. Cardinality(keep) = l
  <2>1. Cardinality(keep) = IF a + 1 > a + l THEN 0 ELSE a + l - (a + 1) + 1
    BY FS_Interval
  <2>2. QED BY <2>1
<1>3. ASSUME NEW i \in keep PROVE rank(i) = i - a - 1
  <2>1. L[i] = (a + 1)..(i - 1)
    <3>1. L[i] \subseteq keep /\ \A j \in keep : j \in L[i] <=> j < i
      BY <1>a
    <3>2. \A j : j \in L[i] <=> j \in keep /\ j < i
      BY <3>1
    <3>3. i \in Int /\ i <= a + l
      OBVIOUS
    <3>4. \A j : j \in keep /\ j < i <=> j \in (a + 1)..(i - 1)
      BY <3>3
    <3> DEFINE r == (a + 1)..(i - 1)
    <3>5. \A j : j \in L[i] <=> j \in r
      BY <3>2, <3>4
    <3> HIDE DEF r
    <3>6. QED BY <3>5, Zenon DEF r
  <2>2. Cardinality((a + 1)..(i - 1)) = IF a + 1 > i - 1 THEN 0 ELSE i - 1 - (a + 1) + 1
    BY FS_Interval
  <2>3. i \in Int /\ i >= a + 1
    OBVIOUS
  <2>4. QED BY <2>1, <2>2, <2>3
<1> HIDE DEF rank
<1>4. ASSUME NEW k \in 1..l PROVE (CHOOSE i \in keep : rank(i) = k - 1) = a + k
  <2>1. a + k \in keep /\ rank(a + k) = k - 1
    <3>1. a + k \in keep /\ a + k - a - 1 = k - 1
      OBVIOUS
    <3> DEFINE x == a + k
    <3>2. x \in keep /\ x - a - 1 = k - 1
      BY <3>1
    <3> HIDE DEF x
    <3>3. rank(x) = k - 1
      BY <1>3, <3>2
    <3>4. QED BY <3>2, <3>3 DEF x
  <2>2. \A i \in keep : rank(i) = k - 1 => i = a + k
    <3>1. TAKE i \in keep
    <3>2. rank(i) = i - a - 1 /\ i \in Int
      BY <1>3
    <3>3. QED BY <3>2
  <2>3. QED BY <2>1, <2>2
<1> DEFINE pick(k) == CHOOSE i \in keep : rank(i) = k - 1
<1>5. Picked(s, keep, L) = [k \in 1..l |-> s[pick(k)]]
  BY <1>2 DEF Picked, rank
<1>6. \A k \in 1..l : s[pick(k)] = s[a + k]
  BY <1>4
<1> HIDE DEF pick
<1> DEFINE t == Picked(s, keep, L)
<1>7. t = [k \in 1..l |-> t[k]] /\ \A k \in 1..l : t[k] = s[a + k]
  BY <1>5, <1>6
<1> HIDE DEF t
<1>8. IsSeq(t) /\ Len(t) = l
  BY <1>7, SeqOfFunction
<1>9. QED BY <1>1, <1>7, <1>8 DEF t, RunOf

--------------------------------------------------------------------------------
(* Entries, in whatever file, of what the Writer has written. *)

\* The entry of a content, wherever its resource has come to be.
BlobEntry(e) ==
  /\ e.hash \in Hashes /\ IsSeq(e.hash) /\ e.hash # <<>>
  /\ e = Entry(Descriptor(e.rd.at, Len(ResourceOf(e.hash)), Len(e.hash), ResourceFlags), e.hash)

\* The entry of the metadata of image i.
MetaEntry(e, i) ==
  LET m == BuildMetadata(added[i])
  IN  e = Entry(Descriptor(e.rd.at, Len(m), Len(m), {"metadata"}), m)

Known(e) == BlobEntry(e) \/ \E i \in DOMAIN added : MetaEntry(e, i)

\* The cells such an entry describes, and where they are.
Cells(e) == IF IsMeta(e) THEN e.hash ELSE ResourceOf(e.hash)
Stored(f, e) == Known(e) /\ Holds(f, e.rd, Cells(e))

\* The metadata of a tree are not nothing.
LEMMA MetadataFilled ==
  ASSUME NEW tree \in Trees
  PROVE  IsSeq(BuildMetadata(tree)) /\ BuildMetadata(tree) # <<>>
<1>1. IsSeq(BuildMetadata(tree)) /\ ParseImageMetadata(BuildMetadata(tree)) = Got(tree)
  BY TreesAssumption
<1>2. ParseImageMetadata(<<>>) = Failed
  BY DEF ParseImageMetadata
<1>3. Failed # Got(tree)
  BY DEF Failed, Got
<1>4. QED BY <1>1, <1>2, <1>3

\* A blob is not metadata.
LEMMA BlobIs ==
  ASSUME NEW e, BlobEntry(e)
  PROVE  ~IsMeta(e) /\ IsSeq(Cells(e)) /\ Cells(e) # <<>> /\ e.rd.size = Len(Cells(e))
         /\ e.rd.orig = Len(e.hash) /\ e.rd.flags = ResourceFlags /\ Cells(e) = ResourceOf(e.hash)
         /\ e = Entry(Descriptor(e.rd.at, Len(Cells(e)), e.rd.orig, e.rd.flags), e.hash)
<1>1. e = Entry(Descriptor(e.rd.at, Len(ResourceOf(e.hash)), Len(e.hash), ResourceFlags), e.hash)
  BY DEF BlobEntry
<1>2. e.rd = Descriptor(e.rd.at, Len(ResourceOf(e.hash)), Len(e.hash), ResourceFlags)
  BY <1>1 DEF Entry
<1>3. e.rd.size = Len(ResourceOf(e.hash)) /\ e.rd.orig = Len(e.hash) /\ e.rd.flags = ResourceFlags
  BY <1>2 DEF Descriptor
<1>4. ~IsMeta(e)
  BY <1>3 DEF IsMeta, ResourceFlags
<1>5. IsSeq(ResourceOf(e.hash)) /\ ResourceOf(e.hash) # <<>>
  BY ResourceIs, ResourceFilled DEF BlobEntry
<1>6. Cells(e) = ResourceOf(e.hash)
  BY <1>4 DEF Cells
<1>7. QED BY <1>1, <1>3, <1>4, <1>5, <1>6

\* What says it is metadata is an image's.
LEMMA MetaIs ==
  ASSUME ImagesInv, NEW e, NEW i \in DOMAIN added, MetaEntry(e, i)
  PROVE  IsMeta(e) /\ IsSeq(Cells(e)) /\ Cells(e) # <<>> /\ e.rd.size = Len(Cells(e))
         /\ Cells(e) = BuildMetadata(added[i]) /\ e.hash = Cells(e) /\ e.rd.flags = {"metadata"}
         /\ e = Entry(Descriptor(e.rd.at, Len(Cells(e)), e.rd.orig, e.rd.flags), e.hash)
<1> DEFINE m == BuildMetadata(added[i])
<1>1. e = Entry(Descriptor(e.rd.at, Len(m), Len(m), {"metadata"}), m)
  BY DEF MetaEntry
<1>2. e.rd = Descriptor(e.rd.at, Len(m), Len(m), {"metadata"}) /\ e.hash = m
  BY <1>1 DEF Entry
<1> HIDE DEF m
<1>3. e.rd.size = Len(m) /\ e.rd.orig = Len(m) /\ e.rd.flags = {"metadata"}
  BY <1>2 DEF Descriptor
<1>4. IsMeta(e)
  BY <1>3 DEF IsMeta
<1>5. IsSeq(m) /\ m # <<>>
  BY MetadataFilled DEF ImagesInv, m
<1>6. Cells(e) = m
  BY <1>2, <1>4 DEF Cells
<1>7. QED BY <1>1, <1>2, <1>3, <1>4, <1>5, <1>6 DEF m


\* An entry in f for what was copied.
MovesTo(f, x, e) ==
  /\ Stored(f, e) /\ e.hash = x.hash /\ (IsMeta(e) <=> IsMeta(x))
  /\ BlobEntry(x) => BlobEntry(e)
  /\ \A i \in DOMAIN added : MetaEntry(x, i) => MetaEntry(e, i)

\* What is copied whole remains what it was.
LEMMA MovedKnown ==
  ASSUME ImagesInv, NEW f, NEW es, NEW items, NEW bytes, Relocated(f, es, items, bytes),
         \A k \in 1..Len(items) : Known(items[k]) /\ bytes[k] = Cells(items[k])
  PROVE  \A k \in 1..Len(items) : MovesTo(f, items[k], es[k])
<1> TAKE k \in 1..Len(items)
<1> DEFINE x == items[k]
           e == es[k]
           c == Cells(x)
<1>1. /\ e = Entry(Descriptor(e.rd.at, Len(c), x.rd.orig, x.rd.flags), x.hash)
      /\ Holds(f, e.rd, c) /\ Known(x)
  BY DEF Relocated
<1> HIDE DEF x, e, c
<1>2. e.hash = x.hash /\ e.rd.flags = x.rd.flags
  BY <1>1 DEF Entry, Descriptor
<1>3. IsMeta(e) <=> IsMeta(x)
  BY <1>2 DEF IsMeta
<1>4. BlobEntry(x) => BlobEntry(e)
  <2>1. HAVE BlobEntry(x)
  <2>2. x.rd.orig = Len(x.hash) /\ x.rd.flags = ResourceFlags /\ c = ResourceOf(x.hash)
    BY <2>1, BlobIs DEF c
  <2>3. e = Entry(Descriptor(e.rd.at, Len(ResourceOf(e.hash)), Len(e.hash), ResourceFlags), e.hash)
    BY <1>1, <1>2, <2>2
  <2>4. x.hash \in Hashes /\ IsSeq(x.hash) /\ x.hash # <<>>
    BY <2>1 DEF BlobEntry
  <2>5. QED BY <1>2, <2>3, <2>4 DEF BlobEntry
<1>5. \A i \in DOMAIN added : MetaEntry(x, i) => MetaEntry(e, i)
  <2> TAKE i \in DOMAIN added
  <2>1. HAVE MetaEntry(x, i)
  <2> DEFINE m == BuildMetadata(added[i])
  <2>2. x = Entry(Descriptor(x.rd.at, Len(m), Len(m), {"metadata"}), m)
    BY <2>1 DEF MetaEntry
  <2>3. c = m /\ x.hash = m
    BY <2>1, MetaIs DEF c
  <2> HIDE DEF m
  <2>4. x.rd = Descriptor(x.rd.at, Len(m), Len(m), {"metadata"})
    BY <2>2 DEF Entry
  <2>5. x.rd.orig = Len(m) /\ x.rd.flags = {"metadata"}
    BY <2>4 DEF Descriptor
  <2>6. e = Entry(Descriptor(e.rd.at, Len(m), Len(m), {"metadata"}), m)
    BY <1>1, <2>3, <2>5
  <2>7. QED BY <2>6 DEF MetaEntry, m
<1>6. Known(e)
  BY <1>1, <1>4, <1>5 DEF Known
<1>7. Cells(e) = c
  BY <1>2, <1>3 DEF Cells, c
<1>8. Stored(f, e)
  BY <1>1, <1>6, <1>7 DEF Stored
<1>9. QED BY <1>2, <1>3, <1>4, <1>5, <1>8 DEF MovesTo, x, e

\* What is stored is measured, and read as it is.
LEMMA StoredMeasured ==
  ASSUME ImagesInv, NEW e, Known(e)
  PROVE  /\ IsSeq(Cells(e)) /\ Cells(e) # <<>> /\ e.rd.size = Len(Cells(e))
         /\ e = Entry(Descriptor(e.rd.at, Len(Cells(e)), e.rd.orig, e.rd.flags), e.hash)
         /\ \A f : IsSeq(f) /\ Stored(f, e) => ReadResourceRaw(f, e.rd) = Got(Cells(e))
<1>1. /\ IsSeq(Cells(e)) /\ Cells(e) # <<>> /\ e.rd.size = Len(Cells(e))
      /\ e = Entry(Descriptor(e.rd.at, Len(Cells(e)), e.rd.orig, e.rd.flags), e.hash)
  <2>1. CASE BlobEntry(e)
    BY <2>1, BlobIs
  <2>2. CASE ~BlobEntry(e)
    <3>1. PICK i \in DOMAIN added : MetaEntry(e, i)
      BY <2>2 DEF Known
    <3>2. QED BY <3>1, MetaIs
  <2>3. QED BY <2>1, <2>2
<1>2. \A f : IsSeq(f) /\ Stored(f, e) => ReadResourceRaw(f, e.rd) = Got(Cells(e))
  BY <1>1, HeldIsRead DEF Stored
<1>3. QED BY <1>1, <1>2

\* The table of a closed WIM: contents, then the images' metadata.
LEMMA OutStored ==
  ASSUME WriterInv, Closed
  PROVE  LET t == Table(out) nb == Len(blobs) ni == Len(images)
         IN  /\ nb \in Nat /\ ni \in Nat /\ IsSeq(t) /\ Len(t) = nb + ni /\ DOMAIN t = 1..(nb + ni)
             /\ DOMAIN added = 1..ni /\ DOMAIN images = 1..ni
             /\ \A k \in 1..nb : BlobEntry(t[k]) /\ Stored(out, t[k]) /\ t[k] = blobs[k]
             /\ \A i \in 1..ni : MetaEntry(t[nb + i], i) /\ Stored(out, t[nb + i]) /\ t[nb + i].rd = images[i].rd
<1> DEFINE t == Table(out)
           nb == Len(blobs)
           ni == Len(images)
<1>1. BlobsInv /\ ImagesInv /\ t = TableCells
  BY ClosedIs DEF WriterInv
<1> HIDE DEF t
<1>2. /\ nb \in Nat /\ ni \in Nat /\ IsSeq(t) /\ Len(t) = nb + ni
      /\ \A i \in 1..nb : t[i] = blobs[i]
      /\ \A i \in 1..ni : t[nb + i] = Entry(images[i].rd, images[i].hash) /\ t[nb + i].rd = images[i].rd
  BY <1>1, TableCellsAre
<1>3. DOMAIN t = 1..(nb + ni) /\ DOMAIN blobs = 1..nb /\ DOMAIN added = 1..ni /\ DOMAIN images = 1..ni
  BY <1>1, <1>2, SeqHas DEF BlobsInv, ImagesInv
<1> HIDE DEF nb, ni
<1>4. ASSUME NEW k \in 1..nb PROVE BlobEntry(t[k]) /\ Stored(out, t[k]) /\ t[k] = blobs[k]
  <2> DEFINE b == blobs[k]
  <2>1. /\ IsSeq(b.hash) /\ b.hash # <<>> /\ b.hash \in Hashes
        /\ b = Entry(Descriptor(b.rd.at, Len(ResourceOf(b.hash)), Len(b.hash), ResourceFlags), b.hash)
        /\ Holds(out, b.rd, ResourceOf(b.hash))
    BY <1>1, <1>3 DEF BlobsInv, Hashes, Closed, InFile
  <2> HIDE DEF b
  <2>2. BlobEntry(b)
    BY <2>1 DEF BlobEntry
  <2>3. Stored(out, b)
    BY <2>1, <2>2, BlobIs DEF Stored, Known
  <2>4. QED BY <1>2, <2>2, <2>3 DEF b
<1>5. ASSUME NEW i \in 1..ni PROVE MetaEntry(t[nb + i], i) /\ Stored(out, t[nb + i]) /\ t[nb + i].rd = images[i].rd
  <2> DEFINE e == t[nb + i]
             im == images[i]
             m == BuildMetadata(added[i])
  <2>1. e = Entry(im.rd, im.hash) /\ e.rd = im.rd
    BY <1>2
  <2>2. im.rd = Descriptor(im.rd.at, Len(m), Len(m), {"metadata"}) /\ im.hash = m /\ Holds(out, im.rd, m)
    BY <1>1, <1>3 DEF ImagesInv, Closed, InFile
  <2>3. i \in DOMAIN added
    BY <1>3
  <2> HIDE DEF e, im, m
  <2>4. e = Entry(Descriptor(e.rd.at, Len(m), Len(m), {"metadata"}), m)
    BY <2>1, <2>2
  <2>5. MetaEntry(e, i)
    BY <2>4 DEF MetaEntry, m
  <2>6. Cells(e) = m
    BY <1>1, <2>3, <2>5, MetaIs DEF m
  <2>7. Stored(out, e)
    BY <2>1, <2>2, <2>3, <2>5, <2>6 DEF Stored, Known
  <2>8. QED BY <2>1, <2>5, <2>7 DEF e, im
<1>6. QED BY <1>2, <1>3, <1>4, <1>5 DEF t, nb, ni

\* splitItems' metadata: those of the images, in order.
LEMMA MetaItemsAre ==
  ASSUME WriterInv, Closed
  PROVE  /\ IsSeq(MetaItems(out)) /\ Len(MetaItems(out)) = Len(images)
         /\ \A i \in 1..Len(images) : MetaItems(out)[i] = Table(out)[Len(blobs) + i]
<1> DEFINE t == Table(out)
           nb == Len(blobs)
           ni == Len(images)
           keep == {k \in DOMAIN t : IsMeta(t[k])}
<1>1. /\ nb \in Nat /\ ni \in Nat /\ DOMAIN t = 1..(nb + ni) /\ DOMAIN added = 1..ni /\ ImagesInv
      /\ \A k \in 1..nb : BlobEntry(t[k])
      /\ \A i \in 1..ni : MetaEntry(t[nb + i], i)
  <2>1. ImagesInv
    BY DEF WriterInv
  <2>2. QED BY <2>1, OutStored
<1> HIDE DEF t, nb, ni
<1>2. \A k \in 1..nb : ~IsMeta(t[k])
  BY <1>1, BlobIs
<1>3. \A i \in 1..ni : IsMeta(t[nb + i])
  BY <1>1, MetaIs
<1>4. keep = (nb + 1)..(nb + ni)
  <2>1. ASSUME NEW k \in 1..(nb + ni) PROVE IsMeta(t[k]) <=> k \in (nb + 1)..(nb + ni)
    <3>1. CASE k <= nb
      BY <1>1, <1>2, <3>1
    <3>2. CASE ~(k <= nb)
      <4> DEFINE i == k - nb
      <4>1. i \in 1..ni /\ nb + i = k
        BY <1>1, <3>2
      <4> HIDE DEF i
      <4>2. IsMeta(t[k])
        BY <1>3, <4>1
      <4>3. QED BY <1>1, <3>2, <4>2
    <3>3. QED BY <3>1, <3>2
  <2>2. (nb + 1)..(nb + ni) \subseteq 1..(nb + ni)
    BY <1>1
  <2>3. QED BY <1>1, <2>1, <2>2
<1> DEFINE L == [i \in keep |-> {j \in keep : j < i}]
<1>5. MetaItems(out) = Picked(t, keep, L)
  BY DEF MetaItems, Select, Arranged, Picked, t
<1>a. Leftward(L, keep)
  BY DEF Leftward
<1> HIDE DEF keep, L
<1>6. RunOf(Picked(t, keep, L), t, nb, ni)
  BY <1>1, <1>4, <1>a, PickedRun
<1>7. QED BY <1>5, <1>6 DEF RunOf, t, nb, ni


\* The first nm are metadata, in places of their own; the boot image's is the b-th.
BootAmong(h, items, nm, b) ==
  /\ \A k \in DOMAIN items : IsMeta(items[k]) => k \in 1..nm
  /\ \A k \in 1..nm : k \in DOMAIN items /\ IsMeta(items[k]) /\ items[k].rd.size # 0
  /\ \A j, k \in 1..nm : items[j].rd.at = items[k].rd.at => j = k
  /\ h.boot = IF b = 0 THEN NoResource ELSE items[b].rd

\* The boot metadata is found again among metadata that are apart.
LEMMA BootMoves ==
  ASSUME NEW h, NEW items, NEW es, NEW nm \in Nat, NEW b \in 0..nm, BootAmong(h, items, nm, b)
  PROVE  MovedBoot(h, items, es) = IF b = 0 THEN NoResource ELSE es[b].rd
<1> USE DEF BootAmong
<1> DEFINE hits == {k \in DOMAIN items : /\ IsMeta(items[k]) /\ h.boot.size # 0
                                        /\ items[k].rd.at = h.boot.at}
<1>1. MovedBoot(h, items, es) = IF hits = {} THEN NoResource ELSE es[Max(hits)].rd
  BY DEF MovedBoot
<1>2. CASE b = 0
  <2>1. h.boot.size = 0
    BY <1>2 DEF NoResource, Descriptor
  <2>2. hits = {}
    BY <2>1
  <2>3. QED BY <1>1, <1>2, <2>2
<1>3. CASE b # 0
  <2>1. b \in 1..nm
    BY <1>3
  <2>2. b \in hits
    BY <1>3, <2>1
  <2>3. \A k \in hits : k = b
    BY <1>3, <2>1
  <2> HIDE DEF hits
  <2>4. hits = {b, b}
    BY <2>2, <2>3
  <2>5. Max({b, b}) = b
    BY <2>1, MaxOfTwo
  <2>6. QED BY <1>1, <1>3, <2>2, <2>4, <2>5
<1>4. QED BY <1>2, <1>3

--------------------------------------------------------------------------------
\* The metadata of two images are in two places.
ApartInv ==
  ~rewound => \A i, j \in DOMAIN images : images[i].rd.at = images[j].rd.at => i = j

\* Images are added by one action only.
LEMMA ImagesStay ==
  ASSUME WriterNext, ~AddMetadata
  PROVE  images' = images /\ (rewound' = rewound \/ rewound')
<1>1. CASE \E tree \in Dirs : AddImage(tree)
  BY <1>1 DEF AddImage
<1>2. CASE \E i \in DOMAIN SourceTrees : AddImageFromWIM(i)
  BY <1>2 DEF AddImageFromWIM
<1>3. CASE OpenFails \/ SourceFails \/ CopyFails
  BY <1>3 DEF OpenFails, SourceFails, CopyFails
<1>4. CASE SkipContent \/ StartContent
  BY <1>4 DEF SkipContent, StartContent
<1>5. CASE \E w \in Workers : TakeChunk(w) \/ ZipChunk(w) \/ ZipFails(w)
  BY <1>5 DEF TakeChunk, ZipChunk, ZipFails, otherVars
<1>6. CASE StoreContent \/ StoreFails
  BY <1>6 DEF StoreContent, StoreFails
<1>7. CASE MetadataFails
  BY <1>7 DEF MetadataFails
<1>8. CASE CloseTable \/ CloseCatalog \/ CloseFails
  BY <1>8 DEF CloseTable, CloseCatalog, CloseFails, closeVars
<1>9. CASE FinalizeHeader \/ HeaderRefused \/ HeaderFails
  BY <1>9 DEF FinalizeHeader, HeaderRefused, HeaderFails, closeVars
<1>10. QED BY <1>1, <1>2, <1>3, <1>4, <1>5, <1>6, <1>7, <1>8, <1>9 DEF WriterNext

\* The next is behind all before it.
LEMMA ApartStep ==
  ASSUME MediaInv, ApartInv, [Next]_vars
  PROVE  ApartInv'
<1>1. PlaceInv /\ ImagesInv
  BY DEF MediaInv, WriterInv
<1>2. CASE images' = images /\ (rewound' = rewound \/ rewound')
  BY <1>2 DEF ApartInv
<1>3. CASE AddMetadata
  <2> DEFINE n == Len(images)
  <2>0. rewound' = rewound
    BY <1>3 DEF AddMetadata
  <2>00. SUFFICES ASSUME ~rewound PROVE ApartInv'
    BY <2>0 DEF ApartInv
  <2>1. n \in Nat /\ DOMAIN images = 1..n /\ DOMAIN added = 1..n /\ pos = Len(out) /\ pos \in Nat
    BY <1>1, <2>00, SeqHas DEF PlaceInv, ImagesInv
  <2>2. ASSUME NEW i \in 1..n PROVE images[i].rd.at \in Nat /\ images[i].rd.at < pos
    <3> DEFINE m == BuildMetadata(added[i])
    <3>1. Holds(out, images[i].rd, m) /\ added[i] \in Trees
      BY <1>1, <2>00, <2>1 DEF ImagesInv, InFile
    <3>2. Len(m) \in Nat \ {0}
      BY <3>1, MetadataFilled, SeqHas
    <3>3. QED BY <2>1, <3>1, <3>2 DEF Holds
  <2>3. PICK im : images' = Append(images, im) /\ im.rd.at = pos
    <3> DEFINE im0 == [rd |-> Descriptor(pos, Len(Metadata), Len(Metadata), {"metadata"}),
                       hash |-> Metadata, info |-> job.info]
    <3>1. images' = Append(images, im0)
      BY <1>3 DEF AddMetadata
    <3>2. im0.rd.at = pos
      BY DEF Descriptor
    <3> HIDE DEF im0
    <3>3. QED BY <3>1, <3>2
  <2>4. /\ DOMAIN images' = 1..(n + 1) /\ images'[n + 1] = im
        /\ \A k \in 1..n : images'[k] = images[k]
    <3>1. IsSeq(images') /\ Len(images') = n + 1
      BY <1>1, <2>3, SeqAppend DEF ImagesInv
    <3>2. images'[n + 1] = im /\ \A k \in 1..n : images'[k] = images[k]
      BY <1>1, <2>3, SeqAppend DEF ImagesInv
    <3>3. DOMAIN images' = 1..Len(images')
      BY <3>1, SeqHas
    <3>4. QED BY <3>1, <3>2, <3>3
  <2> HIDE DEF n
  <2>5. ASSUME NEW i \in 1..(n + 1), NEW j \in 1..(n + 1), images'[i].rd.at = images'[j].rd.at PROVE i = j
    <3>1. CASE i <= n /\ j <= n
      <4>1. i \in 1..n /\ j \in 1..n
        BY <2>1, <3>1
      <4>2. images[i].rd.at = images[j].rd.at
        BY <2>4, <2>5, <4>1
      <4>3. QED BY <2>00, <2>1, <4>1, <4>2 DEF ApartInv
    <3>2. CASE i <= n /\ ~(j <= n)
      <4>1. i \in 1..n /\ j = n + 1
        BY <2>1, <3>2
      <4>2. images[i].rd.at = pos
        BY <2>3, <2>4, <2>5, <4>1
      <4>3. QED BY <2>1, <2>2, <4>1, <4>2
    <3>3. CASE ~(i <= n) /\ j <= n
      <4>1. j \in 1..n /\ i = n + 1
        BY <2>1, <3>3
      <4>2. images[j].rd.at = pos
        BY <2>3, <2>4, <2>5, <4>1
      <4>3. QED BY <2>1, <2>2, <4>1, <4>2
    <3>4. CASE ~(i <= n) /\ ~(j <= n)
      BY <2>1, <3>4
    <3>5. QED BY <3>1, <3>2, <3>3, <3>4
  <2>6. QED BY <2>4, <2>5 DEF ApartInv
<1>4. CASE ~AddMetadata
  <2>1. CASE WriterNext
    BY <1>2, <1>4, <2>1, ImagesStay
  <2>3. CASE \E size \in PartSizes : Split(size)
    BY <1>2, <2>3 DEF Split, closeVars
  <2>4. CASE WritePart \/ WritePartFails
    BY <1>2, <2>4 DEF WritePart, WritePartFails, Store, closeVars
  <2>5. CASE \E names \in SUBSET DOMAIN folder : JoinParts(names)
    BY <1>2, <2>5 DEF JoinParts, writerVars
  <2>6. CASE UNCHANGED vars
    BY <1>2, <2>6 DEF vars, writerVars
  <2>7. QED BY <2>1, <2>3, <2>4, <2>5, <2>6 DEF Next
<1>5. QED BY <1>3, <1>4


--------------------------------------------------------------------------------
(* Sequences one behind the other, element by element. *)

\* Each element of each is there, each that is there is one of theirs, and those of
\* the first keep their positions.
LEMMA InFlat ==
  ASSUME NEW ss, IsSeq(ss), \A i \in 1..Len(ss) : IsSeq(ss[i])
  PROVE  /\ IsSeq(FlattenSeq(ss)) /\ Len(FlattenSeq(ss)) \in Nat
         /\ \A i \in 1..Len(ss) : \A k \in 1..Len(ss[i]) : ss[i][k] \in ToSet(FlattenSeq(ss))
         /\ \A p \in 1..Len(FlattenSeq(ss)) : \E i \in 1..Len(ss) : \E k \in 1..Len(ss[i]) :
              FlattenSeq(ss)[p] = ss[i][k] /\ (i = 1 => p = k)
         /\ ss # <<>> => \A k \in 1..Len(ss[1]) : k \in 1..Len(FlattenSeq(ss)) /\ FlattenSeq(ss)[k] = ss[1][k]
<1> DEFINE n == Len(ss)
           w == FlattenSeq(ss)
           end(m) == Len(FlattenSeq(SubSeq(ss, 1, m)))
<1>1. n \in Nat /\ IsSeq(w) /\ Len(w) \in Nat /\ \A i \in 1..n : Len(ss[i]) \in Nat
  BY SeqFlatten, SeqHas
<1>2. /\ \A m \in 0..n : IsSeq(FlattenSeq(SubSeq(ss, 1, m)))
      /\ FlattenSeq(SubSeq(ss, 1, 0)) = <<>> /\ FlattenSeq(SubSeq(ss, 1, n)) = w
      /\ \A i \in 1..n : /\ end(i) = end(i - 1) + Len(ss[i]) /\ end(i - 1) + Len(ss[i]) <= Len(w)
                         /\ \A k \in 1..Len(ss[i]) : w[end(i - 1) + k] = ss[i][k]
  BY FlattenParts
<1>3. /\ \A m \in 0..n : end(m) \in Nat
      /\ end(0) = 0 /\ end(n) = Len(w)
  BY <1>2, SeqHas
<1> HIDE DEF w, end, n
<1>4. ASSUME NEW i \in 1..n, NEW k \in 1..Len(ss[i]) PROVE ss[i][k] \in ToSet(w)
  <2> DEFINE p == end(i - 1) + k
  <2>1. w[p] = ss[i][k] /\ i - 1 \in 0..n /\ end(i - 1) + Len(ss[i]) <= Len(w)
    BY <1>1, <1>2
  <2>2. p \in 1..Len(w)
    BY <1>1, <1>3, <2>1
  <2> HIDE DEF p
  <2>3. QED BY <1>1, <2>1, <2>2, SeqHas
<1>5. ASSUME NEW p \in 1..Len(w)
      PROVE  \E i \in 1..n : \E k \in 1..Len(ss[i]) : w[p] = ss[i][k] /\ (i = 1 => p = k)
  <2> DEFINE T == {m \in 0..n : end(m) >= p}
  <2>1. n \in T /\ T \in SUBSET Nat
    BY <1>1, <1>3
  <2>2. PICK i \in T : \A j \in T : i <= j
    BY <2>1, LeastExists
  <2>3. i \in 0..n /\ end(i) >= p
    OBVIOUS
  <2>4. i # 0
    BY <1>1, <1>3, <2>3
  <2>5. i \in 1..n /\ i - 1 \in 0..n
    BY <1>1, <2>3, <2>4
  <2>6. ~(end(i - 1) >= p)
    <3>1. SUFFICES ASSUME end(i - 1) >= p PROVE FALSE
      OBVIOUS
    <3>2. i - 1 \in T
      BY <2>5, <3>1
    <3> HIDE DEF T
    <3>3. i <= i - 1
      BY <2>2, <3>2
    <3>4. QED BY <2>3, <3>3
  <2> DEFINE k == p - end(i - 1)
  <2> HIDE DEF T
  <2>7. end(i) = end(i - 1) + Len(ss[i]) /\ end(i) \in Nat /\ end(i - 1) \in Nat
    BY <1>2, <1>3, <2>3, <2>5
  <2>8. k \in 1..Len(ss[i]) /\ end(i - 1) + k = p
    BY <1>1, <2>3, <2>5, <2>6, <2>7
  <2> HIDE DEF k
  <2>9. w[p] = ss[i][k]
    BY <1>2, <2>5, <2>8
  <2>10. i = 1 => p = k
    BY <1>3, <2>8
  <2>11. QED BY <2>5, <2>8, <2>9, <2>10
<1>6. ASSUME ss # <<>>, NEW k \in 1..Len(ss[1]) PROVE k \in 1..Len(w) /\ w[k] = ss[1][k]
  <2>1. 1 \in 1..n
    <3>1. n # 0
      BY <1>6, SeqHas DEF n
    <3>2. QED BY <1>1, <3>1
  <2>2. end(1 - 1) + Len(ss[1]) <= Len(w) /\ w[end(1 - 1) + k] = ss[1][k]
    BY <1>2, <2>1
  <2>3. end(1 - 1) = 0
    BY <1>3
  <2>4. QED BY <1>1, <2>1, <2>2, <2>3
<1>7. QED BY <1>1, <1>4, <1>5, <1>6 DEF w, n

--------------------------------------------------------------------------------
(* What a part, or a joined WIM, carries. *)

\* A WIM of such resources, with the catalog of the images.
Carries(f) ==
  /\ IsSeq(f) /\ IsWim(f) /\ f[1].comp = Comp
  /\ f[1].xml.size = 1 /\ f[1].xml.flags = {} /\ ReadResourceRaw(f, f[1].xml) = Got(Catalog)
  /\ ReadResourceRaw(f, f[1].table).ok
  /\ IsSeq(Table(f)) /\ \A k \in 1..Len(Table(f)) : Stored(f, Table(f)[k])

\* The metadata of the images come first, and the boot image's is known.
Leads(h, t) ==
  /\ Len(images) <= Len(t)
  /\ \A i \in 1..Len(images) : MetaEntry(t[i], i)
  /\ \A k \in 1..Len(t) : IsMeta(t[k]) => k \in 1..Len(images)
  /\ \A i, j \in 1..Len(images) : t[i].rd.at = t[j].rd.at => i = j
  /\ h.bootIndex = BootIndex
  /\ h.boot = IF BootIndex = 0 THEN NoResource ELSE t[BootIndex].rd

\* The header of a closed WIM.
LEMMA HeaderIs ==
  ASSUME WriterInv, Closed
  PROVE  /\ IsSeq(out) /\ out[1].flags = {} /\ out[1].comp = Comp
         /\ ReadResourceRaw(out, out[1].xml) = Got(Catalog) /\ IsSeq(Catalog) /\ Len(Catalog) = 1
         /\ out[1].xml.size = 1 /\ out[1].xml.flags = {}
         /\ out[1].bootIndex = BootIndex /\ out[1].boot = BootResource /\ BootIndex \in 0..Len(images)
<1>1. PlaceInv /\ BlobsInv /\ ImagesInv /\ CloseInv
  BY DEF WriterInv
<1>2. /\ out[1] = Header({}, Comp, 1, 1, Len(images), table[1], table[2], BootResource, BootIndex)
      /\ Holds(out, table[2], Catalog) /\ table[2] = Plain(table[2].at, Len(Catalog))
      /\ BootIndex <= Len(images)
  BY <1>1 DEF CloseInv, Closed, Finished, InFile
<1>3. /\ out[1].flags = {} /\ out[1].comp = Comp /\ out[1].xml = table[2]
      /\ out[1].bootIndex = BootIndex /\ out[1].boot = BootResource
  BY <1>2 DEF Header
<1>4. IsSeq(Catalog) /\ Len(Catalog) = 1
  BY <1>1, TablesAre
<1>5. table[2].size = 1 /\ table[2].flags = {}
  BY <1>2, <1>4 DEF Plain, Descriptor
<1>6. IsSeq(out) /\ ReadResourceRaw(out, table[2]) = Got(Catalog)
  BY <1>1, <1>2, <1>4, HeldIsRead DEF PlaceInv
<1>7. BootIndex \in 0..Len(images)
  <2>1. BootIndex \in Nat
    BY WriterAssumption
  <2>2. Len(images) \in Nat
    BY <1>1, SeqHas DEF ImagesInv
  <2>3. QED BY <1>2, <2>1, <2>2
<1>8. QED BY <1>3, <1>4, <1>5, <1>6, <1>7

\* What is assembled of known resources carries them.
Assembled(f, h, items, flags, number, boot) ==
  /\ Carries(f) /\ f[1].flags = flags /\ f[1].part = number
  /\ f[1].bootIndex = (IF boot THEN h.bootIndex ELSE 0)
  /\ Len(Table(f)) = Len(items) /\ \A k \in 1..Len(items) : MovesTo(f, items[k], Table(f)[k])
  /\ boot /\ Leads(h, items) => Leads(f[1], Table(f))

\* Assemble puts them, and the catalog, where its header and its table say.
LEMMA AssembledCarries ==
  ASSUME WriterInv, Closed, NEW h, h.comp = Comp, NEW items, NEW bytes, IsSeq(items), IsSeq(bytes),
         Len(bytes) = Len(items), \A k \in 1..Len(items) : Known(items[k]) /\ bytes[k] = Cells(items[k]),
         NEW flags, NEW number, NEW parts, NEW boot \in BOOLEAN
  PROVE  Assembled(Assemble(h, items, bytes, Catalog, flags, number, parts, boot), h, items, flags, number, boot)
<1> DEFINE f == Assemble(h, items, bytes, Catalog, flags, number, parts, boot)
           es == Moved(items, bytes)
           ni == Len(images)
<1>1. ImagesInv /\ IsSeq(Catalog) /\ Len(Catalog) = 1 /\ BootIndex \in 0..ni
  BY HeaderIs DEF WriterInv
<1>2. Measured(items, bytes)
  <2>1. ASSUME NEW k \in 1..Len(items)
        PROVE  /\ IsSeq(bytes[k]) /\ bytes[k] # <<>>
               /\ items[k] = Entry(Descriptor(items[k].rd.at, Len(bytes[k]), items[k].rd.orig, items[k].rd.flags), items[k].hash)
    <3>1. Known(items[k]) /\ bytes[k] = Cells(items[k])
      OBVIOUS
    <3>2. QED BY <1>1, <3>1, StoredMeasured
  <2>2. QED BY <2>1 DEF Measured
<1>3. Headed(f, h, items, bytes, Catalog, flags, number, boot) /\ Relocated(f, es, items, bytes)
  BY <1>1, <1>2, AssembledIs
<1> HIDE DEF f
<1>4. /\ IsSeq(f) /\ IsWim(f) /\ f[1].comp = Comp /\ f[1].flags = flags /\ f[1].part = number
      /\ f[1].xml.size = 1 /\ f[1].xml.flags = {} /\ ReadResourceRaw(f, f[1].xml) = Got(Catalog)
      /\ Table(f) = es /\ ReadResourceRaw(f, f[1].table).ok /\ f[1].bootIndex = (IF boot THEN h.bootIndex ELSE 0)
      /\ f[1].boot = (IF boot THEN MovedBoot(h, items, es) ELSE NoResource)
  BY <1>1, <1>3 DEF Headed, IsWim
<1> HIDE DEF es
<1>5. IsSeq(es) /\ Len(es) = Len(items) /\ \A j, k \in 1..Len(items) : j < k => es[j].rd.at < es[k].rd.at
  BY <1>3 DEF Relocated
<1>6. \A k \in 1..Len(items) : MovesTo(f, items[k], es[k])
  BY <1>1, <1>3, MovedKnown
<1>7. Carries(f)
  BY <1>4, <1>5, <1>6 DEF Carries, MovesTo
<1>8. ASSUME boot, Leads(h, items) PROVE Leads(f[1], es)
  <2>1. ni \in Nat /\ Len(items) \in Nat /\ ni <= Len(items) /\ DOMAIN items = 1..Len(items) /\ DOMAIN added = 1..ni
    BY <1>1, <1>8, SeqHas DEF Leads, ImagesInv
  <2>2. \A i \in 1..ni : i \in 1..Len(items) /\ i \in DOMAIN added
    BY <2>1
  <2> HIDE DEF ni
  <2>3. \A i \in 1..ni : MetaEntry(items[i], i)
    BY <1>8 DEF Leads, ni
  <2>4. \A i \in 1..ni : MetaEntry(es[i], i)
    BY <1>6, <2>2, <2>3 DEF MovesTo
  <2>5. \A k \in 1..Len(items) : IsMeta(es[k]) => k \in 1..ni
    BY <1>6, <1>8 DEF MovesTo, Leads, ni
  <2>6. \A i, j \in 1..ni : es[i].rd.at = es[j].rd.at => i = j
    <3>1. ASSUME NEW i \in 1..ni, NEW j \in 1..ni, es[i].rd.at = es[j].rd.at PROVE i = j
      <4>1. i \in 1..Len(items) /\ j \in 1..Len(items) /\ i \in Int /\ j \in Int
        BY <2>2
      <4>2. Stored(f, es[i])
        BY <1>6, <4>1 DEF MovesTo
      <4>3. es[i].rd.at \in Int
        BY <4>2 DEF Stored, Holds
      <4>4. ~(i < j) /\ ~(j < i)
        <5>1. i < j => es[i].rd.at < es[j].rd.at
          BY <1>5, <4>1
        <5>2. j < i => es[j].rd.at < es[i].rd.at
          BY <1>5, <4>1
        <5>3. QED BY <3>1, <4>3, <5>1, <5>2
      <4>5. QED BY <4>1, <4>4
    <3>2. QED BY <3>1
  <2>7. f[1].bootIndex = BootIndex /\ f[1].boot = MovedBoot(h, items, es)
    BY <1>4, <1>8 DEF Leads
  <2>8. MovedBoot(h, items, es) = IF BootIndex = 0 THEN NoResource ELSE es[BootIndex].rd
    <3>1. \A k \in DOMAIN items : IsMeta(items[k]) => k \in 1..ni
      BY <1>8, <2>1 DEF Leads, ni
    <3>2. \A k \in 1..ni : k \in DOMAIN items /\ IsMeta(items[k]) /\ items[k].rd.size # 0
      <4>1. TAKE k \in 1..ni
      <4>2. IsMeta(items[k]) /\ IsSeq(Cells(items[k])) /\ Cells(items[k]) # <<>> /\ items[k].rd.size = Len(Cells(items[k]))
        BY <1>1, <2>2, <2>3, MetaIs
      <4>3. Len(Cells(items[k])) # 0
        BY <4>2, SeqHas
      <4>4. QED BY <2>1, <2>2, <4>2, <4>3
    <3>3. \A j, k \in 1..ni : items[j].rd.at = items[k].rd.at => j = k
      BY <1>8 DEF Leads, ni
    <3>4. h.boot = IF BootIndex = 0 THEN NoResource ELSE items[BootIndex].rd
      BY <1>8 DEF Leads
    <3>5. ni \in Nat /\ BootIndex \in 0..ni
      BY <1>1, <2>1 DEF ni
    <3>6. BootAmong(h, items, ni, BootIndex)
      BY <3>1, <3>2, <3>3, <3>4 DEF BootAmong
    <3>7. QED BY <3>5, <3>6, BootMoves
  <2>9. QED BY <1>5, <2>1, <2>4, <2>5, <2>6, <2>7, <2>8 DEF Leads, ni
<1>9. QED BY <1>4, <1>5, <1>6, <1>7, <1>8 DEF Assembled, f


--------------------------------------------------------------------------------
(* The parts of a closed WIM. *)

\* What writePart copies into part n, and where it finds it.
PartOf(items, n) ==
  /\ IsSeq(items) /\ \A k \in 1..Len(items) : Stored(out, items[k])
  /\ n = 1 => Leads(out[1], items)

\* packParts gives the first part the metadata of all the images, and each content to
\* some part.
LEMMA PartItems ==
  ASSUME WriterInv, Closed, ApartInv, NEW m \in Int
  PROVE  /\ IsSeq(PackParts(out, m))
         /\ \A n \in 1..Len(PackParts(out, m)) : PartOf(PackParts(out, m)[n], n)
         /\ \A h \in Hashes : \E n \in 1..Len(PackParts(out, m)) : \E k \in 1..Len(PackParts(out, m)[n]) :
              PackParts(out, m)[n][k].hash = h /\ ~IsMeta(PackParts(out, m)[n][k])
<1> DEFINE ps == PackParts(out, m)
           metas == MetaItems(out)
           E == ToSet(metas) \cup ToSet(BlobItems(out))
           t == Table(out)
           nb == Len(blobs)
           ni == Len(images)
<1>1. /\ Packed(ps, metas, Len(metas) + Len(BlobItems(out)), E, m) /\ Fronted(ps, metas)
      /\ E = {e \in ToSet(t) : e.hash # <<>>}
  BY ItemsAre, PackedAll
<1>2. /\ nb \in Nat /\ ni \in Nat /\ IsSeq(t) /\ Len(t) = nb + ni
      /\ DOMAIN added = 1..ni /\ DOMAIN images = 1..ni
      /\ \A k \in 1..nb : BlobEntry(t[k]) /\ Stored(out, t[k]) /\ t[k] = blobs[k]
      /\ \A i \in 1..ni : MetaEntry(t[nb + i], i) /\ Stored(out, t[nb + i]) /\ t[nb + i].rd = images[i].rd
  BY OutStored
<1>4. IsSeq(metas) /\ Len(metas) = ni /\ \A i \in 1..ni : metas[i] = t[nb + i]
  BY MetaItemsAre
<1>5. ImagesInv /\ BootIndex \in 0..ni /\ out[1].bootIndex = BootIndex /\ out[1].boot = BootResource
  BY HeaderIs DEF WriterInv
<1> HIDE DEF ps, metas, t, nb, ni
<1>6. /\ IsSeq(ps) /\ \A j \in 1..Len(ps) : IsSeq(ps[j])
      /\ ps # <<>> /\ ToSet(FlattenSeq(ps)) = E
  BY <1>1 DEF Packed, PartIs, Sized
<1>7. /\ \A i \in 1..Len(ps) : \A k \in 1..Len(ps[i]) : ps[i][k] \in E
      /\ \A x \in E : \E i \in 1..Len(ps) : \E k \in 1..Len(ps[i]) : x = ps[i][k]
  <2> DEFINE w == FlattenSeq(ps)
  <2>1. /\ IsSeq(w) /\ Len(w) \in Nat
        /\ \A i \in 1..Len(ps) : \A k \in 1..Len(ps[i]) : ps[i][k] \in ToSet(w)
        /\ \A p \in 1..Len(w) : \E i \in 1..Len(ps) : \E k \in 1..Len(ps[i]) : w[p] = ps[i][k]
    BY <1>6, InFlat
  <2>2. ToSet(w) = E
    BY <1>6
  <2> HIDE DEF w, E
  <2>3. \A x \in E : \E p \in 1..Len(w) : w[p] = x
    BY <2>1, <2>2, SeqHas
  <2>4. \A x \in E : \E i \in 1..Len(ps) : \E k \in 1..Len(ps[i]) : x = ps[i][k]
    <3>1. TAKE x \in E
    <3>2. PICK p \in 1..Len(w) : w[p] = x
      BY <2>3
    <3>3. PICK i \in 1..Len(ps) : \E k \in 1..Len(ps[i]) : w[p] = ps[i][k]
      BY <2>1
    <3>4. QED BY <3>2, <3>3
  <2>5. \A i \in 1..Len(ps) : \A k \in 1..Len(ps[i]) : ps[i][k] \in E
    BY <2>1, <2>2
  <2>6. QED BY <2>4, <2>5
<1>8. \A x \in ToSet(t) : Stored(out, x)
  <2>1. ASSUME NEW k \in 1..(nb + ni) PROVE Stored(out, t[k])
    <3>1. CASE k <= nb
      BY <1>2, <3>1
    <3>2. CASE ~(k <= nb)
      <4> DEFINE i == k - nb
      <4>1. i \in 1..ni /\ nb + i = k
        BY <1>2, <3>2
      <4> HIDE DEF i
      <4>2. QED BY <1>2, <4>1
    <3>3. QED BY <3>1, <3>2
  <2>2. QED BY <1>2, <2>1, SeqHas
<1>9. ASSUME NEW n \in 1..Len(ps), n = 1 PROVE Leads(out[1], ps[n])
  <2>1. PICK rest : IsSeq(rest) /\ ps[1] = metas \o rest /\ \A x \in ToSet(rest) : ~IsMeta(x)
    BY <1>1 DEF Fronted
  <2> DEFINE p == ps[1]
             l == Len(rest)
  <2>2. /\ l \in Nat /\ Len(p) = ni + l
        /\ \A k \in 1..(ni + l) : p[k] = IF k <= ni THEN metas[k] ELSE rest[k - ni]
    <3>1. l \in Nat
      BY <2>1, SeqHas
    <3>2. /\ Len(metas \o rest) = Len(metas) + Len(rest)
          /\ \A k \in 1..(Len(metas) + Len(rest)) :
               (metas \o rest)[k] = IF k <= Len(metas) THEN metas[k] ELSE rest[k - Len(metas)]
      BY <1>4, <2>1, SeqConcat
    <3>3. QED BY <1>4, <2>1, <3>1, <3>2
  <2> HIDE DEF p
  <2>3. \A i \in 1..ni : p[i] = t[nb + i]
    <3>1. TAKE i \in 1..ni
    <3>2. i \in 1..(ni + l) /\ i <= ni
      BY <1>2, <2>2
    <3>3. QED BY <1>4, <2>2, <3>2
  <2>4. \A k \in 1..Len(p) : IsMeta(p[k]) => k \in 1..ni
    <3>1. TAKE k \in 1..Len(p)
    <3>2. SUFFICES ASSUME IsMeta(p[k]), ~(k <= ni) PROVE FALSE
      BY <1>2, <2>2
    <3> DEFINE j == k - ni
    <3>3. j \in 1..l /\ k \in 1..(ni + l)
      BY <1>2, <2>2, <3>2
    <3>4. p[k] = rest[j]
      BY <2>2, <3>2, <3>3
    <3> HIDE DEF j, l
    <3>5. rest[j] \in ToSet(rest)
      BY <2>1, <3>3, SeqHas DEF l
    <3>6. QED BY <2>1, <3>2, <3>4, <3>5
  <2>5. ni <= Len(p)
    BY <1>2, <2>2
  <2>6. \A i, j \in 1..ni : p[i].rd.at = p[j].rd.at => i = j
    <3>1. ASSUME NEW i \in 1..ni, NEW j \in 1..ni, p[i].rd.at = p[j].rd.at PROVE i = j
      <4>1. p[i].rd = images[i].rd /\ p[j].rd = images[j].rd
        BY <1>2, <2>3
      <4>2. images[i].rd.at = images[j].rd.at
        BY <3>1, <4>1
      <4>3. QED BY <1>2, <4>2 DEF ApartInv, Closed
    <3>2. QED BY <3>1
  <2>7. out[1].boot = IF BootIndex = 0 THEN NoResource ELSE p[BootIndex].rd
    <3>1. CASE BootIndex = 0
      BY <1>5, <3>1 DEF BootResource
    <3>2. CASE BootIndex # 0
      <4>1. BootIndex \in 1..ni
        BY <1>2, <1>5, <3>2
      <4>2. p[BootIndex].rd = images[BootIndex].rd
        BY <1>2, <2>3, <4>1
      <4>3. QED BY <1>5, <3>2, <4>2 DEF BootResource
    <3>3. QED BY <3>1, <3>2
  <2>8. \A i \in 1..ni : MetaEntry(p[i], i)
    BY <1>2, <2>3
  <2>9. Leads(out[1], p)
    BY <1>5, <2>4, <2>5, <2>6, <2>7, <2>8 DEF Leads, ni
  <2>10. QED BY <1>9, <2>9 DEF p
<1>10. ASSUME NEW n \in 1..Len(ps) PROVE PartOf(ps[n], n)
  <2>1. \A k \in 1..Len(ps[n]) : Stored(out, ps[n][k])
    BY <1>1, <1>7, <1>8
  <2>2. QED BY <1>6, <1>9, <2>1 DEF PartOf
<1>11. ASSUME NEW h \in Hashes
       PROVE  \E n \in 1..Len(ps) : \E k \in 1..Len(ps[n]) : ps[n][k].hash = h /\ ~IsMeta(ps[n][k])
  <2>1. PICK j \in DOMAIN blobs : blobs[j].hash = h
    BY DEF Hashes
  <2>2. j \in 1..nb
    BY <2>1, SeqHas DEF WriterInv, BlobsInv, nb
  <2>3. BlobEntry(t[j]) /\ t[j].hash = h
    BY <1>2, <2>1, <2>2
  <2>4. t[j] \in ToSet(t)
    <3>1. j \in 1..Len(t)
      BY <1>2, <2>2
    <3>2. QED BY <1>2, <3>1, SeqHas
  <2>5. t[j].hash # <<>> /\ ~IsMeta(t[j])
    BY <2>3, BlobIs DEF BlobEntry
  <2>6. t[j] \in E
    BY <1>1, <2>4, <2>5
  <2>7. PICK n \in 1..Len(ps) : \E k \in 1..Len(ps[n]) : t[j] = ps[n][k]
    BY <1>7, <2>6
  <2>8. QED BY <2>3, <2>5, <2>7
<1>12. QED BY <1>6, <1>10, <1>11 DEF ps

\* A part carries them.
PartCarried(f, items, n) ==
  /\ Carries(f) /\ f[1].flags = {"spanned"} /\ f[1].part = n
  /\ Len(Table(f)) = Len(items) /\ \A k \in 1..Len(items) : MovesTo(f, items[k], Table(f)[k])
  /\ n = 1 => Leads(f[1], Table(f))

\* writePart: the part carries what packParts gave it.
LEMMA PartCarries ==
  ASSUME WriterInv, Closed, ApartInv, NEW m \in Int, NEW n \in 1..Len(PackParts(out, m))
  PROVE  PartCarried(PartFile(out, n, m), PackParts(out, m)[n], n)
<1> DEFINE ps == PackParts(out, m)
           items == ps[n]
           bytes == [j \in DOMAIN items |-> ReadResourceRaw(out, items[j].rd).data]
           l == Len(items)
           first == n = 1
           f == Assemble(out[1], items, bytes, Catalog, out[1].flags \cup {"spanned"}, n, Len(ps), first)
<1>1. IsSeq(items) /\ (\A k \in 1..l : Stored(out, items[k])) /\ (n = 1 => Leads(out[1], items))
  BY PartItems DEF PartOf
<1>2. /\ IsSeq(out) /\ ImagesInv /\ out[1].comp = Comp /\ out[1].flags = {}
      /\ ReadResourceRaw(out, out[1].xml).data = Catalog
  BY HeaderIs DEF WriterInv, Got
<1>3. PartFile(out, n, m) = f
  BY <1>2 DEF PartFile
<1> HIDE DEF items
<1>4. l \in Nat /\ DOMAIN items = 1..l
  BY <1>1, SeqHas
<1>5. IsSeq(bytes) /\ Len(bytes) = l /\ \A k \in 1..l : Known(items[k]) /\ bytes[k] = Cells(items[k])
  <2>1. \A k \in 1..l : bytes[k] = ReadResourceRaw(out, items[k].rd).data
    BY <1>4
  <2>2. bytes = [k \in 1..l |-> bytes[k]]
    BY <1>4
  <2> HIDE DEF bytes, l
  <2>3. \A k \in 1..l : Known(items[k]) /\ ReadResourceRaw(out, items[k].rd) = Got(Cells(items[k]))
    <3>1. TAKE k \in 1..l
    <3>2. Stored(out, items[k]) /\ Known(items[k])
      BY <1>1 DEF Stored
    <3>3. QED BY <1>2, <3>2, StoredMeasured
  <2>a. \A x : Got(x).data = x
    BY DEF Got
  <2>4. \A k \in 1..l : bytes[k] = Cells(items[k])
    BY <2>1, <2>3, <2>a
  <2>5. QED BY <1>4, <2>2, <2>3, <2>4, SeqOfFunction
<1> HIDE DEF bytes, ps
<1>6. first \in BOOLEAN
  OBVIOUS
<1> DEFINE flags == out[1].flags \cup {"spanned"}
<1> HIDE DEF first, flags
<1>7. Assembled(Assemble(out[1], items, bytes, Catalog, flags, n, Len(ps), first), out[1], items, flags, n, first)
  BY <1>1, <1>2, <1>5, <1>6, AssembledCarries
<1>8. Assembled(f, out[1], items, flags, n, first)
  BY <1>7 DEF flags
<1> HIDE DEF f
<1>9. flags = {"spanned"}
  BY <1>2 DEF flags
<1>10. n = 1 => first
  BY DEF first
<1>11. PartCarried(f, items, n)
  BY <1>1, <1>8, <1>9, <1>10 DEF Assembled, PartCarried
<1>12. QED BY <1>3, <1>11 DEF items, ps

\* A part that was not finished has no number.
LEMMA TornIs ==
  ASSUME NEW f, IsSeq(f), f # <<>>, NEW n \in {1, Len(f)}
  PROVE  PartNumber(Torn(f, n)) = 0
<1> DEFINE blank == [mark |-> "placeholder"]
           g == [f EXCEPT ![1] = blank]
           s == SubSeq(g, 1, n)
           l == Len(f)
<1>1. l \in Nat \ {0} /\ DOMAIN f = 1..l
  BY SeqHas
<1>0. n = 1 \/ n = l
  OBVIOUS
<1> HIDE DEF l
<1>a. 1 \in 1..l /\ n \in Nat \ {0} /\ n <= l
  BY <1>0, <1>1
<1>2. IsSeq(g) /\ Len(g) = l /\ g[1] = blank
  <2> HIDE DEF blank
  <2>1. g = [k \in 1..l |-> g[k]] /\ g[1] = blank
    BY <1>1, <1>a
  <2> HIDE DEF g
  <2>2. QED BY <1>1, <2>1, SeqOfFunction
<1> HIDE DEF g, blank
<1>3. s # <<>> /\ s[1] = blank
  <2>1. g \in Seq(ToSet(g)) /\ n \in Nat \ {0} /\ n <= Len(g)
    BY <1>2, <1>a DEF IsSeq
  <2>2. Len(s) = n /\ s[1] = g[1] /\ s \in Seq(ToSet(g))
    BY <2>1
  <2> HIDE DEF s
  <2>3. QED BY <1>2, <2>1, <2>2, SeqIs
<1>4. "table" \notin DOMAIN blank
  BY DEF blank
<1> HIDE DEF s
<1>5. ~IsWim(s)
  BY <1>3, <1>4 DEF IsWim
<1>6. Torn(f, n) = s
  BY DEF Torn, s, g, blank
<1>7. QED BY <1>5, <1>6 DEF PartNumber


--------------------------------------------------------------------------------
(* What Join makes of parts in order. *)

GivenParts(parts) ==
  /\ IsSeq(parts) /\ parts # <<>>
  /\ \A i \in 1..Len(parts) : Carries(parts[i]) /\ (PartNumber(parts[i]) = 1 <=> i = 1)
  /\ Leads(parts[1][1], Table(parts[1]))

\* The metadata of part 1, then each content from one of the parts, once.
Chosen(f, k) == [p |-> f, e |-> Table(f)[k]]

Planned(plan, parts) ==
  /\ IsSeq(plan) /\ Len(images) <= Len(plan)
  /\ \A k \in 1..Len(images) : plan[k] = Chosen(parts[1], k) /\ k \in 1..Len(Table(parts[1]))
  /\ \A k \in 1..Len(plan) :
       \/ k \in 1..Len(images)
       \/ /\ ~IsMeta(plan[k].e)
          /\ \E i \in 1..Len(parts) : \E c \in 1..Len(Table(parts[i])) : plan[k] = Chosen(parts[i], c)
  /\ \A j, k \in 1..Len(plan) :
       ~IsMeta(plan[j].e) /\ ~IsMeta(plan[k].e) /\ plan[j].e.hash = plan[k].e.hash => j = k
  /\ \A i \in 1..Len(parts) : \A c \in 1..Len(Table(parts[i])) :
       ~IsMeta(Table(parts[i])[c]) =>
         \E k \in 1..Len(plan) : ~IsMeta(plan[k].e) /\ plan[k].e.hash = Table(parts[i])[c].hash

\* The entries of all the parts, one after another.
Listed(all, parts) ==
  /\ IsSeq(all)
  /\ \A p \in 1..Len(all) : \E i \in 1..Len(parts) : \E c \in 1..Len(Table(parts[i])) :
       all[p] = Chosen(parts[i], c) /\ (i = 1 => p = c)
  /\ \A i \in 1..Len(parts) : \A c \in 1..Len(Table(parts[i])) : Chosen(parts[i], c) \in ToSet(all)
  /\ \A c \in 1..Len(Table(parts[1])) : c \in 1..Len(all) /\ all[c] = Chosen(parts[1], c)

\* Join lists them so.
LEMMA ListedIs ==
  ASSUME NEW parts, GivenParts(parts)
  PROVE  Listed(FlattenSeq([i \in DOMAIN parts |-> [k \in DOMAIN Table(parts[i]) |-> Chosen(parts[i], k)]]), parts)
<1> DEFINE row(i) == [k \in DOMAIN Table(parts[i]) |-> Chosen(parts[i], k)]
           rows == [i \in DOMAIN parts |-> row(i)]
           all == FlattenSeq(rows)
           n == Len(parts)
<1>1. n \in Nat \ {0} /\ DOMAIN parts = 1..n /\ \A i \in 1..n : IsSeq(Table(parts[i]))
  <2>1. IsSeq(parts) /\ parts # <<>> /\ \A i \in 1..n : IsSeq(Table(parts[i]))
    BY DEF GivenParts, Carries
  <2>2. QED BY <2>1, SeqHas
<1>2. ASSUME NEW i \in 1..n
      PROVE  /\ IsSeq(row(i)) /\ Len(row(i)) = Len(Table(parts[i]))
             /\ \A k \in 1..Len(Table(parts[i])) : row(i)[k] = Chosen(parts[i], k)
  <2> DEFINE l == Len(Table(parts[i]))
             r == row(i)
  <2>1. l \in Nat /\ DOMAIN Table(parts[i]) = 1..l
    BY <1>1, SeqHas
  <2>2. r = [k \in 1..l |-> r[k]] /\ \A k \in 1..l : r[k] = Chosen(parts[i], k)
    BY <2>1
  <2> HIDE DEF r
  <2>3. IsSeq(r) /\ Len(r) = l
    BY <2>1, <2>2, SeqOfFunction
  <2>4. QED BY <2>2, <2>3 DEF r
<1> HIDE DEF row
<1>3. IsSeq(rows) /\ Len(rows) = n /\ \A i \in 1..n : rows[i] = row(i)
  <2>1. rows = [i \in 1..n |-> rows[i]] /\ \A i \in 1..n : rows[i] = row(i)
    BY <1>1
  <2> HIDE DEF rows, n
  <2>2. QED BY <1>1, <2>1, SeqOfFunction
<1>4. rows # <<>> /\ 1 \in 1..n
  <2> HIDE DEF rows, n
  <2>1. QED BY <1>1, <1>3, SeqHas
<1> HIDE DEF rows
<1>5. /\ IsSeq(all)
      /\ \A i \in 1..n : \A k \in 1..Len(rows[i]) : rows[i][k] \in ToSet(all)
      /\ \A p \in 1..Len(all) : \E i \in 1..n : \E k \in 1..Len(rows[i]) :
           all[p] = rows[i][k] /\ (i = 1 => p = k)
      /\ \A k \in 1..Len(rows[1]) : k \in 1..Len(all) /\ all[k] = rows[1][k]
  <2>1. \A i \in 1..Len(rows) : IsSeq(rows[i])
    BY <1>2, <1>3
  <2>2. IsSeq(rows)
    BY <1>3
  <2>3. /\ IsSeq(all)
        /\ \A i \in 1..Len(rows) : \A k \in 1..Len(rows[i]) : rows[i][k] \in ToSet(all)
        /\ \A p \in 1..Len(all) : \E i \in 1..Len(rows) : \E k \in 1..Len(rows[i]) :
             all[p] = rows[i][k] /\ (i = 1 => p = k)
    BY <2>1, <2>2, InFlat
  <2>4. \A k \in 1..Len(rows[1]) : k \in 1..Len(all) /\ all[k] = rows[1][k]
    BY <1>4, <2>1, <2>2, InFlat
  <2>5. Len(rows) = n
    BY <1>3
  <2> HIDE DEF all, n
  <2>6. QED BY <2>3, <2>4, <2>5
<1> HIDE DEF all
<1>6. \A i \in 1..n : \A c \in 1..Len(Table(parts[i])) : Chosen(parts[i], c) \in ToSet(all)
  <2>1. TAKE i \in 1..n
  <2>2. TAKE c \in 1..Len(Table(parts[i]))
  <2>3. c \in 1..Len(rows[i]) /\ rows[i][c] = Chosen(parts[i], c)
    BY <1>2, <1>3
  <2>4. QED BY <1>5, <2>3
<1>7. \A p \in 1..Len(all) : \E i \in 1..n : \E c \in 1..Len(Table(parts[i])) :
        all[p] = Chosen(parts[i], c) /\ (i = 1 => p = c)
  <2>1. TAKE p \in 1..Len(all)
  <2>2. PICK i \in 1..n : \E k \in 1..Len(rows[i]) : all[p] = rows[i][k] /\ (i = 1 => p = k)
    BY <1>5
  <2>3. PICK k \in 1..Len(rows[i]) : all[p] = rows[i][k] /\ (i = 1 => p = k)
    BY <2>2
  <2>4. k \in 1..Len(Table(parts[i])) /\ rows[i][k] = Chosen(parts[i], k)
    BY <1>2, <1>3
  <2>5. QED BY <2>3, <2>4
<1>8. \A c \in 1..Len(Table(parts[1])) : c \in 1..Len(all) /\ all[c] = Chosen(parts[1], c)
  <2>1. TAKE c \in 1..Len(Table(parts[1]))
  <2>2. c \in 1..Len(rows[1]) /\ rows[1][c] = Chosen(parts[1], c)
    BY <1>2, <1>3, <1>4
  <2>3. QED BY <1>5, <2>2
<1>9. Listed(all, parts)
  BY <1>5, <1>6, <1>7, <1>8 DEF Listed
<1>10. QED BY <1>9 DEF all, rows, row

\* The copy plan is one.
LEMMA PlanIs ==
  ASSUME ImagesInv, NEW parts, GivenParts(parts)
  PROVE  Planned(JoinItems(parts), parts)
<1> DEFINE ni == Len(images)
           t == Table(parts[1])
           all == FlattenSeq([i \in DOMAIN parts |-> [k \in DOMAIN Table(parts[i]) |-> Chosen(parts[i], k)]])
           n == Len(all)
           ofs == {k \in DOMAIN all : IsMeta(all[k].e) /\ PartNumber(all[k].p) = 1}
           first == {k \in DOMAIN all : /\ ~IsMeta(all[k].e) /\ all[k].e.hash # <<>>
                                        /\ \A j \in 1..(k - 1) : ~IsMeta(all[j].e) => all[j].e.hash # all[k].e.hash}
           L1 == [i \in ofs |-> {j \in ofs : j < i}]
           L2 == [i \in first |-> {j \in first : j < i}]
           ms == Picked(all, ofs, L1)
           bs == Picked(all, first, L2)
<1>1. JoinItems(parts) = ms \o bs
  BY DEF JoinItems, Select, Arranged, Picked, Chosen
<1>2. Listed(all, parts)
  BY ListedIs
<1> HIDE DEF all
<1>3. IsSeq(all) /\ n \in Nat /\ DOMAIN all = 1..n
  BY <1>2, SeqHas DEF Listed
<1>4. Leftward(L1, ofs) /\ Leftward(L2, first)
  BY DEF Leftward
<1>5. /\ first \in SUBSET (1..n) /\ \A k \in first : k \in Int
      /\ \A k \in first : /\ ~IsMeta(all[k].e) /\ all[k].e.hash # <<>>
                          /\ \A j \in 1..(k - 1) : ~IsMeta(all[j].e) => all[j].e.hash # all[k].e.hash
      /\ \A k \in 1..n : ~IsMeta(all[k].e) /\ all[k].e.hash # <<>>
                         /\ (\A j \in 1..(k - 1) : ~IsMeta(all[j].e) => all[j].e.hash # all[k].e.hash) => k \in first
  <2> HIDE DEF n
  <2>1. QED BY <1>3
<1>6. \A k \in 1..n : k \in ofs <=> IsMeta(all[k].e) /\ PartNumber(all[k].p) = 1
  BY <1>3
<1>7. ofs \in SUBSET (1..n)
  BY <1>3
<1> HIDE DEF ofs, first, L1, L2
<1>8. /\ ni \in Nat /\ Len(t) \in Nat /\ ni <= Len(t) /\ DOMAIN added = 1..ni
      /\ \A i \in 1..ni : MetaEntry(t[i], i)
      /\ \A k \in 1..Len(t) : IsMeta(t[k]) => k \in 1..ni
  <2>1. IsSeq(t)
    <3>1. IsSeq(parts) /\ parts # <<>> /\ \A i \in 1..Len(parts) : IsSeq(Table(parts[i]))
      BY DEF GivenParts, Carries
    <3>2. 1 \in 1..Len(parts)
      BY <3>1, SeqHas
    <3>3. QED BY <3>1, <3>2
  <2>2. Len(t) \in Nat
    BY <2>1, SeqHas
  <2>3. ni \in Nat /\ DOMAIN added = 1..ni
    BY SeqHas DEF ImagesInv
  <2>4. QED BY <2>2, <2>3 DEF GivenParts, Leads
<1> HIDE DEF t, n, ni
<1>9. \A f, k : Chosen(f, k).p = f /\ Chosen(f, k).e = Table(f)[k]
  BY DEF Chosen
<1>10. ofs = (0 + 1)..(0 + ni)
  <2>1. ASSUME NEW k \in 1..ni PROVE k \in ofs
    <3>1. k \in 1..Len(t) /\ k \in DOMAIN added
      BY <1>8
    <3>2. k \in 1..n /\ all[k] = Chosen(parts[1], k)
      BY <1>2, <3>1 DEF Listed, t, n
    <3>3. IsMeta(t[k])
      BY <1>8, <3>1, MetaIs
    <3>4. PartNumber(parts[1]) = 1
      <4>1. 1 \in 1..Len(parts)
        BY SeqHas DEF GivenParts
      <4>2. QED BY <4>1 DEF GivenParts
    <3>5. QED BY <1>6, <1>9, <3>2, <3>3, <3>4 DEF t
  <2>2. ASSUME NEW k \in ofs PROVE k \in 1..ni
    <3>1. k \in 1..n /\ IsMeta(all[k].e) /\ PartNumber(all[k].p) = 1
      BY <1>6, <1>7
    <3>2. PICK i \in 1..Len(parts) : \E c \in 1..Len(Table(parts[i])) :
            all[k] = Chosen(parts[i], c) /\ (i = 1 => k = c)
      BY <1>2, <3>1 DEF Listed, n
    <3>3. PICK c \in 1..Len(Table(parts[i])) : all[k] = Chosen(parts[i], c) /\ (i = 1 => k = c)
      BY <3>2
    <3>4. i = 1
      BY <1>9, <3>1, <3>3 DEF GivenParts
    <3>5. k \in 1..Len(t) /\ IsMeta(t[k])
      BY <1>9, <3>1, <3>3, <3>4 DEF t
    <3>6. QED BY <1>8, <3>5
  <2>3. ofs = 1..ni
    BY <2>1, <2>2
  <2>4. QED BY <1>8, <2>3
<1>11. IsSeq(ms) /\ Len(ms) = ni /\ \A k \in 1..ni : ms[k] = all[k]
  <2>1. PICK a \in Nat : a = 0
    OBVIOUS
  <2>2. ofs = (a + 1)..(a + ni)
    BY <1>10, <2>1
  <2>3. Leftward(L1, ofs) /\ ni \in Nat
    BY <1>4, <1>8
  <2> HIDE DEF ms, bs
  <2>4. RunOf(Picked(all, ofs, L1), all, a, ni)
    BY <2>2, <2>3, PickedRun
  <2>5. \A k \in 1..ni : a + k = k
    BY <1>8, <2>1
  <2>6. QED BY <2>4, <2>5 DEF ms, RunOf
<1>12. IsSeq(ms) /\ Len(ms) = ni /\ \A k \in 1..ni : ms[k] = Chosen(parts[1], k) /\ k \in 1..Len(t)
  <2>1. \A k \in 1..ni : k \in 1..Len(t)
    BY <1>8
  <2> HIDE DEF ms
  <2>2. \A k \in 1..ni : all[k] = Chosen(parts[1], k)
    BY <1>2, <2>1 DEF Listed, t
  <2>3. QED BY <1>11, <2>1, <2>2
<1>13. IsOrder(L2, first) /\ \A i, j \in first : j \in L2[i] <=> j < i
  BY <1>4, <1>5, LeftwardOrder
<1>14. /\ IsSeq(bs) /\ Len(bs) = Cardinality(first)
       /\ \A x : x \in ToSet(bs) <=> \E i \in first : all[i] = x
  <2>1. n = Len(all)
    BY DEF n
  <2>2. first \in SUBSET (1..n) /\ IsOrder(L2, first) /\ IsSeq(all) /\ n \in Nat
    BY <1>3, <1>5, <1>13
  <2>3. /\ IsSeq(Picked(all, first, L2)) /\ Len(Picked(all, first, L2)) = Cardinality(first)
        /\ \A x : x \in ToSet(Picked(all, first, L2)) <=> \E i \in first : all[i] = x
    BY <2>1, <2>2, PickedIs
  <2>4. QED BY <2>3
<1>15. Ordered(bs, all, first, L2)
  BY <1>3, <1>5, <1>13, PickedOrdered
<1> HIDE DEF ms, bs
<1> DEFINE lb == Len(bs)
           plan == ms \o bs
<1>16. /\ IsSeq(plan) /\ Len(plan) = ni + lb /\ lb \in Nat
       /\ \A k \in 1..(ni + lb) : plan[k] = IF k <= ni THEN ms[k] ELSE bs[k - ni]
  <2>1. lb \in Nat
    BY <1>14, SeqHas
  <2>2. QED BY <1>12, <1>14, <2>1, SeqConcat
<1>17. \A k \in 1..lb : \E i \in first : bs[k] = all[i]
  BY <1>14, SeqHas
<1>18. \A j, k \in 1..lb : j < k => bs[j].e.hash # bs[k].e.hash
  <2>1. TAKE j, k \in 1..lb
  <2>2. HAVE j < k
  <2>3. PICK a \in first, b \in first : a \in L2[b] /\ bs[j] = all[a] /\ bs[k] = all[b]
    BY <1>14, <1>15, <2>2 DEF Ordered
  <2>4. a < b /\ a \in 1..n /\ b \in 1..n
    BY <1>5, <1>13, <2>3
  <2>5. a \in 1..(b - 1)
    BY <2>4
  <2>6. ~IsMeta(all[a].e)
    BY <1>5
  <2>7. QED BY <1>5, <2>3, <2>5, <2>6
<1> HIDE DEF plan, lb
<1>19. \A k \in 1..ni : plan[k] = Chosen(parts[1], k) /\ IsMeta(plan[k].e) /\ k \in 1..Len(t)
  <2>1. TAKE k \in 1..ni
  <2>2. k \in 1..(ni + lb) /\ k <= ni
    BY <1>8, <1>16
  <2>3. plan[k] = Chosen(parts[1], k) /\ k \in 1..Len(t)
    BY <1>12, <1>16, <2>2
  <2>4. IsMeta(t[k])
    BY <1>8, MetaIs
  <2>5. QED BY <1>9, <2>3, <2>4 DEF t
<1>20. \A k \in 1..(ni + lb) : k \in 1..ni \/ (k - ni \in 1..lb /\ plan[k] = bs[k - ni])
  BY <1>8, <1>16
<1>21. ASSUME NEW k \in 1..Len(plan), k \notin 1..ni
       PROVE  /\ ~IsMeta(plan[k].e)
              /\ \E i \in 1..Len(parts) : \E c \in 1..Len(Table(parts[i])) : plan[k] = Chosen(parts[i], c)
  <2>1. PICK p \in first : plan[k] = all[p]
    BY <1>16, <1>17, <1>20, <1>21
  <2>2. p \in 1..n /\ ~IsMeta(all[p].e)
    BY <1>5
  <2>3. QED BY <1>2, <2>1, <2>2 DEF Listed, n
<1>22. ASSUME NEW j \in 1..Len(plan), NEW k \in 1..Len(plan), ~IsMeta(plan[j].e), ~IsMeta(plan[k].e),
              plan[j].e.hash = plan[k].e.hash
       PROVE  j = k
  <2>1. j \notin 1..ni /\ k \notin 1..ni
    BY <1>19, <1>22
  <2> DEFINE a == j - ni
             b == k - ni
  <2>2. a \in 1..lb /\ b \in 1..lb /\ plan[j] = bs[a] /\ plan[k] = bs[b] /\ j = ni + a /\ k = ni + b
    BY <1>8, <1>16, <1>20, <2>1
  <2> HIDE DEF a, b
  <2>3. bs[a].e.hash = bs[b].e.hash
    BY <1>22, <2>2
  <2>4. ~(a < b) /\ ~(b < a)
    BY <1>18, <2>2, <2>3
  <2>5. QED BY <2>2, <2>4
<1>23. ASSUME NEW i \in 1..Len(parts), NEW c \in 1..Len(Table(parts[i])), ~IsMeta(Table(parts[i])[c])
       PROVE  \E k \in 1..Len(plan) : ~IsMeta(plan[k].e) /\ plan[k].e.hash = Table(parts[i])[c].hash
  <2> DEFINE h == Table(parts[i])[c].hash
             T == {p \in 1..n : ~IsMeta(all[p].e) /\ all[p].e.hash = h}
  <2>1. Chosen(parts[i], c) \in ToSet(all)
    BY <1>2 DEF Listed
  <2>2. PICK q \in 1..n : all[q] = Chosen(parts[i], c)
    BY <1>3, <2>1, SeqHas DEF n
  <2>3. q \in T /\ T \in SUBSET Nat
    BY <1>9, <1>23, <2>2
  <2>4. PICK p \in T : \A j \in T : p <= j
    BY <2>3, LeastExists
  <2>5. p \in 1..n /\ ~IsMeta(all[p].e) /\ all[p].e.hash = h
    OBVIOUS
  <2>6. h # <<>>
    <3>1. Stored(parts[i], Table(parts[i])[c])
      BY DEF GivenParts, Carries
    <3>2. Known(Table(parts[i])[c]) /\ ~IsMeta(Table(parts[i])[c])
      BY <1>23, <3>1 DEF Stored
    <3>3. BlobEntry(Table(parts[i])[c])
      BY <3>2, MetaIs DEF Known
    <3>4. QED BY <3>3 DEF BlobEntry
  <2>7. \A j \in 1..(p - 1) : ~IsMeta(all[j].e) => all[j].e.hash # h
    <3>1. ASSUME NEW j \in 1..(p - 1), ~IsMeta(all[j].e), all[j].e.hash = h PROVE FALSE
      <4>1. j \in 1..n /\ j < p /\ p \in Int
        BY <1>3, <2>5
      <4>2. j \in T
        BY <3>1, <4>1
      <4> HIDE DEF T
      <4>3. p <= j
        BY <2>4, <4>2
      <4>4. QED BY <4>1, <4>3
    <3>2. QED BY <3>1
  <2> HIDE DEF T, h
  <2>8. p \in first
    BY <1>5, <2>5, <2>6, <2>7
  <2>9. all[p] \in ToSet(bs)
    BY <1>14, <2>8
  <2>10. PICK b \in 1..lb : bs[b] = all[p]
    BY <1>14, <2>9, SeqHas DEF lb
  <2> DEFINE k == ni + b
  <2>11. k \in 1..(ni + lb) /\ ~(k <= ni) /\ k - ni = b
    BY <1>8, <1>16
  <2> HIDE DEF k
  <2>12. plan[k] = bs[b]
    BY <1>16, <2>11
  <2>13. k \in 1..Len(plan) /\ ~IsMeta(plan[k].e) /\ plan[k].e.hash = h
    BY <1>16, <2>5, <2>10, <2>11, <2>12
  <2>14. QED BY <2>13 DEF h
<1>24. ni <= Len(plan)
  BY <1>8, <1>16
<1>25. Planned(plan, parts)
  BY <1>16, <1>19, <1>21, <1>22, <1>23, <1>24 DEF Planned, ni, t
<1>26. QED BY <1>1, <1>25 DEF plan

--------------------------------------------------------------------------------
(* The reader of a joined WIM. *)

\* A table with the metadata of n images first, and each content once.
MetasFirst(t, l) ==
  /\ IsSeq(t) /\ l \in 0..Len(t)
  /\ \A k \in 1..Len(t) : ~IsSolid(t[k]) /\ (IsMeta(t[k]) <=> k <= l)
  /\ \A k \in (l + 1)..Len(t) : t[k].hash # <<>>
  /\ \A j, k \in (l + 1)..Len(t) : t[j].hash = t[k].hash => j = k

\* The metadata in that order, and where each content is.
ReadsTable(r, t, l) ==
  /\ r.loaded /\ IsSeq(r.metas) /\ Len(r.metas) = l
  /\ \A i \in 1..l : r.metas[i] = t[i].rd
  /\ DOMAIN r.blobs = {t[k].hash : k \in (l + 1)..Len(t)}
  /\ \A k \in (l + 1)..Len(t) : r.blobs[t[k].hash] = [solid |-> NoSolid, rd |-> t[k].rd]

\* Such a table fills the reader with them.
LEMMA MetasFirstRead ==
  ASSUME NEW f, NEW t, Table(f) = t, NEW ni, MetasFirst(t, ni), ReadResourceRaw(f, f[1].table).ok
  PROVE  ReadsTable(Opened(f), t, ni)
<1> DEFINE n == Len(t)
           loc(k) == [solid |-> NoSolid, rd |-> t[k].rd]
           H(i) == {t[k].hash : k \in {j \in i..n : j > ni}}
           R == [h \in H(1) |-> loc(CHOOSE k \in (ni + 1)..n : t[k].hash = h)]
           B(i) == [h \in H(i) |-> R[h]]
           left(i) == IF i <= ni THEN ni + 1 - i ELSE 0
           M(i) == [k \in 1..left(i) |-> t[i - 1 + k].rd]
           c == [i \in 1..(n + 1) |-> [loaded |-> TRUE, metas |-> M(i), blobs |-> B(i)]]
<1>1. /\ n \in Nat /\ ni \in Nat /\ ni <= n /\ IsSeq(t)
      /\ \A i \in 1..n : ~IsSolid(t[i]) /\ (IsMeta(t[i]) <=> i <= ni)
      /\ \A i \in (ni + 1)..n : t[i].hash # <<>>
  BY SeqHas DEF MetasFirst
<1>2. \A j, k \in (ni + 1)..n : t[j].hash = t[k].hash => j = k
  BY DEF MetasFirst
<1> HIDE DEF n
<1>3. \A k \in (ni + 1)..n : t[k].hash \in H(1) /\ R[t[k].hash] = loc(k)
  <2>1. TAKE k \in (ni + 1)..n
  <2> DEFINE j == CHOOSE j \in (ni + 1)..n : t[j].hash = t[k].hash
  <2>2. j \in (ni + 1)..n /\ t[j].hash = t[k].hash
    OBVIOUS
  <2>3. t[k].hash \in H(1)
    <3>1. k \in 1..n /\ k > ni
      BY <1>1
    <3>2. QED BY <3>1
  <2>4. R[t[k].hash] = loc(j)
    BY <2>3
  <2> HIDE DEF j, R
  <2>5. j = k
    BY <1>2, <2>2
  <2>6. QED BY <2>3, <2>4, <2>5
<1> HIDE DEF R, loc
<1>4. \A i \in 1..n : ~IsSolid(t[i])
  BY <1>1
<1>5. \A i \in 1..(n + 1) : left(i) \in Nat
  BY <1>1
<1>6. \A i \in 1..(n + 1) : IsSeq(M(i)) /\ Len(M(i)) = left(i)
  <2>1. TAKE i \in 1..(n + 1)
  <2>2. left(i) \in Nat
    BY <1>5
  <2> DEFINE l == left(i)
             s == M(i)
  <2>3. s = [k \in 1..l |-> s[k]] /\ l \in Nat
    BY <2>2
  <2> HIDE DEF l, s
  <2>4. IsSeq(s) /\ Len(s) = l
    BY <2>3, SeqOfFunction
  <2>5. QED BY <2>4 DEF l, s
<1>7. ASSUME NEW i \in (ni + 1)..n
      PROVE  /\ M(i) = <<>> \o M(i + 1)
             /\ B(i) = Updated(Only(t[i].hash, [solid |-> NoSolid, rd |-> t[i].rd]), B(i + 1))
  <2>1. i \in 1..(n + 1) /\ i + 1 \in 1..(n + 1) /\ left(i) = 0 /\ left(i + 1) = 0
    BY <1>1
  <2>2. M(i) = <<>> /\ M(i + 1) = <<>>
    <3>1. IsSeq(M(i)) /\ Len(M(i)) = 0 /\ IsSeq(M(i + 1)) /\ Len(M(i + 1)) = 0
      BY <1>6, <2>1
    <3> HIDE DEF M
    <3>2. QED BY <3>1, SeqHas
  <2>3. IsSeq(M(i + 1))
    BY <1>6, <2>1
  <2>4. M(i) = <<>> \o M(i + 1)
    <3> HIDE DEF M
    <3>1. QED BY <2>2, <2>3, NothingBefore
  <2>5. H(i) = H(i + 1) \cup {t[i].hash}
    <3>1. \A k : k \in {j \in i..n : j > ni} <=> k \in {j \in (i + 1)..n : j > ni} \/ k = i
      BY <1>1
    <3>2. QED BY <3>1
  <2>6. R[t[i].hash] = loc(i) /\ loc(i) = [solid |-> NoSolid, rd |-> t[i].rd]
    BY <1>3 DEF loc
  <2> HIDE DEF H
  <2>7. B(i) = Updated(Only(t[i].hash, [solid |-> NoSolid, rd |-> t[i].rd]), B(i + 1))
    <3> DEFINE h == t[i].hash
               v == loc(i)
               old == B(i + 1)
    <3>1. Only(h, v) = [z \in {h} |-> v]
      BY DEF Only
    <3>2. DOMAIN old = H(i + 1) /\ \A x \in H(i + 1) : old[x] = R[x]
      OBVIOUS
    <3> HIDE DEF old, h, v
    <3>3. Updated(Only(h, v), old) = [x \in H(i + 1) \cup {h} |-> IF x \in H(i + 1) THEN R[x] ELSE v]
      <4>1. DOMAIN Only(h, v) = {h} /\ Only(h, v)[h] = v
        BY <3>1
      <4>2. Updated(Only(h, v), old) = [x \in DOMAIN old \cup DOMAIN Only(h, v) |->
                                          IF x \in DOMAIN old THEN old[x] ELSE Only(h, v)[x]]
        BY DEF Updated
      <4>3. QED BY <3>2, <4>1, <4>2
    <3>4. R[h] = v /\ H(i) = H(i + 1) \cup {h} /\ v = [solid |-> NoSolid, rd |-> t[i].rd]
      BY <2>5, <2>6 DEF h, v
    <3>5. B(i) = [x \in H(i + 1) \cup {h} |-> IF x \in H(i + 1) THEN R[x] ELSE v]
      BY <3>4
    <3>6. QED BY <3>3, <3>4, <3>5 DEF old, h
  <2>8. QED BY <2>4, <2>7
<1>8. ASSUME NEW i \in 1..ni
      PROVE  M(i) = <<t[i].rd>> \o M(i + 1) /\ B(i) = Updated(<<>>, B(i + 1))
  <2> DEFINE a == ni - i
             s == M(i + 1)
             r == M(i)
             x == t[i].rd
             u == <<x>>
  <2>1. i \in 1..(n + 1) /\ i + 1 \in 1..(n + 1) /\ a \in Nat /\ left(i) = 1 + a /\ left(i + 1) = a
    BY <1>1
  <2>2. IsSeq(s) /\ Len(s) = a /\ \A k \in 1..a : s[k] = t[i + k].rd
    <3>1. IsSeq(s) /\ Len(s) = a
      BY <1>6, <2>1
    <3>2. \A k \in Int : i + 1 - 1 + k = i + k
      BY <1>1
    <3>3. \A k \in 1..a : s[k] = t[i + 1 - 1 + k].rd
      <4>1. s = [k \in 1..left(i + 1) |-> t[i + 1 - 1 + k].rd] /\ left(i + 1) = a
        BY <2>1
      <4> HIDE DEF s, a, left
      <4>2. QED BY <4>1
    <3> HIDE DEF s, a
    <3>4. \A k \in 1..a : s[k] = t[i + k].rd
      BY <3>2, <3>3
    <3>5. QED BY <3>1, <3>4
  <2>3. IsSeq(r) /\ Len(r) = 1 + a /\ \A k \in 1..(1 + a) : r[k] = t[i - 1 + k].rd
    BY <1>6, <2>1
  <2> HIDE DEF s, r, x, a
  <2>4. IsSeq(u) /\ Len(u) = 1 /\ u[1] = x
    <3>1. u \in Seq({x}) /\ Len(u) = 1 /\ u[1] = x
      OBVIOUS
    <3>2. QED BY <3>1, SeqIs
  <2> HIDE DEF u
  <2>5. /\ IsSeq(u \o s) /\ Len(u \o s) = 1 + a
        /\ \A k \in 1..(1 + a) : (u \o s)[k] = IF k <= 1 THEN u[k] ELSE s[k - 1]
    <3>1. /\ IsSeq(u \o s) /\ Len(u \o s) = Len(u) + Len(s)
          /\ \A k \in 1..(Len(u) + Len(s)) : (u \o s)[k] = IF k <= Len(u) THEN u[k] ELSE s[k - Len(u)]
      BY <2>2, <2>4, SeqConcat
    <3>2. QED BY <2>2, <2>4, <3>1
  <2>6. \A k \in 1..(1 + a) : r[k] = (u \o s)[k]
    <3>1. TAKE k \in 1..(1 + a)
    <3>2. CASE k = 1
      <4>1. i - 1 + k = i
        BY <3>2
      <4>2. QED BY <2>3, <2>4, <2>5, <3>2, <4>1 DEF x
    <3>3. CASE k # 1
      <4> DEFINE q == k - 1
      <4>1. q \in 1..a /\ ~(k <= 1) /\ i + q = i - 1 + k
        BY <2>1, <3>3
      <4> HIDE DEF q
      <4>2. (u \o s)[k] = s[q]
        BY <2>5, <4>1 DEF q
      <4>3. QED BY <2>2, <2>3, <4>1, <4>2
    <3>4. QED BY <3>2, <3>3
  <2>7. r = u \o s
    BY <2>3, <2>5, <2>6, SeqSame
  <2>8. H(i) = H(i + 1)
    <3>1. \A k : k \in {j \in i..n : j > ni} <=> k \in {j \in (i + 1)..n : j > ni}
      BY <1>1
    <3>2. QED BY <3>1
  <2> HIDE DEF H
  <2>9. B(i) = Updated(<<>>, B(i + 1))
    <3> DEFINE old == B(i + 1)
    <3>1. old = [h \in H(i + 1) |-> R[h]] /\ DOMAIN old = H(i + 1) /\ DOMAIN <<>> = {} /\ B(i) = old
      BY <2>8
    <3> HIDE DEF old
    <3>2. Updated(<<>>, old) = [h \in {} \cup DOMAIN old |-> IF h \in {} THEN <<>>[h] ELSE old[h]]
      BY <3>1 DEF Updated
    <3>3. [h \in {} \cup DOMAIN old |-> IF h \in {} THEN <<>>[h] ELSE old[h]] = old
      BY <3>1
    <3>4. QED BY <3>1, <3>2, <3>3 DEF old
  <2>10. QED BY <2>7, <2>9 DEF r, u, s, x
<1>9. M(n + 1) = <<>> /\ B(n + 1) = <<>>
  <2>1. n + 1 \in 1..(n + 1) /\ left(n + 1) = 0
    BY <1>1
  <2>2. IsSeq(M(n + 1)) /\ Len(M(n + 1)) = 0
    BY <1>6, <2>1
  <2>3. M(n + 1) = <<>>
    <3> HIDE DEF M
    <3>1. QED BY <2>2, SeqHas
  <2>4. H(n + 1) = {}
    <3>1. \A k : k \notin (n + 1)..n
      BY <1>1
    <3>2. QED BY <3>1
  <2>5. B(n + 1) = <<>>
    <3> HIDE DEF H
    <3>1. B(n + 1) = [x \in {} |-> R[x]]
      BY <2>4
    <3>2. <<>> = [x \in {} |-> R[x]]
      OBVIOUS
    <3>3. QED BY <3>1, <3>2
  <2>6. QED BY <2>3, <2>5
<1> HIDE DEF M, B, H, left
<1>10. Fills(c, t, n)
  <2> DEFINE Right(i) ==
        IF i > n THEN [EmptyReader EXCEPT !.loaded = TRUE]
        ELSE [loaded |-> c[i + 1].loaded,
              metas  |-> (IF IsMeta(t[i]) THEN <<t[i].rd>> ELSE <<>>) \o c[i + 1].metas,
              blobs  |-> Updated(IF IsMeta(t[i]) \/ t[i].hash = <<>> THEN <<>>
                                 ELSE Only(t[i].hash, [solid |-> NoSolid, rd |-> t[i].rd]),
                                 c[i + 1].blobs)]
  <2>1. ASSUME NEW i \in 1..(n + 1) PROVE [loaded |-> TRUE, metas |-> M(i), blobs |-> B(i)] = Right(i)
    <3>1. CASE i > n
      <4>1. i = n + 1
        BY <1>1, <3>1
      <4>2. QED BY <1>9, <3>1, <4>1 DEF EmptyReader
    <3>2. CASE ~(i > n)
      <4>1. i + 1 \in 1..(n + 1) /\ i \in 1..n
        BY <1>1, <3>2
      <4>2. c[i + 1] = [loaded |-> TRUE, metas |-> M(i + 1), blobs |-> B(i + 1)]
        BY <4>1
      <4>3. c[i + 1].loaded = TRUE /\ c[i + 1].metas = M(i + 1) /\ c[i + 1].blobs = B(i + 1)
        BY <4>2
      <4> HIDE DEF c
      <4>4. CASE i \in (ni + 1)..n
        <5>1. ~IsMeta(t[i]) /\ t[i].hash # <<>>
          BY <1>1, <4>1, <4>4
        <5>2. QED BY <1>7, <3>2, <4>3, <4>4, <5>1
      <4>5. CASE i \in 1..ni
        <5>1. IsMeta(t[i])
          BY <1>1, <4>1, <4>5
        <5>2. QED BY <1>8, <3>2, <4>3, <4>5, <5>1
      <4>6. i \in 1..ni \/ i \in (ni + 1)..n
        BY <1>1, <4>1
      <4>7. QED BY <4>4, <4>5, <4>6
    <3>3. QED BY <3>1, <3>2
  <2> DEFINE Left(i) == [loaded |-> TRUE, metas |-> M(i), blobs |-> B(i)]
  <2>2. \A i \in 1..(n + 1) : Left(i) = Right(i)
    BY <2>1
  <2>3. c = [i \in 1..(n + 1) |-> Left(i)]
    OBVIOUS
  <2> HIDE DEF Left, Right, c
  <2>4. c = [i \in 1..(n + 1) |-> Right(i)]
    BY <2>2, <2>3
  <2>5. QED BY <2>4 DEF Right, Fills
<1>11. c[1] = [loaded |-> TRUE, metas |-> M(1), blobs |-> B(1)]
  <2>1. 1 \in 1..(n + 1)
    BY <1>1
  <2>2. QED BY <2>1
<1> HIDE DEF c
<1>12. Scan(f, t, -1) = c[1]
  <2>1. n = Len(t)
    BY DEF n
  <2>2. QED BY <1>1, <1>4, <1>10, <2>1, ScanIs
<1>13. IsSeq(M(1)) /\ Len(M(1)) = ni /\ \A i \in 1..ni : M(1)[i] = t[i].rd
  <2>1. 1 \in 1..(n + 1) /\ left(1) = ni /\ \A i \in 1..ni : 1 - 1 + i = i
    BY <1>1 DEF left
  <2>2. M(1) = [k \in 1..ni |-> t[1 - 1 + k].rd]
    BY <2>1 DEF M
  <2>3. \A i \in 1..ni : M(1)[i] = t[i].rd
    BY <2>1, <2>2
  <2>4. QED BY <1>6, <2>1, <2>3
<1>14. B(1) = R
  <2>1. R = [h \in H(1) |-> R[h]]
    BY DEF R
  <2>2. QED BY <2>1 DEF B
<1>15. Opened(f) = [loaded |-> TRUE, metas |-> M(1), blobs |-> R]
  <2>1. <<>> \o M(1) = M(1)
    BY <1>13, NothingBefore
  <2>2. ~EmptyReader.loaded /\ EmptyReader.metas = <<>>
    BY DEF EmptyReader
  <2> DEFINE s == c[1]
  <2>3. s = [loaded |-> TRUE, metas |-> M(1), blobs |-> R]
    BY <1>11, <1>14
  <2>4. Opened(f) = [s EXCEPT !.metas = EmptyReader.metas \o @]
    BY <1>12, <2>2 DEF Opened, LoadOffsetTable
  <2> HIDE DEF s
  <2>5. QED BY <2>1, <2>2, <2>3, <2>4
<1>16. DOMAIN R = {t[k].hash : k \in (ni + 1)..n}
  <2>1. \A k : k \in {j \in 1..n : j > ni} <=> k \in (ni + 1)..n
    BY <1>1
  <2>2. {j \in 1..n : j > ni} = (ni + 1)..n
    BY <2>1
  <2>3. H(1) = {t[k].hash : k \in (ni + 1)..n}
    BY <2>2 DEF H
  <2>4. QED BY <2>3 DEF R
<1>17. Opened(f).loaded /\ Opened(f).metas = M(1) /\ Opened(f).blobs = R
  BY <1>15
<1>18. \A k \in (ni + 1)..n : R[t[k].hash] = [solid |-> NoSolid, rd |-> t[k].rd]
  BY <1>3 DEF loc
<1>19. QED BY <1>13, <1>16, <1>17, <1>18 DEF ReadsTable, n


\* A table of known resources that leads with the images' metadata.
LEMMA LeadsFirst ==
  ASSUME ImagesInv, NEW f, Carries(f), NEW h, Leads(h, Table(f)),
         \A j, k \in 1..Len(Table(f)) :
           ~IsMeta(Table(f)[j]) /\ ~IsMeta(Table(f)[k]) /\ Table(f)[j].hash = Table(f)[k].hash => j = k
  PROVE  /\ MetasFirst(Table(f), Len(images))
         /\ \A k \in (Len(images) + 1)..Len(Table(f)) : BlobEntry(Table(f)[k])
<1> DEFINE t == Table(f)
           n == Len(t)
           ni == Len(images)
<1>1. /\ IsSeq(t) /\ n \in Nat /\ ni \in Nat /\ ni <= n /\ DOMAIN added = 1..ni
      /\ \A k \in 1..n : Stored(f, t[k])
      /\ \A i \in 1..ni : MetaEntry(t[i], i)
      /\ \A k \in 1..n : IsMeta(t[k]) => k \in 1..ni
  <2>1. IsSeq(t) /\ \A k \in 1..n : Stored(f, t[k])
    BY DEF Carries
  <2>2. n \in Nat
    BY <2>1, SeqHas
  <2>3. ni \in Nat /\ DOMAIN added = 1..ni
    BY SeqHas DEF ImagesInv
  <2>4. QED BY <2>1, <2>2, <2>3 DEF Leads
<1>2. \A j, k \in 1..n : ~IsMeta(t[j]) /\ ~IsMeta(t[k]) /\ t[j].hash = t[k].hash => j = k
  OBVIOUS
<1> HIDE DEF t, n, ni
<1>3. ASSUME NEW k \in 1..n
      PROVE  /\ IsMeta(t[k]) <=> k <= ni
             /\ ~IsSolid(t[k])
             /\ k > ni => BlobEntry(t[k]) /\ t[k].hash # <<>>
  <2>1. CASE k <= ni
    <3>1. k \in 1..ni /\ k \in DOMAIN added
      BY <1>1, <2>1
    <3>2. IsMeta(t[k]) /\ t[k].rd.flags = {"metadata"}
      BY <1>1, <3>1, MetaIs
    <3>3. ~(k > ni)
      BY <1>1, <2>1
    <3>4. QED BY <2>1, <3>2, <3>3 DEF IsSolid
  <2>2. CASE ~(k <= ni)
    <3>1. k \notin 1..ni
      BY <1>1, <2>2
    <3>2. ~IsMeta(t[k])
      BY <1>1, <3>1
    <3>3. Known(t[k])
      BY <1>1 DEF Stored
    <3>4. BlobEntry(t[k])
      BY <3>2, <3>3, MetaIs DEF Known
    <3>5. t[k].rd.flags = ResourceFlags /\ "solid" \notin ResourceFlags
      BY <3>4, BlobIs DEF ResourceFlags
    <3>6. QED BY <2>2, <3>2, <3>4, <3>5 DEF IsSolid, BlobEntry
  <2>3. QED BY <2>1, <2>2
<1>4. \A k \in (ni + 1)..n : k \in 1..n /\ k > ni /\ ~(k <= ni)
  BY <1>1
<1>5. \A k \in (ni + 1)..n : ~IsMeta(t[k]) /\ t[k].hash # <<>> /\ BlobEntry(t[k])
  BY <1>3, <1>4
<1>6. \A j, k \in (ni + 1)..n : t[j].hash = t[k].hash => j = k
  BY <1>2, <1>4, <1>5
<1>7. ni \in 0..n
  BY <1>1
<1>8. MetasFirst(t, ni)
  BY <1>1, <1>3, <1>5, <1>6, <1>7 DEF MetasFirst, n
<1>9. QED BY <1>5, <1>8 DEF t, n, ni

\* A WIM that has the images and their contents, read as the one that was split.
OpensAs(f) ==
  LET r == Opened(f)
  IN  /\ \A i \in DOMAIN added : OpenImage(f, r, i) = OpenImage(out, Opened(out), i)
      /\ Len(r.metas) = Len(added)
      /\ f[1].boot = BootAt(f) /\ f[1].bootIndex = out[1].bootIndex
      /\ Images(f) = Images(out)
      /\ \A h \in DOMAIN r.blobs : h \in Hashes /\ ReadFile(f, r, h) = Got(h)

\* What carries the images' metadata first, and contents once, opens so.
LEMMA CarriedOpens ==
  ASSUME WriterInv, Closed, NEW f, Carries(f), Leads(f[1], Table(f)), MetasFirst(Table(f), Len(images)),
         \A k \in (Len(images) + 1)..Len(Table(f)) : BlobEntry(Table(f)[k])
  PROVE  OpensAs(f)
<1> DEFINE t == Table(f)
           n == Len(t)
           ni == Len(images)
           r == Opened(f)
<1>0. ImagesInv
  BY DEF WriterInv
<1>1. /\ IsSeq(f) /\ IsSeq(t) /\ n \in Nat /\ ni \in Nat /\ ni <= n /\ Len(added) = ni /\ DOMAIN added = 1..ni
      /\ f[1].comp = Comp
  <2>1. IsSeq(f) /\ IsSeq(t) /\ f[1].comp = Comp
    BY DEF Carries
  <2>2. n \in Nat
    BY <2>1, SeqHas
  <2>3. ni \in Nat /\ DOMAIN added = 1..ni /\ Len(added) = ni
    BY <1>0, SeqHas DEF ImagesInv
  <2>4. QED BY <2>1, <2>2, <2>3 DEF Leads
<1>2. ReadsTable(r, t, ni)
  BY MetasFirstRead DEF Carries
<1>3. \A k \in 1..n : Stored(f, t[k])
  BY DEF Carries
<1>4. \A k \in (ni + 1)..n : BlobEntry(t[k])
  OBVIOUS
<1>5. \A i \in 1..ni : MetaEntry(t[i], i)
  BY DEF Leads
<1> HIDE DEF t, n, ni, r
<1>6. /\ r.loaded /\ Len(r.metas) = ni /\ \A i \in 1..ni : r.metas[i] = t[i].rd
      /\ DOMAIN r.blobs = {t[k].hash : k \in (ni + 1)..n}
      /\ \A k \in (ni + 1)..n : r.blobs[t[k].hash] = [solid |-> NoSolid, rd |-> t[k].rd]
  BY <1>2 DEF ReadsTable, n
<1>7. ASSUME NEW i \in DOMAIN added PROVE OpenImage(f, r, i) = OpenImage(out, Opened(out), i)
  <2> DEFINE m == BuildMetadata(added[i])
             rd == t[i].rd
  <2>1. i \in 1..ni /\ i \in 1..n
    BY <1>1
  <2>2. MetaEntry(t[i], i) /\ Stored(f, t[i])
    BY <1>3, <1>5, <2>1
  <2>3. rd.flags = {"metadata"} /\ Cells(t[i]) = m /\ IsSeq(m)
    BY <1>0, <2>2, MetaIs
  <2>4. Holds(f, rd, m)
    BY <2>2, <2>3 DEF Stored
  <2>5. ParseImageMetadata(m) = Got(added[i])
    <3>1. added[i] \in Trees
      BY <1>0 DEF ImagesInv
    <3>2. QED BY <3>1, TreesAssumption
  <2> HIDE DEF m, rd
  <2>6. ReadMetadata(f, rd) = Got(m)
    <3>1. ReadResourceRaw(f, rd) = Got(m)
      BY <1>1, <2>3, <2>4, HeldIsRead
    <3>2. QED BY <2>3, <3>1 DEF ReadMetadata
  <2>7. r.loaded /\ i \in 1..Len(r.metas) /\ r.metas[i] = rd
    BY <1>6, <2>1 DEF rd
  <2>8. OpenImage(f, r, i) = LET a == ReadMetadata(f, rd)
                            IN  IF a.ok THEN ParseImageMetadata(a.data) ELSE Failed
    BY <2>7 DEF OpenImage
  <2>9. Got(m).ok /\ Got(m).data = m
    BY DEF Got
  <2>10. OpenImage(f, r, i) = Got(added[i])
    BY <2>5, <2>6, <2>8, <2>9
  <2>11. QED BY <2>10, ImageOpens
<1>8. ASSUME NEW h \in DOMAIN r.blobs PROVE h \in Hashes /\ ReadFile(f, r, h) = Got(h)
  <2>1. PICK k \in (ni + 1)..n : t[k].hash = h
    BY <1>6
  <2> DEFINE rd == t[k].rd
             e == t[k]
  <2>2. BlobEntry(e) /\ k \in 1..n
    BY <1>1, <1>4
  <2>3. h \in Hashes /\ IsSeq(h) /\ h # <<>>
    BY <2>1, <2>2 DEF BlobEntry
  <2>4. rd.orig = Len(h) /\ rd.flags = ResourceFlags /\ Cells(e) = ResourceOf(h)
    BY <2>1, <2>2, BlobIs
  <2>5. Holds(f, rd, ResourceOf(h))
    BY <1>3, <2>2, <2>4 DEF Stored
  <2>6. r.blobs[h] = [solid |-> NoSolid, rd |-> rd]
    BY <1>6, <2>1
  <2> HIDE DEF rd, e
  <2>7. BlobBytes(f, [solid |-> NoSolid, rd |-> rd]) = Got(h)
    BY <1>1, <2>3, <2>4, <2>5, ContentRead
  <2>8. QED BY <2>3, <2>6, <2>7 DEF ReadFile
<1>9. /\ out[1].bootIndex = BootIndex /\ BootIndex \in 0..ni
      /\ f[1].bootIndex = BootIndex /\ f[1].boot = IF BootIndex = 0 THEN NoResource ELSE t[BootIndex].rd
  BY HeaderIs DEF Leads, t, ni
<1>10. f[1].boot = BootAt(f)
  <2>1. CASE BootIndex = 0
    BY <1>9, <2>1 DEF BootAt
  <2>2. CASE BootIndex # 0
    <3>1. BootIndex \in 1..ni
      BY <1>1, <1>9, <2>2
    <3>2. r.metas[BootIndex] = t[BootIndex].rd
      BY <1>6, <3>1
    <3>3. QED BY <1>9, <2>2, <3>2 DEF BootAt, r
  <2>3. QED BY <2>1, <2>2
<1>11. Images(f) = Images(out)
  <2> DEFINE x == f[1].xml
             y == out[1].xml
  <2>1. x.size = 1 /\ x.flags = {} /\ ReadResourceRaw(f, x) = Got(Catalog)
    BY DEF Carries
  <2>2. y.size = 1 /\ y.flags = {} /\ ReadResourceRaw(out, y) = Got(Catalog)
    BY HeaderIs
  <2> HIDE DEF x, y
  <2>3. Got(Catalog).ok /\ 1 # 0 /\ "compressed" \notin {}
    BY DEF Got
  <2>4. Images(f) = Got(ReadResourceRaw(f, x).data[1].catalog)
    BY <2>1, <2>3 DEF Images, x
  <2>5. Images(out) = Got(ReadResourceRaw(out, y).data[1].catalog)
    BY <2>2, <2>3 DEF Images, y
  <2>6. QED BY <2>1, <2>2, <2>4, <2>5
<1>12. QED BY <1>1, <1>6, <1>7, <1>8, <1>9, <1>10, <1>11 DEF OpensAs, r


\* What Join writes: the images, and the contents of the parts it was given.
JoinedFrom(f, parts) ==
  /\ f[1].flags = {} /\ OpensAs(f)
  /\ \A i \in 1..Len(parts) : \A c \in 1..Len(Table(parts[i])) :
       ~IsMeta(Table(parts[i])[c]) => Table(parts[i])[c].hash \in DOMAIN Opened(f).blobs

\* Parts in order are joined to a WIM that opens as the one that was split.
LEMMA JoinedOpens ==
  ASSUME WriterInv, Closed, NEW parts, GivenParts(parts), parts[1][1].flags = {"spanned"}
  PROVE  LET plan  == JoinItems(parts)
             items == [k \in DOMAIN plan |-> plan[k].e]
             bytes == [k \in DOMAIN plan |-> ReadResourceRaw(plan[k].p, plan[k].e.rd).data]
         IN  JoinedFrom(Assemble(parts[1][1], items, bytes, ReadResourceRaw(parts[1], parts[1][1].xml).data,
                                 parts[1][1].flags \ {"spanned"}, 1, 1, TRUE), parts)
<1> DEFINE plan == JoinItems(parts)
           n == Len(plan)
           ni == Len(images)
           items == [k \in DOMAIN plan |-> plan[k].e]
           bytes == [k \in DOMAIN plan |-> ReadResourceRaw(plan[k].p, plan[k].e.rd).data]
           h == parts[1][1]
           f == Assemble(h, items, bytes, ReadResourceRaw(parts[1], h.xml).data, h.flags \ {"spanned"}, 1, 1, TRUE)
           t == Table(f)
           t1 == Table(parts[1])
<1>0. ImagesInv
  BY DEF WriterInv
<1>1. Planned(plan, parts)
  BY <1>0, PlanIs
<1> HIDE DEF plan
<1>2. IsSeq(plan) /\ n \in Nat /\ DOMAIN plan = 1..n /\ ni <= n /\ ni \in Nat /\ DOMAIN added = 1..ni
  <2>1. IsSeq(plan) /\ ni <= n
    BY <1>1 DEF Planned
  <2>2. ni \in Nat /\ DOMAIN added = 1..ni
    BY <1>0, SeqHas DEF ImagesInv
  <2>3. QED BY <2>1, <2>2, SeqHas
<1>3. /\ \A i \in 1..Len(parts) : Carries(parts[i])
      /\ 1 \in 1..Len(parts) /\ Leads(h, t1)
  <2>1. IsSeq(parts) /\ parts # <<>>
    BY DEF GivenParts
  <2>2. 1 \in 1..Len(parts)
    BY <2>1, SeqHas
  <2>3. QED BY <2>2 DEF GivenParts
<1>4. \A k \in 1..ni : plan[k] = Chosen(parts[1], k) /\ k \in 1..Len(t1)
  BY <1>1 DEF Planned
<1>5. \A k \in 1..n : k \in 1..ni \/ ~IsMeta(plan[k].e)
  BY <1>1 DEF Planned
<1>6. \A k \in 1..n : \E i \in 1..Len(parts) : \E c \in 1..Len(Table(parts[i])) : plan[k] = Chosen(parts[i], c)
  <2>1. TAKE k \in 1..n
  <2>2. CASE k \in 1..ni
    BY <1>3, <1>4, <2>2
  <2>3. CASE k \notin 1..ni
    BY <1>1, <2>3 DEF Planned
  <2>4. QED BY <2>2, <2>3
<1> HIDE DEF n, ni, t1
<1>7. IsSeq(items) /\ Len(items) = n /\ \A k \in 1..n : items[k] = plan[k].e
  <2>1. items = [k \in 1..n |-> items[k]] /\ \A k \in 1..n : items[k] = plan[k].e
    BY <1>2
  <2> HIDE DEF items
  <2>2. QED BY <1>2, <2>1, SeqOfFunction
<1>8. IsSeq(bytes) /\ Len(bytes) = n /\ \A k \in 1..n : bytes[k] = ReadResourceRaw(plan[k].p, plan[k].e.rd).data
  <2>1. bytes = [k \in 1..n |-> bytes[k]] /\ \A k \in 1..n : bytes[k] = ReadResourceRaw(plan[k].p, plan[k].e.rd).data
    BY <1>2
  <2> HIDE DEF bytes
  <2>2. QED BY <1>2, <2>1, SeqOfFunction
<1> HIDE DEF items, bytes
<1>9. \A k \in 1..n : Known(items[k]) /\ bytes[k] = Cells(items[k])
  <2>1. TAKE k \in 1..n
  <2>2. PICK i \in 1..Len(parts) : \E c \in 1..Len(Table(parts[i])) : plan[k] = Chosen(parts[i], c)
    BY <1>6
  <2>3. PICK c \in 1..Len(Table(parts[i])) : plan[k] = Chosen(parts[i], c)
    BY <2>2
  <2> DEFINE p == parts[i]
             e == Table(p)[c]
  <2>4. IsSeq(p) /\ Stored(p, e)
    BY <1>3 DEF Carries
  <2>5. plan[k].p = p /\ plan[k].e = e
    BY <2>3 DEF Chosen
  <2> HIDE DEF p, e
  <2>6. Known(e)
    BY <2>4 DEF Stored
  <2>7. ReadResourceRaw(p, e.rd) = Got(Cells(e))
    BY <1>0, <2>4, <2>6, StoredMeasured
  <2>8. items[k] = e /\ bytes[k] = ReadResourceRaw(p, e.rd).data
    BY <1>7, <1>8, <2>5
  <2>9. Got(Cells(e)).data = Cells(e)
    BY DEF Got
  <2>10. QED BY <2>6, <2>7, <2>8, <2>9
<1>10. ReadResourceRaw(parts[1], h.xml).data = Catalog /\ h.comp = Comp
  <2>1. Carries(parts[1])
    BY <1>3
  <2>2. QED BY <2>1 DEF Carries, Got
<1>11. h.flags \ {"spanned"} = {}
  OBVIOUS
<1> HIDE DEF h
<1>12. f = Assemble(h, items, bytes, Catalog, {}, 1, 1, TRUE)
  BY <1>10, <1>11
<1> HIDE DEF f
<1>13. Assembled(f, h, items, {}, 1, TRUE)
  <2>1. TRUE \in BOOLEAN
    OBVIOUS
  <2>2. \A k \in 1..Len(items) : Known(items[k]) /\ bytes[k] = Cells(items[k])
    BY <1>7, <1>9
  <2>3. IsSeq(items) /\ IsSeq(bytes) /\ Len(bytes) = Len(items)
    BY <1>7, <1>8
  <2>4. QED BY <1>10, <1>12, <2>1, <2>2, <2>3, AssembledCarries
<1>14. Leads(h, items)
  <2>1. \A k \in 1..ni : items[k] = t1[k]
    <3>1. TAKE k \in 1..ni
    <3>2. k \in 1..n
      BY <1>2
    <3>3. items[k] = plan[k].e /\ plan[k] = Chosen(parts[1], k)
      BY <1>4, <1>7, <3>2
    <3>4. QED BY <3>3 DEF Chosen, t1
  <2>2. \A k \in 1..n : IsMeta(items[k]) => k \in 1..ni
    BY <1>5, <1>7
  <2>3. /\ \A i \in 1..ni : MetaEntry(t1[i], i)
        /\ \A i, j \in 1..ni : t1[i].rd.at = t1[j].rd.at => i = j
        /\ h.bootIndex = BootIndex
        /\ h.boot = IF BootIndex = 0 THEN NoResource ELSE t1[BootIndex].rd
    BY <1>3 DEF Leads, ni
  <2>4. BootIndex = 0 \/ BootIndex \in 1..ni
    BY <1>2, HeaderIs DEF ni
  <2>5. /\ \A i \in 1..ni : MetaEntry(items[i], i)
        /\ \A i, j \in 1..ni : items[i].rd.at = items[j].rd.at => i = j
    BY <2>1, <2>3
  <2>6. h.boot = IF BootIndex = 0 THEN NoResource ELSE items[BootIndex].rd
    BY <2>1, <2>3, <2>4
  <2>7. ni <= Len(items) /\ \A k \in 1..Len(items) : IsMeta(items[k]) => k \in 1..ni
    BY <1>2, <1>7, <2>2
  <2>8. QED BY <2>3, <2>5, <2>6, <2>7 DEF Leads, ni
<1>15. /\ Carries(f) /\ f[1].flags = {} /\ Len(t) = n /\ Leads(f[1], t)
       /\ \A k \in 1..n : MovesTo(f, items[k], t[k])
  BY <1>7, <1>13, <1>14 DEF Assembled
<1>16. \A k \in 1..n : t[k].hash = plan[k].e.hash /\ (IsMeta(t[k]) <=> IsMeta(plan[k].e))
  BY <1>7, <1>15 DEF MovesTo
<1>17. \A j, k \in 1..n : ~IsMeta(plan[j].e) /\ ~IsMeta(plan[k].e) /\ plan[j].e.hash = plan[k].e.hash => j = k
  BY <1>1 DEF Planned, n
<1>18. \A j, k \in 1..Len(t) : ~IsMeta(t[j]) /\ ~IsMeta(t[k]) /\ t[j].hash = t[k].hash => j = k
  BY <1>15, <1>16, <1>17
<1>19. MetasFirst(t, ni) /\ \A k \in (ni + 1)..Len(t) : BlobEntry(t[k])
  BY <1>0, <1>15, <1>18, LeadsFirst DEF ni
<1>20. OpensAs(f)
  BY <1>15, <1>19, CarriedOpens DEF ni
<1>21. ASSUME NEW i \in 1..Len(parts), NEW c \in 1..Len(Table(parts[i])), ~IsMeta(Table(parts[i])[c])
       PROVE  Table(parts[i])[c].hash \in DOMAIN Opened(f).blobs
  <2>1. PICK k \in 1..n : ~IsMeta(plan[k].e) /\ plan[k].e.hash = Table(parts[i])[c].hash
    BY <1>1, <1>21 DEF Planned, n
  <2>2. ~IsMeta(t[k]) /\ t[k].hash = Table(parts[i])[c].hash
    BY <1>16, <2>1
  <2>3. k \in (ni + 1)..Len(t)
    <3>1. ~(k <= ni)
      BY <1>15, <1>19, <2>2 DEF MetasFirst
    <3>2. QED BY <1>2, <1>15, <3>1
  <2>4. ReadsTable(Opened(f), t, ni)
    BY <1>15, <1>19, MetasFirstRead DEF Carries
  <2>5. QED BY <2>2, <2>3, <2>4 DEF ReadsTable
<1>22. JoinedFrom(f, parts)
  BY <1>15, <1>20, <1>21 DEF JoinedFrom
<1>23. QED BY <1>22 DEF f, h, items, bytes, plan

--------------------------------------------------------------------------------
(* Join of parts found in the folder. *)

\* In order of the numbers the parts have.
InTurnBy(parts, files) ==
  /\ IsSeq(parts) /\ parts # <<>> /\ ToSet(parts) = ToSet(files)
  /\ \A j, k \in 1..Len(parts) : j < k =>
       \E a, b \in DOMAIN files : /\ a # b /\ parts[j] = files[a] /\ parts[k] = files[b]
                                  /\ PartNumber(files[a]) <= PartNumber(files[b])

\* The files that Join is given are put in that order.
LEMMA InOrderIs ==
  ASSUME NEW files, IsSeq(files), files # <<>>, \A k \in DOMAIN files : PartNumber(files[k]) \in Nat
  PROVE  InTurnBy(InOrder(files), files)
<1> DEFINE keep == DOMAIN files
           number(k) == PartNumber(files[k])
           L == [i \in keep |-> {j \in keep : number(j) < number(i) \/ (number(j) = number(i) /\ j < i)}]
           n == Len(files)
           parts == Picked(files, keep, L)
<1>1. InOrder(files) = parts
  BY DEF InOrder, Arranged, Picked
<1>2. n \in Nat /\ n # 0 /\ keep = 1..n
  BY SeqHas
<1>3. \A k \in keep : number(k) \in Nat /\ k \in Int
  BY <1>2
<1>4. L \in [keep -> SUBSET keep] /\ \A i, j \in keep : j \in L[i] <=> number(j) < number(i) \/ (number(j) = number(i) /\ j < i)
  OBVIOUS
<1> HIDE DEF L, number, n, keep
<1>5. IsOrder(L, keep)
  BY <1>3, <1>4 DEF IsOrder
<1>6. keep \in SUBSET (1..n)
  BY <1>2
<1>7. /\ IsSeq(parts) /\ Len(parts) = Cardinality(keep)
      /\ \A x : x \in ToSet(parts) <=> \E i \in keep : files[i] = x
  BY <1>2, <1>5, <1>6, PickedIs DEF n
<1>8. Ordered(parts, files, keep, L)
  BY <1>2, <1>5, <1>6, PickedOrdered
<1> HIDE DEF parts
<1>9. ToSet(parts) = ToSet(files)
  <2>1. \A x : x \in ToSet(files) <=> \E i \in keep : files[i] = x
    BY DEF ToSet, keep
  <2>2. QED BY <1>7, <2>1
<1>10. parts # <<>>
  <2>1. 1 \in keep
    BY <1>2
  <2>2. files[1] \in ToSet(parts)
    BY <1>7, <2>1
  <2>3. PICK k \in 1..Len(parts) : parts[k] = files[1]
    BY <1>7, <2>2, SeqHas
  <2>4. parts # <<>>
    BY <1>7, <2>3, SeqHas
  <2>5. QED BY <2>4
<1>11. ASSUME NEW j \in 1..Len(parts), NEW k \in 1..Len(parts), j < k
       PROVE  \E a, b \in DOMAIN files : /\ a # b /\ parts[j] = files[a] /\ parts[k] = files[b]
                                         /\ PartNumber(files[a]) <= PartNumber(files[b])
  <2>1. PICK a \in keep, b \in keep : a \in L[b] /\ a # b /\ parts[j] = files[a] /\ parts[k] = files[b]
    BY <1>7, <1>8, <1>11 DEF Ordered
  <2>2. number(a) <= number(b)
    BY <1>3, <1>4, <2>1
  <2>3. QED BY <2>1, <2>2 DEF number, keep
<1>12. InTurnBy(parts, files)
  BY <1>7, <1>9, <1>10, <1>11 DEF InTurnBy
<1>13. QED BY <1>1, <1>12

\* A part that was written to its end, by whichever Split.
WholePart(n, f) == \E m \in PartSizes : n \in 1..Len(PackParts(out, m)) /\ f = PartFile(out, n, m)

\* The folder holds such parts, and what is left of those that were not.
FilesInv ==
  /\ IsFiniteSet(DOMAIN folder)
  /\ \A n \in DOMAIN folder : IF n \in torn THEN PartNumber(folder[n]) = 0 ELSE WholePart(n, folder[n])

\* A whole part has its number, and carries what it is to carry.
LEMMA WholeIs ==
  ASSUME WriterInv, Closed, ApartInv, NEW n, NEW f, WholePart(n, f)
  PROVE  /\ n \in Nat \ {0} /\ PartNumber(f) = n /\ Carries(f) /\ f[1].flags = {"spanned"}
         /\ n = 1 => Leads(f[1], Table(f))
<1>1. PICK m \in PartSizes : n \in 1..Len(PackParts(out, m)) /\ f = PartFile(out, n, m)
  BY DEF WholePart
<1>2. m \in Int
  BY MediaAssumption
<1>3. PartCarried(f, PackParts(out, m)[n], n)
  BY <1>1, <1>2, PartCarries
<1>4. IsSeq(PackParts(out, m))
  BY <1>2, PartItems
<1>5. n \in Nat \ {0}
  BY <1>1, <1>4, SeqHas
<1>6. QED BY <1>3, <1>5 DEF PartCarried, Carries, PartNumber

\* What Join has made of some of the files in the folder.
JoinsTo(names, f) ==
  /\ names \cap torn = {} /\ f[1].flags = {} /\ OpensAs(f)
  /\ \A n \in names : \A c \in 1..Len(Table(folder[n])) :
       ~IsMeta(Table(folder[n])[c]) => Table(folder[n])[c].hash \in DOMAIN Opened(f).blobs

\* Join makes nothing of no parts.
LEMMA JoinsSome ==
  ASSUME FilesInv, NEW names \in SUBSET DOMAIN folder, NEW j,
         j = (LET order == SetToSeq(names) IN Join([k \in DOMAIN order |-> folder[order[k]]])), j.ok
  PROVE  names # {}
<1> DEFINE order == SetToSeq(names)
           files == [k \in DOMAIN order |-> folder[order[k]]]
<1>1. IsFiniteSet(names)
  BY FS_Subset DEF FilesInv
<1>2. order \in Seq(names) /\ ToSet(order) = names
  BY <1>1, SetToSeqIs
<1>3. j = Join(files)
  OBVIOUS
<1> HIDE DEF order
<1>4. SUFFICES ASSUME names = {} PROVE FALSE
  OBVIOUS
<1>5. order = <<>>
  <2>1. IsSeq(order)
    BY <1>2, SeqIs
  <2>2. ToSet(order) = {}
    BY <1>2, <1>4
  <2>3. DOMAIN order = {}
    BY <2>2 DEF ToSet
  <2>4. QED BY <1>2, <2>3, SeqIs, LenProperties
<1>6. files = <<>>
  BY <1>5
<1> HIDE DEF files
<1>7. j = Failed
  BY <1>3, <1>6 DEF Join
<1>8. QED BY <1>7 DEF Failed

\* If Join is content with them, it makes a WIM of them.
LEMMA JoinIs ==
  ASSUME WriterInv, Closed, ApartInv, FilesInv, NEW names \in SUBSET DOMAIN folder, NEW j,
         j = (LET order == SetToSeq(names) IN Join([k \in DOMAIN order |-> folder[order[k]]])), j.ok
  PROVE  JoinsTo(names, j.data)
<1> DEFINE order == SetToSeq(names)
           files == [k \in DOMAIN order |-> folder[order[k]]]
           n == Len(order)
           parts == InOrder(files)
           np == Len(parts)
<1>1. /\ IsSeq(order) /\ n \in Nat /\ DOMAIN order = 1..n
      /\ \A k \in 1..n : order[k] \in names
      /\ \A x \in names : \E k \in 1..n : order[k] = x
      /\ \A a, b \in 1..n : order[a] = order[b] => a = b
  <2>1. IsFiniteSet(names)
    BY FS_Subset DEF FilesInv
  <2>2. /\ order \in Seq(names) /\ ToSet(order) = names
        /\ \A a, b \in DOMAIN order : order[a] = order[b] => a = b
    BY <2>1, SetToSeqIs
  <2> HIDE DEF order
  <2>3. IsSeq(order)
    BY <2>2, SeqIs
  <2>4. QED BY <2>2, <2>3, SeqHas, SMTT(30)
<1> HIDE DEF order
<1>2. IsSeq(files) /\ Len(files) = n /\ DOMAIN files = 1..n /\ \A k \in 1..n : files[k] = folder[order[k]]
  <2>1. files = [k \in 1..n |-> files[k]] /\ DOMAIN files = 1..n /\ \A k \in 1..n : files[k] = folder[order[k]]
    BY <1>1
  <2> HIDE DEF files
  <2>2. QED BY <1>1, <2>1, SeqOfFunction
<1>3. \A k \in 1..n : IF order[k] \in torn THEN PartNumber(files[k]) = 0 ELSE WholePart(order[k], files[k])
  BY <1>1, <1>2 DEF FilesInv
<1> HIDE DEF files
<1>4. \A k \in 1..n : PartNumber(files[k]) \in Nat /\ (PartNumber(files[k]) # 0 =>
                        PartNumber(files[k]) = order[k] /\ order[k] \notin torn)
  <2>1. TAKE k \in 1..n
  <2>2. CASE order[k] \in torn
    BY <1>3, <2>2
  <2>3. CASE order[k] \notin torn
    BY <1>3, <2>3, WholeIs
  <2>4. QED BY <2>2, <2>3
<1> DEFINE plan == JoinItems(parts)
           items == [k \in DOMAIN plan |-> plan[k].e]
           bytes == [k \in DOMAIN plan |-> ReadResourceRaw(plan[k].p, plan[k].e.rd).data]
           made == Assemble(parts[1][1], items, bytes, ReadResourceRaw(parts[1], parts[1][1].xml).data,
                            parts[1][1].flags \ {"spanned"}, 1, 1, TRUE)
<1>5. j = IF files = <<>> \/ PartNumber(parts[1]) # 1 THEN Failed ELSE Got(made)
  <2>1. j = Join(files)
    BY DEF files, order
  <2> HIDE DEF files
  <2>2. QED BY <2>1 DEF Join
<1>6. files # <<>> /\ PartNumber(parts[1]) = 1 /\ j.data = made
  <2> HIDE DEF made, parts
  <2>1. QED BY <1>5 DEF Failed, Got
<1>7. InTurnBy(parts, files)
  BY <1>2, <1>4, <1>6, InOrderIs
<1> HIDE DEF parts
<1>8. /\ IsSeq(parts) /\ parts # <<>> /\ np \in Nat /\ 1 \in 1..np
      /\ \A i \in 1..np : \E k \in 1..n : parts[i] = files[k]
      /\ \A k \in 1..n : \E i \in 1..np : parts[i] = files[k]
  <2>1. IsSeq(parts) /\ parts # <<>> /\ ToSet(parts) = ToSet(files)
    BY <1>7 DEF InTurnBy
  <2>2. np \in Nat /\ 1 \in 1..np
    BY <2>1, SeqHas
  <2>3. /\ \A i \in 1..np : parts[i] \in ToSet(parts)
        /\ \A x \in ToSet(parts) : \E i \in 1..np : parts[i] = x
        /\ \A k \in 1..n : files[k] \in ToSet(files)
        /\ \A x \in ToSet(files) : \E k \in 1..n : files[k] = x
    BY <1>2, <2>1, SeqHas
  <2>4. QED BY <2>1, <2>2, <2>3
<1>9. ASSUME NEW i \in 1..np
      PROVE  /\ PartNumber(parts[i]) # 0 /\ (PartNumber(parts[i]) = 1 <=> i = 1)
             /\ \E k \in 1..n : parts[i] = files[k] /\ WholePart(order[k], files[k])
  <2>1. PartNumber(parts[i]) # 0 /\ (PartNumber(parts[i]) = 1 <=> i = 1)
    <3>1. CASE i = 1
      BY <1>6, <3>1
    <3>2. CASE i # 1
      <4>1. 1 < i
        BY <3>2
      <4>2. PICK a \in 1..n, b \in 1..n :
              /\ a # b /\ parts[1] = files[a] /\ parts[i] = files[b]
              /\ PartNumber(files[a]) <= PartNumber(files[b])
        <5>1. \A x, y \in 1..np : x < y =>
                \E a, b \in DOMAIN files : /\ a # b /\ parts[x] = files[a] /\ parts[y] = files[b]
                                           /\ PartNumber(files[a]) <= PartNumber(files[b])
          BY <1>7 DEF InTurnBy
        <5>2. DOMAIN files = 1..n
          BY <1>2
        <5> HIDE DEF np, n
        <5>3. 1 \in 1..np /\ i \in 1..np /\ 1 < i
          BY <1>8, <4>1 DEF np
        <5>4. \E a, b \in DOMAIN files : /\ a # b /\ parts[1] = files[a] /\ parts[i] = files[b]
                                         /\ PartNumber(files[a]) <= PartNumber(files[b])
          BY <5>1, <5>3
        <5>5. QED BY <5>2, <5>4
      <4>3. PartNumber(files[a]) = 1 /\ order[a] = 1
        BY <1>4, <1>6, <4>2
      <4>4. PartNumber(files[b]) # 0
        BY <1>4, <4>2, <4>3
      <4>5. PartNumber(files[b]) # 1
        BY <1>1, <1>4, <4>2, <4>3
      <4>6. QED BY <3>2, <4>2, <4>4, <4>5
    <3>3. QED BY <3>1, <3>2
  <2>2. PICK k \in 1..n : parts[i] = files[k]
    BY <1>8
  <2>3. order[k] \notin torn
    BY <1>4, <2>1, <2>2
  <2>4. WholePart(order[k], files[k])
    BY <1>3, <2>3
  <2>5. QED BY <2>1, <2>2, <2>4
<1>10. /\ \A i \in 1..np : Carries(parts[i])
       /\ Leads(parts[1][1], Table(parts[1])) /\ parts[1][1].flags = {"spanned"}
  <2>1. \A i \in 1..np : Carries(parts[i])
    BY <1>9, WholeIs
  <2>2. PICK k \in 1..n : parts[1] = files[k] /\ WholePart(order[k], files[k])
    BY <1>8, <1>9
  <2>3. order[k] = 1
    BY <1>6, <2>2, WholeIs
  <2>4. Leads(files[k][1], Table(files[k])) /\ files[k][1].flags = {"spanned"}
    BY <2>2, <2>3, WholeIs
  <2>5. QED BY <2>1, <2>2, <2>4
<1>11. GivenParts(parts)
  BY <1>8, <1>9, <1>10 DEF GivenParts
<1>12. JoinedFrom(made, parts)
  BY <1>10, <1>11, JoinedOpens
<1> HIDE DEF made
<1>13. \A x \in names : \E i \in 1..np : parts[i] = folder[x] /\ x \notin torn
  <2>1. TAKE x \in names
  <2>2. PICK k \in 1..n : order[k] = x
    BY <1>1
  <2>3. PICK i \in 1..np : parts[i] = files[k]
    BY <1>8
  <2>4. PartNumber(files[k]) # 0
    BY <1>9, <2>3
  <2>5. QED BY <1>2, <1>4, <2>2, <2>3, <2>4
<1>14. names \cap torn = {}
  BY <1>13
<1>15. ASSUME NEW x \in names, NEW c \in 1..Len(Table(folder[x])), ~IsMeta(Table(folder[x])[c])
       PROVE  Table(folder[x])[c].hash \in DOMAIN Opened(made).blobs
  <2>1. PICK i \in 1..np : parts[i] = folder[x]
    BY <1>13
  <2>2. c \in 1..Len(Table(parts[i])) /\ ~IsMeta(Table(parts[i])[c])
    BY <1>15, <2>1
  <2>3. Table(parts[i])[c].hash \in DOMAIN Opened(made).blobs
    BY <1>12, <2>2 DEF JoinedFrom
  <2>4. QED BY <2>1, <2>3
<1>16. JoinsTo(names, made)
  BY <1>12, <1>14, <1>15 DEF JoinsTo, JoinedFrom
<1>17. QED BY <1>6, <1>16


\* A part of the last Split is in the folder, as it was written.
InFolder(n) == n \in DOMAIN folder /\ folder[n] = PartFile(out, n, max)

\* The parts of the Split that runs, and of the last one when none is torn.
FolderInv ==
  /\ FilesInv /\ max \in Nat
  /\ ~Closed => DOMAIN folder = {} /\ joined = <<>>
  /\ pc = "splitting" =>
       /\ joined = <<>> /\ max \in PartSizes /\ part \in 1..Len(PackParts(out, max))
       /\ \A n \in 1..(part - 1) : InFolder(n)
  /\ pc = "closed" /\ torn = {} /\ DOMAIN folder # {} =>
       \A n \in 1..Len(PackParts(out, max)) : InFolder(n)

\* What a joined WIM promises, of some files in the folder.
Reads(names, f) ==
  LET r == Opened(f)
  IN  /\ names \cap torn = {}
      /\ \A i \in DOMAIN added : OpenImage(f, r, i) = OpenImage(out, Opened(out), i)
      /\ Len(r.metas) = Len(added)
      /\ f[1].boot = BootAt(f) /\ f[1].bootIndex = out[1].bootIndex
      /\ f[1].flags = out[1].flags /\ Images(f) = Images(out)
      /\ \A h \in DOMAIN r.blobs : ReadFile(f, r, h) = Got(h)
      /\ Complete(names) => DOMAIN r.blobs = DOMAIN Opened(out).blobs

\* Join makes a WIM that keeps it.
LEMMA JoinReads ==
  ASSUME WriterInv, pc = "closed", ApartInv, FolderInv, NEW names \in SUBSET DOMAIN folder, NEW j,
         j = (LET order == SetToSeq(names) IN Join([k \in DOMAIN order |-> folder[order[k]]])), j.ok
  PROVE  Reads(names, j.data)
<1> DEFINE f == j.data
           r == Opened(f)
<1>1. FilesInv /\ max \in Nat /\ Closed /\ max \in Int
  <2>1. FilesInv /\ max \in Nat /\ (~Closed => DOMAIN folder = {})
    BY DEF FolderInv
  <2>2. names # {}
    BY <2>1, JoinsSome
  <2>3. QED BY <2>1, <2>2
<1>2. JoinsTo(names, f)
  BY <1>1, JoinIs
<1> HIDE DEF f
<1>3. /\ names \cap torn = {} /\ f[1].flags = {} /\ OpensAs(f)
      /\ \A n \in names : \A c \in 1..Len(Table(folder[n])) :
           ~IsMeta(Table(folder[n])[c]) => Table(folder[n])[c].hash \in DOMAIN r.blobs
  BY <1>2 DEF JoinsTo
<1>4. out[1].flags = {} /\ DOMAIN Opened(out).blobs = Hashes
  BY <1>1, HeaderIs, OpenedIs
<1>5. ASSUME Complete(names), NEW h \in Hashes PROVE h \in DOMAIN r.blobs
  <2> DEFINE parts == PackParts(out, max)
  <2>1. PICK n \in 1..Len(parts) : \E k \in 1..Len(parts[n]) : parts[n][k].hash = h /\ ~IsMeta(parts[n][k])
    BY <1>1, PartItems
  <2>2. PICK k \in 1..Len(parts[n]) : parts[n][k].hash = h /\ ~IsMeta(parts[n][k])
    BY <2>1
  <2>3. torn = {} /\ n \in names
    BY <1>5 DEF Complete
  <2>4. folder[n] = PartFile(out, n, max)
    <3>1. n \in DOMAIN folder
      BY <2>3
    <3>2. DOMAIN folder # {}
      BY <3>1
    <3>3. \A i \in 1..Len(parts) : InFolder(i)
      BY <2>3, <3>2 DEF FolderInv
    <3>4. QED BY <3>3 DEF InFolder
  <2>5. PartCarried(folder[n], parts[n], n)
    BY <1>1, <2>4, PartCarries
  <2>6. /\ k \in 1..Len(Table(folder[n])) /\ Table(folder[n])[k].hash = h
        /\ ~IsMeta(Table(folder[n])[k])
    <3>1. Len(Table(folder[n])) = Len(parts[n]) /\ MovesTo(folder[n], parts[n][k], Table(folder[n])[k])
      BY <2>5 DEF PartCarried
    <3>2. QED BY <2>2, <3>1 DEF MovesTo
  <2>7. QED BY <1>3, <2>3, <2>6
<1>6. /\ \A i \in DOMAIN added : OpenImage(f, r, i) = OpenImage(out, Opened(out), i)
      /\ Len(r.metas) = Len(added)
      /\ f[1].boot = BootAt(f) /\ f[1].bootIndex = out[1].bootIndex
      /\ Images(f) = Images(out)
      /\ \A h \in DOMAIN r.blobs : h \in Hashes /\ ReadFile(f, r, h) = Got(h)
  BY <1>3 DEF OpensAs
<1> HIDE DEF r
<1>7. Complete(names) => DOMAIN r.blobs = DOMAIN Opened(out).blobs
  <2>1. ASSUME Complete(names) PROVE DOMAIN r.blobs = Hashes
    <3>1. \A h : h \in DOMAIN r.blobs <=> h \in Hashes
      BY <1>5, <1>6, <2>1
    <3> DEFINE D == DOMAIN r.blobs
    <3>2. \A h : h \in D <=> h \in Hashes
      BY <3>1
    <3> HIDE DEF D
    <3>3. D = Hashes
      BY <3>2
    <3>4. QED BY <3>3 DEF D
  <2>2. QED BY <1>4, <2>1
<1>8. Reads(names, f)
  BY <1>3, <1>4, <1>6, <1>7 DEF Reads, r
<1>9. QED BY <1>8 DEF f


\* The Writer does nothing once its WIM is closed, and does not split it.
LEMMA WriterIdle ==
  ASSUME WriterNext
  PROVE  ~Finished /\ pc' # "splitting"
<1>1. CASE \E tree \in Dirs : AddImage(tree)
  BY <1>1 DEF AddImage, Finished
<1>2. CASE \E i \in DOMAIN SourceTrees : AddImageFromWIM(i)
  BY <1>2 DEF AddImageFromWIM, Finished
<1>3. CASE OpenFails \/ SourceFails \/ CopyFails
  BY <1>3 DEF OpenFails, SourceFails, CopyFails, Leave, Finished
<1>4. CASE SkipContent \/ StartContent
  BY <1>4 DEF SkipContent, StartContent, Finished
<1>5. CASE \E w \in Workers : TakeChunk(w) \/ ZipChunk(w) \/ ZipFails(w)
  BY <1>5 DEF TakeChunk, ZipChunk, ZipFails, otherVars, Zipping, Finished
<1>6. CASE StoreContent \/ StoreFails
  BY <1>6 DEF StoreContent, StoreFails, AllDone, Zipping, Leave, Finished
<1>7. CASE AddMetadata \/ MetadataFails
  BY <1>7 DEF AddMetadata, MetadataFails, Leave, Finished
<1>8. CASE CloseTable \/ CloseCatalog \/ CloseFails
  BY <1>8 DEF CloseTable, CloseCatalog, CloseFails, Finished
<1>9. CASE FinalizeHeader \/ HeaderRefused \/ HeaderFails
  BY <1>9 DEF FinalizeHeader, HeaderRefused, HeaderFails, Finished
<1>10. QED BY <1>1, <1>2, <1>3, <1>4, <1>5, <1>6, <1>7, <1>8, <1>9 DEF WriterNext

\* A file put into the folder, in place of what had its number.
Replaced(n, file) ==
  /\ DOMAIN folder' = DOMAIN folder \cup {n} /\ folder'[n] = file
  /\ \A x \in DOMAIN folder : x # n => folder'[x] = folder[x]

\* The others stay as they are.
LEMMA StoreReplaces ==
  ASSUME NEW n, NEW file, Store(n, file)
  PROVE  Replaced(n, file)
<1>1. folder' = Updated(folder, [z \in {n} |-> file])
  BY DEF Store, Only
<1>2. folder' = [x \in {n} \cup DOMAIN folder |-> IF x \in {n} THEN file ELSE folder[x]]
  BY <1>1 DEF Updated
<1>3. QED BY <1>2 DEF Replaced

\* Split plans at least one part, and each is a file.
LEMMA PartsPlanned ==
  ASSUME WriterInv, Closed, ApartInv, NEW m \in PartSizes
  PROVE  /\ Len(PackParts(out, m)) \in Nat \ {0}
         /\ \A n \in 1..Len(PackParts(out, m)) :
              LET file == PartFile(out, n, m)
              IN  WholePart(n, file) /\ IsSeq(file) /\ file # <<>>
<1>1. m \in Int
  BY MediaAssumption
<1>2. IsSeq(PackParts(out, m)) /\ PackParts(out, m) # <<>>
  BY <1>1, ItemsAre, PackedAll DEF Packed
<1>3. Len(PackParts(out, m)) \in Nat \ {0}
  BY <1>2, SeqHas
<1>4. ASSUME NEW n \in 1..Len(PackParts(out, m))
      PROVE  LET file == PartFile(out, n, m)
             IN  WholePart(n, file) /\ IsSeq(file) /\ file # <<>>
  <2> DEFINE file == PartFile(out, n, m)
  <2>1. WholePart(n, file)
    BY DEF WholePart
  <2> HIDE DEF file
  <2>2. Carries(file)
    BY <2>1, WholeIs
  <2>3. QED BY <2>1, <2>2 DEF Carries, IsWim, file
<1>5. QED BY <1>3, <1>4

\* The folder with one file more.
LEMMA FilesKeep ==
  ASSUME FilesInv, NEW n, NEW file, Replaced(n, file), out' = out,
         torn' \in {torn \cup {n}, torn \ {n}},
         IF n \in torn' THEN PartNumber(file) = 0 ELSE WholePart(n, file)
  PROVE  FilesInv'
<1>1. IsFiniteSet(DOMAIN folder')
  <2>1. DOMAIN folder' = DOMAIN folder \cup {n} /\ IsFiniteSet(DOMAIN folder)
    BY DEF Replaced, FilesInv
  <2>2. IsFiniteSet(DOMAIN folder \cup {n})
    BY <2>1, FS_AddElement
  <2>3. QED BY <2>1, <2>2
<1>2. ASSUME NEW x \in DOMAIN folder'
      PROVE  IF x \in torn' THEN PartNumber(folder'[x]) = 0 ELSE WholePart(x, folder'[x])
  <2>1. CASE x = n
    BY <2>1 DEF Replaced
  <2>2. CASE x # n
    <3>1. x \in DOMAIN folder /\ folder'[x] = folder[x] /\ (x \in torn' <=> x \in torn)
      BY <2>2 DEF Replaced
    <3>2. QED BY <3>1 DEF FilesInv
  <2>3. QED BY <2>1, <2>2
<1>3. \A x \in DOMAIN folder' : IF x \in torn' THEN PartNumber(folder'[x]) = 0 ELSE WholePart(x, folder[x])'
  BY <1>2 DEF WholePart
<1>4. QED BY <1>1, <1>3 DEF FilesInv

\* The parts in the folder are those that were written, by every step.
LEMMA FolderStep ==
  ASSUME WriterInv, ApartInv, FolderInv, [Next]_vars
  PROVE  FolderInv'
<1>0. FilesInv /\ max \in Nat
  BY DEF FolderInv
<1>1. CASE WriterNext /\ UNCHANGED mediaVars
  <2>1. ~Closed /\ pc' # "splitting"
    BY <1>1, WriterIdle DEF Closed
  <2>2. DOMAIN folder = {} /\ joined = <<>> /\ folder' = folder /\ joined' = joined /\ max' = max /\ torn' = torn
    BY <1>1, <2>1 DEF FolderInv, mediaVars
  <2>3. FilesInv'
    BY <1>0, <2>2 DEF FilesInv
  <2>4. QED BY <1>0, <2>1, <2>2, <2>3 DEF FolderInv
<1>2. ASSUME NEW size \in PartSizes, Split(size) PROVE FolderInv'
  <2>1. /\ pc = "closed" /\ pc' = "splitting" /\ max' = size /\ part' = 1 /\ joined' = <<>>
        /\ out' = out /\ folder' = folder /\ torn' = torn /\ rewound' = rewound /\ CanSplit(out)
    BY <1>2 DEF Split
  <2>0. Closed
    <3>1. rewound \in BOOLEAN
      BY DEF WriterInv, PlaceInv
    <3>2. ~rewound
      BY <2>1, <3>1, RewoundIsNotSplit
    <3>3. QED BY <2>1, <3>2 DEF Closed, Finished
  <2>2. Len(PackParts(out, size)) \in Nat \ {0}
    BY <2>0, PartsPlanned
  <2>3. 1 \in 1..Len(PackParts(out, size)) /\ \A n : n \notin 1..(1 - 1)
    BY <2>2
  <2>4. FilesInv'
    BY <1>0, <2>1 DEF FilesInv, WholePart
  <2>5. size \in Nat
    BY MediaAssumption
  <2>6. Closed'
    BY <2>0, <2>1 DEF Closed, Finished
  <2>7. max' \in Nat /\ joined' = <<>> /\ max' \in PartSizes /\ part' \in 1..Len(PackParts(out', max'))
    BY <2>1, <2>3, <2>5
  <2>8. \A n \in 1..(part' - 1) : InFolder(n)'
    BY <2>1, <2>3
  <2>9. pc' # "closed"
    BY <2>1
  <2>10. QED BY <2>4, <2>6, <2>7, <2>8, <2>9 DEF FolderInv
<1>3. CASE WritePart
  <2> DEFINE file == PartFile(out, part, max)
             l == Len(PackParts(out, max))
  <2>1. /\ pc = "splitting" /\ Store(part, file) /\ torn' = torn \ {part}
        /\ IF part < l THEN part' = part + 1 /\ pc' = pc ELSE part' = 0 /\ pc' = "closed"
    BY <1>3 DEF WritePart
  <2>2. /\ joined = <<>> /\ max \in PartSizes /\ part \in 1..l
        /\ \A n \in 1..(part - 1) : InFolder(n)
    BY <2>1 DEF FolderInv
  <2>0. Closed
    BY <2>1 DEF WriterInv, PlaceInv, Closed, Finished
  <2>3. Closed /\ l \in Nat /\ WholePart(part, file)
    BY <2>0, <2>2, PartsPlanned
  <2> HIDE DEF l
  <2>4. out' = out /\ max' = max /\ joined' = joined /\ rewound' = rewound
    BY <2>1 DEF Store
  <2> HIDE DEF file
  <2>5. Replaced(part, file)
    BY <2>1, StoreReplaces
  <2>6. FilesInv'
    BY <1>0, <2>1, <2>3, <2>4, <2>5, FilesKeep
  <2>7. \A n \in 1..part : InFolder(n)'
    <3>1. TAKE n \in 1..part
    <3>2. CASE n = part
      BY <2>4, <2>5, <3>2 DEF Replaced, InFolder, file
    <3>3. CASE n # part
      <4>1. n \in 1..(part - 1)
        BY <2>2, <3>3
      <4>2. n \in DOMAIN folder /\ folder[n] = PartFile(out, n, max)
        BY <2>2, <4>1 DEF InFolder
      <4>3. QED BY <2>4, <2>5, <3>3, <4>2 DEF Replaced, InFolder
    <3>4. QED BY <3>2, <3>3
  <2>8. Len(PackParts(out', max')) = l
    BY <2>4 DEF l
  <2>9. CASE part < l
    <3>1. pc' = "splitting" /\ part' = part + 1 /\ part' \in 1..l /\ part' - 1 = part
      BY <2>1, <2>2, <2>3, <2>9
    <3>2. \A n \in 1..(part' - 1) : InFolder(n)'
      BY <2>7, <3>1
    <3>3. Closed' /\ pc' # "closed"
      BY <2>0, <2>4, <3>1 DEF Closed, Finished
    <3>4. joined' = <<>> /\ max' \in PartSizes /\ max' \in Nat /\ part' \in 1..Len(PackParts(out', max'))
      BY <1>0, <2>2, <2>4, <2>8, <3>1
    <3>5. QED BY <2>6, <3>2, <3>3, <3>4 DEF FolderInv
  <2>10. CASE ~(part < l)
    <3>1. pc' = "closed" /\ part = l
      BY <2>1, <2>2, <2>3, <2>10
    <3>2. \A n \in 1..Len(PackParts(out', max')) : InFolder(n)'
      BY <2>7, <2>8, <3>1
    <3>3. Closed' /\ pc' # "splitting" /\ max' \in Nat
      BY <1>0, <2>0, <2>4, <3>1 DEF Closed, Finished
    <3>4. QED BY <2>6, <3>2, <3>3 DEF FolderInv
  <2>11. QED BY <2>9, <2>10
<1>4. CASE WritePartFails
  <2> DEFINE file == PartFile(out, part, max)
  <2>1. /\ pc = "splitting" /\ torn' = torn \cup {part} /\ pc' = "closed"
        /\ \E k \in {1, Len(file)} : Store(part, Torn(file, k))
    BY <1>4 DEF WritePartFails
  <2>2. max \in PartSizes /\ part \in 1..Len(PackParts(out, max)) /\ Closed
    BY <2>1 DEF FolderInv, WriterInv, PlaceInv, Closed, Finished
  <2>3. IsSeq(file) /\ file # <<>>
    BY <2>2, PartsPlanned
  <2> HIDE DEF file
  <2>4. PICK k \in {1, Len(file)} : Store(part, Torn(file, k))
    BY <2>1
  <2>5. PartNumber(Torn(file, k)) = 0
    BY <2>3, TornIs
  <2>6. out' = out /\ max' = max /\ rewound' = rewound
    BY <2>4 DEF Store
  <2>7. Replaced(part, Torn(file, k))
    BY <2>4, StoreReplaces
  <2>8. FilesInv'
    BY <1>0, <2>1, <2>5, <2>6, <2>7, FilesKeep
  <2>9. torn' # {} /\ pc' # "splitting" /\ Closed' /\ max' \in Nat
    BY <1>0, <2>1, <2>2, <2>6 DEF Closed, Finished
  <2>10. QED BY <2>8, <2>9 DEF FolderInv
<1>5. ASSUME NEW names \in SUBSET DOMAIN folder, JoinParts(names) PROVE FolderInv'
  <2>1. pc = "closed" /\ pc' = pc /\ folder' = folder /\ max' = max /\ torn' = torn /\ out' = out /\ rewound' = rewound
    BY <1>5 DEF JoinParts, writerVars
  <2>0. Closed
    <3> DEFINE j == LET order == SetToSeq(names) IN Join([k \in DOMAIN order |-> folder[order[k]]])
    <3>1. j.ok
      BY <1>5 DEF JoinParts
    <3>2. names # {}
      BY <1>0, <3>1, JoinsSome
    <3>3. QED BY <3>2 DEF FolderInv
  <2>2. FilesInv'
    BY <1>0, <2>1 DEF FilesInv, WholePart
  <2>3. torn = {} /\ DOMAIN folder # {} => \A n \in 1..Len(PackParts(out, max)) : InFolder(n)
    BY <2>1 DEF FolderInv
  <2>4. torn' = {} /\ DOMAIN folder' # {} => \A n \in 1..Len(PackParts(out', max')) : InFolder(n)'
    BY <2>1, <2>3 DEF InFolder
  <2>5. Closed' /\ pc' # "splitting" /\ max' \in Nat
    BY <1>0, <2>0, <2>1 DEF Closed, Finished
  <2>6. QED BY <2>2, <2>4, <2>5 DEF FolderInv
<1>6. CASE UNCHANGED vars
  <2>1. /\ folder' = folder /\ max' = max /\ torn' = torn /\ out' = out /\ pc' = pc /\ part' = part
        /\ joined' = joined /\ rewound' = rewound
    BY <1>6 DEF vars, mediaVars, writerVars
  <2>2. QED BY <2>1 DEF FolderInv, FilesInv, WholePart, InFolder, Closed, Finished
<1>7. QED BY <1>1, <1>2, <1>3, <1>4, <1>5, <1>6 DEF Next

\* A WIM is joined only from what the folder holds then.
LEMMA JoinedStep ==
  ASSUME WriterInv, ApartInv, FolderInv, JoinedReadsBack, [Next]_vars
  PROVE  JoinedReadsBack'
<1>1. CASE WriterNext /\ UNCHANGED mediaVars
  <2>1. ~Closed
    BY <1>1, WriterIdle DEF Closed
  <2>2. joined' = <<>>
    BY <1>1, <2>1 DEF FolderInv, mediaVars
  <2>3. QED BY <2>2 DEF JoinedReadsBack
<1>2. ASSUME NEW size \in PartSizes, Split(size) PROVE JoinedReadsBack'
  BY <1>2 DEF Split, JoinedReadsBack
<1>3. CASE WritePart \/ WritePartFails
  <2>1. pc = "splitting" /\ joined' = joined
    BY <1>3 DEF WritePart, WritePartFails, Store
  <2>2. joined' = <<>>
    BY <2>1 DEF FolderInv
  <2>3. QED BY <2>2 DEF JoinedReadsBack
<1>4. ASSUME NEW names \in SUBSET DOMAIN folder, JoinParts(names) PROVE JoinedReadsBack'
  <2> DEFINE j == LET order == SetToSeq(names) IN Join([k \in DOMAIN order |-> folder[order[k]]])
  <2>1. pc = "closed" /\ j.ok /\ joined' = j.data /\ given' = names /\ UNCHANGED <<out, added, max, torn>>
    BY <1>4 DEF JoinParts, writerVars
  <2>2. Reads(names, j.data)
    BY <2>1, JoinReads
  <2> HIDE DEF j
  <2>3. Reads(given', joined')
    BY <2>1, <2>2
  <2>4. QED BY <2>1, <2>3 DEF Reads, JoinedReadsBack, Complete
<1>5. CASE UNCHANGED vars
  <2>1. UNCHANGED <<out, added, max, torn, joined, given>>
    BY <1>5 DEF vars, mediaVars, writerVars
  <2>2. QED BY <2>1 DEF JoinedReadsBack, Complete
<1>6. QED BY <1>1, <1>2, <1>3, <1>4, <1>5 DEF Next

\* split.go, join.go: whatever a closed WIM holds, whatever the part sizes of the
\* Splits that wrote into one folder, whichever of them failed and whichever of the
\* files found there are joined, in whatever order: what Join accepts has every image
\* and the boot image of the WIM that was split and no content but the right one, and
\* all of its contents when the last Split was given whole.
THEOREM JoinedReadsBackTheorem == Reopen => (Spec => []JoinedReadsBack)
<1> DEFINE Inv == MediaInv /\ ApartInv /\ FolderInv /\ JoinedReadsBack
<1>1. Init => Inv
  <2>1. SUFFICES ASSUME Init PROVE Inv
    OBVIOUS
  <2>2. images = <<>> /\ pc = "idle" /\ folder = <<>> /\ joined = <<>> /\ max = 0 /\ torn = {}
    BY <2>1 DEF Init, WriterInit
  <2>3. DOMAIN <<>> = {} /\ IsFiniteSet({})
    BY FS_EmptySet
  <2>4. MediaInv
    BY <2>1, InitInv
  <2>5. ApartInv /\ JoinedReadsBack
    BY <2>2, <2>3 DEF ApartInv, JoinedReadsBack
  <2>6. FilesInv /\ FolderInv
    BY <2>2, <2>3 DEF FilesInv, FolderInv
  <2>7. QED BY <2>4, <2>5, <2>6
<1>2. ASSUME Reopen PROVE Inv /\ [Next]_vars => Inv'
  <2>1. SUFFICES ASSUME Inv, [Next]_vars PROVE Inv'
    OBVIOUS
  <2>2. WriterInv
    BY <2>1 DEF MediaInv
  <2>3. MediaInv' /\ ApartInv' /\ FolderInv' /\ JoinedReadsBack'
    BY <1>2, <2>1, <2>2, MediaStep, ApartStep, FolderStep, JoinedStep
  <2>4. QED BY <2>3
<1>3. Inv => JoinedReadsBack
  OBVIOUS
<1> HIDE DEF Inv
<1>4. ASSUME Reopen PROVE Spec => []JoinedReadsBack
  BY <1>1, <1>2, <1>3, <1>4, PTL DEF Spec
<1>5. QED BY <1>4
============================================================================
