-------------------------------- MODULE DiscProofs -------------------------------
(***************************************************************************)
(* What holds of builds, of USB disks and of images for any ESD, any files *)
(* of the caller's, any options, any number of builds, failures and        *)
(* changes: a build masters what its own options say, a disk written       *)
(* without an error is complete, and an image written without an error     *)
(* links its directories as it should and reads back as the tree it was    *)
(* made of.                                                                *)
(***************************************************************************)
EXTENDS Disc, SequenceLemmas

\* A media tree: a finite one, with files only where there may be some.
TreeOK(tree) ==
  /\ IsFiniteSet(DOMAIN tree)
  /\ \A p \in DOMAIN tree : p \in Seq(Nat) /\ tree[p] \in Node
  /\ FilesOf(tree) \subseteq Places

Holds(p, data) == p \in DOMAIN media /\ media[p].data = data

\* What each step of a build has put into the tree; no step undoes what the
\* steps before it did.
LaidInv ==
  /\ pc \in {"boot", "install", "bypass"} =>
       \A p \in DOMAIN SetupTree : p \in DOMAIN media /\ media[p] = SetupTree[p]
  /\ pc \in {"install", "bypass"} => Holds(BootWim, Wim(BootImagesOf, Len(BootImagesOf), FALSE))
  /\ pc = "bypass" /\ Editions # <<>> => Holds(InstallWim, Wim(Editions, 0, FALSE))

\* Then the extra files: one of those given for a path is there as soon as one
\* of them was written.
ExtrasInv ==
  pc = "extras" =>
    /\ inject \subseteq DOMAIN extras /\ DOMAIN extras \subseteq DOMAIN KeyPath
    /\ opts.extras \subseteq DOMAIN extras
    /\ \A k \in DOMAIN extras : extras[k] \in Seq(Nat)
    /\ AutoKey \in opts.extras => \A k \in DOMAIN extras : extras[k] # AnswerData
    /\ \A p \in DOMAIN SetupTree : Given(p) # {} \/ Holds(p, SetupTree[p].data)
    /\ Given(BootWim) # {} \/ Holds(BootWim, Wim(BootImagesOf, Len(BootImagesOf), FALSE))
    /\ Editions # <<>> => Given(InstallWim) # {} \/ Holds(InstallWim, Wim(Editions, 0, opts.server))
    /\ \A k \in DOMAIN extras \ inject :
         KeyPath[k] \in DOMAIN media /\ media[KeyPath[k]].data \in {extras[j] : j \in Given(KeyPath[k])}

BuildInv == TreeOK(media) /\ opts \in BuildOptions /\ LaidInv /\ ExtrasInv

\* The plan is one for the tree it was made for, which has changed only where
\* it was touched.
PlanInv ==
  /\ TreeOK(planned)
  /\ plan.split # <<>> => /\ plan.split \in FilesOf(planned) /\ LowerPath(plan.split) = InstallWim
                          /\ Len(planned[plan.split].data) > FatLimit
  /\ \A p \in FilesOf(planned) \ {plan.split} : ~Over(plan.fs, Len(planned[p].data))
  /\ plan.fallback \in BOOLEAN
  /\ plan.fallback <=> \A p \in FilesOf(planned) : LowerPath(p) \notin Loaders
  /\ \A p \in DOMAIN planned \ touched : p \in DOMAIN media /\ media[p] = planned[p]

\* A file that is over the limit has changed, or holds one resource.
Fits ==
  \A p \in DOMAIN medium :
    Over(plan.fs, Len(medium[p])) => p \in touched \/ (PartOf(p) /\ SingleResource(medium[p]))

\* What is not pending any more is on the disk.
CopyInv ==
  /\ pending \subseteq FilesOf(planned) \ {plan.split}
  /\ \A p \in FilesOf(planned) \ ({plan.split} \cup pending) :
        p \in DOMAIN medium /\ (p \notin touched => medium[p] = planned[p].data)
  /\ Fits

PartsOn ==
  \E n \in DOMAIN Parts :
     /\ {k \in DOMAIN Parts : Parts[k] \in DOMAIN medium} = 1..n
     /\ FlattenSeq([k \in 1..n |-> Tail(medium[Parts[k]])]) = Tail(planned[plan.split].data)

HasLoader ==
  IF plan.fallback THEN Fallback[opts.arch] \in DOMAIN medium
  ELSE \E p \in DOMAIN medium : LowerPath(p) \in Loaders

\* The parts come after the copies, the loader last.
StageInv ==
  /\ usb = "copying" => \A k \in DOMAIN Parts : Parts[k] \notin DOMAIN medium
  /\ usb # "copying" => pending = {}
  /\ usb = "split" => plan.split # <<>>
  /\ usb # "copying" /\ plan.split \notin touched \cup {<<>>} => PartsOn
  /\ usb = "done" => HasLoader

UsbInv ==
  /\ usb \in {"idle", "copying", "split", "done", "failed"}
  /\ usb # "idle" => pc = "idle"
  /\ usb \in {"copying", "split", "done"} => PlanInv /\ CopyInv /\ StageInv

DiscInv == BuildInv /\ UsbInv

--------------------------------------------------------------------------------
(* Paths in the order of the walk. *)

\* Before, place by place.
LEMMA BeforeIs ==
  ASSUME NEW p \in Seq(Nat), NEW q \in Seq(Nat)
  PROVE  Before(p, q) <=>
           \E n \in Nat : /\ n <= Len(p) /\ n < Len(q) /\ \A i \in 1..n : p[i] = q[i]
                          /\ n = Len(p) \/ p[n + 1] < q[n + 1]
<1>1. Len(p) \in Nat /\ Len(q) \in Nat /\ Len(p) \in Int /\ Len(q) \in Int
  BY LenProperties
<1>2. Min({Len(p), Len(q)}) = IF Len(p) <= Len(q) THEN Len(p) ELSE Len(q)
  BY <1>1, MinOfTwo
<1>3. \A n \in 0..Min({Len(p), Len(q)}) : n \in Nat /\ n <= Len(p) /\ n <= Len(q)
  BY <1>1, <1>2
<1>4. \A n \in Nat : n <= Len(p) /\ n < Len(q) => n \in 0..Min({Len(p), Len(q)})
  BY <1>1, <1>2
<1>5. ASSUME NEW n \in Nat, n <= Len(p), n <= Len(q)
      PROVE  SubSeq(p, 1, n) = SubSeq(q, 1, n) <=> \A i \in 1..n : p[i] = q[i]
  <2> DEFINE l == SubSeq(p, 1, n)
             r == SubSeq(q, 1, n)
  <2>1. l \in Seq(Nat) /\ Len(l) = n /\ \A i \in 1..n : l[i] = p[i]
    BY SMTT(20), <1>1, <1>5
  <2>2. r \in Seq(Nat) /\ Len(r) = n /\ \A i \in 1..n : r[i] = q[i]
    BY SMTT(20), <1>1, <1>5
  <2> HIDE DEF l, r
  <2>3. l = r => \A i \in 1..n : p[i] = q[i]
    BY <2>1, <2>2
  <2>4. (\A i \in 1..n : p[i] = q[i]) => l = r
    BY <2>1, <2>2, SeqEqual
  <2>5. QED BY <2>3, <2>4 DEF l, r
<1>6. ASSUME Before(p, q)
      PROVE  \E n \in Nat : /\ n <= Len(p) /\ n < Len(q) /\ \A i \in 1..n : p[i] = q[i]
                            /\ n = Len(p) \/ p[n + 1] < q[n + 1]
  <2>1. PICK n \in 0..Min({Len(p), Len(q)}) :
          /\ SubSeq(p, 1, n) = SubSeq(q, 1, n)
          /\ IF n = Len(p) THEN n < Len(q) ELSE n < Len(q) /\ p[n + 1] < q[n + 1]
    BY <1>6 DEF Before
  <2>2. n \in Nat /\ n <= Len(p) /\ n <= Len(q)
    BY <1>3
  <2>3. \A i \in 1..n : p[i] = q[i]
    BY <1>5, <2>1, <2>2
  <2>4. n < Len(q) /\ (n = Len(p) \/ p[n + 1] < q[n + 1])
    BY <2>1
  <2>5. QED BY <2>2, <2>3, <2>4
<1>7. ASSUME NEW n \in Nat, n <= Len(p), n < Len(q), \A i \in 1..n : p[i] = q[i],
             n = Len(p) \/ p[n + 1] < q[n + 1]
      PROVE  Before(p, q)
  <2>1. n \in 0..Min({Len(p), Len(q)})
    BY <1>4, <1>7
  <2>4. n <= Len(q)
    BY <1>1, <1>7
  <2>2. SubSeq(p, 1, n) = SubSeq(q, 1, n)
    BY <1>5, <1>7, <2>4
  <2>3. QED BY <1>7, <2>1, <2>2 DEF Before
<1>8. QED BY <1>6, <1>7

\* A witness of it, for goals in which the witness is an expression.
LEMMA BeforeFrom ==
  ASSUME NEW p \in Seq(Nat), NEW q \in Seq(Nat), NEW n \in Nat,
         n <= Len(p), n < Len(q), \A i \in 1..n : p[i] = q[i], n = Len(p) \/ p[n + 1] < q[n + 1]
  PROVE  Before(p, q)
BY BeforeIs

\* The order of the walk is transitive, ...
LEMMA BeforeTransitive ==
  ASSUME NEW p \in Seq(Nat), NEW q \in Seq(Nat), NEW r \in Seq(Nat), Before(p, q), Before(q, r)
  PROVE  Before(p, r)
<1>1. Len(p) \in Nat /\ Len(q) \in Nat /\ Len(r) \in Nat
  BY LenProperties
<1>2. PICK n \in Nat : /\ n <= Len(p) /\ n < Len(q) /\ \A i \in 1..n : p[i] = q[i]
                       /\ n = Len(p) \/ p[n + 1] < q[n + 1]
  BY BeforeIs
<1>3. PICK m \in Nat : /\ m <= Len(q) /\ m < Len(r) /\ \A i \in 1..m : q[i] = r[i]
                       /\ m = Len(q) \/ q[m + 1] < r[m + 1]
  BY BeforeIs
<1> DEFINE k == IF n <= m THEN n ELSE m
<1>4. k \in Nat /\ k <= Len(p) /\ k < Len(r) /\ k <= n /\ k <= m
  BY <1>1, <1>2, <1>3
<1>5. \A i \in 1..k : p[i] = r[i]
  <2>1. \A i \in 1..k : i \in 1..n /\ i \in 1..m
    BY <1>4
  <2>2. QED BY <1>2, <1>3, <2>1
<1>6. k = Len(p) \/ p[k + 1] < r[k + 1]
  <2>1. CASE n < m
    <3>1. n + 1 \in 1..m
      BY <2>1
    <3>2. q[n + 1] = r[n + 1] /\ k = n
      BY <1>3, <2>1, <3>1
    <3>3. QED BY <1>2, <3>2
  <2>2. CASE m < n
    <3>1. m + 1 \in 1..n /\ m # Len(q) /\ k = m
      BY <1>1, <1>2, <2>2
    <3>2. p[m + 1] = q[m + 1]
      BY <1>2, <3>1
    <3>3. QED BY <1>3, <3>1, <3>2
  <2>3. CASE n = m
    <3>1. k = n /\ q[n + 1] < r[n + 1]
      BY <1>1, <1>2, <1>3, <2>3
    <3>2. CASE n = Len(p)
      BY <3>1, <3>2
    <3>3. CASE n # Len(p)
      <4>1. n + 1 \in 1..Len(p) /\ n + 1 \in 1..Len(q) /\ n + 1 \in 1..Len(r)
        <5>1. n <= Len(p) /\ n < Len(q) /\ n < Len(r)
          BY <1>2, <1>3, <2>3
        <5>2. QED BY <1>1, <3>3, <5>1
      <4>2. p[n + 1] \in Nat /\ q[n + 1] \in Nat /\ r[n + 1] \in Nat
        BY <4>1, ElementOfSeq
      <4>3. p[n + 1] < q[n + 1]
        BY <1>2, <3>3
      <4>4. p[n + 1] < r[n + 1]
        BY <3>1, <4>2, <4>3
      <4>5. QED BY <3>1, <4>4
    <3>4. QED BY <3>2, <3>3
  <2>4. QED BY <2>1, <2>2, <2>3
<1> HIDE DEF k
<1>7. QED BY <1>4, <1>5, <1>6, BeforeIs

\* ... and of two paths one comes first.
LEMMA BeforeTotal ==
  ASSUME NEW p \in Seq(Nat), NEW q \in Seq(Nat), p # q
  PROVE  Before(p, q) \/ Before(q, p)
<1>1. Len(p) \in Nat /\ Len(q) \in Nat
  BY LenProperties
<1> DEFINE differ == {k \in 1..Len(p) : k <= Len(q) /\ p[k] # q[k]}
<1>2. CASE differ = {}
  <2>1. \A k \in 1..Len(p) : k <= Len(q) => p[k] = q[k]
    BY <1>2
  <2>2. CASE Len(p) = Len(q)
    <3>1. \A k \in 1..Len(p) : p[k] = q[k]
      BY <1>1, <2>1, <2>2
    <3>2. QED BY <2>2, <3>1, SeqEqual
  <2>3. CASE Len(p) < Len(q)
    <3>1. \A k \in 1..Len(p) : p[k] = q[k]
      BY <1>1, <2>1, <2>3
    <3>2. QED BY <1>1, <2>3, <3>1, BeforeIs
  <2>4. CASE Len(q) < Len(p)
    <3>1. \A k \in 1..Len(q) : k \in 1..Len(p) /\ k <= Len(q)
      BY <1>1, <2>4
    <3>2. \A k \in 1..Len(q) : q[k] = p[k]
      BY <2>1, <3>1
    <3>3. Len(q) <= Len(q)
      BY <1>1
    <3>4. QED BY <1>1, <2>4, <3>2, <3>3, BeforeFrom
  <2>5. QED BY <1>1, <2>2, <2>3, <2>4
<1>3. CASE differ # {}
  <2>1. differ \in SUBSET Nat
    BY <1>1
  <2>2. PICK b \in differ : \A j \in differ : b <= j
    BY <1>3, <2>1, LeastExists
  <2>3. b \in 1..Len(p) /\ b \in 1..Len(q) /\ p[b] # q[b]
    BY <1>1, <2>2
  <2>4. b - 1 \in Nat /\ b - 1 < Len(p) /\ b - 1 < Len(q) /\ (b - 1) + 1 = b
    BY <1>1, <2>3
  <2>5. \A i \in 1..(b - 1) : p[i] = q[i]
    <3>1. TAKE i \in 1..(b - 1)
    <3>2. i \in 1..Len(p) /\ i <= Len(q) /\ ~(b <= i)
      BY <1>1, <2>3, <3>1
    <3>3. QED BY <2>2, <3>2
  <2>6. p[b] \in Nat /\ q[b] \in Nat
    BY <2>3, ElementOfSeq
  <2>7. CASE p[b] < q[b]
    <3> HIDE DEF differ
    <3>1. b - 1 <= Len(p)
      BY <1>1, <2>4
    <3>2. QED BY <2>4, <2>5, <2>7, <3>1, BeforeFrom
  <2>8. CASE q[b] < p[b]
    <3>2. \A i \in 1..(b - 1) : q[i] = p[i]
      BY <2>5
    <3> HIDE DEF differ
    <3>3. b - 1 <= Len(q)
      BY <1>1, <2>4
    <3>4. QED BY <2>4, <2>8, <3>2, <3>3, BeforeFrom
  <2>9. QED BY <2>3, <2>6, <2>7, <2>8
<1>4. QED BY <1>2, <1>3

\* indexTree finds a file whenever there is one of that name, in any case.
LEMMA IndexedIs ==
  ASSUME NEW tree, TreeOK(tree), NEW lower, lower # <<>>
  PROVE  LET found == {p \in FilesOf(tree) : LowerPath(p) = lower} IN
         IF found = {} THEN Indexed(tree, lower) = <<>>
                       ELSE Indexed(tree, lower) \in found /\ Indexed(tree, lower) # <<>>
<1> DEFINE found == {p \in FilesOf(tree) : LowerPath(p) = lower}
           R == {pq \in found \X found : Before(pq[1], pq[2])}
<1>1. found \in SUBSET DOMAIN tree
  BY DEF FilesOf
<1>2. IsFiniteSet(found) /\ \A p \in found : p \in Seq(Nat)
  <2> HIDE DEF found
  <2>1. QED BY <1>1, FS_Subset DEF TreeOK
<1>3. Indexed(tree, lower) = IF found = {} THEN <<>> ELSE CHOOSE p \in found : \A q \in found : q = p \/ Before(q, p)
  BY DEF Indexed
<1>4. CASE found = {}
  BY <1>3, <1>4
<1>5. CASE found # {}
  <2> HIDE DEF found
  <2>1. \A x, y \in found : <<x, y>> \in R <=> Before(x, y)
    OBVIOUS
  <2> HIDE DEF R
  <2>2. \A x, y, z \in found : <<x, y>> \in R /\ <<y, z>> \in R => <<x, z>> \in R
    BY <1>2, <2>1, BeforeTransitive
  <2>3. \A x, y \in found : x = y \/ <<x, y>> \in R \/ <<y, x>> \in R
    BY <1>2, <2>1, BeforeTotal
  <2>4. \E x \in found : \A y \in found : y = x \/ <<y, x>> \in R
    BY ZenonT(30), <1>2, <1>5, <2>2, <2>3, LastExists
  <2>5. \E x \in found : \A y \in found : y = x \/ Before(y, x)
    BY <2>1, <2>4
  <2>6. Indexed(tree, lower) \in found
    BY <1>3, <1>5, <2>5
  <2>7. <<>> \notin found
    <3>1. LowerPath(<<>>) = <<>>
      BY DEF LowerPath
    <3>2. QED BY <3>1 DEF found
  <2>8. QED BY <1>5, <2>6, <2>7 DEF found
<1>6. QED BY <1>4, <1>5


--------------------------------------------------------------------------------
(* Media trees. *)

\* What a build writes it may write.
LEMMA PlacesOK ==
  /\ Places \subseteq Seq(Nat) /\ Outputs \subseteq Places
  /\ BootWim \in Outputs /\ InstallWim \in Outputs
  /\ \A k \in DOMAIN KeyPath : KeyPath[k] \in Outputs
<1>1. \A k \in DOMAIN KeyPath : KeyPath[k] \in Seq(Nat)
  BY BuilderAssumption
<1>2. FilesOf(SetupTree) \subseteq Seq(Nat)
  BY BuilderAssumption DEF FilesOf
<1>3. QED BY <1>1, <1>2, BuilderAssumption DEF Places, Outputs

\* A tree of directories alone.
LEMMA DirsOK ==
  ASSUME NEW D \in SUBSET Seq(Nat), IsFiniteSet(D)
  PROVE  TreeOK([d \in D |-> Dir])
<1> DEFINE tree == [d \in D |-> Dir]
<1>1. DOMAIN tree = D /\ \A p \in D : tree[p] = Dir /\ Dir \in Node /\ Dir.dir
  BY DEF Dir, Node
<1> HIDE DEF tree
<1>2. FilesOf(tree) = {}
  BY <1>1 DEF FilesOf
<1>3. TreeOK(tree)
  BY <1>1, <1>2 DEF TreeOK
<1>4. QED BY <1>3 DEF tree

\* One directory, the root for one.
LEMMA DirOK ==
  ASSUME NEW p \in Seq(Nat)
  PROVE  TreeOK(Only(p, Dir))
<1>1. IsFiniteSet({p}) /\ {p} \in SUBSET Seq(Nat)
  BY FS_Singleton
<1>2. QED BY <1>1, DirsOK DEF Only

\* The tree a work directory of the builder's own begins with.
LEMMA EmptyOK == TreeOK(Empty)
<1>1. <<>> \in Seq(Nat)
  OBVIOUS
<1>2. QED BY <1>1, DirOK DEF Empty

\* One file.
LEMMA FileOK ==
  ASSUME NEW p \in Places, NEW data \in Seq(Nat)
  PROVE  TreeOK(Only(p, File(data)))
<1> DEFINE tree == Only(p, File(data))
<1>1. DOMAIN tree = {p} /\ tree[p] \in Node
  BY DEF Only, File, Node
<1>2. IsFiniteSet({p})
  BY FS_Singleton
<1> HIDE DEF tree
<1>3. FilesOf(tree) \subseteq Places /\ p \in Seq(Nat)
  BY <1>1, PlacesOK DEF FilesOf
<1>4. TreeOK(tree)
  BY <1>1, <1>2, <1>3 DEF TreeOK
<1>5. QED BY <1>4 DEF tree

\* One tree over another.
LEMMA OverlayIs ==
  ASSUME NEW f, NEW g
  PROVE  /\ DOMAIN Overlay(f, g) = DOMAIN f \cup DOMAIN g
         /\ \A p \in DOMAIN f : Overlay(f, g)[p] = f[p]
         /\ \A p \in DOMAIN g \ DOMAIN f : Overlay(f, g)[p] = g[p]
BY DEF Overlay

\* Two media trees, one over the other, are one.
LEMMA OverlayOK ==
  ASSUME NEW f, NEW g, TreeOK(f), TreeOK(g)
  PROVE  TreeOK(Overlay(f, g))
<1> DEFINE tree == Overlay(f, g)
<1>1. /\ DOMAIN tree = DOMAIN f \cup DOMAIN g
      /\ \A p \in DOMAIN tree : \/ p \in DOMAIN f /\ tree[p] = f[p]
                                \/ p \in DOMAIN g /\ tree[p] = g[p]
  BY DEF Overlay
<1> HIDE DEF tree
<1>2. IsFiniteSet(DOMAIN tree)
  BY <1>1, FS_Union DEF TreeOK
<1>3. \A p \in DOMAIN tree : p \in Seq(Nat) /\ tree[p] \in Node
  BY <1>1 DEF TreeOK
<1>4. FilesOf(tree) \subseteq FilesOf(f) \cup FilesOf(g)
  BY <1>1 DEF FilesOf
<1>5. TreeOK(tree)
  BY <1>2, <1>3, <1>4 DEF TreeOK
<1>6. QED BY <1>5 DEF tree

\* The setup tree is a media tree.
LEMMA SetupOK == TreeOK(SetupTree)
BY BuilderAssumption DEF TreeOK, Places

\* The directories of a path are finitely many.
LEMMA AncestorsAre ==
  ASSUME NEW p \in Seq(Nat)
  PROVE  IsFiniteSet(Ancestors(p)) /\ Ancestors(p) \subseteq Seq(Nat)
<1>1. Len(p) \in Nat
  BY LenProperties
<1> DEFINE I == 0..(Len(p) - 1)
           f == [n \in I |-> SubSeq(p, 1, n)]
<1>2. IsFiniteSet(I)
  BY <1>1, FS_Interval
<1>3. Ancestors(p) = {f[n] : n \in I}
  BY DEF Ancestors
<1>4. f \in [I -> Ancestors(p)] /\ \A a \in Ancestors(p) : \E n \in I : f[n] = a
  BY <1>3
<1>5. f \in Surjection(I, Ancestors(p))
  BY <1>4 DEF Surjection
<1>6. IsFiniteSet(Ancestors(p))
  BY <1>2, <1>5, FS_Surjection
<1>7. \A n \in I : SubSeq(p, 1, n) \in Seq(Nat)
  BY <1>1
<1>8. QED BY <1>6, <1>7 DEF Ancestors

\* The directories of finitely many paths.
LEMMA AboveOK ==
  ASSUME NEW P \in SUBSET Seq(Nat), IsFiniteSet(P)
  PROVE  /\ TreeOK(Above(P))
         /\ DOMAIN Above(P) = UNION {Ancestors(p) : p \in P}
         /\ \A d \in DOMAIN Above(P) : Above(P)[d] = Dir
<1> DEFINE A == {Ancestors(p) : p \in P}
           f == [p \in P |-> Ancestors(p)]
<1>1. f \in Surjection(P, A)
  BY DEF Surjection
<1>2. IsFiniteSet(A)
  BY <1>1, FS_Surjection
<1>3. \A a \in A : IsFiniteSet(a) /\ a \subseteq Seq(Nat)
  BY AncestorsAre
<1>4. IsFiniteSet(UNION A) /\ UNION A \in SUBSET Seq(Nat)
  <2> HIDE DEF A
  <2>1. QED BY <1>2, <1>3, FS_UNION
<1>5. Above(P) = [d \in UNION A |-> Dir]
  BY DEF Above
<1>6. TreeOK(Above(P))
  <2> HIDE DEF A
  <2>1. QED BY <1>4, <1>5, DirsOK
<1>7. QED BY <1>5, <1>6

\* What it is to write a file: it is there, its directories are, and nothing
\* else has changed.
LEMMA WriteIs ==
  ASSUME NEW p \in Places, NEW data \in Seq(Nat), TreeOK(media)
  PROVE  /\ TreeOK(Write(p, data))
         /\ DOMAIN media \subseteq DOMAIN Write(p, data)
         /\ p \in DOMAIN Write(p, data) /\ Write(p, data)[p] = File(data)
         /\ \A q \in DOMAIN media \ ({p} \cup Ancestors(p)) : Write(p, data)[q] = media[q]
         /\ \A q \in Ancestors(p) \ {p} : Write(p, data)[q] = Dir
<1> DEFINE a == Above({p})
           n == Only(p, File(data))
           l == Overlay(n, a)
<1>1. {p} \in SUBSET Seq(Nat) /\ IsFiniteSet({p})
  BY PlacesOK, FS_Singleton
<1>2. TreeOK(a) /\ DOMAIN a = Ancestors(p) /\ \A d \in Ancestors(p) : a[d] = Dir
  BY <1>1, AboveOK
<1>3. TreeOK(n) /\ DOMAIN n = {p} /\ n[p] = File(data)
  BY FileOK DEF Only
<1> HIDE DEF a, n
<1>4. DOMAIN l = {p} \cup Ancestors(p) /\ l[p] = File(data)
      /\ \A d \in Ancestors(p) \ {p} : l[d] = Dir
  BY <1>2, <1>3 DEF Overlay
<1>8. TreeOK(l)
  BY <1>2, <1>3, OverlayOK
<1>5. Write(p, data) = Overlay(l, media)
  BY DEF Write, a, n
<1> HIDE DEF l
<1>6. TreeOK(Overlay(l, media))
  BY <1>8, OverlayOK
<1>7. /\ DOMAIN Overlay(l, media) = DOMAIN l \cup DOMAIN media
      /\ \A q \in DOMAIN l : Overlay(l, media)[q] = l[q]
      /\ \A q \in DOMAIN media \ DOMAIN l : Overlay(l, media)[q] = media[q]
  BY OverlayIs
<1> DEFINE w == Overlay(l, media)
<1> HIDE DEF w
<1>9. QED BY <1>4, <1>5, <1>6, <1>7 DEF w

\* A directory above a file a build writes is one in the setup tree too.
LEMMA AboveSetup ==
  ASSUME NEW q \in Outputs, NEW p \in DOMAIN SetupTree, p \in Ancestors(q)
  PROVE  SetupTree[p] = Dir
<1>1. p \notin FilesOf(SetupTree) /\ SetupTree[p] \in Node
  BY LayoutAssumption, BuilderAssumption
<1>2. SetupTree[p].dir
  BY <1>1 DEF FilesOf
<1>3. QED BY <1>1, <1>2 DEF Node

\* No file a build writes is a directory above another.
LEMMA OutputsApart ==
  ASSUME NEW q \in Outputs, NEW p \in Outputs
  PROVE  p \notin Ancestors(q)
BY LayoutAssumption

--------------------------------------------------------------------------------
(* What a build writes. *)

\* The images of some roles are images of the ESD.
LEMMA ImagesIn ==
  ASSUME NEW roles
  PROVE  ImagesOf(roles) \in Seq(DOMAIN Esd)
<1> DEFINE found == {k \in DOMAIN Esd : Esd[k].role \in roles}
           s == [i \in 1..Cardinality(found) |-> CHOOSE k \in found : Cardinality({j \in found : j <= k}) = i]
<1>1. Len(Esd) \in Nat /\ DOMAIN Esd = 1..Len(Esd)
  BY BuilderAssumption, LenProperties
<1>2. found \in SUBSET (1..Len(Esd)) /\ found \subseteq DOMAIN Esd
  BY <1>1
<1>3. ImagesOf(roles) = s
  BY DEF ImagesOf
<1> HIDE DEF found
<1>4. Cardinality(found) \in Nat /\ \A i \in 1..Cardinality(found) : \E k \in found : Cardinality({j \in found : j <= k}) = i
  BY <1>1, <1>2, Ranks
<1>5. s \in [1..Cardinality(found) -> DOMAIN Esd]
  BY <1>2, <1>4
<1> HIDE DEF s
<1>6. s \in Seq(DOMAIN Esd)
  BY <1>4, <1>5, IsASeq
<1>7. QED BY <1>3, <1>6

\* A WIM of images of the ESD has a header, and numbers for bytes.
LEMMA WimOK ==
  ASSUME NEW images \in Seq(DOMAIN Esd), NEW bootIndex \in Nat, NEW server
  PROVE  Wim(images, bootIndex, server) \in Seq(Nat)
<1> DEFINE ss == [k \in DOMAIN images |-> Esd[images[k]].data]
<1>1. Len(images) \in Nat /\ DOMAIN images = 1..Len(images) /\ \A k \in 1..Len(images) : images[k] \in DOMAIN Esd
  BY LenProperties, ElementOfSeq
<1>2. \A k \in DOMAIN Esd : Esd[k].data \in Seq(Nat)
  <2> DEFINE Image == [role : STRING, data : Seq(Nat)]
  <2>3. Esd \in Seq(Image)
    BY BuilderAssumption
  <2>4. \A x \in Image : x.data \in Seq(Nat)
    OBVIOUS
  <2> HIDE DEF Image
  <2>1. \A k \in DOMAIN Esd : Esd[k] \in Image
    BY <2>3, Elements DEF ToSet
  <2>2. QED BY <2>1, <2>4
<1>3. ss \in [1..Len(images) -> Seq(Nat)]
  BY <1>1, <1>2
<1>4. ss \in Seq(Seq(Nat))
  BY <1>1, <1>3, IsASeq
<1> HIDE DEF ss
<1>5. FlattenSeq(ss) \in Seq(Nat)
  BY <1>4, FlattenIsUnion
<1>6. Header(bootIndex, server) \in Nat
  BY DEF Header
<1>7. <<Header(bootIndex, server)>> \in Seq(Nat)
  BY <1>6
<1>8. Wim(images, bootIndex, server) = <<Header(bootIndex, server)>> \o FlattenSeq(ss)
  BY DEF Wim, ss
<1>9. QED BY <1>5, <1>7, <1>8, ConcatProperties

\* The three WIMs a build may write.
LEMMA WimsOK ==
  /\ Wim(BootImagesOf, Len(BootImagesOf), FALSE) \in Seq(Nat)
  /\ \A server \in BOOLEAN : Wim(Editions, 0, server) \in Seq(Nat)
<1>1. BootImagesOf \in Seq(DOMAIN Esd) /\ Editions \in Seq(DOMAIN Esd)
  BY ImagesIn DEF BootImagesOf, Editions
<1>2. Len(BootImagesOf) \in Nat
  BY <1>1, LenProperties
<1>3. QED BY <1>1, <1>2, WimOK

\* A WIM that was not finished is a file like another.
LEMMA TornOK ==
  ASSUME NEW data \in Seq(Nat)
  PROVE  Torn(data) \subseteq Seq(Nat)
<1>1. [data EXCEPT ![1] = 0] \in Seq(Nat)
  <2>1. data \in [1..Len(data) -> Nat] /\ Len(data) \in Nat
    BY LenProperties
  <2>2. [data EXCEPT ![1] = 0] \in [1..Len(data) -> Nat]
    BY <2>1
  <2>3. QED BY <2>1, <2>2, IsASeq
<1>2. QED BY <1>1 DEF Torn

\* A step that fails leaves a tree.
LEMMA HalfwayOK ==
  ASSUME BuildInv, NEW left \in Halfway
  PROVE  TreeOK(left)
<1>1. <<>> \in Seq(Nat)
  OBVIOUS
<1>2. CASE pc = "extract"
  <2>1. Halfway = {<<>>} \cup
                  {[q \in {p \in DOMAIN SetupTree : p \in Ancestors(f) \/ p = f} |->
                     IF q = f THEN File(<<>>) ELSE Dir] : f \in {p \in DOMAIN SetupTree : ~SetupTree[p].dir}}
    BY <1>2 DEF Halfway
  <2>2. CASE left = <<>>
    <3>1. DOMAIN left = {}
      BY <2>2
    <3>2. QED BY <3>1, FS_EmptySet DEF TreeOK, FilesOf
  <2>3. CASE left # <<>>
    <3>1. PICK f \in FilesOf(SetupTree) :
            left = [q \in {p \in DOMAIN SetupTree : p \in Ancestors(f) \/ p = f} |->
                      IF q = f THEN File(<<>>) ELSE Dir]
      BY <2>1, <2>3 DEF FilesOf
    <3>2. DOMAIN left \subseteq DOMAIN SetupTree
      BY <3>1
    <3>3. \A q \in DOMAIN left : left[q] = IF q = f THEN File(<<>>) ELSE Dir
      BY <3>1
    <3>4. File(<<>>) \in Node /\ Dir \in Node /\ Dir.dir
      BY <1>1 DEF File, Dir, Node
    <3>5. FilesOf(left) \subseteq {f}
      BY <3>3, <3>4 DEF FilesOf
    <3>6. f \in Places
      BY DEF Places
    <3>7. IsFiniteSet(DOMAIN left)
      BY <3>2, BuilderAssumption, FS_Subset
    <3>8. \A q \in DOMAIN left : q \in Seq(Nat) /\ left[q] \in Node
      BY <3>2, <3>3, <3>4, BuilderAssumption
    <3>9. QED BY <3>5, <3>6, <3>7, <3>8 DEF TreeOK
  <2>4. QED BY <2>2, <2>3
<1>3. CASE pc = "boot"
  <2>1. Halfway = {Only(BootWim, File(d)) : d \in Torn(Wim(BootImagesOf, Len(BootImagesOf), FALSE))}
    BY <1>3 DEF Halfway
  <2>2. PICK d \in Torn(Wim(BootImagesOf, Len(BootImagesOf), FALSE)) : left = Only(BootWim, File(d))
    BY <2>1
  <2>3. d \in Seq(Nat)
    BY TornOK, WimsOK
  <2>4. QED BY <2>2, <2>3, FileOK, PlacesOK
<1>4. CASE pc = "install"
  <2>1. Halfway = {Only(InstallWim, File(d)) : d \in Torn(Wim(Editions, 0, FALSE))}
    BY <1>4 DEF Halfway
  <2>2. PICK d \in Torn(Wim(Editions, 0, FALSE)) : left = Only(InstallWim, File(d))
    BY <2>1
  <2>3. Wim(Editions, 0, FALSE) \in Seq(Nat)
    BY WimsOK
  <2>5. d \in Seq(Nat)
    BY <2>3, TornOK
  <2>4. QED BY <2>2, <2>5, FileOK, PlacesOK
<1>5. CASE pc = "bypass"
  <2>1. left = Only(InstallWim, File(Wim(Editions, 0, FALSE)))
    BY <1>5 DEF Halfway
  <2>2. Wim(Editions, 0, FALSE) \in Seq(Nat)
    BY WimsOK
  <2>3. QED BY <2>1, <2>2, FileOK, PlacesOK
<1>6. CASE pc = "extras"
  <2>1. Halfway = {Only(KeyPath[k], File(<<>>)) : k \in inject}
    BY <1>6 DEF Halfway
  <2>2. PICK k \in inject : left = Only(KeyPath[k], File(<<>>))
    BY <2>1
  <2>3. k \in DOMAIN KeyPath
    BY <1>6 DEF BuildInv, ExtrasInv
  <2>4. QED BY <1>1, <2>2, <2>3, FileOK, PlacesOK
<1>7. pc \in {"extract", "boot", "install", "bypass", "extras"}
  BY DEF Halfway
<1>8. QED BY <1>2, <1>3, <1>4, <1>5, <1>6, <1>7

--------------------------------------------------------------------------------
(* The steps of a build. *)

\* The tree and the options as they are between builds.
LEMMA InitOK ==
  ASSUME Init
  PROVE  DiscInv
<1> USE DEF Init, BuilderInit
<1>1. TreeOK(media)
  BY EmptyOK
<1>2. pc = "idle" /\ opts \in BuildOptions
  OBVIOUS
<1>3. usb = "idle"
  BY DEF UsbInit
<1>4. QED BY <1>1, <1>2, <1>3 DEF DiscInv, BuildInv, LaidInv, ExtrasInv, UsbInv

\* A build that begins, is being mastered or has ended promises nothing of the
\* tree.
LEMMA QuietStep ==
  ASSUME TreeOK(media'), opts' \in BuildOptions, pc' \in {"idle", "extract", "mastering"}
  PROVE  BuildInv'
BY DEF BuildInv, LaidInv, ExtrasInv

\* The tree of a call that has a directory of its own is empty afterwards.
LEMMA StartBuildStep ==
  ASSUME BuildInv, NEW o \in BuildOptions, StartBuild(o)
  PROVE  BuildInv'
<1>1. TreeOK(media')
  BY EmptyOK DEF StartBuild, BuildInv
<1>2. QED BY <1>1, QuietStep DEF StartBuild

\* The setup tree is laid over what was there.
LEMMA ExtractSetupStep ==
  ASSUME BuildInv, ExtractSetup
  PROVE  BuildInv'
<1> DEFINE d == Only(Sources, Dir)
           s == Overlay(SetupTree, d)
<1>1. TreeOK(media) /\ opts' \in BuildOptions /\ pc' = "boot" /\ media' = Overlay(s, media)
  BY DEF ExtractSetup, Goto, BuildInv
<1>2. TreeOK(d)
  BY DirOK, BuilderAssumption
<1> HIDE DEF d
<1>3. TreeOK(s)
  BY <1>2, SetupOK, OverlayOK
<1>4. DOMAIN SetupTree \subseteq DOMAIN s /\ \A p \in DOMAIN SetupTree : s[p] = SetupTree[p]
  BY OverlayIs
<1> HIDE DEF s
<1>5. TreeOK(media')
  BY <1>1, <1>3, OverlayOK
<1>6. DOMAIN media' = DOMAIN s \cup DOMAIN media /\ \A p \in DOMAIN s : media'[p] = s[p]
  BY <1>1, OverlayIs
<1>7. \A p \in DOMAIN SetupTree : p \in DOMAIN media' /\ media'[p] = SetupTree[p]
  BY <1>4, <1>6
<1>8. QED BY <1>1, <1>5, <1>7 DEF BuildInv, LaidInv, ExtrasInv

\* Writing one of the WIMs keeps the setup tree and the other one.
LEMMA WriteKeeps ==
  ASSUME TreeOK(media), NEW p \in Outputs, NEW data \in Seq(Nat), media' = Write(p, data)
  PROVE  /\ TreeOK(media') /\ Holds(p, data)'
         /\ \A q \in DOMAIN SetupTree \ {p} :
              q \in DOMAIN media /\ media[q] = SetupTree[q] => q \in DOMAIN media' /\ media'[q] = SetupTree[q]
         /\ \A q \in DOMAIN SetupTree \ {p} : Holds(q, SetupTree[q].data) => Holds(q, SetupTree[q].data)'
         /\ \A q \in Outputs \ {p} : \A d : Holds(q, d) => Holds(q, d)'
<1>1. p \in Places
  BY PlacesOK
<1>2. /\ TreeOK(media')
      /\ DOMAIN media \subseteq DOMAIN media'
      /\ p \in DOMAIN media' /\ media'[p] = File(data)
      /\ \A q \in DOMAIN media \ ({p} \cup Ancestors(p)) : media'[q] = media[q]
      /\ \A q \in Ancestors(p) \ {p} : media'[q] = Dir
  BY <1>1, WriteIs
<1>3. Holds(p, data)'
  BY <1>2 DEF Holds, File
<1>4. \A q \in DOMAIN SetupTree \ {p} :
        q \in DOMAIN media /\ media[q] = SetupTree[q] => q \in DOMAIN media' /\ media'[q] = SetupTree[q]
  BY <1>2, AboveSetup
<1>5. \A q \in DOMAIN SetupTree \ {p} : Holds(q, SetupTree[q].data) => Holds(q, SetupTree[q].data)'
  <2>1. TAKE q \in DOMAIN SetupTree \ {p}
  <2>2. CASE q \in Ancestors(p)
    BY <1>2, <2>2, AboveSetup DEF Holds
  <2>3. CASE q \notin Ancestors(p)
    BY <1>2, <2>3 DEF Holds
  <2>4. QED BY <2>2, <2>3
<1>6. \A q \in Outputs \ {p} : \A d : Holds(q, d) => Holds(q, d)'
  BY <1>2, OutputsApart DEF Holds
<1>7. QED BY <1>2, <1>3, <1>4, <1>5, <1>6

\* boot.wim
LEMMA BuildBootWimStep ==
  ASSUME BuildInv, BuildBootWim
  PROVE  BuildInv'
<1> DEFINE wim == Wim(BootImagesOf, Len(BootImagesOf), FALSE)
<1>1. TreeOK(media) /\ opts' \in BuildOptions /\ pc' = "install" /\ media' = Write(BootWim, wim)
  BY DEF BuildBootWim, Goto, BuildInv
<1>2. \A p \in DOMAIN SetupTree : p \in DOMAIN media /\ media[p] = SetupTree[p] /\ p # BootWim
  BY LayoutAssumption DEF BuildBootWim, BuildInv, LaidInv
<1>3. wim \in Seq(Nat) /\ BootWim \in Outputs
  BY WimsOK, PlacesOK
<1> HIDE DEF wim
<1>4. /\ TreeOK(media') /\ Holds(BootWim, wim)'
      /\ \A p \in DOMAIN SetupTree : p \in DOMAIN media' /\ media'[p] = SetupTree[p]
  BY <1>1, <1>2, <1>3, WriteKeeps
<1>5. QED BY <1>1, <1>4 DEF BuildInv, LaidInv, ExtrasInv, wim

\* install.wim, unless there is no edition to put into it
LEMMA BuildInstallWimStep ==
  ASSUME BuildInv, BuildInstallWim
  PROVE  BuildInv'
<1> DEFINE boot == Wim(BootImagesOf, Len(BootImagesOf), FALSE)
           wim == Wim(Editions, 0, FALSE)
<1>1. /\ TreeOK(media) /\ opts' \in BuildOptions /\ pc' = "bypass"
      /\ media' = IF Editions = <<>> THEN media ELSE Write(InstallWim, wim)
  BY DEF BuildInstallWim, Goto, BuildInv
<1>2. Holds(BootWim, boot) /\ BootWim # InstallWim
  BY LayoutAssumption DEF BuildInstallWim, BuildInv, LaidInv
<1>3. \A p \in DOMAIN SetupTree : p \in DOMAIN media /\ media[p] = SetupTree[p] /\ p # InstallWim
  BY LayoutAssumption DEF BuildInstallWim, BuildInv, LaidInv
<1>4. wim \in Seq(Nat) /\ InstallWim \in Outputs /\ BootWim \in Outputs
  BY WimsOK, PlacesOK
<1> HIDE DEF wim, boot
<1>5. CASE Editions = <<>>
  <2>1. media' = media
    BY <1>1, <1>5
  <2>2. Holds(BootWim, boot)'
    BY <1>2, <2>1 DEF Holds, boot
  <2>3. QED BY <1>1, <1>3, <1>5, <2>1, <2>2 DEF BuildInv, LaidInv, ExtrasInv, boot
<1>6. CASE Editions # <<>>
  <2>1. media' = Write(InstallWim, wim)
    BY <1>1, <1>6
  <2>2. /\ TreeOK(media') /\ Holds(InstallWim, wim)'
        /\ \A p \in DOMAIN SetupTree : p \in DOMAIN media' /\ media'[p] = SetupTree[p]
    BY <1>1, <1>3, <1>4, <2>1, WriteKeeps
  <2>3. \A q \in Outputs \ {InstallWim} : \A d : Holds(q, d) => Holds(q, d)'
    BY <1>1, <1>4, <2>1, WriteKeeps
  <2>4. Holds(BootWim, boot)'
    BY <1>2, <1>4, <2>3
  <2>5. QED BY <1>1, <2>2, <2>4 DEF BuildInv, LaidInv, ExtrasInv, boot, wim
<1>7. QED BY <1>5, <1>6

\* The extra files a call gives: every key has bytes, and the generated answer
\* file is not among them if the caller gave one.
LEMMA ExtrasGiven ==
  ASSUME BuildInv, ApplyBypass
  PROVE  /\ DOMAIN extras' \subseteq DOMAIN KeyPath /\ opts.extras \subseteq DOMAIN extras'
         /\ \A k \in DOMAIN extras' : extras'[k] \in Seq(Nat)
         /\ AutoKey \in opts.extras => \A k \in DOMAIN extras' : extras'[k] # AnswerData
<1> DEFINE given == [k \in opts.extras |-> ExtraData[k]]
           auto == Only(AutoKey, AnswerData)
<1>1. opts \in [extras : SUBSET DOMAIN KeyPath, answer : BOOLEAN, server : BOOLEAN, fresh : BOOLEAN, arch : STRING]
  BY BuilderAssumption DEF BuildInv
<1>2. opts.extras \subseteq DOMAIN KeyPath
  BY <1>1
<1>3. DOMAIN ExtraData = DOMAIN KeyPath /\ \A k \in DOMAIN KeyPath : ExtraData[k] \in Seq(Nat) /\ ExtraData[k] # AnswerData
  BY BuilderAssumption, LayoutAssumption
<1>4. AutoKey \in DOMAIN KeyPath /\ AnswerData \in Seq(Nat)
  BY BuilderAssumption
<1>5. DOMAIN given = opts.extras /\ \A k \in opts.extras : given[k] = ExtraData[k]
  OBVIOUS
<1>6. DOMAIN auto = {AutoKey} /\ auto[AutoKey] = AnswerData
  BY DEF Only
<1>7. extras' = IF opts.answer THEN Overlay(given, auto) ELSE given
  BY DEF ApplyBypass, MergeExtras
<1> HIDE DEF given, auto
<1>8. /\ DOMAIN Overlay(given, auto) = DOMAIN given \cup DOMAIN auto
      /\ \A k \in DOMAIN given : Overlay(given, auto)[k] = given[k]
      /\ \A k \in DOMAIN auto \ DOMAIN given : Overlay(given, auto)[k] = auto[k]
  BY OverlayIs
<1> DEFINE both == Overlay(given, auto)
<1> HIDE DEF both
<1>9. CASE extras' = given
  BY <1>2, <1>3, <1>5, <1>9
<1>10. CASE extras' = both
  <2>1. DOMAIN extras' = opts.extras \cup {AutoKey}
    BY <1>5, <1>6, <1>8, <1>10 DEF both
  <2>2. \A k \in opts.extras : extras'[k] = ExtraData[k]
    BY <1>5, <1>8, <1>10 DEF both
  <2>3. AutoKey \notin opts.extras => extras'[AutoKey] = AnswerData
    BY <1>5, <1>6, <1>8, <1>10 DEF both
  <2>4. QED BY <1>2, <1>3, <1>4, <2>1, <2>2, <2>3
<1>11. QED BY <1>7, <1>9, <1>10 DEF both

\* The server variant of install.wim, before any extra file.
LEMMA ApplyBypassStep ==
  ASSUME BuildInv, ApplyBypass
  PROVE  BuildInv'
<1> DEFINE boot == Wim(BootImagesOf, Len(BootImagesOf), FALSE)
           wim == Wim(Editions, 0, opts.server)
<1>1. /\ TreeOK(media) /\ opts \in BuildOptions /\ opts' = opts /\ pc' = "extras"
      /\ media' = IF opts.server /\ Editions # <<>> THEN Write(InstallWim, Wim(Editions, 0, TRUE)) ELSE media
      /\ inject' = DOMAIN extras'
  BY DEF ApplyBypass, Goto, BuildInv
<1>2. opts.server \in BOOLEAN
  BY <1>1, BuilderAssumption
<1>3. Holds(BootWim, boot) /\ BootWim # InstallWim
  BY LayoutAssumption DEF ApplyBypass, BuildInv, LaidInv
<1>4. \A p \in DOMAIN SetupTree : p # InstallWim /\ Holds(p, SetupTree[p].data)
  BY LayoutAssumption DEF ApplyBypass, BuildInv, LaidInv, Holds
<1>5. wim \in Seq(Nat) /\ InstallWim \in Outputs /\ BootWim \in Outputs
  BY <1>2, WimsOK, PlacesOK
<1>6. Editions # <<>> /\ ~opts.server => Holds(InstallWim, wim)
  BY <1>2 DEF ApplyBypass, BuildInv, LaidInv
<1> HIDE DEF boot
<1>7. /\ TreeOK(media') /\ Holds(BootWim, boot)' /\ (Editions # <<>> => Holds(InstallWim, wim)')
      /\ \A p \in DOMAIN SetupTree : Holds(p, SetupTree[p].data)'
  <2>1. CASE opts.server /\ Editions # <<>>
    <3> DEFINE server == Wim(Editions, 0, TRUE)
    <3>1. media' = Write(InstallWim, server) /\ server \in Seq(Nat)
      BY <1>1, <2>1, WimsOK
    <3>7. wim' = server
      BY <1>1, <1>2, <2>1
    <3> HIDE DEF wim, server
    <3>2. Holds(InstallWim, wim)' /\ TreeOK(media')
      <4>1. Holds(InstallWim, server)' /\ TreeOK(media')
        BY <1>1, <1>5, <3>1, WriteKeeps
      <4>2. QED BY <3>7, <4>1 DEF Holds, server
    <3>3. \A p \in DOMAIN SetupTree : Holds(p, SetupTree[p].data)'
      BY <1>1, <1>4, <1>5, <3>1, WriteKeeps
    <3>4. \A q \in Outputs \ {InstallWim} : \A d : Holds(q, d) => Holds(q, d)'
      BY <1>1, <1>5, <3>1, WriteKeeps
    <3>5. Holds(BootWim, boot)'
      BY <1>3, <1>5, <3>4
    <3>6. QED BY <3>2, <3>3, <3>5
  <2>2. CASE ~(opts.server /\ Editions # <<>>)
    <3>1. media' = media
      BY <1>1, <2>2
    <3>2. \A q, d : Holds(q, d)' <=> Holds(q, d)
      BY <3>1 DEF Holds
    <3>3. wim' = wim
      BY <1>1
    <3> HIDE DEF wim
    <3>4. Editions # <<>> => ~opts.server
      BY <2>2
    <3>5. QED BY <1>1, <1>3, <1>4, <1>6, <3>1, <3>2, <3>3, <3>4 DEF Holds
  <2>3. QED BY <2>1, <2>2
<1>8. /\ DOMAIN extras' \subseteq DOMAIN KeyPath /\ opts'.extras \subseteq DOMAIN extras'
      /\ \A k \in DOMAIN extras' : extras'[k] \in Seq(Nat)
      /\ AutoKey \in opts'.extras => \A k \in DOMAIN extras' : extras'[k] # AnswerData
  BY <1>1, ExtrasGiven
<1>9. ExtrasInv'
  BY <1>1, <1>7, <1>8 DEF ExtrasInv, boot
<1>10. QED BY <1>1, <1>7, <1>9 DEF BuildInv, LaidInv

\* An extra file, over whatever file has its path.
LEMMA InjectExtraStep ==
  ASSUME BuildInv, InjectExtra
  PROVE  BuildInv'
<1>1. /\ TreeOK(media) /\ opts \in BuildOptions /\ opts' = opts /\ pc' = "extras" /\ extras' = extras
      /\ ExtrasInv /\ pc = "extras"
  BY DEF InjectExtra, Goto, BuildInv
<1>2. PICK k \in inject : media' = Write(KeyPath[k], extras[k]) /\ inject' = inject \ {k}
  BY DEF InjectExtra
<1> DEFINE p == KeyPath[k]
<1>3. k \in DOMAIN extras /\ DOMAIN extras \subseteq DOMAIN KeyPath /\ extras[k] \in Seq(Nat) /\ p \in Outputs
  BY <1>1, PlacesOK DEF ExtrasInv
<1>4. k \in Given(p)
  BY <1>3 DEF Given
<1>5. \A q : Given(q)' = Given(q)
  BY <1>1 DEF Given
<1>10. media' = Write(p, extras[k])
  BY <1>2
<1> HIDE DEF p
<1>6. TreeOK(media') /\ Holds(p, extras[k])'
  BY <1>1, <1>3, <1>10, WriteKeeps
<1>7. \A q \in DOMAIN SetupTree : Given(q) # {} \/ Holds(q, SetupTree[q].data)'
  <2>1. \A q \in DOMAIN SetupTree \ {p} : Holds(q, SetupTree[q].data) => Holds(q, SetupTree[q].data)'
    BY <1>1, <1>3, <1>10, WriteKeeps
  <2>2. QED BY <1>1, <1>4, <2>1 DEF ExtrasInv
<1>8. \A q \in Outputs \ {p} : \A d : Holds(q, d) => Holds(q, d)'
  BY <1>1, <1>3, <1>10, WriteKeeps
<1>9. Given(BootWim) # {} \/ Holds(BootWim, Wim(BootImagesOf, Len(BootImagesOf), FALSE))'
  <2>1. BootWim \in Outputs
    BY PlacesOK
  <2>2. QED BY <1>1, <1>4, <1>8, <2>1 DEF ExtrasInv
<1>11. Editions # <<>> => Given(InstallWim) # {} \/ Holds(InstallWim, Wim(Editions, 0, opts.server))'
  <2>1. InstallWim \in Outputs
    BY PlacesOK
  <2>2. QED BY <1>1, <1>4, <1>8, <2>1 DEF ExtrasInv
<1>12. \A j \in DOMAIN extras \ inject' :
         KeyPath[j] \in DOMAIN media' /\ media'[KeyPath[j]].data \in {extras[i] : i \in Given(KeyPath[j])}
  <2>1. TAKE j \in DOMAIN extras \ inject'
  <2>2. CASE KeyPath[j] = p
    BY <1>1, <1>4, <1>6, <2>2 DEF Holds
  <2>3. CASE KeyPath[j] # p
    <3>1. j \in DOMAIN extras \ inject /\ KeyPath[j] \in Outputs
      BY <1>2, <1>3, <2>3, PlacesOK DEF p
    <3>2. KeyPath[j] \in DOMAIN media /\ media[KeyPath[j]].data \in {extras[i] : i \in Given(KeyPath[j])}
      BY <1>1, <3>1 DEF ExtrasInv
    <3>3. KeyPath[j] \in DOMAIN media' /\ media'[KeyPath[j]].data = media[KeyPath[j]].data
      <4> DEFINE d == media[KeyPath[j]].data
      <4>1. Holds(KeyPath[j], d)
        BY <3>2 DEF Holds
      <4> HIDE DEF d
      <4>2. KeyPath[j] \in Outputs \ {p}
        BY <2>3, <3>1
      <4>3. KeyPath[j] \in DOMAIN media' /\ media'[KeyPath[j]].data = d
        BY <1>8, <4>1, <4>2 DEF Holds
      <4>4. QED BY <4>3 DEF d
    <3>4. QED BY <3>2, <3>3
  <2>4. QED BY <2>2, <2>3
<1>13. /\ inject' \subseteq DOMAIN extras /\ \A j \in DOMAIN extras : extras[j] \in Seq(Nat)
       /\ opts.extras \subseteq DOMAIN extras
       /\ AutoKey \in opts.extras => \A j \in DOMAIN extras : extras[j] # AnswerData
  BY <1>1, <1>2 DEF ExtrasInv
<1>14. ExtrasInv'
  BY <1>1, <1>3, <1>5, <1>7, <1>9, <1>11, <1>12, <1>13 DEF ExtrasInv
<1>15. LaidInv'
  BY <1>1 DEF LaidInv
<1>16. QED BY <1>1, <1>6, <1>14, <1>15 DEF BuildInv

\* What a failed step leaves is over what there was before.
LEMMA FailBuildStep ==
  ASSUME BuildInv, FailBuild
  PROVE  BuildInv'
<1>1. TreeOK(media) /\ opts' \in BuildOptions /\ pc' = "idle"
  BY DEF FailBuild, BuildInv
<1>2. TreeOK(media')
  <2>1. PICK left \in Halfway :
          media' = IF opts.fresh THEN Empty ELSE Overlay(Overlay(left, Above(DOMAIN left)), media)
    BY DEF FailBuild
  <2>2. TreeOK(left)
    BY HalfwayOK
  <2>3. TreeOK(Above(DOMAIN left))
    <3>1. DOMAIN left \in SUBSET Seq(Nat) /\ IsFiniteSet(DOMAIN left)
      BY <2>2 DEF TreeOK
    <3>2. QED BY <3>1, AboveOK
  <2>4. TreeOK(Overlay(left, Above(DOMAIN left)))
    BY <2>2, <2>3, OverlayOK
  <2>5. TreeOK(Overlay(Overlay(left, Above(DOMAIN left)), media))
    BY <1>1, <2>4, OverlayOK
  <2>6. QED BY <2>1, <2>5, EmptyOK
<1>3. QED BY <1>1, <1>2, QuietStep

\* A step that leaves the tree and the build alone.
LEMMA BuildKept ==
  ASSUME BuildInv, UNCHANGED <<media, pc, opts, inject, extras>>
  PROVE  BuildInv'
<1>1. \A p, data : Holds(p, data)' <=> Holds(p, data)
  BY DEF Holds
<1>2. \A p : Given(p)' = Given(p)
  BY DEF Given
<1>3. TreeOK(media') /\ opts' \in BuildOptions
  BY DEF BuildInv
<1>4. LaidInv'
  <2>1. LaidInv
    BY DEF BuildInv
  <2>2. Holds(BootWim, Wim(BootImagesOf, Len(BootImagesOf), FALSE))' <=>
          Holds(BootWim, Wim(BootImagesOf, Len(BootImagesOf), FALSE))
    BY <1>1
  <2>3. Holds(InstallWim, Wim(Editions, 0, FALSE))' <=> Holds(InstallWim, Wim(Editions, 0, FALSE))
    BY <1>1
  <2>4. QED BY <2>1, <2>2, <2>3 DEF LaidInv
<1>5. ExtrasInv'
  <2>1. ExtrasInv
    BY DEF BuildInv
  <2>2. CASE pc # "extras"
    BY <2>2 DEF ExtrasInv
  <2>3. CASE pc = "extras"
    <3>1. \A p \in DOMAIN SetupTree : Given(p)' # {} \/ Holds(p, SetupTree[p].data)'
      BY <1>1, <1>2, <2>1, <2>3 DEF ExtrasInv
    <3>2. Given(BootWim)' # {} \/ Holds(BootWim, Wim(BootImagesOf, Len(BootImagesOf), FALSE))'
      BY <1>1, <1>2, <2>1, <2>3 DEF ExtrasInv
    <3> DEFINE wim == Wim(Editions, 0, opts.server)
    <3>3. wim' = wim
      OBVIOUS
    <3>4. Editions # <<>> => Given(InstallWim) # {} \/ Holds(InstallWim, wim)
      BY <2>1, <2>3 DEF ExtrasInv
    <3> HIDE DEF wim
    <3>5. Editions # <<>> => Given(InstallWim)' # {} \/ Holds(InstallWim, wim)'
      BY <1>2, <3>3, <3>4 DEF Holds
    <3>6. \A k \in DOMAIN extras' \ inject' :
            KeyPath[k] \in DOMAIN media' /\ media'[KeyPath[k]].data \in {extras'[j] : j \in Given(KeyPath[k])'}
      BY <1>2, <2>1, <2>3 DEF ExtrasInv
    <3>7. /\ inject' \subseteq DOMAIN extras' /\ DOMAIN extras' \subseteq DOMAIN KeyPath
          /\ opts'.extras \subseteq DOMAIN extras'
          /\ \A k \in DOMAIN extras' : extras'[k] \in Seq(Nat)
          /\ AutoKey \in opts'.extras => \A k \in DOMAIN extras' : extras'[k] # AnswerData
      BY <2>1, <2>3 DEF ExtrasInv
    <3>8. QED BY <3>1, <3>2, <3>5, <3>6, <3>7 DEF ExtrasInv, wim
  <2>4. QED BY <2>2, <2>3
<1>6. QED BY <1>3, <1>4, <1>5 DEF BuildInv

\* Every step of a build keeps what the build relies on.
LEMMA BuilderStep ==
  ASSUME BuildInv, BuilderNext
  PROVE  BuildInv'
<1>1. ASSUME Master
      PROVE  BuildInv'
  <2>1. media' = media /\ opts' = opts /\ pc' = "mastering"
    BY <1>1 DEF Master
  <2>2. TreeOK(media') /\ opts' \in BuildOptions
    BY <2>1 DEF BuildInv
  <2>3. QED BY <2>1, <2>2, QuietStep
<1>2. ASSUME MasterTree \/ MasterNode
      PROVE  BuildInv'
  <2>1. UNCHANGED <<media, pc, opts, inject, extras>>
    BY <1>2 DEF MasterTree, MasterNode, builderVars
  <2>2. QED BY <2>1, BuildKept
<1>3. ASSUME MasterEnds
      PROVE  BuildInv'
  <2>1. media' = (IF opts.fresh THEN Empty ELSE media) /\ opts' = opts /\ pc' = "idle"
    BY <1>3 DEF MasterEnds, Return
  <2>2. TreeOK(media') /\ opts' \in BuildOptions
    BY <2>1, EmptyOK DEF BuildInv
  <2>3. QED BY <2>1, <2>2, QuietStep
<1>4. QED
  BY <1>1, <1>2, <1>3, StartBuildStep, ExtractSetupStep, BuildBootWimStep, BuildInstallWimStep, ApplyBypassStep,
     InjectExtraStep, FailBuildStep
  DEF BuilderNext

--------------------------------------------------------------------------------
(* The steps of a USB disk. *)

\* The plan is made of the tree as it is.
LEMMA WriteMediaStep ==
  ASSUME DiscInv, NEW d, NEW o \in UsbOptions, WriteMedia(d, o)
  PROVE  DiscInv'
<1>1. /\ TreeOK(media) /\ UNCHANGED <<media, builderVars>> /\ pc = "idle"
      /\ plan' = Plan(o.fs) /\ planned' = media /\ pending' = FilesOf(media) \ {SplitWim(o.fs)}
      /\ medium' = <<>> /\ touched' = {} /\ usb' \in {"copying", "failed"}
  BY DEF WriteMedia, DiscInv, BuildInv
<1>2. BuildInv'
  BY <1>1, BuildKept DEF DiscInv, builderVars
<1>3. pc' = "idle"
  BY <1>1 DEF builderVars
<1>4. plan'.split = SplitWim(o.fs) /\ plan'.fallback = NeedsLoader /\ plan'.fs = o.fs
  BY <1>1 DEF Plan
<1>5. SplitWim(o.fs) # <<>> => /\ SplitWim(o.fs) \in FilesOf(media) /\ LowerPath(SplitWim(o.fs)) = InstallWim
                               /\ Len(media[SplitWim(o.fs)].data) > FatLimit
  <2> DEFINE p == Indexed(media, InstallWim)
  <2>1. p # <<>> => p \in FilesOf(media) /\ LowerPath(p) = InstallWim
    <3>1. InstallWim # <<>>
      BY UsbAssumption
    <3>2. QED BY <1>1, <3>1, IndexedIs
  <2>2. SplitWim(o.fs) = IF p # <<>> /\ Over(o.fs, SizeOf(p)) THEN p ELSE <<>>
    BY DEF SplitWim
  <2> HIDE DEF p
  <2>3. QED BY <2>1, <2>2 DEF Over, SizeOf
<1>6. NeedsLoader \in BOOLEAN /\ (NeedsLoader <=> \A p \in FilesOf(media) : LowerPath(p) \notin Loaders)
  <2>1. \A l \in Loaders : Indexed(media, l) = <<>> <=> ~ \E p \in FilesOf(media) : LowerPath(p) = l
    <3>1. \A l \in Loaders : l # <<>>
      BY UsbAssumption
    <3>2. QED BY <1>1, <3>1, IndexedIs
  <2>2. QED BY <2>1 DEF NeedsLoader
<1>7. PlanInv'
  <2>1. TreeOK(planned')
    BY <1>1
  <2>2. \A p \in DOMAIN planned' \ touched' : p \in DOMAIN media' /\ media'[p] = planned'[p]
    BY <1>1
  <2>3. plan'.split # <<>> => /\ plan'.split \in FilesOf(planned') /\ LowerPath(plan'.split) = InstallWim
                              /\ Len(planned'[plan'.split].data) > FatLimit
    BY <1>1, <1>4, <1>5
  <2>4. plan'.fallback \in BOOLEAN /\ (plan'.fallback <=> \A p \in FilesOf(planned') : LowerPath(p) \notin Loaders)
    BY <1>1, <1>4, <1>6
  <2>5. \A p \in FilesOf(planned') \ {plan'.split} : ~Over(plan'.fs, Len(planned'[p].data))
    <3>1. \A p \in FilesOf(media) \ {SplitWim(o.fs)} : ~Over(o.fs, SizeOf(p))
      BY DEF WriteMedia, CanWrite
    <3>2. QED BY <1>1, <1>4, <3>1 DEF SizeOf
  <2>6. QED BY <2>1, <2>2, <2>3, <2>4, <2>5 DEF PlanInv
<1>8. CopyInv'
  <2>1. DOMAIN medium' = {}
    BY <1>1
  <2>2. pending' = FilesOf(planned') \ {plan'.split}
    BY <1>1, <1>4
  <2>3. Fits'
    BY <2>1 DEF Fits
  <2>4. QED BY <2>1, <2>2, <2>3 DEF CopyInv
<1>9. usb' = "copying" => StageInv'
  <2>1. DOMAIN medium' = {}
    BY <1>1
  <2>2. QED BY <2>1 DEF StageInv
<1>10. UsbInv'
  BY <1>1, <1>3, <1>7, <1>8, <1>9 DEF UsbInv
<1>11. QED BY <1>2, <1>10 DEF DiscInv

\* The tree and the build are as they were.
LEMMA TreeKept ==
  ASSUME BuildInv, UNCHANGED <<media, builderVars>>
  PROVE  BuildInv'
BY BuildKept DEF builderVars

\* The plan does not change while it is carried out.
LEMMA PlanKept ==
  ASSUME PlanInv, UNCHANGED <<media, plan, planned, touched>>
  PROVE  PlanInv'
BY DEF PlanInv, TreeOK

\* A part has the name of no planned file.
LEMMA PartsApart ==
  ASSUME PlanInv, NEW k \in DOMAIN Parts
  PROVE  Parts[k] \notin FilesOf(planned)
BY UsbAssumption DEF PlanInv, TreeOK

\* One more file of the plan.
LEMMA CopyFileStep ==
  ASSUME PlanInv, CopyInv, StageInv, NEW p \in pending, CopyFile(p)
  PROVE  CopyInv' /\ StageInv'
<1> DEFINE data == media[p].data
<1>1. /\ usb = "copying" /\ usb' = "copying" /\ p \in DOMAIN media
      /\ medium' = Overlay(Only(p, data), medium) /\ pending' = pending \ {p}
      /\ UNCHANGED <<plan, planned, touched>>
  BY DEF CopyFile, OnDisk
<1>2. /\ DOMAIN medium' = {p} \cup DOMAIN medium /\ medium'[p] = data
      /\ \A q \in DOMAIN medium \ {p} : medium'[q] = medium[q]
  BY <1>1 DEF Overlay, Only
<1>3. p \in FilesOf(planned) \ {plan.split}
  BY DEF CopyInv
<1>4. p \notin touched => data = planned[p].data
  BY <1>3 DEF PlanInv, FilesOf
<1> HIDE DEF data
<1>5. CopyInv'
  <2>1. pending' \subseteq FilesOf(planned') \ {plan'.split}
    BY <1>1 DEF CopyInv
  <2>2. ASSUME NEW q \in FilesOf(planned) \ ({plan.split} \cup pending')
        PROVE  q \in DOMAIN medium' /\ (q \notin touched => medium'[q] = planned[q].data)
    <3>1. CASE q = p
      BY <1>2, <1>4, <3>1
    <3>2. CASE q # p
      <4>1. q \in FilesOf(planned) \ ({plan.split} \cup pending)
        BY <1>1, <2>2, <3>2
      <4>2. QED BY <1>2, <3>2, <4>1 DEF CopyInv
    <3>3. QED BY <3>1, <3>2
  <2>3. Fits'
    <3>1. \A q \in DOMAIN medium \ {p} :
            Over(plan.fs, Len(medium'[q])) => q \in touched \/ (PartOf(q) /\ SingleResource(medium'[q]))
      BY <1>2 DEF CopyInv, Fits
    <3>2. ~Over(plan.fs, Len(planned[p].data))
      BY <1>3 DEF PlanInv
    <3>3. Over(plan.fs, Len(medium'[p])) => p \in touched
      BY <1>2, <1>4, <3>2
    <3>4. QED BY <1>1, <1>2, <3>1, <3>3 DEF Fits
  <2>4. QED BY <1>1, <2>1, <2>2, <2>3 DEF CopyInv
<1>6. \A k \in DOMAIN Parts : Parts[k] \notin DOMAIN medium'
  BY <1>1, <1>2, <1>3, PartsApart DEF StageInv
<1>7. QED BY <1>1, <1>5, <1>6 DEF StageInv

\* A header put before some bytes, and taken off again.
LEMMA TailOfPart ==
  ASSUME NEW x \in Nat, NEW t \in Seq(Nat)
  PROVE  /\ <<x>> \o t \in Seq(Nat) /\ Len(<<x>> \o t) = 1 + Len(t)
         /\ Tail(<<x>> \o t) = t
<1> DEFINE s == <<x>> \o t
<1>1. <<x>> \in Seq(Nat) /\ Len(<<x>>) = 1 /\ Len(t) \in Nat
  BY LenProperties
<1>2. /\ s \in Seq(Nat) /\ Len(s) = 1 + Len(t)
      /\ \A i \in 1..(1 + Len(t)) : s[i] = IF i <= 1 THEN x ELSE t[i - 1]
  BY <1>1, ConcatProperties
<1> HIDE DEF s
<1>3. s # <<>>
  BY <1>1, <1>2
<1>4. Tail(s) \in Seq(Nat) /\ Len(Tail(s)) = Len(t) /\ \A i \in 1..Len(t) : Tail(s)[i] = s[i + 1]
  BY <1>1, <1>2, <1>3
<1>5. \A i \in 1..Len(t) : Tail(s)[i] = t[i]
  <2>1. TAKE i \in 1..Len(t)
  <2>2. i + 1 \in 1..(1 + Len(t)) /\ ~(i + 1 <= 1) /\ (i + 1) - 1 = i
    BY <1>1
  <2>3. s[i + 1] = t[i]
    BY <1>2, <2>2
  <2>4. QED BY <1>4, <2>3
<1>6. Tail(s) = t
  BY <1>4, <1>5, SeqEqual
<1>7. QED BY <1>2, <1>6 DEF s

\* FlattenSeq of one sequence more.
LEMMA FlattenAppend ==
  ASSUME NEW ss \in Seq(Seq(Nat)), NEW t \in Seq(Nat)
  PROVE  /\ FlattenSeq(ss) \in Seq(Nat)
         /\ FlattenSeq(Append(ss, t)) = FlattenSeq(ss) \o t
<1> DEFINE S == Seq(Nat)
           a == Append(ss, t)
           n == Len(ss)
<1>1. FlattenSeq(ss) \in Seq(Nat)
  BY FlattenIsUnion
<1>2. n \in Nat
  BY LenProperties
<1>3. Len(a) = n + 1 /\ a[n + 1] = t /\ \A k \in 1..n : a[k] = ss[k]
  <2> HIDE DEF S
  <2>1. ss \in Seq(S) /\ t \in S
    BY DEF S
  <2>2. QED BY <2>1, AppendProperties
<1> HIDE DEF a
<1>4. PICK f : f[1] = a[1] /\ (\A j \in 2..(n + 1) : f[j] = f[j-1] \o a[j]) /\ FlattenSeq(a) = f[n + 1]
  <2>1. Len(a) \in Nat \ {0}
    BY <1>2, <1>3
  <2>2. QED BY <1>3, <2>1, FlattenSteps
<1>5. CASE n = 0
  <2>1. FlattenSeq(ss) = ss /\ ss = <<>>
    <3>1. FlattenSeq(ss) = ss
      BY <1>5 DEF FlattenSeq
    <3>2. ss = <<>>
      BY <1>5, EmptySeq
    <3>3. QED BY <3>1, <3>2
  <2>2. <<>> \o t = t
    BY ConcatEmptySeq
  <2>3. QED BY <1>1, <1>3, <1>4, <1>5, <2>1, <2>2 DEF a
<1>6. CASE n # 0
  <2>1. PICK g : g[1] = ss[1] /\ (\A j \in 2..n : g[j] = g[j-1] \o ss[j]) /\ FlattenSeq(ss) = g[n]
    BY <1>2, <1>6, FlattenSteps
  <2> DEFINE T == {k \in 0..(n - 1) : f[k + 1] = g[k + 1]}
  <2>2. n - 1 \in Nat /\ 0 \in T
    <3>1. 1 \in 1..n /\ 0 + 1 = 1 /\ 0 \in 0..(n - 1)
      BY <1>2, <1>6
    <3>2. QED BY <1>2, <1>3, <1>4, <1>6, <2>1, <3>1
  <2>3. ASSUME NEW k \in 1..(n - 1), k - 1 \in T PROVE k \in T
    <3>1. k + 1 \in 2..n /\ k + 1 \in 1..n /\ k + 1 \in 2..(n + 1) /\ (k + 1) - 1 = k /\ (k - 1) + 1 = k
      BY <1>2
    <3>2. f[k] = g[k] /\ a[k + 1] = ss[k + 1]
      BY <1>3, <2>3, <3>1
    <3>3. f[k + 1] = f[k] \o a[k + 1] /\ g[k + 1] = g[k] \o ss[k + 1]
      BY <1>4, <2>1, <3>1
    <3>4. k \in 0..(n - 1)
      BY <1>2
    <3>5. QED BY <3>2, <3>3, <3>4
  <2> HIDE DEF T
  <2>4. \A k \in 0..(n - 1) : k \in T
    BY <2>2, <2>3, UpTo
  <2>5. n - 1 \in 0..(n - 1) /\ (n - 1) + 1 = n /\ n + 1 \in 2..(n + 1) /\ (n + 1) - 1 = n
    BY <1>2, <1>6
  <2>6. f[n] = g[n]
    BY <2>4, <2>5 DEF T
  <2>7. f[n + 1] = f[n] \o a[n + 1]
    BY <1>4, <2>5
  <2>8. QED BY <1>1, <1>3, <1>4, <2>1, <2>6, <2>7 DEF a
<1>7. QED BY <1>5, <1>6

\* What makes a part, without its header: it is below the size, or it holds one
\* resource; and the resource that a part is being filled with still has room.
Single(t) == \A j \in 2..Len(t) : t[j] \notin ResourceStarts
Small(t) == Len(t) < SliceSize \/ Single(t)
Begins(W, i) == i = 1 \/ W[i] \in ResourceStarts
Room(W, t, i) ==
  \E e \in Nat : /\ e <= Len(W) + 1 /\ \A j \in (i + 1)..(e - 1) : ~Begins(W, j)
                 /\ e = Len(W) + 1 \/ Begins(W, e)
                 /\ e > i /\ Len(t) + e - i - 1 < SliceSize
Filled(W, i, P, F, t) ==
  /\ P = Append(F, t) /\ FlattenSeq(F) \o t = SubSeq(W, 1, i)
  /\ \A k \in 1..Len(F) : Small(F[k])
  /\ Single(t) \/ Room(W, t, i)

\* The end of the resource that begins in a place.
EndOf(W, i) == Min({j \in (i + 1)..(Len(W) + 1) : j = Len(W) + 1 \/ Begins(W, j)})

\* packParts' loop: a part of its own, or a byte more in the last one.
Opening(W, i, P) == Begins(W, i) /\ Len(Last(P)) + (IF Len(P) = 1 THEN 1 ELSE 0) + EndOf(W, i) - i >= SliceSize
Packing(W, i, P) ==
  IF Opening(W, i, P) THEN Append(P, <<W[i]>>) ELSE [P EXCEPT ![Len(P)] = Append(@, W[i])]

\* The end is one.
LEMMA EndIs ==
  ASSUME NEW W \in Seq(Nat), NEW i \in 1..Len(W)
  PROVE  /\ EndOf(W, i) \in Nat /\ EndOf(W, i) > i /\ EndOf(W, i) <= Len(W) + 1
         /\ \A j \in (i + 1)..(EndOf(W, i) - 1) : ~Begins(W, j)
         /\ EndOf(W, i) = Len(W) + 1 \/ Begins(W, EndOf(W, i))
<1> DEFINE T == {j \in (i + 1)..(Len(W) + 1) : j = Len(W) + 1 \/ Begins(W, j)}
<1>1. Len(W) \in Nat
  BY LenProperties
<1>2. T \in SUBSET Nat /\ Len(W) + 1 \in T
  BY <1>1
<1>3. EndOf(W, i) \in T /\ \A j \in T : EndOf(W, i) <= j
  <2> HIDE DEF T
  <2>1. Min(T) \in T /\ \A j \in T : Min(T) <= j
    BY <1>2, MinIsIn
  <2>2. QED BY <2>1 DEF EndOf, T
<1> DEFINE e == EndOf(W, i)
<1> HIDE DEF e
<1>4. e \in (i + 1)..(Len(W) + 1) /\ (e = Len(W) + 1 \/ Begins(W, e))
  BY <1>3 DEF e
<1>5. ASSUME NEW j \in (i + 1)..(e - 1), Begins(W, j) PROVE FALSE
  <2>1. j \in (i + 1)..(Len(W) + 1)
    BY <1>1, <1>4
  <2>2. e <= j
    BY <1>3, <1>5, <2>1 DEF e
  <2>3. QED BY <1>1, <1>4, <2>2
<1>6. QED BY <1>1, <1>4, <1>5 DEF e

\* The beginning: one part, with nothing in it.
LEMMA PackingBegins ==
  ASSUME NEW W \in Seq(Nat)
  PROVE  Filled(W, 0, <<<<>>>>, <<>>, <<>>)
<1>1. <<<<>>>> = Append(<<>>, <<>>)
  OBVIOUS
<1>2. FlattenSeq(<<>>) = <<>>
  BY DEF FlattenSeq
<1>3. <<>> \o <<>> = <<>>
  OBVIOUS
<1>4. SubSeq(W, 1, 0) = <<>>
  <2>1. SubSeq(W, 1, 0) \in Seq(Nat) /\ Len(SubSeq(W, 1, 0)) = 0
    BY LenProperties
  <2>2. QED BY <2>1, EmptySeq
<1>5. Len(<<>>) = 0 /\ 1..0 = {} /\ 2..0 = {}
  OBVIOUS
<1>6. QED BY <1>1, <1>2, <1>3, <1>4, <1>5 DEF Filled, Single

\* One byte of them.
LEMMA OneOf ==
  ASSUME NEW W \in Seq(Nat), NEW i \in 1..Len(W)
  PROVE  SubSeq(W, i, i) = <<W[i]>>
<1> DEFINE a == SubSeq(W, i, i)
           b == <<W[i]>>
<1>1. a \in Seq(Nat) /\ Len(a) = 1 /\ a[1] = W[i]
  BY LenProperties
<1>2. W[i] \in Nat
  BY LenProperties, ElementOfSeq
<1>3. b \in Seq(Nat) /\ Len(b) = 1 /\ b[1] = W[i]
  BY <1>2
<1> HIDE DEF a, b
<1>4. \A k \in 1..1 : a[k] = b[k]
  BY <1>1, <1>3
<1>5. QED BY <1>1, <1>3, <1>4, SeqEqual DEF a, b

\* A part is closed and another begun ...
LEMMA PackingOpens ==
  ASSUME NEW W \in Seq(Nat), NEW i \in 1..Len(W), NEW F \in Seq(Seq(Nat)), NEW t \in Seq(Nat),
         NEW P, Filled(W, i - 1, P, F, t), Begins(W, i)
  PROVE  Filled(W, i, Append(P, <<W[i]>>), P, <<W[i]>>)
<1>1. Len(W) \in Nat /\ i - 1 \in Nat /\ (i - 1) + 1 = i /\ Len(t) \in Nat /\ Len(F) \in Nat /\ SliceSize \in Nat
  BY LenProperties, UsbAssumption
<1>2. W[i] \in Nat /\ i - 1 \in 0..Len(W) /\ i \in 0..Len(W)
  BY <1>1, ElementOfSeq
<1>3. P = Append(F, t) /\ FlattenSeq(F) \o t = SubSeq(W, 1, i - 1) /\ \A k \in 1..Len(F) : Small(F[k])
  BY DEF Filled
<1> DEFINE S == Seq(Nat)
<1>4. Len(P) = Len(F) + 1 /\ P[Len(F) + 1] = t /\ \A k \in 1..Len(F) : P[k] = F[k]
  <2> HIDE DEF S
  <2>1. F \in Seq(S) /\ t \in S
    BY DEF S
  <2>2. QED BY <1>3, <2>1, AppendProperties
<1>5. FlattenSeq(P) = SubSeq(W, 1, i - 1)
  BY <1>3, FlattenAppend
<1>6. SubSeq(W, 1, i - 1) \o <<W[i]>> = SubSeq(W, 1, i)
  <2>1. SubSeq(W, 1, i - 1) \o SubSeq(W, (i - 1) + 1, i) = SubSeq(W, 1, i)
    BY <1>1, <1>2, SlicesMeet
  <2>2. SubSeq(W, i, i) = <<W[i]>>
    BY <1>1, <1>2, OneOf
  <2>3. QED BY <1>1, <2>1, <2>2
<1>7. Small(t)
  <2>1. CASE Single(t)
    BY <2>1 DEF Small
  <2>2. CASE Room(W, t, i - 1)
    <3>1. PICK e \in Nat : /\ e <= Len(W) + 1 /\ \A j \in ((i - 1) + 1)..(e - 1) : ~Begins(W, j)
                           /\ e > i - 1 /\ Len(t) + e - (i - 1) - 1 < SliceSize
      BY <2>2 DEF Room
    <3>2. ~(i <= e - 1)
      BY <1>1, <3>1
    <3>3. e = i
      BY <1>1, <3>1, <3>2
    <3>4. Len(t) < SliceSize
      BY <1>1, <3>1, <3>3
    <3>5. QED BY <3>4 DEF Small
  <2>3. QED BY <2>1, <2>2 DEF Filled
<1>8. \A k \in 1..Len(P) : Small(P[k])
  <2> DEFINE n == Len(F)
  <2>1. \A k \in 1..Len(P) : k \in 1..Len(F) \/ k = Len(F) + 1
    <3>1. n \in Nat /\ Len(P) = n + 1
      BY <1>1, <1>4
    <3> HIDE DEF n
    <3>2. \A k \in 1..(n + 1) : k \in 1..n \/ k = n + 1
      BY <3>1
    <3>3. QED BY <3>1, <3>2 DEF n
  <2>2. QED BY <1>3, <1>4, <1>7, <2>1
<1>9. Single(<<W[i]>>)
  <2>1. Len(<<W[i]>>) = 1 /\ 2..1 = {}
    OBVIOUS
  <2>2. QED BY <2>1 DEF Single
<1>10. QED BY <1>5, <1>6, <1>8, <1>9 DEF Filled

\* Three sequences joined in two ways.
LEMMA Regrouped ==
  ASSUME NEW a \in Seq(Nat), NEW b \in Seq(Nat), NEW c \in Seq(Nat)
  PROVE  a \o (b \o c) = (a \o b) \o c
BY ConcatAssociative, SMTT(20)

\* ... or the last one grows: with the first byte of a resource for which there
\* is room, or with one of the resource it is being filled with.
LEMMA PackingGrows ==
  ASSUME NEW W \in Seq(Nat), NEW i \in 1..Len(W), NEW F \in Seq(Seq(Nat)), NEW t \in Seq(Nat),
         NEW P, Filled(W, i - 1, P, F, t), ~Opening(W, i, P)
  PROVE  Filled(W, i, Append(F, Append(t, W[i])), F, Append(t, W[i]))
<1>1. Len(W) \in Nat /\ i - 1 \in Nat /\ (i - 1) + 1 = i /\ Len(t) \in Nat /\ Len(F) \in Nat /\ SliceSize \in Nat
  BY LenProperties, UsbAssumption
<1>2. W[i] \in Nat /\ i - 1 \in 0..Len(W) /\ i \in 0..Len(W)
  BY <1>1, ElementOfSeq
<1>3. P = Append(F, t) /\ FlattenSeq(F) \o t = SubSeq(W, 1, i - 1) /\ \A k \in 1..Len(F) : Small(F[k])
  BY DEF Filled
<1> DEFINE S == Seq(Nat)
           u == Append(t, W[i])
<1>4. Len(P) = Len(F) + 1 /\ P[Len(F) + 1] = t
  <2> HIDE DEF S
  <2>1. F \in Seq(S) /\ t \in S
    BY DEF S
  <2>2. QED BY <1>3, <2>1, AppendProperties
<1>5. u \in Seq(Nat) /\ Len(u) = Len(t) + 1 /\ u[Len(t) + 1] = W[i] /\ \A k \in 1..Len(t) : u[k] = t[k]
  BY <1>2, AppendProperties
<1>6. FlattenSeq(F) \o u = SubSeq(W, 1, i)
  <2> DEFINE f == FlattenSeq(F)
             one == <<W[i]>>
  <2>1. f \in Seq(Nat) /\ one \in Seq(Nat)
    BY <1>2, FlattenAppend
  <2>2. u = t \o one
    BY <1>2, AppendIsConcat
  <2>3. f \o (t \o one) = (f \o t) \o one
    <3> HIDE DEF f, one
    <3>1. QED BY <2>1, Regrouped
  <2>4. SubSeq(W, 1, i - 1) \o SubSeq(W, (i - 1) + 1, i) = SubSeq(W, 1, i)
    BY <1>1, <1>2, SlicesMeet
  <2>5. SubSeq(W, i, i) = one
    BY <1>1, <1>2, OneOf
  <2> HIDE DEF f, one, u
  <2>6. f \o u = SubSeq(W, 1, i - 1) \o one
    BY <1>3, <2>2, <2>3 DEF f
  <2>7. SubSeq(W, 1, i - 1) \o one = SubSeq(W, 1, i)
    BY <1>1, <2>4, <2>5
  <2>8. QED BY <2>6, <2>7 DEF f
<1> HIDE DEF u
<1>7. Single(u) \/ Room(W, u, i)
  <2>1. CASE Begins(W, i)
    <3> DEFINE e == EndOf(W, i)
    <3>1. e \in Nat /\ e > i /\ e <= Len(W) + 1 /\ (\A j \in (i + 1)..(e - 1) : ~Begins(W, j)) /\ (e = Len(W) + 1 \/ Begins(W, e))
      BY EndIs
    <3>2. Last(P) = t
      BY <1>4 DEF Last
    <3>3. ~(Len(t) + (IF Len(P) = 1 THEN 1 ELSE 0) + e - i >= SliceSize)
      BY <2>1, <3>2 DEF Opening
    <3> HIDE DEF e
    <3>4. Len(u) + e - i - 1 < SliceSize
      BY <1>1, <1>5, <3>1, <3>3
    <3>5. QED BY <3>1, <3>4 DEF Room
  <2>2. CASE ~Begins(W, i)
    <3>1. i # 1 /\ W[i] \notin ResourceStarts
      BY <2>2 DEF Begins
    <3>2. ASSUME Single(t) PROVE Single(u)
      <4>1. \A j \in 2..Len(u) : j = Len(t) + 1 \/ (j \in 2..Len(t) /\ j \in 1..Len(t))
        BY <1>1, <1>5
      <4>2. QED BY <1>5, <3>1, <3>2, <4>1 DEF Single
    <3>3. ASSUME Room(W, t, i - 1) PROVE Room(W, u, i)
      <4>1. PICK e \in Nat : /\ e <= Len(W) + 1 /\ \A j \in ((i - 1) + 1)..(e - 1) : ~Begins(W, j)
                             /\ e = Len(W) + 1 \/ Begins(W, e)
                             /\ e > i - 1 /\ Len(t) + e - (i - 1) - 1 < SliceSize
        BY <3>3 DEF Room
      <4>2. e # i
        BY <1>1, <2>2, <4>1
      <4>3. e > i /\ Len(u) + e - i - 1 < SliceSize
        BY <1>1, <1>5, <4>1, <4>2
      <4>4. \A j \in (i + 1)..(e - 1) : ~Begins(W, j)
        <5>1. \A j \in (i + 1)..(e - 1) : j \in ((i - 1) + 1)..(e - 1)
          BY <1>1
        <5>2. QED BY <4>1, <5>1
      <4>5. QED BY <4>1, <4>3, <4>4 DEF Room
    <3>4. QED BY <3>2, <3>3 DEF Filled
  <2>3. QED BY <2>1, <2>2
<1>8. QED BY <1>3, <1>6, <1>7 DEF Filled, u

\* So one step keeps the parts filled.
LEMMA PackingFills ==
  ASSUME NEW W \in Seq(Nat), NEW i \in 1..Len(W), NEW F \in Seq(Seq(Nat)), NEW t \in Seq(Nat),
         NEW P, Filled(W, i - 1, P, F, t)
  PROVE  \E G \in Seq(Seq(Nat)), u \in Seq(Nat) : Filled(W, i, Packing(W, i, P), G, u)
<1> DEFINE S == Seq(Nat)
           x == W[i]
           n == Len(F)
<1>1. x \in Nat /\ P = Append(F, t) /\ n \in Nat /\ <<x>> \in Seq(Nat) /\ Append(t, x) \in Seq(Nat)
  <2>1. x \in Nat
    BY LenProperties, ElementOfSeq
  <2>2. QED BY <2>1, LenProperties, AppendProperties DEF Filled
<1>2. P \in Seq(Seq(Nat)) /\ Len(P) = n + 1 /\ P[n + 1] = t /\ \A k \in 1..n : P[k] = F[k]
  <2> HIDE DEF S
  <2>1. F \in Seq(S) /\ t \in S
    BY DEF S
  <2>2. P \in Seq(S) /\ Len(P) = n + 1 /\ P[n + 1] = t /\ \A k \in 1..n : P[k] = F[k]
    BY <1>1, <2>1, AppendProperties
  <2>3. QED BY <2>2 DEF S
<1>3. CASE Opening(W, i, P)
  <2>1. Filled(W, i, Append(P, <<x>>), P, <<x>>)
    BY <1>3, PackingOpens DEF Opening
  <2>2. Packing(W, i, P) = Append(P, <<x>>)
    BY <1>3 DEF Packing
  <2> HIDE DEF x
  <2>3. QED BY <1>1, <1>2, <2>1, <2>2
<1>4. CASE ~Opening(W, i, P)
  <2> DEFINE u == Append(t, x)
  <2>1. Filled(W, i, Append(F, u), F, u)
    BY <1>4, PackingGrows
  <2>2. Packing(W, i, P) = [P EXCEPT ![n + 1] = u]
    BY <1>2, <1>4 DEF Packing
  <2>3. u \in Seq(Nat)
    BY <1>1
  <2> HIDE DEF u
  <2>4. [P EXCEPT ![n + 1] = u] = Append(F, u)
    <3> DEFINE a == [P EXCEPT ![n + 1] = u]
               b == Append(F, u)
    <3> HIDE DEF S
    <3>1. P \in Seq(S) /\ F \in Seq(S) /\ u \in S
      BY <1>2, <2>3 DEF S
    <3>2. n + 1 \in 1..(n + 1) /\ DOMAIN P = 1..(n + 1)
      BY <1>1, <1>2, <3>1, LenProperties
    <3>3. a \in Seq(S) /\ Len(a) = n + 1 /\ a[n + 1] = u /\ \A k \in 1..n : a[k] = P[k]
      <4> DEFINE m == n + 1
      <4>1. m \in 1..Len(P)
        BY <1>2, <3>2
      <4> HIDE DEF m
      <4>2. /\ [P EXCEPT ![m] = u] \in Seq(S) /\ Len([P EXCEPT ![m] = u]) = Len(P)
            /\ \A k \in 1..Len(P) : [P EXCEPT ![m] = u][k] = IF k = m THEN u ELSE P[k]
        BY <3>1, <4>1, ExceptSeq
      <4>3. \A k \in 1..n : k \in 1..(n + 1) /\ k # n + 1
        BY <1>1
      <4>4. QED BY <1>2, <3>2, <4>1, <4>2, <4>3 DEF m
    <3>4. b \in Seq(S) /\ Len(b) = n + 1 /\ b[n + 1] = u /\ \A k \in 1..n : b[k] = F[k]
      BY <3>1, AppendProperties
    <3> HIDE DEF a, b
    <3>5. \A k \in 1..(n + 1) : a[k] = b[k]
      <4>1. \A k \in 1..(n + 1) : k = n + 1 \/ k \in 1..n
        BY <1>1
      <4>2. QED BY <1>2, <3>3, <3>4, <4>1
    <3>6. QED BY <3>3, <3>4, <3>5, SeqEqual DEF a, b
  <2>5. QED BY <2>1, <2>2, <2>3, <2>4
<1>5. QED BY <1>3, <1>4

\* Parts, and the parts after a step.
PartLists == Seq(Seq(Nat)) \ {<<>>}
LEMMA PackingIn ==
  ASSUME NEW W \in Seq(Nat), NEW i \in 1..Len(W), NEW P \in PartLists
  PROVE  Packing(W, i, P) \in PartLists
<1> DEFINE S == Seq(Nat)
           x == W[i]
           n == Len(P)
<1>1. x \in Nat
  BY LenProperties, ElementOfSeq
<1>2. <<x>> \in S
  BY <1>1
<1>3. P \in Seq(S) /\ P # <<>>
  BY DEF PartLists
<1> HIDE DEF S, x
<1>4. n \in Nat \ {0} /\ n \in 1..n /\ P[n] \in S
  BY <1>3, LenProperties, EmptySeq, ElementOfSeq
<1>5. Append(P[n], x) \in S
  BY <1>1, <1>4, AppendProperties DEF S
<1>6. Append(P, <<x>>) \in Seq(S) \ {<<>>}
  BY <1>2, <1>3, AppendProperties
<1>7. [P EXCEPT ![n] = Append(@, x)] \in Seq(S) \ {<<>>}
  <2> DEFINE e == Append(P[n], x)
             Q == [P EXCEPT ![n] = e]
  <2>1. e \in S
    BY <1>5
  <2> HIDE DEF e
  <2>2. Q \in Seq(S) /\ Len(Q) = n
    BY <1>3, <1>4, <2>1, ExceptSeq
  <2> HIDE DEF Q
  <2>3. Q # <<>>
    BY <1>4, <2>2
  <2>4. QED BY <2>2, <2>3 DEF Q, e
<1>8. QED BY <1>6, <1>7 DEF Packing, PartLists, S, x

\* packParts: every part is below the size or holds one resource, and together
\* they hold what they were made of.
LEMMA PackedIs ==
  ASSUME NEW W \in Seq(Nat)
  PROVE  \E F \in Seq(Seq(Nat)), t \in Seq(Nat) : Filled(W, Len(W), PackParts(W), F, t)
<1> DEFINE n == Len(W)
           step == [x \in Nat \X PartLists |-> IF x[1] \in 1..n THEN Packing(W, x[1], x[2]) ELSE x[2]]
           base == <<<<>>>>
           Is(g) == g = [i \in 0..n |-> IF i = 0 THEN <<<<>>>> ELSE Packing(W, i, g[i - 1])]
           packed == CHOOSE g : Is(g)
<1>1. n \in Nat
  BY LenProperties
<1>2. PackParts(W) = packed[n]
  BY DEF PackParts, Packing, Opening, EndOf, Begins
<1>3. base \in PartLists
  BY DEF PartLists
<1>4. step \in [Nat \X PartLists -> PartLists] /\ \A i \in 1..n, P \in PartLists : step[<<i, P>>] = Packing(W, i, P)
  <2>1. \A x \in Nat \X PartLists : x[2] \in PartLists
    OBVIOUS
  <2>2. \A i \in 1..n : i \in Nat
    OBVIOUS
  <2> HIDE DEF n
  <2>3. \A x \in Nat \X PartLists : x[1] \in 1..n => Packing(W, x[1], x[2]) \in PartLists
    BY <2>1, PackingIn DEF n
  <2>4. QED BY <2>1, <2>2, <2>3
<1> HIDE DEF step, base
<1>5. PICK g \in [0..n -> PartLists] : IsIterate(g, base, step, n)
  BY <1>1, <1>3, <1>4, Iterates
<1>6. \A i \in 0..n : g[i] = IF i = 0 THEN base ELSE step[<<i, g[i-1]>>]
  <2>1. g = [i \in 0..n |-> IF i = 0 THEN base ELSE step[<<i, g[i-1]>>]]
    BY <1>5 DEF IsIterate
  <2>2. QED BY <2>1
<1>7. \A i \in 0..n : i = 0 \/ (i \in 1..n /\ g[i - 1] \in PartLists)
  BY <1>1, <1>5
<1>8. Is(g)
  <2>1. \A i \in 0..n : g[i] = IF i = 0 THEN <<<<>>>> ELSE Packing(W, i, g[i - 1])
    BY <1>4, <1>6, <1>7 DEF base
  <2>2. g = [i \in 0..n |-> g[i]]
    BY <1>5
  <2> HIDE DEF n
  <2>3. [i \in 0..n |-> g[i]] = [i \in 0..n |-> IF i = 0 THEN <<<<>>>> ELSE Packing(W, i, g[i - 1])]
    BY <2>1
  <2>4. QED BY <2>2, <2>3
<1>9. Is(packed)
  <2> HIDE DEF Is
  <2>1. QED BY <1>8, ZenonT(30)
<1>10. packed[0] = <<<<>>>> /\ \A i \in 1..n : packed[i] = Packing(W, i, packed[i - 1])
  <2> HIDE DEF packed
  <2>1. packed = [i \in 0..n |-> IF i = 0 THEN <<<<>>>> ELSE Packing(W, i, packed[i - 1])]
    BY <1>9
  <2>2. 0 \in 0..n /\ \A i \in 1..n : i \in 0..n /\ i # 0
    BY <1>1
  <2> HIDE DEF Is, n
  <2>3. QED BY <2>1, <2>2
<1> DEFINE Good(i) == \E F \in Seq(Seq(Nat)), t \in Seq(Nat) : Filled(W, i, packed[i], F, t)
           T == {i \in 0..n : Good(i)}
<1>11. 0 \in T
  <2>1. <<>> \in Seq(Seq(Nat)) /\ <<>> \in Seq(Nat)
    OBVIOUS
  <2>2. Filled(W, 0, packed[0], <<>>, <<>>)
    BY <1>10, PackingBegins
  <2> HIDE DEF packed
  <2>3. Good(0)
    BY <2>1, <2>2
  <2>4. QED BY <1>1, <2>3
<1>12. ASSUME NEW i \in 1..n, i - 1 \in T PROVE i \in T
  <2>1. PICK F \in Seq(Seq(Nat)), t \in Seq(Nat) : Filled(W, i - 1, packed[i - 1], F, t)
    BY <1>12
  <2> HIDE DEF packed
  <2>2. \E G \in Seq(Seq(Nat)), u \in Seq(Nat) : Filled(W, i, Packing(W, i, packed[i - 1]), G, u)
    BY <2>1, PackingFills
  <2>3. Good(i)
    BY <1>10, <2>2
  <2>4. i \in 0..n
    BY <1>1
  <2>5. QED BY <2>3, <2>4
<1> HIDE DEF packed, n
<1>13. \A i \in 0..n : i \in T
  <2> HIDE DEF T
  <2>1. QED BY <1>1, <1>11, <1>12, UpTo
<1>14. n \in 0..n
  BY <1>1
<1>15. QED BY <1>2, <1>13, <1>14 DEF n

\* install.wim split: each part is a header and what is below the size or one
\* resource, and together they are what follows the header of the whole.
LEMMA SplitIs ==
  ASSUME NEW data \in Seq(Nat), data # <<>>
  PROVE  \E n \in Nat \ {0} :
           /\ DOMAIN Split(data) = 1..n
           /\ \A k \in 1..n : /\ Split(data)[k] \in Seq(Nat)
                              /\ Len(Split(data)[k]) <= SliceSize \/ SingleResource(Split(data)[k])
           /\ FlattenSeq([k \in 1..n |-> Tail(Split(data)[k])]) = Tail(data)
<1> DEFINE W == Tail(data)
           P == PackParts(W)
           x == data[1]
           S == Seq(Nat)
<1>1. Len(data) \in Nat \ {0} /\ x \in Nat /\ W \in Seq(Nat) /\ Len(W) = Len(data) - 1 /\ SliceSize \in Nat
  <2>1. Len(data) \in Nat \ {0}
    BY LenProperties, EmptySeq
  <2>2. QED BY <2>1, ElementOfSeq, UsbAssumption
<1>2. Split(data) = [k \in DOMAIN P |-> <<x>> \o P[k]]
  BY DEF Split
<1> HIDE DEF W, P, x, S
<1>3. PICK F \in Seq(Seq(Nat)), t \in Seq(Nat) : Filled(W, Len(W), P, F, t)
  BY <1>1, PackedIs DEF P
<1> DEFINE n == Len(F) + 1
<1>4. n \in Nat \ {0} /\ P \in Seq(S) /\ Len(P) = n /\ P[n] = t /\ \A k \in 1..Len(F) : P[k] = F[k]
  <2>1. F \in Seq(S) /\ t \in S /\ P = Append(F, t)
    BY <1>3 DEF Filled, S
  <2>2. Len(F) \in Nat
    BY <2>1, LenProperties
  <2>3. QED BY <2>1, <2>2, AppendProperties
<1>5. DOMAIN P = 1..n /\ n \in 1..n /\ \A k \in 1..n : k \in 1..Len(F) \/ k = n
  <2>1. Len(F) \in Nat
    BY <1>3, LenProperties
  <2>2. DOMAIN P = 1..Len(P)
    BY <1>4, LenProperties
  <2>3. QED BY <1>4, <2>1, <2>2
<1>6. FlattenSeq(P) = W
  <2>1. FlattenSeq(P) = SubSeq(W, 1, Len(W))
    BY <1>3, FlattenAppend DEF Filled
  <2>2. QED BY <1>1, <2>1, SubSeqFull
<1>7. Small(t)
  <2>1. CASE Single(t)
    BY <2>1 DEF Small
  <2>2. CASE Room(W, t, Len(W))
    <3>1. PICK e \in Nat : e <= Len(W) + 1 /\ e > Len(W) /\ Len(t) + e - Len(W) - 1 < SliceSize
      BY <2>2 DEF Room
    <3>2. Len(t) \in Nat /\ Len(W) \in Nat
      BY <1>1, LenProperties
    <3>3. Len(t) < SliceSize
      BY <1>1, <3>1, <3>2
    <3>4. QED BY <3>3 DEF Small
  <2>3. QED BY <1>3, <2>1, <2>2 DEF Filled
<1>8. \A k \in 1..n : P[k] \in Seq(Nat) /\ Small(P[k])
  <2>1. \A k \in 1..n : Small(P[k])
    BY <1>3, <1>4, <1>5, <1>7 DEF Filled
  <2>2. \A k \in 1..n : P[k] \in S
    BY <1>4, ElementOfSeq
  <2>3. QED BY <2>1, <2>2 DEF S
<1> HIDE DEF n
<1>9. ASSUME NEW k \in 1..n
      PROVE  /\ Split(data)[k] \in Seq(Nat) /\ Tail(Split(data)[k]) = P[k]
             /\ Len(Split(data)[k]) <= SliceSize \/ SingleResource(Split(data)[k])
  <2> DEFINE q == P[k]
             s == <<x>> \o q
  <2>1. q \in Seq(Nat) /\ Small(q) /\ Split(data)[k] = s
    BY <1>2, <1>5, <1>8
  <2> HIDE DEF q
  <2>2. s \in Seq(Nat) /\ Len(s) = 1 + Len(q) /\ Tail(s) = q
    BY <1>1, <2>1, TailOfPart
  <2> HIDE DEF s
  <2>3. Len(q) \in Nat
    BY <2>1, LenProperties
  <2>4. Len(q) < SliceSize => Len(s) <= SliceSize
    BY <1>1, <2>2, <2>3
  <2>5. Single(q) => SingleResource(s)
    <3>1. SUFFICES ASSUME Single(q), NEW j \in 3..Len(s) PROVE s[j] \notin ResourceStarts
      BY DEF SingleResource
    <3>2. j - 1 \in 2..Len(q) /\ j - 1 \in 1..Len(q) /\ (j - 1) + 1 = j
      BY <2>2, <2>3
    <3>3. s # <<>>
      BY <2>2, <2>3
    <3>4. Tail(s)[j - 1] = s[(j - 1) + 1]
      BY <2>2, <2>3, <3>2, <3>3
    <3>5. QED BY <2>2, <3>1, <3>2, <3>4 DEF Single
  <2>6. QED BY <2>1, <2>2, <2>4, <2>5 DEF Small, q
<1>10. [k \in 1..n |-> Tail(Split(data)[k])] = P
  <2>1. P = [k \in 1..n |-> P[k]]
    BY <1>4, <1>5, LenProperties
  <2>2. QED BY <1>9, <2>1
<1>11. DOMAIN Split(data) = 1..n
  BY <1>2, <1>5
<1>12. QED BY <1>4, <1>6, <1>9, <1>10, <1>11 DEF W

\* The parts go onto the disk next to the files that were copied.
LEMMA SplitInstallStep ==
  ASSUME PlanInv, CopyInv, StageInv, TreeOK(media), SplitInstall
  PROVE  CopyInv' /\ StageInv'
<1> DEFINE data == media[plan.split].data
           swm == Split(data)
           names == {Parts[k] : k \in DOMAIN swm}
           written == [p \in names |-> swm[CHOOSE k \in DOMAIN swm : Parts[k] = p]]
<1>1. /\ usb = "copying" /\ usb' = "split" /\ pending = {} /\ pending' = {} /\ plan.split # <<>>
      /\ UNCHANGED <<plan, planned, touched>>
      /\ plan.split \in DOMAIN media /\ data # <<>>
      /\ DOMAIN swm \subseteq DOMAIN Parts /\ medium' = Overlay(written, medium)
  BY DEF SplitInstall, Opens
<1>2. data \in Seq(Nat)
  <2>1. <<>> \in Seq(Nat) /\ media[plan.split] \in Node
    BY <1>1 DEF TreeOK
  <2>2. \A x \in Node : x.data \in Seq(Nat)
    <3>1. Dir.data \in Seq(Nat)
      BY <2>1 DEF Dir
    <3>2. \A x \in [dir : {FALSE}, data : Seq(Nat)] : x.data \in Seq(Nat)
      OBVIOUS
    <3>3. QED BY <3>1, <3>2 DEF Node
  <2>3. QED BY <2>1, <2>2
<1> HIDE DEF data
<1>3. PICK n \in Nat \ {0} :
        /\ DOMAIN swm = 1..n
        /\ \A k \in 1..n : swm[k] \in Seq(Nat) /\ (Len(swm[k]) <= SliceSize \/ SingleResource(swm[k]))
        /\ FlattenSeq([k \in 1..n |-> Tail(swm[k])]) = Tail(data)
  BY <1>1, <1>2, SplitIs
<1> HIDE DEF swm
<1>4. \A k \in 1..n : k \in DOMAIN Parts
  BY <1>1, <1>3
<1>5. \A j, k \in DOMAIN Parts : Parts[j] = Parts[k] => j = k
  BY UsbAssumption
<1>6. /\ DOMAIN written = {Parts[k] : k \in 1..n}
      /\ \A k \in 1..n : Parts[k] \in DOMAIN written /\ written[Parts[k]] = swm[k]
      /\ \A p \in DOMAIN written : \E k \in 1..n : p = Parts[k]
  BY <1>3, <1>4, <1>5
<1> HIDE DEF names, written
<1>7. /\ DOMAIN medium' = DOMAIN written \cup DOMAIN medium
      /\ \A p \in DOMAIN written : medium'[p] = written[p]
      /\ \A p \in DOMAIN medium \ DOMAIN written : medium'[p] = medium[p]
  BY <1>1 DEF Overlay
<1>8. \A k \in 1..n : Parts[k] \in DOMAIN medium' /\ medium'[Parts[k]] = swm[k]
  BY <1>6, <1>7
<1>9. CopyInv'
  <2>1. pending' \subseteq FilesOf(planned') \ {plan'.split}
    BY <1>1
  <2>2. ASSUME NEW q \in FilesOf(planned) \ {plan.split}
        PROVE  q \in DOMAIN medium' /\ (q \notin touched => medium'[q] = planned[q].data)
    <3>1. q \notin DOMAIN written
      BY <1>4, <1>6, PartsApart
    <3>2. q \in DOMAIN medium /\ (q \notin touched => medium[q] = planned[q].data)
      BY <1>1 DEF CopyInv
    <3>3. QED BY <1>7, <3>1, <3>2
  <2>3. Fits'
    <3>1. SUFFICES ASSUME NEW q \in DOMAIN medium', Over(plan.fs, Len(medium'[q]))
                   PROVE  q \in touched \/ (PartOf(q) /\ SingleResource(medium'[q]))
      BY <1>1 DEF Fits
    <3>2. CASE q \in DOMAIN written
      <4>1. PICK k \in 1..n : q = Parts[k]
        BY <1>6, <3>2
      <4>2. medium'[q] = swm[k] /\ PartOf(q)
        BY <1>4, <1>8, <4>1 DEF PartOf
      <4>3. Len(swm[k]) \in Nat /\ (Len(swm[k]) <= SliceSize \/ SingleResource(swm[k]))
        BY <1>3, LenProperties
      <4>4. Len(swm[k]) > FatLimit
        BY <3>1, <4>2 DEF Over
      <4>5. ~(Len(swm[k]) <= SliceSize)
        BY <4>3, <4>4, UsbAssumption
      <4>6. QED BY <4>2, <4>3, <4>5
    <3>3. CASE q \notin DOMAIN written
      <4>1. q \in DOMAIN medium /\ medium'[q] = medium[q]
        BY <1>7, <3>3
      <4>2. QED BY <3>1, <4>1 DEF CopyInv, Fits
    <3>4. QED BY <3>2, <3>3
  <2>4. QED BY <1>1, <2>1, <2>2, <2>3 DEF CopyInv
<1>10. plan.split \notin touched => PartsOn'
  <2>1. SUFFICES ASSUME plan.split \notin touched
                 PROVE  PartsOn'
    OBVIOUS
  <2>2. plan.split \in FilesOf(planned)
    BY <1>1 DEF PlanInv
  <2>3. data = planned[plan.split].data
    BY <2>1, <2>2 DEF PlanInv, FilesOf, data
  <2>5. n \in 1..n
    OBVIOUS
  <2>6. n \in DOMAIN Parts
    BY <1>4, <2>5
  <2>7. {k \in DOMAIN Parts : Parts[k] \in DOMAIN medium'} = 1..n
    <3>1. \A k \in DOMAIN Parts : Parts[k] \notin DOMAIN medium
      BY <1>1 DEF StageInv
    <3>2. \A k \in DOMAIN Parts : Parts[k] \in DOMAIN written => k \in 1..n
      BY <1>4, <1>5, <1>6
    <3>3. QED BY <1>4, <1>7, <1>8, <3>1, <3>2
  <2>8. [k \in 1..n |-> Tail(medium'[Parts[k]])] = [k \in 1..n |-> Tail(swm[k])]
    BY <1>8
  <2>9. FlattenSeq([k \in 1..n |-> Tail(medium'[Parts[k]])]) = Tail(planned'[plan'.split].data)
    BY <1>1, <1>3, <2>3, <2>8
  <2>10. QED BY <2>6, <2>7, <2>9 DEF PartsOn
<1>11. StageInv'
  BY <1>1, <1>10 DEF StageInv
<1>12. QED BY <1>9, <1>11

\* The loader, under a name no planned file has when the tree has no loader.
LEMMA WriteFallbackStep ==
  ASSUME PlanInv, CopyInv, StageInv, opts \in BuildOptions, opts' = opts, WriteFallback
  PROVE  CopyInv' /\ StageInv'
<1> DEFINE l == Fallback[opts.arch]
<1>1. /\ usb = "split" \/ (usb = "copying" /\ plan.split = <<>>)
      /\ pending = {} /\ pending' = {} /\ usb' = "done" /\ plan.fallback
      /\ UNCHANGED <<plan, planned, touched>>
      /\ medium' = Overlay(Only(l, LoaderData), medium)
  BY DEF WriteFallback, Written, OnDisk, StageInv
<1>2. /\ DOMAIN medium' = {l} \cup DOMAIN medium /\ medium'[l] = LoaderData
      /\ \A q \in DOMAIN medium \ {l} : medium'[q] = medium[q]
  BY <1>1 DEF Overlay, Only
<1>3. opts.arch \in DOMAIN Fallback /\ (LowerPath(l) \in Loaders \/ l \notin Places)
  BY UsbAssumption
<1>4. \A k \in DOMAIN Parts : Parts[k] # l
  BY <1>3, UsbAssumption
<1>9. l' = l
  OBVIOUS
<1> HIDE DEF l
<1>5. l \notin FilesOf(planned)
  BY <1>1, <1>3 DEF PlanInv, TreeOK
<1>6. CopyInv'
  <2>1. pending' \subseteq FilesOf(planned') \ {plan'.split}
    BY <1>1
  <2>2. ASSUME NEW q \in FilesOf(planned) \ {plan.split}
        PROVE  q \in DOMAIN medium' /\ (q \notin touched => medium'[q] = planned[q].data)
    <3>1. q \in DOMAIN medium /\ (q \notin touched => medium[q] = planned[q].data)
      BY <1>1 DEF CopyInv
    <3>2. QED BY <1>2, <1>5, <3>1
  <2>3. Fits'
    <3>1. LoaderData \in Seq(Nat) /\ Len(LoaderData) <= FatLimit /\ FatLimit \in Nat
      BY UsbAssumption
    <3>2. ~Over(plan.fs, Len(medium'[l]))
      <4>1. Len(LoaderData) \in Nat
        BY <3>1, LenProperties
      <4>2. QED BY <1>2, <3>1, <4>1 DEF Over
    <3>3. \A q \in DOMAIN medium \ {l} :
            Over(plan.fs, Len(medium'[q])) => q \in touched \/ (PartOf(q) /\ SingleResource(medium'[q]))
      BY <1>2 DEF CopyInv, Fits
    <3>4. QED BY <1>1, <1>2, <3>2, <3>3 DEF Fits
  <2>4. QED BY <1>1, <2>1, <2>2, <2>3 DEF CopyInv
<1>7. plan.split \notin touched \cup {<<>>} => PartsOn'
  <2>1. SUFFICES ASSUME plan.split \notin touched \cup {<<>>}
                 PROVE  PartsOn'
    OBVIOUS
  <2>2. PartsOn
    BY <1>1, <2>1 DEF StageInv
  <2>3. \A k \in DOMAIN Parts : /\ Parts[k] \in DOMAIN medium' <=> Parts[k] \in DOMAIN medium
                                /\ Parts[k] \in DOMAIN medium => medium'[Parts[k]] = medium[Parts[k]]
    BY <1>2, <1>4
  <2>4. PICK n \in DOMAIN Parts :
          /\ {k \in DOMAIN Parts : Parts[k] \in DOMAIN medium} = 1..n
          /\ FlattenSeq([k \in 1..n |-> Tail(medium[Parts[k]])]) = Tail(planned[plan.split].data)
    BY <2>2 DEF PartsOn
  <2>5. {k \in DOMAIN Parts : Parts[k] \in DOMAIN medium'} = 1..n
    BY <2>3, <2>4
  <2>6. [k \in 1..n |-> Tail(medium'[Parts[k]])] = [k \in 1..n |-> Tail(medium[Parts[k]])]
    <3>1. \A k \in 1..n : medium'[Parts[k]] = medium[Parts[k]]
      BY <2>3, <2>4
    <3>2. QED BY <3>1
  <2>7. FlattenSeq([k \in 1..n |-> Tail(medium'[Parts[k]])]) = Tail(planned'[plan'.split].data)
    BY <1>1, <2>4, <2>6
  <2>8. QED BY <2>5, <2>7 DEF PartsOn
<1>8. HasLoader'
  <2>1. l' \in DOMAIN medium'
    BY <1>2, <1>9
  <2>2. QED BY <1>1, <2>1 DEF HasLoader, l
<1>10. StageInv'
  BY <1>1, <1>7, <1>8 DEF StageInv
<1>11. QED BY <1>6, <1>10

\* A loader was in the tree, so it is on the disk.
LEMMA EndWriteStep ==
  ASSUME PlanInv, CopyInv, StageInv, EndWrite
  PROVE  CopyInv' /\ StageInv'
<1>1. /\ usb = "split" \/ (usb = "copying" /\ plan.split = <<>>)
      /\ pending = {} /\ pending' = {} /\ usb' = "done" /\ ~plan.fallback
      /\ UNCHANGED <<plan, planned, touched, medium>>
  BY DEF EndWrite, Written, StageInv
<1>2. PICK p \in FilesOf(planned) : LowerPath(p) \in Loaders
  BY <1>1 DEF PlanInv
<1>3. p # plan.split
  <2>1. LowerPath(<<>>) = <<>>
    BY DEF LowerPath
  <2>2. QED BY <1>2, <2>1, UsbAssumption DEF PlanInv
<1>4. p \in DOMAIN medium
  BY <1>1, <1>3 DEF CopyInv
<1>5. HasLoader'
  BY <1>1, <1>2, <1>4 DEF HasLoader
<1>6. CopyInv'
  BY <1>1 DEF CopyInv, Fits
<1>7. PartsOn => PartsOn'
  BY <1>1 DEF PartsOn
<1>8. StageInv'
  BY <1>1, <1>5, <1>7 DEF StageInv
<1>9. QED BY <1>6, <1>8

\* Every step of writing a disk keeps what it relies on.
LEMMA UsbStep ==
  ASSUME DiscInv, UsbNext, UNCHANGED <<media, builderVars>>
  PROVE  DiscInv'
<1>1. BuildInv' /\ opts' = opts /\ pc' = pc
  BY TreeKept DEF DiscInv, builderVars
<1>2. usb \in {"copying", "split"}
  <2>1. \A p \in pending : CopyFile(p) => usb = "copying"
    BY DEF CopyFile
  <2>2. SplitInstall => usb = "copying"
    BY DEF SplitInstall
  <2>3. WriteFallback \/ EndWrite => usb \in {"copying", "split"}
    BY DEF WriteFallback, EndWrite, Written
  <2>4. FailWrite => usb \in {"copying", "split"}
    BY DEF FailWrite
  <2>5. QED BY <2>1, <2>2, <2>3, <2>4 DEF UsbNext
<1>3. /\ PlanInv /\ CopyInv /\ StageInv /\ pc = "idle" /\ opts \in BuildOptions /\ TreeOK(media)
  BY <1>2 DEF DiscInv, BuildInv, UsbInv
<1>4. ASSUME usb' \in {"copying", "split", "done"}, UNCHANGED <<plan, planned, touched>>, CopyInv', StageInv'
      PROVE  DiscInv'
  <2>1. PlanInv'
    BY <1>3, <1>4, PlanKept
  <2>2. QED BY <1>1, <1>3, <1>4, <2>1 DEF DiscInv, UsbInv
<1>5. ASSUME NEW p \in pending, CopyFile(p)
      PROVE  DiscInv'
  <2>1. usb' = "copying" /\ UNCHANGED <<plan, planned, touched>>
    BY <1>5 DEF CopyFile
  <2>2. CopyInv' /\ StageInv'
    BY <1>3, <1>5, CopyFileStep
  <2>3. QED BY <1>4, <2>1, <2>2
<1>6. ASSUME SplitInstall
      PROVE  DiscInv'
  <2>1. usb' = "split" /\ UNCHANGED <<plan, planned, touched>>
    BY <1>6 DEF SplitInstall
  <2>2. CopyInv' /\ StageInv'
    BY <1>3, <1>6, SplitInstallStep
  <2>3. QED BY <1>4, <2>1, <2>2
<1>7. ASSUME WriteFallback
      PROVE  DiscInv'
  <2>1. usb' = "done" /\ UNCHANGED <<plan, planned, touched>>
    BY <1>7 DEF WriteFallback
  <2>2. CopyInv' /\ StageInv'
    BY <1>1, <1>3, <1>7, WriteFallbackStep
  <2>3. QED BY <1>4, <2>1, <2>2
<1>8. ASSUME EndWrite
      PROVE  DiscInv'
  <2>1. usb' = "done" /\ UNCHANGED <<plan, planned, touched>>
    BY <1>8 DEF EndWrite
  <2>2. CopyInv' /\ StageInv'
    BY <1>3, <1>8, EndWriteStep
  <2>3. QED BY <1>4, <2>1, <2>2
<1>9. ASSUME FailWrite
      PROVE  DiscInv'
  <2>1. usb' = "failed"
    BY <1>9 DEF FailWrite
  <2>2. UsbInv'
    BY <1>1, <1>3, <2>1 DEF UsbInv
  <2>3. QED BY <1>1, <2>2 DEF DiscInv
<1>10. QED BY <1>5, <1>6, <1>7, <1>8, <1>9 DEF UsbNext

\* What somebody else does to the tree is no file of a build's, and a disk that
\* is being written knows what was touched.
LEMMA ChangeStep ==
  ASSUME DiscInv, Change
  PROVE  DiscInv'
<1>1. PICK p : /\ Touch(p) /\ TreeOK(media')
               /\ \A q \in DOMAIN media \ {p} : q \in DOMAIN media' /\ media'[q] = media[q]
  <2>1. ASSUME NEW c \in Changes, c.path \in DOMAIN media, media' = [media EXCEPT ![c.path] = File(c.data)]
        PROVE  /\ TreeOK(media')
               /\ \A q \in DOMAIN media \ {c.path} : q \in DOMAIN media' /\ media'[q] = media[q]
    <3>1. TreeOK(media) /\ c.path \in Places /\ c.data \in Seq(Nat)
      BY ChangesAssumption DEF DiscInv, BuildInv
    <3>2. File(c.data) \in Node
      BY <3>1 DEF File, Node
    <3>3. DOMAIN media' = DOMAIN media /\ media'[c.path] = File(c.data)
          /\ \A q \in DOMAIN media \ {c.path} : media'[q] = media[q]
      BY <2>1
    <3>4. FilesOf(media') \subseteq FilesOf(media) \cup {c.path}
      BY <3>3 DEF FilesOf
    <3>5. \A q \in DOMAIN media' : q \in Seq(Nat) /\ media'[q] \in Node
      BY <3>1, <3>2, <3>3 DEF TreeOK
    <3>6. QED BY <3>1, <3>3, <3>4, <3>5 DEF TreeOK
  <2>2. ASSUME NEW p \in DOMAIN media, media' = [q \in DOMAIN media \ {p} |-> media[q]]
        PROVE  /\ TreeOK(media')
               /\ \A q \in DOMAIN media \ {p} : q \in DOMAIN media' /\ media'[q] = media[q]
    <3>1. TreeOK(media)
      BY DEF DiscInv, BuildInv
    <3>2. DOMAIN media' = DOMAIN media \ {p} /\ \A q \in DOMAIN media \ {p} : media'[q] = media[q]
      BY <2>2
    <3>3. IsFiniteSet(DOMAIN media')
      BY <3>1, <3>2, FS_Subset DEF TreeOK
    <3>4. FilesOf(media') \subseteq FilesOf(media)
      BY <3>2 DEF FilesOf
    <3>5. QED BY <3>1, <3>2, <3>3, <3>4 DEF TreeOK
  <2>3. QED BY <2>1, <2>2 DEF Change
<1>2. /\ pc = "mastering" \/ usb \in {"copying", "split"}
      /\ UNCHANGED <<pc, opts, usb, plan, pending, medium, planned>>
  BY DEF Change, builderVars
<1>3. pc \in {"mastering", "idle"}
  BY <1>2 DEF DiscInv, UsbInv
<1>4. BuildInv'
  <2>1. opts' \in BuildOptions
    BY <1>2 DEF DiscInv, BuildInv
  <2>2. QED BY <1>1, <1>2, <1>3, <2>1, QuietStep
<1>5. CASE usb = "idle"
  BY <1>2, <1>4, <1>5 DEF DiscInv, UsbInv
<1>6. CASE usb # "idle"
  <2>1. touched' = touched \cup {p}
    BY <1>1, <1>6 DEF Touch
  <2>2. pc' = "idle"
    BY <1>2, <1>6 DEF DiscInv, UsbInv
  <2>3. ASSUME PlanInv
        PROVE  PlanInv'
    <3>1. TreeOK(planned')
      BY <1>2, <2>3 DEF PlanInv
    <3>2. \A q \in DOMAIN planned' \ touched' : q \in DOMAIN media' /\ media'[q] = planned'[q]
      BY <1>1, <1>2, <2>1, <2>3 DEF PlanInv
    <3>3. QED BY <1>2, <2>3, <3>1, <3>2 DEF PlanInv
  <2>4. ASSUME CopyInv
        PROVE  CopyInv'
    BY <1>2, <2>1, <2>4 DEF CopyInv, Fits
  <2>5. ASSUME StageInv
        PROVE  StageInv'
    <3>1. PartsOn => PartsOn'
      BY <1>2 DEF PartsOn
    <3>2. HasLoader => HasLoader'
      BY <1>2 DEF HasLoader
    <3>3. QED BY <1>2, <2>1, <2>5, <3>1, <3>2 DEF StageInv
  <2>6. UsbInv'
    BY <1>2, <2>2, <2>3, <2>4, <2>5 DEF DiscInv, UsbInv
  <2>7. QED BY <1>4, <2>6 DEF DiscInv
<1>7. QED BY <1>5, <1>6

--------------------------------------------------------------------------------
(* Sizes, blocks and sectors of a UDF volume. *)

Names == DOMAIN NameRunes

\* Names are numbers, paths sequences of them.
LEMMA NamesAre == Names \subseteq Nat /\ Seq(Names) \subseteq Seq(Nat) /\ 0 \notin Names
<1>1. Names \subseteq Nat /\ 0 \notin Names
  BY UdfAssumption, LenProperties DEF Names
<1>2. ASSUME NEW p \in Seq(Names)
      PROVE  p \in Seq(Nat)
  <2>1. Len(p) \in Nat /\ p \in [1..Len(p) -> Names]
    BY LenProperties
  <2>2. p \in [1..Len(p) -> Nat]
    BY <1>1, <2>1
  <2>3. QED BY <2>1, <2>2, IsASeq
<1>3. QED BY <1>1, <1>2

\* Rounding up to a multiple.
LEMMA RoundUpIs ==
  ASSUME NEW n \in Nat, NEW m \in Nat \ {0}
  PROVE  RoundUp(n, m) \in Nat /\ n <= RoundUp(n, m)
<1> DEFINE a == n + m - 1
           x == a \div m
           y == x * m
<1>1. a \in Nat
  OBVIOUS
<1>2. x \in Nat /\ a < y + m
  BY <1>1, DivBounds
<1>3. y \in Nat
  <2> HIDE DEF x
  <2>1. QED BY <1>2, Multiples
<1>4. RoundUp(n, m) = y
  BY DEF RoundUp
<1> HIDE DEF x, y
<1>5. QED BY <1>2, <1>3, <1>4

\* The length of a descriptor.
LEMMA FidLenIs ==
  ASSUME NEW name \in Names \cup {0}
  PROVE  /\ DcharsLen(name) \in Nat
         /\ FidLen(name) \in Nat \ {0} /\ FidHeader <= FidLen(name)
<1>1. DcharsLen(name) \in Nat
  <2>1. name # 0 => NameRunes[name] \in Nat
    BY UdfAssumption, ElementOfSeq, LenProperties DEF Names
  <2>2. QED BY <2>1 DEF DcharsLen
<1> DEFINE a == FidHeader + DcharsLen(name)
<1>2. a \in Nat /\ a # 0 /\ FidHeader <= a /\ FidHeader \in Nat
  BY <1>1, UdfAssumption
<1>3. FidLen(name) = RoundUp(a, FidAlign)
  BY DEF FidLen
<1> HIDE DEF a
<1>4. RoundUp(a, FidAlign) \in Nat /\ a <= RoundUp(a, FidAlign)
  BY <1>2, RoundUpIs, UdfAssumption
<1>5. QED BY <1>1, <1>2, <1>3, <1>4

\* The blocks of an extent are those its bytes are in.
LEMMA BlocksIs ==
  ASSUME NEW n \in Nat
  PROVE  /\ Blocks(n) \in Nat
         /\ \A i \in 1..n : (i - 1) \div SectorSize \in Nat /\ (i - 1) \div SectorSize < Blocks(n)
<1> DEFINE a == n + SectorSize - 1
           y == a \div SectorSize
<1>1. SectorSize \in Nat \ {0}
  BY UdfAssumption
<1>2. a \in Nat /\ a + 1 = n + SectorSize
  BY <1>1
<1>3. y \in Nat /\ a < y * SectorSize + SectorSize /\ Blocks(n) = y
  BY <1>1, <1>2, DivBounds DEF Blocks
<1> HIDE DEF y
<1>4. ASSUME NEW i \in 1..n
      PROVE  (i - 1) \div SectorSize \in Nat /\ (i - 1) \div SectorSize < y
  <2> DEFINE x == (i - 1) \div SectorSize
             p == x * SectorSize
             q == y * SectorSize
  <2>1. x \in Nat /\ p <= i - 1
    BY <1>1, DivBounds
  <2> HIDE DEF x
  <2>2. p \in Nat /\ q \in Nat /\ (y <= x => q <= p)
    BY <1>1, <1>3, <2>1, Multiples
  <2>3. a < q + SectorSize
    BY <1>3
  <2> HIDE DEF p, q
  <2>4. ~(y <= x)
    BY <1>1, <1>2, <2>1, <2>2, <2>3
  <2>5. QED BY <1>3, <2>1, <2>4 DEF x
<1>5. QED BY <1>3, <1>4

\* A number of whole sectors takes as many blocks.
LEMMA WholeBlocks ==
  ASSUME NEW k \in Nat, NEW m \in Nat, m % SectorSize = 0
  PROVE  /\ Blocks(k * m) \in Nat
         /\ \A i \in Nat : (k * m + i) \div SectorSize = Blocks(k * m) + (i \div SectorSize)
         /\ \A i \in Nat : (k * m + i) % SectorSize = i % SectorSize
<1>1. SectorSize \in Nat \ {0}
  BY UdfAssumption
<1> DEFINE d == m \div SectorSize
<1>2. d \in Nat /\ m = d * SectorSize
  BY <1>1
<1> HIDE DEF d
<1> DEFINE e == k * d
<1>3. e \in Nat /\ k * m = e * SectorSize
  <2>1. k * m = k * (d * SectorSize)
    BY <1>2
  <2>2. k * (d * SectorSize) = (k * d) * SectorSize
    BY <1>1, <1>2
  <2>3. k * d \in Nat
    BY <1>2, Multiples
  <2>4. QED BY <2>1, <2>2, <2>3
<1> HIDE DEF e
<1>4. \A i \in Nat : (e * SectorSize + i) \div SectorSize = e + (i \div SectorSize)
  BY <1>1, <1>3
<1>5. \A i \in Nat : (e * SectorSize + i) % SectorSize = i % SectorSize
  <2>1. TAKE i \in Nat
  <2> DEFINE q == i \div SectorSize
             r == i % SectorSize
             t == e * SectorSize
             u == t + i
  <2>2. q \in Nat /\ r \in Nat /\ i = q * SectorSize + r /\ t \in Nat
    BY <1>1, <1>3, Multiples
  <2>3. u \in Nat /\ u = (u \div SectorSize) * SectorSize + (u % SectorSize) /\ u % SectorSize \in Nat
    <3> HIDE DEF t
    <3>1. u \in Nat
      BY <2>2
    <3> HIDE DEF u
    <3>2. QED BY <1>1, <3>1
  <2>4. u \div SectorSize = e + q
    BY <1>4
  <2>5. (e + q) * SectorSize = t + q * SectorSize
    BY <1>1, <1>3, <2>2
  <2> DEFINE v == q * SectorSize
             w == u % SectorSize
  <2>6. v \in Nat
    <3> HIDE DEF q
    <3>1. QED BY <1>1, <2>2, Multiples
  <2>7. u = t + v + w /\ w \in Nat /\ i = v + r /\ u = t + i
    <3>1. u = (e + q) * SectorSize + w /\ w \in Nat
      BY <2>3, <2>4
    <3>2. (e + q) * SectorSize = t + v
      BY <2>5
    <3>3. i = v + r
      BY <2>2
    <3> HIDE DEF t, v, w, r, u
    <3>4. u = t + v + w
      BY <3>1, <3>2
    <3>5. QED BY <3>1, <3>3, <3>4 DEF u
  <2>8. w = r
    <3> HIDE DEF t, v, w, r, u
    <3>1. QED BY <2>2, <2>6, <2>7
  <2>9. QED BY <2>8
<1>6. Blocks(k * m) = e
  <2> DEFINE s == SectorSize - 1
  <2>1. s \in Nat /\ s \div SectorSize = 0
    BY <1>1
  <2>2. Blocks(k * m) = (e * SectorSize + s) \div SectorSize
    <3> DEFINE t == e * SectorSize
    <3>1. t \in Nat /\ k * m = t
      BY <1>1, <1>3, Multiples
    <3> HIDE DEF t
    <3>2. t + SectorSize - 1 = t + s
      BY <1>1, <3>1
    <3>3. Blocks(k * m) = (t + SectorSize - 1) \div SectorSize
      BY <3>1 DEF Blocks
    <3>4. QED BY <3>2, <3>3 DEF t
  <2> HIDE DEF s
  <2>3. QED BY <1>3, <1>4, <2>1, <2>2
<1>7. QED BY <1>3, <1>4, <1>5, <1>6

--------------------------------------------------------------------------------
(* Lists of paths. *)

\* A finite set of paths in the order of the walk: every path once, the root
\* first.
LEMMA InOrderIs ==
  ASSUME NEW P \in SUBSET Seq(Nat), IsFiniteSet(P)
  PROVE  /\ Cardinality(P) \in Nat /\ InOrder(P) \in [1..Cardinality(P) -> P]
         /\ \A j, k \in 1..Cardinality(P) : InOrder(P)[j] = InOrder(P)[k] => j = k
         /\ \A p \in P : \E k \in 1..Cardinality(P) : InOrder(P)[k] = p
         /\ <<>> \in P => 1 \in 1..Cardinality(P) /\ InOrder(P)[1] = <<>>
<1> DEFINE L == [p \in P |-> {q \in P : Before(q, p)}]
           c == Cardinality(P)
           s == InOrder(P)
<1>1. IsOrder(L, P)
  <2>1. L \in [P -> SUBSET P]
    OBVIOUS
  <2>2. \A p \in P : p \notin L[p]
    <3>1. \A p \in Seq(Nat) : ~Before(p, p)
      <4>1. TAKE p \in Seq(Nat)
      <4>2. Len(p) \in Nat
        BY LenProperties
      <4>3. SUFFICES ASSUME Before(p, p) PROVE FALSE
        OBVIOUS
      <4>4. PICK n \in Nat : n <= Len(p) /\ n < Len(p) /\ (n = Len(p) \/ p[n + 1] < p[n + 1])
        BY <4>3, BeforeIs
      <4>5. n + 1 \in 1..Len(p)
        BY <4>2, <4>4
      <4>6. p[n + 1] \in Nat
        BY <4>5, ElementOfSeq
      <4>7. QED BY <4>2, <4>4, <4>6
    <3>2. QED BY <3>1
  <2>3. \A p, q, r \in P : p \in L[q] /\ q \in L[r] => p \in L[r]
    BY BeforeTransitive
  <2>4. \A p, q \in P : p = q \/ p \in L[q] \/ q \in L[p]
    BY BeforeTotal
  <2> HIDE DEF L
  <2>5. QED BY <2>1, <2>2, <2>3, <2>4 DEF IsOrder
<1>2. /\ c \in Nat
      /\ \A k \in 1..c : \E p \in P : Cardinality(L[p]) = k - 1
      /\ \A p \in P : \E k \in 1..c : Cardinality(L[p]) = k - 1
      /\ \A p, q \in P : p \in L[q] => Cardinality(L[p]) < Cardinality(L[q])
  <2> HIDE DEF L
  <2>1. QED BY <1>1, RankedBy
<1>3. \A p \in P : L[p] = {q \in P : Before(q, p)}
  OBVIOUS
<1>4. s = [k \in 1..c |-> CHOOSE p \in P : Cardinality({q \in P : Before(q, p)}) = k - 1]
  BY DEF InOrder
<1>5. \A k \in 1..c : s[k] \in P /\ Cardinality(L[s[k]]) = k - 1
  <2> HIDE DEF L, s, c
  <2>1. TAKE k \in 1..c
  <2>2. s[k] = CHOOSE p \in P : Cardinality({q \in P : Before(q, p)}) = k - 1
    BY <1>4
  <2>3. PICK p \in P : Cardinality(L[p]) = k - 1
    BY <1>2
  <2>4. Cardinality({q \in P : Before(q, p)}) = k - 1
    BY <1>3, <2>3
  <2>5. s[k] \in P /\ Cardinality({q \in P : Before(q, s[k])}) = k - 1
    BY <2>2, <2>4
  <2>6. QED BY <1>3, <2>5
<1> HIDE DEF L, s, c
<1>6. s \in [1..c -> P]
  BY <1>4, <1>5
<1>7. \A j, k \in 1..c : s[j] = s[k] => j = k
  <2>1. TAKE j, k \in 1..c
  <2>2. HAVE s[j] = s[k]
  <2>3. Cardinality(L[s[j]]) = j - 1 /\ Cardinality(L[s[k]]) = k - 1
    BY <1>5
  <2>4. j - 1 = k - 1
    BY <2>2, <2>3
  <2>5. j \in Int /\ k \in Int
    BY <1>2
  <2>6. QED BY <2>4, <2>5
<1>8. \A p, q \in P : Cardinality(L[p]) = Cardinality(L[q]) => p = q
  <2>1. TAKE p, q \in P
  <2>2. HAVE Cardinality(L[p]) = Cardinality(L[q])
  <2>3. Cardinality(L[p]) \in Nat /\ Cardinality(L[q]) \in Nat
    BY <1>2
  <2>4. p \notin L[q] /\ q \notin L[p]
    BY <1>2, <2>2, <2>3
  <2>5. QED BY <1>1, <2>4 DEF IsOrder
<1>9. \A p \in P : \E k \in 1..c : s[k] = p
  <2>1. TAKE p \in P
  <2>2. PICK k \in 1..c : Cardinality(L[p]) = k - 1
    BY <1>2
  <2>3. s[k] = p
    BY <1>5, <1>8, <2>2
  <2>4. QED BY <2>3
<1>10. ASSUME <<>> \in P
       PROVE  1 \in 1..c /\ s[1] = <<>>
  <2>1. \A q \in Seq(Nat) : ~Before(q, <<>>)
    <3>1. TAKE q \in Seq(Nat)
    <3>2. SUFFICES ASSUME Before(q, <<>>) PROVE FALSE
      OBVIOUS
    <3>3. <<>> \in Seq(Nat) /\ Len(<<>>) = 0
      OBVIOUS
    <3>4. PICK n \in Nat : n < Len(<<>>)
      BY <3>2, <3>3, BeforeIs
    <3>5. QED BY <3>3, <3>4
  <2>2. L[<<>>] = {}
    BY <1>3, <1>10, <2>1
  <2>3. Cardinality(L[<<>>]) = 0
    BY <2>2, FS_EmptySet
  <2>4. PICK k \in 1..c : Cardinality(L[<<>>]) = k - 1
    BY <1>2, <1>10
  <2>5. k = 1
    BY <2>3, <2>4
  <2>6. s[1] = <<>>
    BY <1>5, <1>8, <1>10, <2>3, <2>4, <2>5
  <2>7. QED BY <2>4, <2>5, <2>6
<1>11. QED BY <1>2, <1>6, <1>7, <1>9, <1>10 DEF c, s

\* The positions of keep, from the left.
Positions(keep) == [k \in 1..Cardinality(keep) |-> CHOOSE i \in keep : Cardinality({j \in keep : j <= i}) = k]

\* The elements at these positions.
Picks(l, s, keep) ==
  /\ Len(l) = Cardinality(keep) /\ DOMAIN l = 1..Cardinality(keep)
  /\ \A k \in 1..Cardinality(keep) : l[k] = s[Positions(keep)[k]]

\* What is at some positions of a sequence, each of them once.
LEMMA SelectedIs ==
  ASSUME NEW s, NEW n \in Nat, NEW keep \in SUBSET (1..n)
  PROVE  /\ IsFiniteSet(keep) /\ Cardinality(keep) \in Nat /\ Positions(keep) \in [1..Cardinality(keep) -> keep]
         /\ \A j, k \in 1..Cardinality(keep) : Positions(keep)[j] = Positions(keep)[k] => j = k
         /\ \A i \in keep : \E k \in 1..Cardinality(keep) : Positions(keep)[k] = i
         /\ Picks(Selected(s, keep), s, keep)
<1> DEFINE c == Cardinality(keep)
           pos == Positions(keep)
<1>1. /\ IsFiniteSet(keep) /\ c \in Nat
      /\ \A k \in keep : Cardinality({j \in keep : j <= k}) \in 1..c
      /\ \A k, m \in keep : k < m => Cardinality({j \in keep : j <= k}) < Cardinality({j \in keep : j <= m})
      /\ \A i \in 1..c : \E k \in keep : Cardinality({j \in keep : j <= k}) = i
  BY Ranks
<1>2. pos = [k \in 1..c |-> CHOOSE i \in keep : Cardinality({j \in keep : j <= i}) = k]
  BY DEF Positions
<1>3. Selected(s, keep) = [k \in 1..c |-> s[pos[k]]]
  <2>1. \A k \in 1..c : pos[k] = CHOOSE i \in keep : Cardinality({j \in keep : j <= i}) = k
    BY DEF Positions
  <2>2. \A k \in 1..c : s[pos[k]] = s[CHOOSE i \in keep : Cardinality({j \in keep : j <= i}) = k]
    BY <2>1
  <2>3. Selected(s, keep) = [k \in 1..c |-> s[CHOOSE i \in keep : Cardinality({j \in keep : j <= i}) = k]]
    BY DEF Selected
  <2> HIDE DEF pos, c
  <2>4. QED BY <2>2, <2>3
<1> HIDE DEF pos, c
<1> DEFINE Rank(i) == Cardinality({j \in keep : j <= i})
<1>4. \A k \in 1..c : pos[k] \in keep /\ Rank(pos[k]) = k
  <2>1. TAKE k \in 1..c
  <2>2. pos[k] = CHOOSE i \in keep : Cardinality({j \in keep : j <= i}) = k
    BY <1>2
  <2>3. \E i \in keep : Cardinality({j \in keep : j <= i}) = k
    BY <1>1
  <2>4. QED BY <2>2, <2>3
<1>5. \A i, j \in keep : Rank(i) = Rank(j) => i = j
  <2>1. /\ \A i \in keep : Rank(i) \in 1..c
        /\ \A k, m \in keep : k < m => Rank(k) < Rank(m)
    BY <1>1
  <2> HIDE DEF Rank
  <2>2. TAKE i, j \in keep
  <2>3. i \in Int /\ j \in Int /\ Rank(i) \in Int /\ Rank(j) \in Int
    BY <2>1
  <2>4. QED BY <2>1, <2>3
<1>10. \A i \in keep : Rank(i) \in 1..c
  BY <1>1
<1> HIDE DEF Rank
<1>6. pos \in [1..c -> keep]
  BY <1>2, <1>4
<1>7. \A j, k \in 1..c : pos[j] = pos[k] => j = k
  BY <1>4
<1>8. \A i \in keep : \E k \in 1..c : pos[k] = i
  <2>1. TAKE i \in keep
  <2>2. Rank(i) \in 1..c
    BY <1>10
  <2>3. pos[Rank(i)] = i
    BY <1>4, <1>5, <2>2
  <2>4. QED BY <2>2, <2>3
<1> DEFINE l == Selected(s, keep)
<1>9. Len(l) = c /\ DOMAIN l = 1..c /\ \A k \in 1..c : l[k] = s[pos[k]]
  <2>1. l = [k \in 1..c |-> s[pos[k]]]
    BY <1>3
  <2> HIDE DEF l
  <2>2. QED BY <1>1, <2>1
<1>11. QED BY <1>1, <1>6, <1>7, <1>8, <1>9 DEF c, pos, Picks

--------------------------------------------------------------------------------
(* The walked tree and its blocks. *)

\* What the descriptors add up to, one child after another.
FidSums(sum, paths, keep, c, first) ==
  /\ sum \in [0..c -> Nat] /\ sum[0] = first
  /\ \A k \in 1..c : sum[k] = sum[k-1] + FidLen(Last(paths[Positions(keep)[k]]))

\* The bytes of a directory's descriptors.
LEMMA FidBytesSteps ==
  ASSUME NEW m \in Nat, NEW paths \in [1..m -> Seq(Names)], NEW path, NEW first \in Nat,
         NEW keep, keep = ChildrenAt(paths, path), NEW c, c = Cardinality(keep)
  PROVE  \E sum : FidSums(sum, paths, keep, c, first) /\ FidBytes(paths, path, first) = sum[c]
<1> DEFINE pos == Positions(keep)
           kids == Selected(paths, keep)
           f == CHOOSE g : g = [k \in 0..Len(kids) |-> IF k = 0 THEN first ELSE g[k-1] + FidLen(Last(kids[k]))]
           step == [x \in Nat \X Nat |-> IF x[1] \in 1..c THEN x[2] + FidLen(Last(kids[x[1]])) ELSE 0]
<1> HIDE DEF f, step
<1>1. keep \in SUBSET (1..m) /\ \A i \in keep : paths[i] \in Seq(Names) /\ paths[i] # <<>>
  BY DEF ChildrenAt
<1>2. c \in Nat /\ pos \in [1..c -> keep]
  BY <1>1, SelectedIs
<1>3. Len(kids) = c /\ \A k \in 1..c : kids[k] = paths[pos[k]]
  <2>1. keep \in SUBSET (1..m)
    BY <1>1
  <2>2. Picks(Selected(paths, keep), paths, keep)
    BY <2>1, SelectedIs
  <2>3. QED BY <2>2 DEF Picks
<1> HIDE DEF pos, kids
<1>4. \A k \in 1..c : FidLen(Last(kids[k])) \in Nat
  <2>1. TAKE k \in 1..c
  <2>2. kids[k] \in Seq(Names) /\ kids[k] # <<>>
    BY <1>1, <1>2, <1>3
  <2>3. Len(kids[k]) \in 1..Len(kids[k])
    BY <2>2, LenProperties, EmptySeq
  <2>4. Last(kids[k]) \in Names
    BY <2>2, <2>3, ElementOfSeq DEF Last
  <2>5. QED BY <2>4, FidLenIs
<1>5. step \in [Nat \X Nat -> Nat]
  <2> USE DEF step
  <2>1. \A x \in Nat \X Nat : x[1] \in 1..c => x[2] + FidLen(Last(kids[x[1]])) \in Nat
    BY <1>4
  <2>2. QED BY <2>1
<1>6. \E g : g = [k \in 0..Len(kids) |-> IF k = 0 THEN first ELSE g[k-1] + FidLen(Last(kids[k]))]
  <2>1. \A k \in 1..c : \A v \in Nat : step[<<k, v>>] = v + FidLen(Last(kids[k]))
    <3>1. \A k \in 1..c : k \in Nat
      BY <1>2
    <3>2. QED BY <3>1 DEF step
  <2>2. PICK g \in [0..c -> Nat] : IsIterate(g, first, step, c)
    BY <1>2, <1>5, Iterates
  <2>3. \A k \in 0..c : k # 0 => k \in 1..c /\ k - 1 \in 0..c
    BY <1>2
  <2>4. \A k \in 0..c : k # 0 => step[<<k, g[k-1]>>] = g[k-1] + FidLen(Last(kids[k]))
    BY <2>1, <2>3
  <2>5. g = [k \in 0..c |-> IF k = 0 THEN first ELSE g[k-1] + FidLen(Last(kids[k]))]
    BY <2>2, <2>4 DEF IsIterate
  <2>6. QED BY <1>3, <2>5
<1>7. f = [k \in 0..Len(kids) |-> IF k = 0 THEN first ELSE f[k-1] + FidLen(Last(kids[k]))]
  BY ZenonT(30), <1>6 DEF f
<1>8. FidBytes(paths, path, first) = f[Len(kids)]
  BY DEF FidBytes, kids, f
<1>9. f[0] = first /\ \A k \in 1..c : f[k] = f[k-1] + FidLen(Last(kids[k]))
  <2>1. 0 \in 0..c /\ \A k \in 1..c : k \in 0..c /\ k # 0
    BY <1>2
  <2>2. QED BY <1>3, <1>7, <2>1
<1>10. \A k \in 0..c : f[k] \in Nat
  <2> DEFINE T == {k \in 0..c : f[k] \in Nat}
  <2>1. 0 \in T
    BY <1>2, <1>9
  <2>2. \A k \in 1..c : k - 1 \in T => k \in T
    BY <1>2, <1>4, <1>9
  <2> HIDE DEF T
  <2>3. \A k \in 0..c : k \in T
    BY <1>2, <2>1, <2>2, UpTo
  <2>4. QED BY <2>3 DEF T
<1>11. f \in [0..c -> Nat]
  BY <1>3, <1>7, <1>10
<1>12. QED BY <1>3, <1>8, <1>9, <1>11 DEF pos, FidSums

\* They are a number of bytes.
LEMMA FidBytesNat ==
  ASSUME NEW m \in Nat, NEW paths \in [1..m -> Seq(Names)], NEW path, NEW first \in Nat
  PROVE  FidBytes(paths, path, first) \in Nat
<1> DEFINE keep == ChildrenAt(paths, path)
           c == Cardinality(keep)
<1>1. PICK sum : FidSums(sum, paths, keep, c, first) /\ FidBytes(paths, path, first) = sum[c]
  BY FidBytesSteps
<1>2. c \in Nat
  <2>1. keep \in SUBSET (1..m)
    BY DEF ChildrenAt
  <2>2. QED BY <2>1, SelectedIs
<1> HIDE DEF keep, c
<1>3. sum[c] \in Nat
  BY <1>1, <1>2 DEF FidSums
<1>4. QED BY <1>1, <1>3

\* What a node of a tree may be.
LEMMA NodeIs ==
  ASSUME NEW x \in Node
  PROVE  x.dir \in BOOLEAN /\ x.data \in Seq(Nat) /\ (x.dir => x.data = <<>>)
<1>1. CASE x = Dir
  <2>1. x.dir = TRUE /\ x.data = <<>>
    BY <1>1 DEF Dir
  <2>2. <<>> \in Seq(Nat)
    OBVIOUS
  <2>3. QED BY <2>1, <2>2
<1>2. CASE x \in [dir : {FALSE}, data : Seq(Nat)]
  <2>1. x.dir = FALSE /\ x.data \in Seq(Nat)
    BY <1>2
  <2>2. QED BY <2>1
<1>3. QED BY <1>1, <1>2 DEF Node

Paths(ns) == [k \in DOMAIN ns |-> ns[k].path]
NodeSet == [path : Seq(Names), dir : BOOLEAN, len : Nat, fe : Nat, lb : Nat, uid : Nat]

\* A tree and its nodes, with blocks that do not overlap.
Laid(tree, ns) ==
  /\ ns \in Seq(NodeSet) /\ ns # <<>> /\ ns[1].path = <<>>
  /\ \A j, k \in DOMAIN ns : ns[j].path = ns[k].path => j = k
  /\ DOMAIN tree = {ns[k].path : k \in DOMAIN ns}
  /\ \A k \in DOMAIN ns : ns[k].dir = tree[ns[k].path].dir /\ ns[k].lb = ns[k].fe + 1 /\ ns[k].fe >= 2
  /\ \A k \in DOMAIN ns : ns[k].len = IF ns[k].dir THEN DirFidBytes(Paths(ns), ns[k].path)
                                                  ELSE Len(tree[ns[k].path].data)
  /\ \A j, k \in DOMAIN ns : j < k => ns[j].lb + Blocks(ns[j].len) <= ns[k].fe

\* A walked tree: finite, with known names and a root.
WalkOK(tree) ==
  /\ IsFiniteSet(DOMAIN tree) /\ DOMAIN tree \subseteq Seq(Names)
  /\ \A p \in DOMAIN tree : tree[p] \in Node
  /\ <<>> \in DOMAIN tree /\ tree[<<>>].dir

\* The blocks that are assigned to a tree.
LEMMA AssignIs ==
  ASSUME NEW tree, WalkOK(tree)
  PROVE  Laid(tree, AssignBlocks(tree).nodes)
<1> USE DEF WalkOK
<1> DEFINE D == DOMAIN tree
           paths == InOrder(D)
           c == Cardinality(D)
           Size(p) == IF tree[p].dir THEN DirFidBytes(paths, p) ELSE Len(tree[p].data)
           next == CHOOSE g : g = [k \in 0..Len(paths) |-> IF k = 0 THEN 2 ELSE g[k-1] + 1 + Blocks(Size(paths[k]))]
           ns == AssignBlocks(tree).nodes
<1>1. D \in SUBSET Seq(Nat)
  <2>1. QED BY NamesAre
<1>2. /\ c \in Nat /\ paths \in [1..c -> D] /\ 1 \in 1..c /\ paths[1] = <<>>
      /\ \A j, k \in 1..c : paths[j] = paths[k] => j = k
      /\ \A p \in D : \E k \in 1..c : paths[k] = p
  BY <1>1, InOrderIs
<1>3. Len(paths) = c /\ paths \in [1..c -> Seq(Names)]
  BY <1>2
<1>4. ns = [k \in 1..Len(paths) |-> [path |-> paths[k], dir |-> tree[paths[k]].dir, len |-> Size(paths[k]),
                                     fe |-> next[k-1], lb |-> next[k-1] + 1, uid |-> k - 1]]
  BY DEF AssignBlocks
<1>5. \A p \in D : Size(p) \in Nat
  <2>1. TAKE p \in D
  <2>2. CASE tree[p].dir
    <3>1. FidLen(0) \in Nat
      BY FidLenIs
    <3>2. FidBytes(paths, p, FidLen(0)) \in Nat
      BY <1>2, <1>3, <3>1, FidBytesNat
    <3>3. QED BY <2>2, <3>2 DEF DirFidBytes
  <2>3. CASE ~tree[p].dir
    <3>3. tree[p] \in Node
      OBVIOUS
    <3>1. tree[p].data \in Seq(Nat)
      BY <3>3, NodeIs
    <3>2. QED BY <2>3, <3>1, LenProperties
  <2>4. QED BY <2>2, <2>3
<1> HIDE DEF Size, paths, c
<1> DEFINE B(k) == Blocks(Size(paths[k]))
<1>6. \A k \in 1..c : paths[k] \in D /\ Size(paths[k]) \in Nat /\ B(k) \in Nat
  BY <1>2, <1>5, BlocksIs
<1>7. \E g : g = [k \in 0..Len(paths) |-> IF k = 0 THEN 2 ELSE g[k-1] + 1 + B(k)]
  <2> DEFINE step == [x \in Nat \X Nat |-> IF x[1] \in 1..c THEN x[2] + 1 + B(x[1]) ELSE 0]
  <2>1. \A k \in 1..c : \A v \in Nat : step[<<k, v>>] = v + 1 + B(k)
    <3>1. \A k \in 1..c : k \in Nat
      BY <1>2
    <3> HIDE DEF B
    <3>2. QED BY <3>1
  <2>2. step \in [Nat \X Nat -> Nat]
    <3> HIDE DEF B
    <3>1. \A x \in Nat \X Nat : x[1] \in 1..c => x[2] + 1 + B(x[1]) \in Nat
      BY <1>6
    <3>2. QED BY <3>1
  <2> HIDE DEF step, B
  <2>3. PICK g \in [0..c -> Nat] : IsIterate(g, 2, step, c)
    BY <1>2, <2>2, Iterates, ZenonT(60)
  <2>4. \A k \in 0..c : k # 0 => k \in 1..c /\ k - 1 \in 0..c
    BY <1>2
  <2>5. \A k \in 0..c : k # 0 => step[<<k, g[k-1]>>] = g[k-1] + 1 + B(k)
    BY <2>1, <2>4
  <2>6. g = [k \in 0..c |-> IF k = 0 THEN 2 ELSE g[k-1] + 1 + B(k)]
    BY <2>3, <2>5 DEF IsIterate
  <2>7. QED BY <1>3, <2>6
<1>8. next = [k \in 0..Len(paths) |-> IF k = 0 THEN 2 ELSE next[k-1] + 1 + B(k)]
  BY ZenonT(30), <1>7
<1> HIDE DEF next
<1>9. next[0] = 2 /\ \A k \in 1..c : next[k] = next[k-1] + 1 + B(k)
  <2> HIDE DEF B
  <2>1. 0 \in 0..c /\ \A k \in 1..c : k \in 0..c /\ k # 0
    BY <1>2
  <2>2. QED BY <1>3, <1>8, <2>1
<1> HIDE DEF B
<1>10. \A k \in 0..c : next[k] \in Nat /\ next[k] >= 2
  <2> DEFINE T == {k \in 0..c : next[k] \in Nat /\ next[k] >= 2}
  <2>1. 0 \in T
    BY <1>2, <1>9
  <2>2. \A k \in 1..c : k - 1 \in T => k \in T
    <3>1. TAKE k \in 1..c
    <3>2. HAVE k - 1 \in T
    <3>3. next[k] = next[k-1] + 1 + B(k) /\ B(k) \in Nat /\ k \in 0..c
      <4>1. next[k] = next[k-1] + 1 + B(k)
        BY <1>9
      <4>2. B(k) \in Nat
        BY <1>6
      <4>3. QED BY <1>2, <4>1, <4>2
    <3>4. next[k-1] \in Nat /\ next[k-1] >= 2
      BY <3>2
    <3>5. QED BY <3>3, <3>4
  <2> HIDE DEF T
  <2>3. \A k \in 0..c : k \in T
    BY <1>2, <2>1, <2>2, UpTo
  <2>4. QED BY <2>3 DEF T
<1>11. \A j \in 1..c : \A k \in 1..c : j <= k => next[j] <= next[k]
  <2>1. TAKE j \in 1..c
  <2> DEFINE T == {k \in 0..c : j <= k => next[j] <= next[k]}
  <2>2. 0 \in T
    BY <1>2
  <2>3. \A k \in 1..c : k - 1 \in T => k \in T
    <3>1. TAKE k \in 1..c
    <3>2. HAVE k - 1 \in T
    <3>3. k \in Int /\ k - 1 \in 0..c /\ k \in 0..c
      BY <1>2
    <3>4. next[k-1] \in Nat /\ next[k] \in Nat /\ next[k] = next[k-1] + 1 + B(k) /\ B(k) \in Nat
      BY <1>6, <1>9, <1>10, <3>3
    <3>5. j = k \/ ~(j <= k) \/ j <= k - 1
      BY <3>3
    <3>6. j <= k - 1 => next[j] <= next[k-1]
      BY <3>2
    <3>7. next[j] \in Nat
      BY <1>10, <1>2
    <3>8. j <= k => next[j] <= next[k]
      BY <3>4, <3>5, <3>6, <3>7
    <3>9. QED BY <3>3, <3>8
  <2> HIDE DEF T
  <2>4. \A k \in 0..c : k \in T
    BY <1>2, <2>2, <2>3, UpTo
  <2>5. QED BY <1>2, <2>4 DEF T
<1>12. DOMAIN ns = 1..c /\ Len(ns) = c
  <2> HIDE DEF ns
  <2>1. QED BY <1>2, <1>3, <1>4
<1>13. \A k \in 1..c : /\ ns[k].path = paths[k] /\ ns[k].dir = tree[paths[k]].dir /\ ns[k].len = Size(paths[k])
                       /\ ns[k].fe = next[k-1] /\ ns[k].lb = next[k-1] + 1 /\ ns[k].uid = k - 1
                       /\ ns[k] \in NodeSet
  <2>1. TAKE k \in 1..c
  <2>2. ns[k] = [path |-> paths[k], dir |-> tree[paths[k]].dir, len |-> Size(paths[k]),
                 fe |-> next[k-1], lb |-> next[k-1] + 1, uid |-> k - 1]
    <3> HIDE DEF ns
    <3>1. QED BY <1>3, <1>4
  <2>3. tree[paths[k]].dir \in BOOLEAN
    <3>1. tree[paths[k]] \in Node
      BY <1>6
    <3>2. \A x \in Node : x.dir \in BOOLEAN
      BY NodeIs
    <3>3. QED BY <3>1, <3>2
  <2>4. k - 1 \in 0..c /\ k - 1 \in Nat
    BY <1>2
  <2>5. next[k-1] \in Nat /\ next[k-1] + 1 \in Nat
    BY <1>10, <2>4
  <2>6. paths[k] \in Seq(Names) /\ Size(paths[k]) \in Nat
    BY <1>3, <1>6
  <2> HIDE DEF ns
  <2>7. QED BY <2>2, <2>3, <2>4, <2>5, <2>6 DEF NodeSet
<1> HIDE DEF ns
<1>14. ns \in Seq(NodeSet) /\ ns # <<>>
  <2>1. ns \in [1..c -> NodeSet]
    <3>1. ns = [k \in 1..c |-> ns[k]]
      BY <1>3, <1>4
    <3>2. QED BY <1>13, <3>1
  <2>2. ns \in Seq(NodeSet)
    BY <1>2, <2>1, IsASeq
  <2>3. QED BY <1>2, <1>12, <2>2, EmptySeq
<1>15. Paths(ns) = paths
  <2>1. Paths(ns) = [k \in 1..c |-> paths[k]]
    BY <1>12, <1>13 DEF Paths
  <2>2. QED BY <1>3, <2>1
<1>16. D = {ns[k].path : k \in DOMAIN ns}
  <2>1. \A p \in D : \E k \in DOMAIN ns : ns[k].path = p
    <3>1. TAKE p \in D
    <3>2. PICK k \in 1..c : paths[k] = p
      BY <1>2
    <3>3. ns[k].path = p /\ k \in DOMAIN ns
      BY <1>12, <1>13, <3>2
    <3>4. QED BY <3>3
  <2>2. \A k \in DOMAIN ns : ns[k].path \in D
    BY <1>6, <1>12, <1>13
  <2> HIDE DEF D
  <2>3. QED BY <2>1, <2>2
<1>17. \A k \in DOMAIN ns : ns[k].dir = tree[ns[k].path].dir /\ ns[k].lb = ns[k].fe + 1 /\ ns[k].fe >= 2
  <2>1. TAKE k \in DOMAIN ns
  <2>2. k - 1 \in 0..c
    BY <1>2, <1>12
  <2>3. next[k-1] >= 2
    BY <1>10, <2>2
  <2>4. QED BY <1>12, <1>13, <2>3
<1>18. \A k \in DOMAIN ns : ns[k].len = IF ns[k].dir THEN DirFidBytes(Paths(ns), ns[k].path)
                                                    ELSE Len(tree[ns[k].path].data)
  BY <1>12, <1>13, <1>15 DEF Size
<1>19. \A j, k \in 1..c : j < k => ns[j].lb + Blocks(ns[j].len) <= ns[k].fe
  <2>1. TAKE j, k \in 1..c
  <2>2. HAVE j < k
  <2>3. j - 1 \in 0..c /\ k - 1 \in 1..c /\ j <= k - 1
    BY <1>2, <2>2
  <2>4. next[j] <= next[k-1] /\ next[j] = next[j-1] + 1 + B(j) /\ next[j-1] \in Nat /\ B(j) \in Nat
    BY <1>6, <1>9, <1>10, <1>11, <2>3
  <2>5. ns[j].lb = next[j-1] + 1 /\ Blocks(ns[j].len) = B(j) /\ ns[k].fe = next[k-1]
    BY <1>13 DEF B
  <2>6. QED BY <2>4, <2>5
<1>20. QED
  <2>1. \A j, k \in DOMAIN ns : ns[j].path = ns[k].path => j = k
    BY <1>2, <1>12, <1>13
  <2>2. ns[1].path = <<>>
    BY <1>2, <1>13
  <2>3. QED BY <1>12, <1>14, <1>16, <1>17, <1>18, <1>19, <2>1, <2>2 DEF Laid, ns

--------------------------------------------------------------------------------
(* Directories: their entries, and the descriptors of them. *)

\* What is above a path of a tree is a directory of it.
ClosedTree(tree) ==
  \A p \in DOMAIN tree \ {<<>>} : Parent(p) \in DOMAIN tree /\ tree[Parent(p)].dir

\* The nodes are the blocks assigned to a tree that can be walked.
WalkInv == Laid(walked, nodes) /\ WalkOK(walked) /\ ClosedTree(walked)

\* The nodes, one by one.
LEMMA NodesAre ==
  ASSUME WalkInv
  PROVE  /\ Len(nodes) \in Nat \ {0} /\ DOMAIN nodes = 1..Len(nodes)
         /\ \A k \in DOMAIN nodes : /\ nodes[k] \in NodeSet /\ nodes[k].path \in Seq(Names)
                                    /\ nodes[k].len \in Nat /\ nodes[k].fe \in Nat /\ nodes[k].lb \in Nat
                                    /\ nodes[k].dir \in BOOLEAN
                                    /\ NodeAt(nodes[k].path) = nodes[k]
         /\ \A p \in DOMAIN walked : \E k \in DOMAIN nodes : nodes[k].path = p
         /\ Paths(nodes) \in [1..Len(nodes) -> Seq(Names)]
<1>1. nodes \in Seq(NodeSet) /\ nodes # <<>>
  BY DEF WalkInv, Laid
<1>2. Len(nodes) \in Nat \ {0} /\ DOMAIN nodes = 1..Len(nodes) /\ \A k \in 1..Len(nodes) : nodes[k] \in NodeSet
  BY <1>1, LenProperties, EmptySeq, ElementOfSeq
<1>3. \A x \in NodeSet : x.path \in Seq(Names) /\ x.len \in Nat /\ x.fe \in Nat /\ x.lb \in Nat /\ x.dir \in BOOLEAN
  BY DEF NodeSet
<1>4. ASSUME NEW k \in DOMAIN nodes
      PROVE  NodeAt(nodes[k].path) = nodes[k]
  <2>1. \A j \in DOMAIN nodes : nodes[j].path = nodes[k].path => j = k
    BY DEF WalkInv, Laid
  <2>2. (CHOOSE j \in DOMAIN nodes : nodes[j].path = nodes[k].path) = k
    BY <2>1
  <2>3. QED BY <2>2 DEF NodeAt
<1>5. \A p \in DOMAIN walked : \E k \in DOMAIN nodes : nodes[k].path = p
  BY DEF WalkInv, Laid
<1>6. Paths(nodes) \in [1..Len(nodes) -> Seq(Names)]
  BY <1>2, <1>3 DEF Paths
<1>7. QED BY <1>2, <1>3, <1>4, <1>5, <1>6

\* A node's path is one of the tree's.
LEMMA PathWalked ==
  ASSUME WalkInv, NEW i \in DOMAIN nodes
  PROVE  nodes[i].path \in DOMAIN walked /\ nodes[i].dir = walked[nodes[i].path].dir
BY DEF WalkInv, Laid

\* The parent of a node is a directory, the root that of itself.
LEMMA ParentIs ==
  ASSUME WalkInv, NEW i \in DOMAIN nodes
  PROVE  LET p == IF nodes[i].path = <<>> THEN <<>> ELSE Parent(nodes[i].path)
         IN  \E j \in DOMAIN nodes : nodes[j].path = p /\ (p # nodes[i].path \/ i = j)
                                     /\ (nodes[i].path # <<>> => nodes[j].dir)
                                     /\ NodeAt(p) = nodes[j] /\ ParentEntry(nodes[i]) = nodes[j].fe
<1> DEFINE p == IF nodes[i].path = <<>> THEN <<>> ELSE Parent(nodes[i].path)
<1>1. nodes[i].path \in DOMAIN walked /\ <<>> \in DOMAIN walked
  BY PathWalked DEF WalkInv, WalkOK
<1>2. p \in DOMAIN walked /\ (nodes[i].path # <<>> => walked[p].dir)
  BY <1>1 DEF WalkInv, ClosedTree
<1>3. PICK j \in DOMAIN nodes : nodes[j].path = p
  BY <1>2, NodesAre
<1>4. NodeAt(p) = nodes[j]
  BY <1>3, NodesAre
<1>5. nodes[i].path # <<>> => nodes[j].dir
  BY <1>2, <1>3, PathWalked
<1>6. ParentEntry(nodes[i]) = nodes[j].fe
  BY <1>4 DEF ParentEntry
<1>7. p = nodes[i].path => i = j
  BY <1>3 DEF WalkInv, Laid
<1>8. QED BY <1>3, <1>4, <1>5, <1>6, <1>7

EntrySet == [name : Names \cup {0}, fe : Nat, dir : BOOLEAN]
Kid(m) == [name |-> Last(m.path), fe |-> m.fe, dir |-> m.dir]
KidsAt(path) == ChildrenAt(Paths(nodes), path)

\* The positions of a directory's children.
LEMMA KidsAre ==
  ASSUME WalkInv, NEW path
  PROVE  /\ KidsAt(path) \in SUBSET (1..Len(nodes))
         /\ \A k \in DOMAIN nodes : k \in KidsAt(path) <=> nodes[k].path # <<>> /\ Parent(nodes[k].path) = path
         /\ \A k \in KidsAt(path) : Last(nodes[k].path) \in Names /\ Kid(nodes[k]) \in EntrySet
<1>1. DOMAIN nodes = 1..Len(nodes) /\ Len(nodes) \in Nat /\ \A k \in DOMAIN nodes : nodes[k].path \in Seq(Names)
  BY NodesAre
<1>2. DOMAIN Paths(nodes) = DOMAIN nodes /\ \A k \in DOMAIN nodes : Paths(nodes)[k] = nodes[k].path
  BY DEF Paths
<1>3. KidsAt(path) = {k \in DOMAIN nodes : nodes[k].path # <<>> /\ Parent(nodes[k].path) = path}
  BY <1>2 DEF KidsAt, ChildrenAt
<1>4. ASSUME NEW k \in KidsAt(path)
      PROVE  Last(nodes[k].path) \in Names /\ Kid(nodes[k]) \in EntrySet
  <2>1. k \in DOMAIN nodes /\ nodes[k].path # <<>> /\ nodes[k].path \in Seq(Names)
    BY <1>1, <1>3
  <2>2. Len(nodes[k].path) \in 1..Len(nodes[k].path)
    BY <2>1, LenProperties, EmptySeq
  <2>3. Last(nodes[k].path) \in Names
    BY <2>1, <2>2, ElementOfSeq DEF Last
  <2>4. nodes[k].fe \in Nat /\ nodes[k].dir \in BOOLEAN
    BY <2>1, NodesAre
  <2>5. QED BY <2>3, <2>4 DEF Kid, EntrySet
<1>5. QED BY <1>1, <1>3, <1>4

\* What a directory's descriptors are of: its parent first, then its children.
IsDirectory(ents, n) ==
  /\ ents \in Seq(EntrySet) /\ Len(ents) = 1 + Cardinality(KidsAt(n.path))
  /\ ents[1] = [name |-> 0, fe |-> ParentEntry(n), dir |-> TRUE]
  /\ \A k \in 1..Cardinality(KidsAt(n.path)) : ents[k + 1] = Kid(nodes[Positions(KidsAt(n.path))[k]])

\* writeDirEntry names the parent, then each child.
LEMMA DirEntriesAre ==
  ASSUME WalkInv, NEW i \in DOMAIN nodes
  PROVE  IsDirectory(DirEntries(nodes[i]), nodes[i])
<1> DEFINE n == nodes[i]
           keep == KidsAt(n.path)
           c == Cardinality(keep)
           kids == Kids(n)
           first == [name |-> 0, fe |-> ParentEntry(n), dir |-> TRUE]
           rest == [k \in 1..Len(kids) |-> [name |-> Last(kids[k].path), fe |-> kids[k].fe, dir |-> kids[k].dir]]
<1>1. /\ keep \in SUBSET (1..Len(nodes)) /\ Len(nodes) \in Nat
      /\ \A k \in keep : Kid(nodes[k]) \in EntrySet
  BY KidsAre, NodesAre
<1>2. kids = Selected(nodes, keep)
  BY DEF Kids, KidsAt, Paths
<1>3. c \in Nat /\ Positions(keep) \in [1..c -> keep] /\ Picks(kids, nodes, keep)
  <2> HIDE DEF keep, kids
  <2>1. QED BY <1>1, <1>2, SelectedIs
<1>4. Len(kids) = c /\ \A k \in 1..c : kids[k] = nodes[Positions(keep)[k]]
  BY <1>3 DEF Picks
<1>5. ParentEntry(n) \in Nat
  <2>1. PICK j \in DOMAIN nodes : ParentEntry(n) = nodes[j].fe
    BY ParentIs
  <2>2. QED BY <2>1, NodesAre
<1>6. first \in EntrySet
  BY <1>5 DEF EntrySet
<1>7. DirEntries(n) = <<first>> \o rest
  BY DEF DirEntries
<1> HIDE DEF keep, kids, first
<1>8. \A k \in 1..c : rest[k] = Kid(nodes[Positions(keep)[k]]) /\ rest[k] \in EntrySet
  <2>1. TAKE k \in 1..c
  <2>2. rest[k] = Kid(kids[k])
    BY <1>4 DEF Kid
  <2>3. Positions(keep)[k] \in keep
    BY <1>3
  <2> HIDE DEF rest
  <2>4. QED BY <1>1, <1>4, <2>2, <2>3
<1>9. rest \in Seq(EntrySet) /\ Len(rest) = c
  <2>1. rest \in [1..c -> EntrySet]
    BY <1>4, <1>8
  <2> HIDE DEF rest
  <2>2. QED BY <1>3, <2>1, IsASeq, LenProperties
<1> HIDE DEF rest
<1> DEFINE ents == <<first>> \o rest
<1>10. /\ ents \in Seq(EntrySet) /\ Len(ents) = 1 + c
       /\ \A k \in 1..(1 + c) : ents[k] = IF k <= 1 THEN first ELSE rest[k - 1]
  <2>1. <<first>> \in Seq(EntrySet) /\ Len(<<first>>) = 1 /\ <<first>>[1] = first
    BY <1>6
  <2>2. \A k \in 1..(1 + c) : k <= 1 => k = 1
    BY <1>3
  <2>3. QED BY <1>3, <1>9, <2>1, <2>2, ConcatProperties
<1> HIDE DEF ents
<1>11. ents[1] = first
  BY <1>3, <1>10
<1>12. \A k \in 1..c : ents[k + 1] = rest[k]
  <2>1. TAKE k \in 1..c
  <2>2. k + 1 \in 1..(1 + c) /\ ~(k + 1 <= 1) /\ (k + 1) - 1 = k
    BY <1>3
  <2>3. QED BY <1>10, <2>2
<1>13. QED BY <1>7, <1>8, <1>10, <1>11, <1>12 DEF IsDirectory, ents, first, keep

\* The cells of a directory.
Heads == {FidHead(name, fe, dir, loc) : name \in Names \cup {0}, fe \in Nat, dir \in BOOLEAN, loc \in Nat}
Cells == {More} \cup Heads

\* One descriptor is as long as it says, and begins with its head.
IsFid(s, e, loc) ==
  /\ s \in Seq(Cells) /\ Len(s) = FidLen(e.name)
  /\ s[1] = FidHead(e.name, e.fe, e.dir, loc)

\* appendFID writes the descriptor it was given.
LEMMA FidIs ==
  ASSUME NEW e \in EntrySet, NEW loc \in Nat
  PROVE  IsFid(Fid(e.name, e.fe, e.dir, loc), e, loc)
<1> DEFINE h == FidHead(e.name, e.fe, e.dir, loc)
           l == FidLen(e.name)
           s == Fid(e.name, e.fe, e.dir, loc)
<1>0. e.name \in Names \cup {0} /\ e.fe \in Nat /\ e.dir \in BOOLEAN
  BY DEF EntrySet
<1>1. h \in Cells /\ More \in Cells
  BY <1>0 DEF Cells, Heads
<1>2. l \in Nat \ {0}
  BY <1>0, FidLenIs
<1>3. s = [i \in 1..l |-> IF i = 1 THEN h ELSE More]
  BY DEF Fid
<1> HIDE DEF h, l, s
<1>4. s \in [1..l -> Cells] /\ s[1] = h
  BY <1>1, <1>2, <1>3
<1>5. s \in Seq(Cells) /\ Len(s) = l
  BY <1>2, <1>4, IsASeq, LenProperties
<1>6. QED BY <1>4, <1>5 DEF h, l, s, IsFid

\* Where each descriptor begins in the cells of a directory.
Streams(cells, off, ents, lb) ==
  /\ cells \in Seq(Cells) /\ Len(cells) = off[Len(ents)]
  /\ off \in [0..Len(ents) -> Nat] /\ off[0] = 0
  /\ \A k \in 1..Len(ents) : off[k] = off[k-1] + FidLen(ents[k].name)
  /\ \A k \in 1..Len(ents) :
       cells[off[k-1] + 1] = FidHead(ents[k].name, ents[k].fe, ents[k].dir, lb + off[k-1] \div SectorSize)

\* The descriptors of a list of entries, one after another.
LEMMA StreamIs ==
  ASSUME NEW n, n.lb \in Nat, DirEntries(n) \in Seq(EntrySet)
  PROVE  \E off : Streams(DirFidStream(n), off, DirEntries(n), n.lb)
<1> DEFINE ents == DirEntries(n)
           N == Len(ents)
           lb == n.lb
           At(k, l) == lb + l \div SectorSize
           F(k, l) == Fid(ents[k].name, ents[k].fe, ents[k].dir, At(k, l))
           f == CHOOSE g : g = [k \in 0..Len(ents) |->
                  IF k = 0 THEN <<>>
                  ELSE LET buf == g[k-1]
                       IN  buf \o Fid(ents[k].name, ents[k].fe, ents[k].dir, n.lb + Len(buf) \div SectorSize)]
<1> HIDE DEF f
<1>1. N \in Nat /\ \A k \in 1..N : ents[k] \in EntrySet
  BY LenProperties, ElementOfSeq
<1>2. \A k \in 1..N : ents[k].name \in Names \cup {0} /\ ents[k].fe \in Nat /\ ents[k].dir \in BOOLEAN
  BY <1>1 DEF EntrySet
<1>3. DirFidStream(n) = f[N]
  BY DEF DirFidStream, f
<1>4. \A l \in Nat : l \div SectorSize \in Nat /\ lb + l \div SectorSize \in Nat
  <2>1. SectorSize \in Nat \ {0} /\ lb \in Nat
    BY UdfAssumption
  <2>2. TAKE l \in Nat
  <2> DEFINE x == l \div SectorSize
  <2>3. x \in Nat
    BY <2>1, DivBounds
  <2> HIDE DEF x, lb
  <2>4. x \in Nat /\ lb + x \in Nat
    BY <2>1, <2>3
  <2>5. QED BY <2>4 DEF x
<1> HIDE DEF ents, N, lb
<1>5. \A k \in 1..N : \A l \in Nat : At(k, l) \in Nat /\ IsFid(F(k, l), ents[k], At(k, l))
  <2>1. TAKE k \in 1..N
  <2>2. TAKE l \in Nat
  <2> DEFINE a == At(k, l)
             x == ents[k]
  <2>3. a \in Nat
    BY <1>4
  <2>4. x \in EntrySet
    BY <1>1
  <2> HIDE DEF a, x, At
  <2>5. IsFid(Fid(x.name, x.fe, x.dir, a), x, a)
    BY <2>3, <2>4, FidIs
  <2>6. QED BY <2>3, <2>5 DEF a, x
<1> HIDE DEF F
<1>6. \A g, k : Fid(ents[k].name, ents[k].fe, ents[k].dir, lb + Len(g) \div SectorSize) = F(k, Len(g))
  BY DEF F
<1>7. f = [k \in 0..N |-> IF k = 0 THEN <<>> ELSE f[k-1] \o F(k, Len(f[k-1]))]
  <2> DEFINE step == [x \in Nat \X Seq(Cells) |-> IF x[1] \in 1..N THEN x[2] \o F(x[1], Len(x[2])) ELSE <<>>]
  <2>1. step \in [Nat \X Seq(Cells) -> Seq(Cells)]
    <3>1. ASSUME NEW x \in Nat \X Seq(Cells), x[1] \in 1..N
          PROVE  x[2] \o F(x[1], Len(x[2])) \in Seq(Cells)
      <4>1. x[2] \in Seq(Cells) /\ Len(x[2]) \in Nat
        BY LenProperties
      <4>2. F(x[1], Len(x[2])) \in Seq(Cells)
        BY <1>5, <3>1, <4>1 DEF IsFid
      <4>3. QED BY <4>1, <4>2, ConcatProperties
    <3>2. QED BY <3>1
  <2>2. \A k \in 1..N : \A s \in Seq(Cells) : step[<<k, s>>] = s \o F(k, Len(s))
    <3>1. \A k \in 1..N : k \in Nat
      BY <1>1
    <3>2. QED BY <3>1
  <2> HIDE DEF step
  <2>3. <<>> \in Seq(Cells)
    OBVIOUS
  <2>4. PICK g \in [0..N -> Seq(Cells)] : IsIterate(g, <<>>, step, N)
    BY <1>1, <2>1, <2>3, Iterates
  <2>5. \A k \in 0..N : k # 0 => k \in 1..N /\ k - 1 \in 0..N
    BY <1>1
  <2>6. \A k \in 0..N : k # 0 => step[<<k, g[k-1]>>] = g[k-1] \o F(k, Len(g[k-1]))
    BY <2>2, <2>5
  <2>7. g = [k \in 0..N |-> IF k = 0 THEN <<>> ELSE g[k-1] \o F(k, Len(g[k-1]))]
    BY <2>4, <2>6 DEF IsIterate
  <2>8. \E h : h = [k \in 0..N |-> IF k = 0 THEN <<>> ELSE h[k-1] \o F(k, Len(h[k-1]))]
    BY <2>7
  <2>9. \E h : h = [k \in 0..Len(ents) |->
                  IF k = 0 THEN <<>>
                  ELSE LET buf == h[k-1]
                       IN  buf \o Fid(ents[k].name, ents[k].fe, ents[k].dir, n.lb + Len(buf) \div SectorSize)]
    BY ZenonT(30), <2>8 DEF F, At, N, lb
  <2>10. QED BY ZenonT(30), <2>9 DEF f, F, At, N, lb
<1>8. f[0] = <<>> /\ \A k \in 1..N : f[k] = f[k-1] \o F(k, Len(f[k-1]))
  <2>1. 0 \in 0..N /\ \A k \in 1..N : k \in 0..N /\ k # 0
    BY <1>1
  <2>2. QED BY <1>7, <2>1
<1> DEFINE off == [k \in 0..N |-> Len(f[k])]
           First(k) == FidHead(ents[k].name, ents[k].fe, ents[k].dir, lb + off[k-1] \div SectorSize)
           T == {k \in 0..N : /\ f[k] \in Seq(Cells)
                              /\ \A j \in 1..k : off[j-1] + 1 \in 1..Len(f[k]) /\ f[k][off[j-1] + 1] = First(j)}
<1>9. \A k \in 0..N : off[k] = Len(f[k])
  OBVIOUS
<1> HIDE DEF off, First
<1>10. 0 \in T
  <2>1. f[0] \in Seq(Cells) /\ \A j \in 1..0 : FALSE
    BY <1>8
  <2>2. QED BY <1>1, <2>1
<1>11. ASSUME NEW k \in 1..N, k - 1 \in T
       PROVE  k \in T /\ off[k] = off[k-1] + FidLen(ents[k].name) /\ off[k-1] \in Nat /\ off[k] \in Nat
  <2> DEFINE g == f[k-1]
             l == Len(g)
             w == F(k, l)
             m == FidLen(ents[k].name)
  <2>1. k - 1 \in 0..N /\ k \in 0..N /\ k \in Nat
    BY <1>1
  <2>2. g \in Seq(Cells) /\ l \in Nat /\ off[k-1] = l
    BY <1>9, <1>11, <2>1, LenProperties
  <2>3. w \in Seq(Cells) /\ Len(w) = m /\ w[1] = FidHead(ents[k].name, ents[k].fe, ents[k].dir, At(k, l))
    <3> HIDE DEF g, l
    <3>1. IsFid(w, ents[k], At(k, l))
      BY <1>5, <2>2
    <3>2. QED BY <3>1 DEF IsFid
  <2>4. m \in Nat \ {0}
    BY <1>2, FidLenIs
  <2>5. f[k] = g \o w
    BY <1>8
  <2>6. First(k) = w[1]
    BY <2>2, <2>3 DEF First
  <2>7. \A j \in 1..(k - 1) : off[j-1] + 1 \in 1..l /\ g[off[j-1] + 1] = First(j)
    BY <1>11
  <2> HIDE DEF g, l, w, m, At
  <2>8. /\ g \o w \in Seq(Cells) /\ Len(g \o w) = l + m
        /\ \A i \in 1..(l + m) : (g \o w)[i] = IF i <= l THEN g[i] ELSE w[i - l]
    BY <2>2, <2>3, ConcatProperties, ZenonT(60) DEF l
  <2> DEFINE h == f[k]
  <2>9. h \in Seq(Cells) /\ Len(h) = l + m /\ \A i \in 1..(l + m) : h[i] = IF i <= l THEN g[i] ELSE w[i - l]
    BY <2>5, <2>8
  <2>10. off[k] = l + m
    BY <1>9, <2>1, <2>9
  <2> HIDE DEF h
  <2>11. ASSUME NEW j \in 1..k
         PROVE  off[j-1] + 1 \in 1..(l + m) /\ h[off[j-1] + 1] = First(j)
    <3>1. CASE j = k
      <4>1. l + 1 \in 1..(l + m) /\ ~(l + 1 <= l) /\ (l + 1) - l = 1
        BY <2>2, <2>4
      <4>2. h[l + 1] = w[1]
        BY <2>9, <4>1
      <4>3. QED BY <2>2, <2>6, <3>1, <4>1, <4>2
    <3>2. CASE j # k
      <4>1. j \in 1..(k - 1)
        BY <2>1, <3>2
      <4>2. off[j-1] + 1 \in 1..l /\ g[off[j-1] + 1] = First(j)
        BY <2>7, <4>1
      <4> DEFINE x == off[j-1] + 1
      <4>3. x \in 1..l /\ g[x] = First(j)
        BY <4>2
      <4> HIDE DEF x
      <4>4. x \in 1..(l + m) /\ x <= l
        BY <2>2, <2>4, <4>3
      <4>5. h[x] = g[x]
        BY <2>9, <4>4
      <4>6. QED BY <4>3, <4>4, <4>5 DEF x
    <3>3. QED BY <3>1, <3>2
  <2>12. k \in T
    BY <2>1, <2>9, <2>11 DEF h
  <2>13. QED BY <2>2, <2>4, <2>10, <2>12 DEF m
<1>12. \A k \in 0..N : k \in T
  <2> HIDE DEF T
  <2>1. QED BY <1>1, <1>10, <1>11, UpTo
<1>13. \A k \in 0..N : off[k] \in Nat /\ f[k] \in Seq(Cells)
  BY <1>9, <1>12, LenProperties
<1>14. \A k \in 1..N : off[k] = off[k-1] + FidLen(ents[k].name)
  <2>1. TAKE k \in 1..N
  <2>2. k - 1 \in T
    <3>1. k - 1 \in 0..N
      BY <1>1
    <3> HIDE DEF T
    <3>2. QED BY <1>12, <3>1
  <2> HIDE DEF T
  <2>3. QED BY <1>11, <2>2
<1>15. off[0] = 0
  <2>1. 0 \in 0..N
    BY <1>1
  <2>2. QED BY <1>8, <1>9, <2>1
<1>16. N \in 0..N /\ \A j \in 1..N : f[N][off[j-1] + 1] = First(j)
  BY <1>1, <1>12
<1>17. off \in [0..N -> Nat]
  BY <1>13 DEF off
<1>18. off[N] = Len(f[N])
  BY <1>9, <1>16
<1>19. Streams(f[N], off, ents, lb)
  BY <1>13, <1>14, <1>15, <1>16, <1>17, <1>18 DEF Streams, First, N
<1>20. QED BY <1>3, <1>19 DEF ents, lb

\* A directory's descriptors take the bytes that were reserved for them.
LEMMA DirectoryIs ==
  ASSUME WalkInv, NEW i \in DOMAIN nodes, nodes[i].dir
  PROVE  \E off : /\ Streams(DirFidStream(nodes[i]), off, DirEntries(nodes[i]), nodes[i].lb)
                  /\ Len(DirFidStream(nodes[i])) = nodes[i].len
<1> DEFINE n == nodes[i]
           ents == DirEntries(n)
           keep == KidsAt(n.path)
           c == Cardinality(keep)
           paths == Paths(nodes)
           pos == Positions(keep)
<1>1. IsDirectory(ents, n)
  BY DirEntriesAre
<1>2. n.lb \in Nat /\ ents \in Seq(EntrySet) /\ Len(ents) = 1 + c
  BY <1>1, NodesAre DEF IsDirectory
<1>3. PICK off : Streams(DirFidStream(n), off, ents, n.lb)
  BY <1>2, StreamIs
<1>4. /\ keep \in SUBSET (1..Len(nodes)) /\ Len(nodes) \in Nat /\ DOMAIN nodes = 1..Len(nodes)
      /\ paths \in [1..Len(nodes) -> Seq(Names)]
  BY KidsAre, NodesAre
<1>5. c \in Nat /\ pos \in [1..c -> keep]
  <2> HIDE DEF keep
  <2>1. QED BY <1>4, SelectedIs
<1>6. FidLen(0) \in Nat
  BY FidLenIs
<1>7. keep = ChildrenAt(paths, n.path)
  BY DEF KidsAt
<1>8. PICK sum : FidSums(sum, paths, keep, c, FidLen(0)) /\ FidBytes(paths, n.path, FidLen(0)) = sum[c]
  <2> DEFINE m == Len(nodes)
             path == n.path
             first == FidLen(0)
  <2>1. m \in Nat /\ paths \in [1..m -> Seq(Names)] /\ first \in Nat /\ keep = ChildrenAt(paths, path)
    BY <1>4, <1>6, <1>7
  <2>2. c = Cardinality(keep)
    OBVIOUS
  <2> HIDE DEF keep, c, paths, n, m, path, first
  <2>3. \E sum : FidSums(sum, paths, keep, c, first) /\ FidBytes(paths, path, first) = sum[c]
    BY <2>1, <2>2, FidBytesSteps
  <2>4. QED BY <2>3 DEF path, first
<1>9. n.len = sum[c]
  <2>1. n.len = DirFidBytes(paths, n.path)
    BY DEF WalkInv, Laid
  <2>2. QED BY <1>8, <2>1 DEF DirFidBytes
<1>10. off[1] = sum[0]
  <2>1. ents[1].name = 0 /\ 1 \in 1..Len(ents) /\ 1 - 1 = 0
    BY <1>1, <1>2, <1>5 DEF IsDirectory
  <2> HIDE DEF ents
  <2>2. off[1] = off[0] + FidLen(0) /\ off[0] = 0
    BY <1>3, <2>1 DEF Streams
  <2>3. QED BY <1>6, <1>8, <2>2 DEF FidSums
<1>11. \A k \in 1..c : off[k + 1] = off[k] + FidLen(Last(paths[pos[k]]))
  <2>1. TAKE k \in 1..c
  <2>2. k + 1 \in 1..Len(ents) /\ (k + 1) - 1 = k
    BY <1>2, <1>5
  <2>3. off[k + 1] = off[k] + FidLen(ents[k + 1].name)
    <3> HIDE DEF ents
    <3>1. QED BY <1>3, <2>2 DEF Streams
  <2>4. ents[k + 1] = Kid(nodes[pos[k]])
    BY <1>1 DEF IsDirectory
  <2>5. ents[k + 1].name = Last(nodes[pos[k]].path)
    BY <2>4 DEF Kid
  <2>6. pos[k] \in DOMAIN nodes
    BY <1>4, <1>5
  <2>7. paths[pos[k]] = nodes[pos[k]].path
    BY <2>6 DEF Paths
  <2>8. QED BY <2>3, <2>5, <2>7
<1> HIDE DEF n, ents, keep, c, paths, pos
<1> DEFINE T == {k \in 0..c : off[k + 1] = sum[k]}
<1>12. 0 \in T
  BY <1>5, <1>10
<1>13. \A k \in 1..c : k - 1 \in T => k \in T
  <2>1. TAKE k \in 1..c
  <2>2. HAVE k - 1 \in T
  <2>3. off[k] = sum[k-1] /\ k \in 0..c
    BY <1>5, <2>2
  <2>4. sum[k] = sum[k-1] + FidLen(Last(paths[pos[k]]))
    BY <1>8 DEF FidSums, pos
  <2>5. off[k + 1] = off[k] + FidLen(Last(paths[pos[k]]))
    BY <1>11
  <2>6. QED BY <2>3, <2>4, <2>5
<1> HIDE DEF T
<1>14. c \in T
  <2>1. \A k \in 0..c : k \in T
    BY <1>5, <1>12, <1>13, UpTo
  <2>2. QED BY <1>5, <2>1
<1>15. Len(DirFidStream(n)) = n.len
  <2>1. off[c + 1] = sum[c]
    BY <1>14 DEF T
  <2>2. Len(DirFidStream(n)) = off[Len(ents)] /\ Len(ents) = c + 1
    BY <1>2, <1>3, <1>5 DEF Streams
  <2>3. QED BY <1>9, <2>1, <2>2
<1>16. QED BY <1>3, <1>15 DEF n, ents

\* The descriptors of a directory are inside it, one after another.
LEMMA StreamBounds ==
  ASSUME NEW cells, NEW off, NEW ents \in Seq(EntrySet), NEW lb, Streams(cells, off, ents, lb)
  PROVE  \A k \in 1..Len(ents) :
           /\ off[k-1] \in Nat /\ off[k] \in Nat /\ FidLen(ents[k].name) \in Nat \ {0}
           /\ off[k] = off[k-1] + FidLen(ents[k].name) /\ off[k-1] < off[k] /\ off[k] <= Len(cells)
           /\ off[k-1] + FidHeader <= Len(cells) /\ k <= off[k]
<1> DEFINE N == Len(ents)
<1>1. N \in Nat /\ \A k \in 1..N : ents[k].name \in Names \cup {0}
  <2>1. N \in Nat /\ \A k \in 1..N : ents[k] \in EntrySet
    BY LenProperties, ElementOfSeq
  <2>2. \A e \in EntrySet : e.name \in Names \cup {0}
    BY DEF EntrySet
  <2>3. QED BY <2>1, <2>2
<1>2. off \in [0..N -> Nat] /\ off[0] = 0 /\ Len(cells) = off[N] /\ \A k \in 1..N : off[k] = off[k-1] + FidLen(ents[k].name)
  BY DEF Streams
<1> HIDE DEF N
<1>3. \A k \in 1..N : /\ off[k-1] \in Nat /\ off[k] \in Nat /\ FidLen(ents[k].name) \in Nat \ {0}
                      /\ off[k-1] < off[k] /\ off[k-1] + FidHeader <= off[k]
  <2>1. TAKE k \in 1..N
  <2>2. k - 1 \in 0..N /\ k \in 0..N
    BY <1>1
  <2>3. off[k-1] \in Nat /\ off[k] \in Nat
    BY <1>2, <2>2
  <2>4. FidLen(ents[k].name) \in Nat \ {0} /\ FidHeader <= FidLen(ents[k].name)
    BY <1>1, FidLenIs
  <2>5. off[k] = off[k-1] + FidLen(ents[k].name) /\ FidHeader \in Nat
    BY <1>2, UdfAssumption
  <2>6. QED BY <2>3, <2>4, <2>5
<1> DEFINE T == {k \in 0..N : k <= off[k] /\ \A j \in 0..k : off[j] <= off[k]}
<1>4. 0 \in T
  BY <1>1, <1>2
<1>5. \A k \in 1..N : k - 1 \in T => k \in T
  <2>1. TAKE k \in 1..N
  <2>2. HAVE k - 1 \in T
  <2>3. k \in 0..N /\ k - 1 \in Nat /\ off[k-1] \in Nat /\ off[k] \in Nat /\ off[k-1] < off[k]
    BY <1>1, <1>3
  <2>4. k - 1 <= off[k-1] /\ \A j \in 0..(k - 1) : off[j] <= off[k-1]
    BY <2>2
  <2>5. ASSUME NEW j \in 0..k
        PROVE  off[j] <= off[k]
    <3>1. CASE j = k
      BY <2>3, <3>1
    <3>2. CASE j # k
      <4>1. j \in 0..(k - 1) /\ j \in 0..N
        BY <1>1, <2>3, <3>2
      <4>2. off[j] <= off[k-1] /\ off[j] \in Nat
        BY <1>2, <2>4, <4>1
      <4>3. QED BY <2>3, <4>2
    <3>3. QED BY <3>1, <3>2
  <2>6. k <= off[k]
    BY <2>3, <2>4
  <2>7. QED BY <2>3, <2>5, <2>6
<1> HIDE DEF T
<1>6. \A k \in 0..N : k \in T
  BY <1>1, <1>4, <1>5, UpTo
<1>7. \A k \in 1..N : k <= off[k] /\ off[k] <= off[N]
  <2>1. TAKE k \in 1..N
  <2>2. k \in 0..N /\ N \in 0..N
    BY <1>1
  <2>3. k \in T /\ N \in T
    BY <1>6, <2>2
  <2>4. QED BY <2>2, <2>3 DEF T
<1>8. ASSUME NEW k \in 1..N
      PROVE  off[k-1] + FidHeader <= Len(cells) /\ off[k] <= Len(cells)
  <2>1. N \in 0..N
    BY <1>1
  <2>2. off[k-1] \in Nat /\ off[k] \in Nat /\ off[N] \in Nat /\ FidHeader \in Nat
    BY <1>2, <1>3, <2>1, UdfAssumption
  <2>3. off[k-1] + FidHeader <= off[k] /\ off[k] <= off[N] /\ Len(cells) = off[N]
    BY <1>2, <1>3, <1>7
  <2>4. QED BY <2>2, <2>3
<1>9. QED BY <1>2, <1>3, <1>7, <1>8 DEF N

\* The names that are as long when they are counted as when they are encoded,
\* and whose length is within a byte.
NamesFit == \A name \in Names : EncodedLen(name) = DcharsLen(name) /\ EncodedLen(name) < ByteRange

\* A descriptor is as long as its reader takes it to be.
LEMMA SpanIs ==
  ASSUME NamesFit, NEW name \in Names \cup {0}, NEW fe, NEW dir, NEW loc
  PROVE  FidSpan(FidHead(name, fe, dir, loc)) = FidLen(name) /\ FidHead(name, fe, dir, loc).len = FidLen(name)
         /\ FidHead(name, fe, dir, loc).head
<1>1. EncodedLen(name) = DcharsLen(name) /\ EncodedLen(name) < ByteRange /\ DcharsLen(name) \in Nat
  <2>1. DcharsLen(name) \in Nat
    BY FidLenIs
  <2>2. CASE name \in Names
    BY <2>1, <2>2 DEF NamesFit
  <2>3. CASE name = 0
    BY <2>3 DEF DcharsLen, EncodedLen, ByteRange
  <2>4. QED BY <2>2, <2>3, <2>1
<1>2. EncodedLen(name) % ByteRange = DcharsLen(name)
  <2> DEFINE x == EncodedLen(name)
  <2>1. x \in Nat /\ x < 256
    BY <1>1 DEF ByteRange
  <2> HIDE DEF x
  <2>2. x % 256 = x
    BY <2>1
  <2>3. QED BY <1>1, <2>2 DEF x, ByteRange
<1>3. FidHead(name, fe, dir, loc).lfi = DcharsLen(name)
  BY <1>2 DEF FidHead
<1>4. QED BY <1>3 DEF FidHead, FidSpan, FidLen

\* What the reader finds in a directory: the heads of its descriptors.
HeadOf(e, lb, at) == FidHead(e.name, e.fe, e.dir, lb + at \div SectorSize)

\* The strict reader finds the descriptors that were written, in their order.
LEMMA ParseIs ==
  ASSUME NamesFit, NEW cells, NEW off, NEW ents \in Seq(EntrySet), NEW lb, Streams(cells, off, ents, lb)
  PROVE  /\ ParseFids(cells).ok /\ DOMAIN ParseFids(cells).fids = 1..Len(ents)
         /\ \A k \in 1..Len(ents) : ParseFids(cells).fids[k] = HeadOf(ents[k], lb, off[k-1])
<1> DEFINE N == Len(ents)
           L == Len(cells)
           Step(s) == IF ~s.ok \/ s.off + FidHeader > Len(cells) THEN s
                      ELSE IF ~cells[s.off + 1].head \/ s.off + FidSpan(cells[s.off + 1]) > Len(cells)
                              \/ cells[s.off + 1].len > FidSpan(cells[s.off + 1])
                      THEN [s EXCEPT !.ok = FALSE]
                      ELSE [ok |-> TRUE, off |-> s.off + FidSpan(cells[s.off + 1]), fids |-> Append(s.fids, cells[s.off + 1])]
           f == CHOOSE g : g = [k \in 0..L |-> IF k = 0 THEN [ok |-> TRUE, off |-> 0, fids |-> <<>>] ELSE Step(g[k-1])]
           Fids(k) == [j \in 1..k |-> cells[off[j-1] + 1]]
           At(k) == [ok |-> TRUE, off |-> off[k], fids |-> Fids(k)]
           Found(k) == IF k <= N THEN At(k) ELSE At(N)
<1>1. ParseFids(cells) = f[L]
  BY DEF ParseFids
<1> HIDE DEF f
<1>2. /\ N \in Nat /\ off[0] = 0 /\ off[N] = L /\ L \in Nat
      /\ \A k \in 1..N : cells[off[k-1] + 1] = HeadOf(ents[k], lb, off[k-1]) /\ ents[k].name \in Names \cup {0}
  <2>1. N \in Nat /\ \A k \in 1..N : ents[k].name \in Names \cup {0}
    <3>1. N \in Nat /\ \A k \in 1..N : ents[k] \in EntrySet
      BY LenProperties, ElementOfSeq
    <3>2. \A e \in EntrySet : e.name \in Names \cup {0}
      BY DEF EntrySet
    <3>3. QED BY <3>1, <3>2
  <2>2. L \in Nat
    BY LenProperties DEF Streams
  <2>3. QED BY <2>1, <2>2 DEF Streams, HeadOf
<1>3. \A k \in 1..N :
           /\ off[k-1] \in Nat /\ off[k] \in Nat /\ FidLen(ents[k].name) \in Nat \ {0}
           /\ off[k] = off[k-1] + FidLen(ents[k].name) /\ off[k-1] < off[k] /\ off[k] <= L
           /\ off[k-1] + FidHeader <= L /\ k <= off[k]
  BY StreamBounds
<1>4. N <= L
  <2>1. CASE N = 0
    BY <1>2, <2>1
  <2>2. CASE N # 0
    <3>1. N \in 1..N
      BY <1>2, <2>2
    <3>2. QED BY <1>2, <1>3, <3>1
  <2>3. QED BY <2>1, <2>2
<1>5. \A k \in 1..N : Step(At(k-1)) = At(k)
  <2>1. TAKE k \in 1..N
  <2> DEFINE s == At(k-1)
             a == off[k-1]
             h == cells[a + 1]
             l == FidLen(ents[k].name)
  <2>2. s.ok /\ s.off = a /\ s.fids = Fids(k-1)
    OBVIOUS
  <2>3. h.head /\ FidSpan(h) = l /\ h.len = l
    <3>1. h = HeadOf(ents[k], lb, a) /\ ents[k].name \in Names \cup {0}
      BY <1>2
    <3> HIDE DEF h, l, a
    <3>2. QED BY <3>1, SpanIs DEF HeadOf, l
  <2>4. a \in Nat /\ l \in Nat /\ a + l = off[k] /\ a + l <= L /\ a + FidHeader <= L
    BY <1>3
  <2>5. Append(Fids(k-1), h) = Fids(k)
    <3>1. k \in Nat \ {0}
      BY <1>2
    <3> DEFINE X == {cells[off[j-1] + 1] : j \in 1..k}
    <3>2. Fids(k-1) \in [1..(k-1) -> X] /\ Fids(k) \in [1..k -> X] /\ h \in X
      BY <3>1
    <3>3. \A j \in 1..(k-1) : Fids(k-1)[j] = Fids(k)[j]
      BY <3>1
    <3>4. Fids(k)[k] = h
      BY <3>1
    <3> HIDE DEF Fids, h, X
    <3>5. Fids(k-1) \in Seq(X) /\ Len(Fids(k-1)) = k - 1 /\ Fids(k) \in Seq(X) /\ Len(Fids(k)) = k
      <4>1. k - 1 \in Nat /\ k \in Nat
        BY <3>1
      <4>2. Fids(k-1) \in Seq(X) /\ Fids(k) \in Seq(X)
        BY <3>2, <4>1, IsASeq
      <4>3. DOMAIN Fids(k-1) = 1..(k-1) /\ DOMAIN Fids(k) = 1..k
        BY <3>2
      <4>4. QED BY <4>1, <4>2, <4>3, LenProperties
    <3> DEFINE y == Append(Fids(k-1), h)
    <3>6. y \in Seq(X) /\ Len(y) = k /\ y[k] = h /\ \A j \in 1..(k-1) : y[j] = Fids(k-1)[j]
      <4>1. Len(y) = k /\ y \in Seq(X)
        BY <3>1, <3>2, <3>5, AppendProperties
      <4>2. QED BY <3>1, <3>2, <3>5, <4>1, AppendProperties
    <3> HIDE DEF y
    <3>7. \A j \in 1..k : y[j] = Fids(k)[j]
      <4>1. TAKE j \in 1..k
      <4>2. j = k \/ j \in 1..(k - 1)
        BY <3>1
      <4>3. QED BY <3>3, <3>4, <3>6, <4>2
    <3>8. y = Fids(k)
      BY <3>5, <3>6, <3>7, SeqEqual
    <3>9. QED BY <3>8 DEF y
  <2> HIDE DEF h, l, Fids
  <2>6. ~(a + FidHeader > L) /\ ~(a + l > L) /\ ~(h.len > FidSpan(h))
    BY <2>3, <2>4, UdfAssumption
  <2>7. Step(s) = [ok |-> TRUE, off |-> a + l, fids |-> Append(Fids(k-1), h)]
    <3> HIDE DEF s, a
    <3>1. QED BY <2>2, <2>3, <2>6 DEF h
  <2>8. QED BY <2>4, <2>5, <2>7
<1>6. Step(At(N)) = At(N)
  <2>1. At(N).ok /\ At(N).off = L
    BY <1>2
  <2>2. L + FidHeader > L
    BY <1>2, UdfAssumption
  <2> HIDE DEF At
  <2>3. QED BY <2>1, <2>2
<1> HIDE DEF At, Step
<1>7. \A k \in 1..L : Found(k) = Step(Found(k-1))
  <2>1. TAKE k \in 1..L
  <2>2. CASE k <= N
    <3>1. k \in 1..N /\ k - 1 <= N
      BY <1>2, <2>2
    <3>2. QED BY <1>5, <2>2, <3>1
  <2>3. CASE ~(k <= N)
    <3>1. k - 1 <= N => k - 1 = N
      BY <1>2, <2>3
    <3>2. QED BY <1>6, <2>3, <3>1
  <2>4. QED BY <2>2, <2>3
<1>8. Found(0) = [ok |-> TRUE, off |-> 0, fids |-> <<>>]
  <2>1. Fids(0) = <<>>
    <3>1. DOMAIN Fids(0) = {}
      OBVIOUS
    <3>2. QED BY <3>1
  <2>2. QED BY <1>2, <2>1 DEF At
<1> HIDE DEF Found
<1>9. \E g : g = [k \in 0..L |-> IF k = 0 THEN [ok |-> TRUE, off |-> 0, fids |-> <<>>] ELSE Step(g[k-1])]
  <2> DEFINE g == [k \in 0..L |-> Found(k)]
  <2>1. \A k \in 0..L : k # 0 => k \in 1..L /\ k - 1 \in 0..L
    BY <1>2
  <2>2. \A k \in 0..L : k # 0 => g[k-1] = Found(k-1)
    BY <2>1
  <2>3. \A k \in 0..L : Found(k) = IF k = 0 THEN [ok |-> TRUE, off |-> 0, fids |-> <<>>] ELSE Step(g[k-1])
    <3> HIDE DEF g
    <3>1. QED BY <1>7, <1>8, <2>1, <2>2
  <2>4. g = [k \in 0..L |-> IF k = 0 THEN [ok |-> TRUE, off |-> 0, fids |-> <<>>] ELSE Step(g[k-1])]
    <3>1. g = [k \in 0..L |-> Found(k)]
      OBVIOUS
    <3> HIDE DEF g
    <3>2. QED BY <2>3, <3>1
  <2> HIDE DEF g
  <2>5. QED BY <2>4
<1>10. f = [k \in 0..L |-> IF k = 0 THEN [ok |-> TRUE, off |-> 0, fids |-> <<>>] ELSE Step(f[k-1])]
  BY ZenonT(30), <1>9 DEF f, Step
<1> DEFINE T == {k \in 0..L : f[k] = Found(k)}
<1>11. 0 \in T
  BY <1>2, <1>8, <1>10
<1>12. \A k \in 1..L : k - 1 \in T => k \in T
  <2>1. TAKE k \in 1..L
  <2>2. HAVE k - 1 \in T
  <2>3. f[k-1] = Found(k-1) /\ k \in 0..L /\ k # 0
    BY <1>2, <2>2
  <2>4. f[k] = Step(f[k-1])
    BY <1>10, <2>3
  <2>5. QED BY <1>7, <2>3, <2>4
<1> HIDE DEF T
<1>13. f[L] = At(N)
  <2>1. \A k \in 0..L : k \in T
    BY <1>2, <1>11, <1>12, UpTo
  <2>2. L \in T
    BY <1>2, <2>1
  <2>3. L <= N => L = N
    BY <1>2, <1>4
  <2>4. QED BY <2>2, <2>3 DEF T, Found
<1>14. QED BY <1>1, <1>2, <1>13 DEF At

--------------------------------------------------------------------------------
(* Extents. *)

\* The longest extent is a number of whole sectors.
LEMMA MaxExtentIs ==
  MaxExtent \in Nat \ {0} /\ MaxExtent % SectorSize = 0 /\ MaxExtent < LenLimit
<1>1. SectorSize \in Nat \ {0} /\ LenLimit \in Nat /\ LenLimit > SectorSize /\ LenLimit % SectorSize = 0
  BY UdfAssumption
<1>2. MaxExtent \in Nat \ {0} /\ MaxExtent < LenLimit
  BY <1>1 DEF MaxExtent
<1>3. MaxExtent % SectorSize = 0
  <2> DEFINE m == SectorSize
             d == LenLimit \div m
             e == d - 1
  <2>1. d \in Nat /\ LenLimit = d * m /\ m \in Nat \ {0}
    BY <1>1
  <2> HIDE DEF d, m
  <2>2. d # 0
    BY <1>1, <2>1
  <2>3. e \in Nat
    BY <2>1, <2>2
  <2>4. e * m = d * m - m
    BY <2>1, <2>2
  <2> HIDE DEF e
  <2>5. MaxExtent = e * SectorSize
    BY <2>1, <2>4 DEF MaxExtent, m
  <2>6. SectorSize \in Nat /\ SectorSize % SectorSize = 0 /\ 0 % SectorSize = 0
    BY <1>1
  <2>7. \A i \in Nat : (e * SectorSize + i) % SectorSize = i % SectorSize
    BY <2>3, <2>6, WholeBlocks
  <2>8. (e * SectorSize + 0) % SectorSize = 0
    BY <2>6, <2>7
  <2>9. MaxExtent + 0 = MaxExtent
    BY <1>2
  <2>10. QED BY <2>5, <2>8, <2>9
<1>4. QED BY <1>2, <1>3

\* Where the extents of a file begin and how long they are; the last one ends
\* where the file does.
Cuts(exts, cut, n, len, lb) ==
  /\ n \in Nat /\ cut \in [0..n -> 0..len] /\ cut[0] = 0 /\ cut[n] = len
  /\ DOMAIN exts = 1..n /\ (len = 0 <=> n = 0)
  /\ \A k \in 1..n : /\ cut[k-1] \in Nat /\ cut[k] \in Nat /\ cut[k-1] < cut[k]
                     /\ cut[k-1] = (k - 1) * MaxExtent /\ cut[k] - cut[k-1] <= MaxExtent
                     /\ exts[k] = [raw |-> cut[k] - cut[k-1], block |-> lb + Blocks((k - 1) * MaxExtent)]

\* splitExtents cuts a file into extents that lie one after another.
LEMMA ExtentsAre ==
  ASSUME NEW len \in Nat, NEW lb \in Nat
  PROVE  \E cut : \E n : Cuts(Extents(len, lb), cut, n, len, lb)
<1> DEFINE M == MaxExtent
           n == (len + M - 1) \div M
           b == n * M
           At(k) == k * M
           cut == [k \in 0..n |-> IF k = n THEN len ELSE At(k)]
           exts == Extents(len, lb)
<1>1. M \in Nat \ {0} /\ len + M - 1 \in Nat
  BY MaxExtentIs
<1> HIDE DEF M
<1>2. n \in Nat /\ b <= len + M - 1 /\ len + M - 1 < b + M
  <2> DEFINE a == len + M - 1
  <2>1. a \in Nat
    BY <1>1
  <2>2. n = a \div M
    OBVIOUS
  <2> HIDE DEF a, n
  <2>3. n \in Nat /\ n * M <= a /\ a < n * M + M
    BY <1>1, <2>1, <2>2, DivBounds
  <2>4. QED BY <2>3 DEF a
<1>3. exts = [k \in 1..n |-> [raw |-> Min({M, len - (k - 1) * M}), block |-> lb + Blocks((k - 1) * M)]]
  BY DEF Extents, M
<1> HIDE DEF n, exts
<1>4. b \in Nat /\ \A k \in Nat : At(k) \in Nat
  BY <1>1, <1>2, Multiples
<1>5. \A k \in 1..n : At(k-1) \in Nat /\ At(k) \in Nat /\ At(k) = At(k-1) + M /\ At(k) <= b
  <2>1. TAKE k \in 1..n
  <2>2. k - 1 \in Nat /\ k \in Nat /\ k <= n
    BY <1>2
  <2>3. At(k-1) \in Nat /\ At(k) \in Nat /\ At(k) <= b
    BY <1>1, <1>2, <2>2, Multiples
  <2>4. \A x \in Nat : \A m \in Nat \ {0} : x # 0 => (x - 1) * m + m = x * m
    OBVIOUS
  <2>5. (k - 1) * M + M = k * M
    BY <1>1, <2>2, <2>4
  <2>6. QED BY <2>3, <2>5
<1>6. \A k \in 1..n : k < n => At(k) + M <= b
  <2>1. TAKE k \in 1..n
  <2>2. HAVE k < n
  <2>3. k \in Nat
    BY <1>2
  <2>4. QED BY <1>1, <1>2, <2>2, <2>3, Multiples
<1>7. At(n) = b /\ At(0) = 0
  BY <1>1
<1> HIDE DEF b, At
<1>8. \A k \in 1..n : At(k-1) < len /\ (k < n => At(k) < len)
  <2>1. TAKE k \in 1..n
  <2>2. At(k) = At(k-1) + M /\ At(k) <= b /\ At(k-1) \in Nat
    BY <1>5
  <2>3. At(k-1) < len
    BY <1>1, <1>2, <1>4, <2>2
  <2>4. k < n => At(k) < len
    BY <1>1, <1>2, <1>4, <1>5, <1>6
  <2>5. QED BY <2>3, <2>4
<1>9. len = 0 <=> n = 0
  <2>1. CASE n = 0
    <3>1. b = 0
      BY <1>7, <2>1
    <3>2. QED BY <1>1, <1>2, <2>1, <3>1
  <2>2. CASE n # 0
    <3>1. n \in 1..n
      BY <1>2, <2>2
    <3>2. At(n-1) < len /\ At(n-1) \in Nat
      BY <1>5, <1>8, <3>1
    <3>3. QED BY <2>2, <3>2
  <2>3. QED BY <2>1, <2>2
<1>10. \A k \in 1..n : cut[k-1] = At(k-1)
  <2>1. TAKE k \in 1..n
  <2>2. k - 1 \in 0..n /\ k - 1 # n
    BY <1>2
  <2>3. QED BY <2>2
<1>11. \A k \in 1..n : cut[k] \in Nat /\ cut[k] <= len /\ cut[k] = IF k = n THEN len ELSE At(k)
  <2>1. TAKE k \in 1..n
  <2>2. k \in 0..n /\ (k # n => k < n)
    BY <1>2
  <2>3. cut[k] = IF k = n THEN len ELSE At(k)
    BY <2>2
  <2> HIDE DEF cut
  <2>4. QED BY <1>5, <1>8, <2>2, <2>3
<1>12. cut[n] = len /\ cut[0] = 0
  <2>1. n \in 0..n /\ 0 \in 0..n
    BY <1>2
  <2>2. QED BY <1>7, <1>9, <2>1
<1>13. cut \in [0..n -> 0..len]
  <2>1. \A k \in 0..n : (IF k = n THEN len ELSE At(k)) \in 0..len
    <3>1. TAKE k \in 0..n
    <3>2. k = n \/ k = 0 \/ (k \in 1..n /\ k < n)
      BY <1>2
    <3>3. CASE k = n
      BY <3>3
    <3>4. CASE k = 0
      BY <1>7, <3>4
    <3>5. CASE k \in 1..n /\ k < n
      BY <1>5, <1>8, <3>5
    <3>6. QED BY <3>2, <3>3, <3>4, <3>5
  <2>2. QED BY <2>1
<1> HIDE DEF cut
<1>14. ASSUME NEW k \in 1..n
       PROVE  cut[k-1] < cut[k] /\ cut[k] - cut[k-1] <= M /\ Min({M, len - At(k-1)}) = cut[k] - cut[k-1]
  <2>1. At(k-1) \in Nat /\ At(k-1) < len /\ cut[k-1] = At(k-1) /\ M \in Int /\ len - At(k-1) \in Int
    BY <1>1, <1>5, <1>8, <1>10
  <2>2. Min({M, len - At(k-1)}) = IF M <= len - At(k-1) THEN M ELSE len - At(k-1)
    BY <2>1, MinOfTwo
  <2>3. CASE k = n
    <3>1. cut[k] = len /\ At(k) = b /\ At(k) = At(k-1) + M
      BY <1>5, <1>7, <1>11, <2>3
    <3>2. len <= At(k-1) + M
      BY <1>1, <1>2, <1>4, <2>1, <3>1
    <3>3. QED BY <1>1, <2>1, <2>2, <3>1, <3>2
  <2>4. CASE k # n
    <3>1. k < n
      BY <1>2, <2>4
    <3>2. cut[k] = At(k) /\ At(k) < len /\ At(k) = At(k-1) + M
      BY <1>5, <1>8, <1>11, <2>4, <3>1
    <3>3. QED BY <1>1, <2>1, <2>2, <3>2
  <2>5. QED BY <2>3, <2>4
<1>15. ASSUME NEW k \in 1..n
       PROVE  exts[k] = [raw |-> cut[k] - cut[k-1], block |-> lb + Blocks((k - 1) * M)]
  <2>1. exts[k] = [raw |-> Min({M, len - At(k-1)}), block |-> lb + Blocks((k - 1) * M)]
    BY <1>3 DEF At
  <2>2. QED BY <1>14, <2>1
<1>16. DOMAIN exts = 1..n
  BY <1>3
<1>17. \A k \in 1..n : cut[k-1] \in Nat /\ cut[k] \in Nat /\ cut[k-1] = (k - 1) * M
  BY <1>5, <1>10, <1>11 DEF At
<1>18. Cuts(exts, cut, n, len, lb)
  BY <1>2, <1>9, <1>12, <1>13, <1>14, <1>15, <1>16, <1>17 DEF Cuts, M
<1>19. QED BY <1>18 DEF exts

\* The cells of a file or a directory are on the image at a block.
CellsOn(img, kind, lb, cells) ==
  \A i \in 1..Len(cells) :
     /\ SectorOf(img, LbnPartition + lb + (i - 1) \div SectorSize)[1] = kind
     /\ SectorOf(img, LbnPartition + lb + (i - 1) \div SectorSize)[3][((i - 1) % SectorSize) + 1] = cells[i]

\* One extent of them.
LEMMA ReadAtIs ==
  ASSUME NEW S, NEW cells \in Seq(S), NEW lb \in Nat, NEW img, NEW kind, CellsOn(img, kind, lb, cells),
         NEW j \in Nat, NEW a, a = j * MaxExtent, NEW b \in 0..Len(cells), a <= b,
         NEW sector, sector = LbnPartition + (lb + Blocks(j * MaxExtent))
  PROVE  ReadAt(img, kind, sector, b - a) = SubSeq(cells, a + 1, b)
<1> DEFINE r == ReadAt(img, kind, sector, b - a)
           s == SubSeq(cells, a + 1, b)
           B == Blocks(j * MaxExtent)
           len == b - a
<1>1. Len(cells) \in Nat /\ LbnPartition \in Nat
  BY LenProperties DEF LbnPartition
<1>2. a \in Nat /\ b \in Nat /\ b <= Len(cells) /\ len \in Nat
  <2>1. a \in Nat
    BY MaxExtentIs, Multiples
  <2>2. QED BY <1>1, <2>1
<1>3. /\ B \in Nat /\ \A i \in Nat : (a + i) \div SectorSize = B + (i \div SectorSize)
      /\ \A i \in Nat : (a + i) % SectorSize = i % SectorSize
  <2>1. MaxExtent \in Nat /\ MaxExtent % SectorSize = 0
    BY MaxExtentIs
  <2>2. /\ Blocks(j * MaxExtent) \in Nat
        /\ \A i \in Nat : (j * MaxExtent + i) \div SectorSize = Blocks(j * MaxExtent) + (i \div SectorSize)
        /\ \A i \in Nat : (j * MaxExtent + i) % SectorSize = i % SectorSize
    BY <2>1, WholeBlocks
  <2>3. QED BY <2>2
<1>4. s \in Seq(S) /\ Len(s) = len /\ \A i \in 1..len : s[i] = cells[a + i]
  <2>1. a + 1 \in 1..(b + 1)
    BY <1>2
  <2>2. \A i \in 1..len : (a + 1) + i - 1 = a + i
    BY <1>2
  <2>3. CASE len = 0
    BY <1>1, <1>2, <2>3
  <2>4. CASE len # 0
    BY SMTT(20), <1>1, <1>2, <2>4
  <2>5. QED BY <2>3, <2>4
<1>5. r = [i \in 1..len |-> IF SectorOf(img, sector + (i - 1) \div SectorSize)[1] = kind
                            THEN SectorOf(img, sector + (i - 1) \div SectorSize)[3][((i - 1) % SectorSize) + 1]
                            ELSE ZeroCell(kind)]
  BY DEF ReadAt
<1> HIDE DEF r, s, B, len
<1>6. ASSUME NEW i \in 1..len
      PROVE  r[i] = s[i]
  <2> DEFINE q == (i - 1) \div SectorSize
             m == (i - 1) % SectorSize
             t == a + i
             x == SectorOf(img, sector + q)
  <2>1. i - 1 \in Nat /\ t \in 1..Len(cells) /\ t - 1 = a + (i - 1)
    BY <1>1, <1>2 DEF len
  <2>2. q \in Nat
    BY <2>1, UdfAssumption, DivBounds
  <2>3. (t - 1) \div SectorSize = B + q /\ (t - 1) % SectorSize = m
    <3>1. (a + (i - 1)) \div SectorSize = B + q /\ (a + (i - 1)) % SectorSize = m
      BY <1>3, <2>1
    <3> HIDE DEF q, m, t
    <3>2. QED BY <2>1, <3>1
  <2>4. r[i] = IF x[1] = kind THEN x[3][m + 1] ELSE ZeroCell(kind)
    BY <1>5
  <2>5. /\ SectorOf(img, LbnPartition + lb + (t - 1) \div SectorSize)[1] = kind
        /\ SectorOf(img, LbnPartition + lb + (t - 1) \div SectorSize)[3][((t - 1) % SectorSize) + 1] = cells[t]
    <3> HIDE DEF t
    <3>1. QED BY <2>1 DEF CellsOn
  <2> HIDE DEF q, m, x, t
  <2>6. LbnPartition + lb + (t - 1) \div SectorSize = sector + q
    <3>1. LbnPartition + lb + (B + q) = (LbnPartition + (lb + B)) + q
      BY <1>1, <1>3, <2>2
    <3>2. sector = LbnPartition + (lb + B)
      BY DEF B
    <3>3. QED BY <2>3, <3>1, <3>2
  <2>7. x[1] = kind /\ x[3][m + 1] = cells[t]
    BY <2>3, <2>5, <2>6 DEF x
  <2>8. r[i] = cells[t]
    BY <2>4, <2>7
  <2>9. QED BY <1>4, <2>8 DEF t
<1>7. r = s
  <2>1. r = [i \in 1..len |-> s[i]]
    BY <1>5, <1>6
  <2>2. s = [i \in 1..len |-> s[i]]
    BY <1>4
  <2>3. QED BY <2>1, <2>2
<1>8. QED BY <1>7 DEF r, s, len

\* All of them, one extent after another.
LEMMA EntryDataIs ==
  ASSUME NEW S, NEW cells \in Seq(S), NEW lb \in Nat, NEW img, NEW kind, CellsOn(img, kind, lb, cells),
         NEW fe, fe.exts = Extents(Len(cells), lb)
  PROVE  EntryData(img, LbnPartition, kind, fe) = cells
<1> DEFINE len == Len(cells)
           exts == Extents(len, lb)
           Part(k) == ReadAt(img, kind, LbnPartition + exts[k].block, exts[k].raw % LenLimit)
<1>1. len \in Nat
  BY LenProperties
<1>2. PICK cut : \E n : Cuts(exts, cut, n, len, lb)
  BY <1>1, ExtentsAre
<1>3. PICK n : Cuts(exts, cut, n, len, lb)
  BY <1>2
<1>4. EntryData(img, LbnPartition, kind, fe) =
      FlattenSeq([k \in DOMAIN exts |-> IF exts[k].raw \div LenLimit # 0 THEN <<>> ELSE Part(k)])
  BY DEF EntryData
<1> HIDE DEF len, exts
<1>5. ASSUME NEW k \in 1..n
      PROVE  /\ exts[k].raw \div LenLimit = 0
             /\ Part(k) = SubSeq(cells, cut[k-1] + 1, cut[k])
  <2> DEFINE j == k - 1
             a == cut[k-1]
             b == cut[k]
             raw == b - a
             block == lb + Blocks(j * MaxExtent)
             sector == LbnPartition + block
  <2>1. a \in Nat /\ b \in Nat /\ a < b /\ a = j * MaxExtent /\ raw <= MaxExtent /\ n \in Nat
    BY <1>3 DEF Cuts
  <2>2. exts[k].raw = raw /\ exts[k].block = block
    BY <1>3 DEF Cuts
  <2>3. b \in 0..len
    <3>1. k \in 0..n
      BY <2>1
    <3>2. QED BY <1>3, <3>1 DEF Cuts
  <2>4. raw \in Nat /\ raw < LenLimit /\ LenLimit \in Nat \ {0} /\ j \in Nat
    <3>1. j \in Nat /\ MaxExtent \in Nat /\ MaxExtent < LenLimit /\ LenLimit \in Nat \ {0}
      BY <2>1, MaxExtentIs, UdfAssumption
    <3> HIDE DEF a, b, j
    <3>2. QED BY <2>1, <3>1
  <2> HIDE DEF a, b, j
  <2>5. raw \div LenLimit = 0 /\ raw % LenLimit = raw
    <3> HIDE DEF raw
    <3>1. QED BY <2>4
  <2>6. a <= b
    BY <2>1
  <2>7. sector = LbnPartition + (lb + Blocks(j * MaxExtent))
    OBVIOUS
  <2> HIDE DEF sector
  <2>8. ReadAt(img, kind, sector, b - a) = SubSeq(cells, a + 1, b)
    BY <2>1, <2>3, <2>4, <2>6, <2>7, ReadAtIs, SMTT(30) DEF len
  <2>9. QED BY <2>2, <2>5, <2>8 DEF sector, a, b
<1> HIDE DEF Part
<1>6. [k \in DOMAIN exts |-> IF exts[k].raw \div LenLimit # 0 THEN <<>> ELSE Part(k)]
      = [k \in 1..n |-> SubSeq(cells, cut[k-1] + 1, cut[k])]
  <2>1. DOMAIN exts = 1..n
    BY <1>3 DEF Cuts
  <2>2. QED BY <1>5, <2>1
<1>7. CASE n = 0
  <2> DEFINE ss == [k \in 1..n |-> SubSeq(cells, cut[k-1] + 1, cut[k])]
  <2>1. ss = <<>>
    <3>1. 1..n = {}
      BY <1>7
    <3>2. DOMAIN ss = {}
      BY <3>1
    <3>3. QED BY <3>2
  <2> HIDE DEF ss
  <2>2. <<>> \in Seq(Seq(S)) /\ DOMAIN <<>> = {}
    OBVIOUS
  <2>3. FlattenSeq(<<>>) \in Seq(S) /\ ToSet(FlattenSeq(<<>>)) = {}
    BY <2>2, FlattenIsUnion, ZenonT(60)
  <2>4. FlattenSeq(<<>>) = <<>>
    BY <2>3, Elements
  <2>5. cells = <<>>
    <3>1. len = 0
      BY <1>3, <1>7 DEF Cuts
    <3>2. QED BY <3>1, EmptySeq DEF len
  <2>6. QED BY <1>4, <1>6, <2>1, <2>4, <2>5 DEF ss
<1>8. CASE n # 0
  <2>1. n \in Nat \ {0} /\ cut \in [0..n -> 0..Len(cells)] /\ cut[0] = 0 /\ cut[n] = Len(cells)
        /\ \A k \in 1..n : cut[k-1] <= cut[k]
    BY <1>3, <1>8 DEF Cuts, len
  <2>2. FlattenSeq([k \in 1..n |-> SubSeq(cells, cut[k-1] + 1, cut[k])]) = cells
    BY <2>1, SlicesJoin
  <2>3. QED BY <1>4, <1>6, <2>2
<1>9. QED BY <1>7, <1>8

--------------------------------------------------------------------------------
(* Directories of media trees. *)

\* The beginning of a path, and the beginning of that.
LEMMA PrefixIs ==
  ASSUME NEW S, NEW q \in Seq(S), NEW n \in 0..Len(q)
  PROVE  /\ SubSeq(q, 1, n) \in Seq(S) /\ Len(SubSeq(q, 1, n)) = n
         /\ \A i \in 1..n : SubSeq(q, 1, n)[i] = q[i]
         /\ \A m \in 0..n : SubSeq(SubSeq(q, 1, n), 1, m) = SubSeq(q, 1, m)
<1>1. Len(q) \in Nat /\ n \in Nat /\ 1 \in Int /\ n \in Int
  BY LenProperties
<1>2. \A k \in 0..Len(q) : /\ SubSeq(q, 1, k) \in Seq(S) /\ Len(SubSeq(q, 1, k)) = k
                           /\ \A i \in 1..k : SubSeq(q, 1, k)[i] = q[i]
  <2>1. TAKE k \in 0..Len(q)
  <2>2. k \in Int /\ 1 \in Int /\ \A i \in 1..k : q[i] \in S
    BY <1>1, ElementOfSeq
  <2>3. /\ SubSeq(q, 1, k) \in Seq(S) /\ Len(SubSeq(q, 1, k)) = (IF 1 <= k THEN k - 1 + 1 ELSE 0)
        /\ \A i \in 1..(k - 1 + 1) : SubSeq(q, 1, k)[i] = q[1 + i - 1]
    BY <2>2, SubSeqProperties
  <2>4. k - 1 + 1 = k /\ (~(1 <= k) => k = 0) /\ \A i \in 1..k : 1 + i - 1 = i
    BY <1>1
  <2>5. QED BY <2>3, <2>4
<1>3. ASSUME NEW m \in 0..n
      PROVE  SubSeq(SubSeq(q, 1, n), 1, m) = SubSeq(q, 1, m)
  <2> DEFINE p == SubSeq(q, 1, n)
             a == SubSeq(p, 1, m)
             b == SubSeq(q, 1, m)
  <2>1. p \in Seq(S) /\ Len(p) = n /\ \A i \in 1..n : p[i] = q[i]
    BY <1>2
  <2>2. b \in Seq(S) /\ Len(b) = m /\ \A i \in 1..m : b[i] = q[i]
    <3>1. m \in 0..Len(q)
      BY <1>1
    <3>2. QED BY <1>2, <3>1
  <2> HIDE DEF p, b
  <2>3. m \in Int /\ 1 \in Int /\ \A i \in 1..m : p[i] \in S /\ i \in 1..n
    BY <1>1, <2>1, ElementOfSeq
  <2>4. /\ a \in Seq(S) /\ Len(a) = (IF 1 <= m THEN m - 1 + 1 ELSE 0)
        /\ \A i \in 1..(m - 1 + 1) : a[i] = p[1 + i - 1]
    BY <2>3, SubSeqProperties
  <2> HIDE DEF a
  <2>5. m - 1 + 1 = m /\ (~(1 <= m) => m = 0) /\ \A i \in 1..m : 1 + i - 1 = i
    BY <1>1
  <2>6. Len(a) = m /\ \A i \in 1..m : a[i] = p[i]
    BY <2>4, <2>5
  <2>7. \A i \in 1..m : a[i] = b[i]
    BY <2>1, <2>2, <2>3, <2>6
  <2>8. a = b
    BY <2>2, <2>4, <2>6, <2>7, SeqEqual
  <2>9. QED BY <2>8 DEF a, b, p
<1>4. QED BY <1>2, <1>3

\* The parent of a path is the last of its ancestors, and the ancestors of an
\* ancestor are ancestors.
LEMMA AncestorsOf ==
  ASSUME NEW S, NEW q \in Seq(S)
  PROVE  /\ \A a \in Ancestors(q) : a \in Seq(S) /\ Len(a) < Len(q) /\ Ancestors(a) \subseteq Ancestors(q)
         /\ q # <<>> => /\ Parent(q) = SubSeq(q, 1, Len(q) - 1) /\ Parent(q) \in Ancestors(q)
                        /\ Parent(q) \in Seq(S) /\ Len(Parent(q)) = Len(q) - 1
                        /\ Append(Parent(q), Last(q)) = q /\ Last(q) \in S
<1>1. Len(q) \in Nat
  BY LenProperties
<1>2. ASSUME NEW a \in Ancestors(q)
      PROVE  a \in Seq(S) /\ Len(a) < Len(q) /\ Ancestors(a) \subseteq Ancestors(q)
  <2>1. PICK n \in 0..(Len(q) - 1) : a = SubSeq(q, 1, n)
    BY DEF Ancestors
  <2>2. n \in 0..Len(q) /\ n < Len(q)
    BY <1>1
  <2>3. a \in Seq(S) /\ Len(a) = n
    BY <2>1, <2>2, PrefixIs
  <2>4. ASSUME NEW b \in Ancestors(a)
        PROVE  b \in Ancestors(q)
    <3>1. PICK m \in 0..(Len(a) - 1) : b = SubSeq(a, 1, m)
      BY DEF Ancestors
    <3>2. m \in 0..n /\ m \in 0..(Len(q) - 1)
      BY <1>1, <2>3
    <3>3. b = SubSeq(q, 1, m)
      BY <2>1, <2>2, <3>1, <3>2, PrefixIs
    <3>4. QED BY <3>2, <3>3 DEF Ancestors
  <2>5. QED BY <2>2, <2>3, <2>4
<1>3. ASSUME q # <<>>
      PROVE  /\ Parent(q) = SubSeq(q, 1, Len(q) - 1) /\ Parent(q) \in Ancestors(q)
             /\ Parent(q) \in Seq(S) /\ Len(Parent(q)) = Len(q) - 1
             /\ Append(Parent(q), Last(q)) = q /\ Last(q) \in S
  <2> DEFINE m == Len(q) - 1
             p == Parent(q)
             x == Last(q)
  <2>1. Len(q) # 0
    BY <1>3, EmptySeq
  <2>2. m \in 0..Len(q) /\ m \in 0..(Len(q) - 1) /\ Len(q) \in 1..Len(q) /\ m + 1 = Len(q)
    BY <1>1, <2>1
  <2>3. p = SubSeq(q, 1, m)
    BY DEF Parent, Front
  <2>4. p \in Seq(S) /\ Len(p) = m /\ \A i \in 1..m : p[i] = q[i]
    BY <2>2, <2>3, PrefixIs
  <2>5. p \in Ancestors(q)
    BY <2>2, <2>3 DEF Ancestors
  <2>6. x \in S /\ x = q[m + 1]
    BY <2>2, ElementOfSeq DEF Last
  <2> HIDE DEF p, x
  <2> DEFINE t == Append(p, x)
  <2>7. t \in Seq(S) /\ Len(t) = m + 1 /\ t[m + 1] = x /\ \A i \in 1..m : t[i] = p[i]
    BY <2>4, <2>6, AppendProperties
  <2> HIDE DEF t
  <2>8. \A i \in 1..Len(t) : t[i] = q[i]
    <3>1. \A i \in 1..(m + 1) : i = m + 1 \/ i \in 1..m
      <4>1. m \in Nat
        BY <1>1, <2>2
      <4> HIDE DEF m
      <4>2. QED BY <4>1
    <3>2. QED BY <2>4, <2>6, <2>7, <3>1
  <2>9. t = q
    BY <2>2, <2>7, <2>8, SeqEqual
  <2>10. QED BY <2>3, <2>4, <2>5, <2>6, <2>9 DEF p, x, t
<1>4. QED BY <1>2, <1>3

\* In a tree the ancestors of what is there are there, and directories.
LEMMA AncestorsIn ==
  ASSUME NEW S, NEW tree, DOMAIN tree \subseteq Seq(S), ClosedTree(tree), NEW q \in DOMAIN tree
  PROVE  \A a \in Ancestors(q) : a \in DOMAIN tree /\ tree[a].dir
<1> DEFINE L == Len(q)
           g(k) == SubSeq(q, 1, L - k)
           T == {k \in 0..L : g(k) \in DOMAIN tree /\ (k # 0 => tree[g(k)].dir)}
<1>1. L \in Nat /\ q \in Seq(S)
  BY LenProperties
<1>2. \A k \in 0..L : /\ L - k \in 0..Len(q) /\ g(k) \in Seq(S) /\ Len(g(k)) = L - k
                      /\ \A m \in 0..(L - k) : SubSeq(g(k), 1, m) = SubSeq(q, 1, m)
  <2>1. TAKE k \in 0..L
  <2> DEFINE n == L - k
  <2>2. n \in 0..Len(q)
    BY <1>1
  <2> HIDE DEF n
  <2>3. /\ SubSeq(q, 1, n) \in Seq(S) /\ Len(SubSeq(q, 1, n)) = n
        /\ \A m \in 0..n : SubSeq(SubSeq(q, 1, n), 1, m) = SubSeq(q, 1, m)
    BY <1>1, <2>2, PrefixIs
  <2>4. QED BY <2>2, <2>3 DEF n
<1>3. 0 \in T
  <2>1. 0 \in 0..L /\ L - 0 = L /\ L \in 0..Len(q)
    BY <1>1
  <2>2. g(0) \in Seq(S) /\ Len(g(0)) = Len(q)
    BY <1>2, <2>1
  <2>3. \A i \in 1..Len(g(0)) : g(0)[i] = q[i]
    <3>1. \A i \in 1..L : SubSeq(q, 1, L)[i] = q[i]
      BY <1>1, <2>1, PrefixIs
    <3>2. QED BY <2>1, <2>2, <3>1
  <2>4. g(0) = q
    BY <1>1, <2>2, <2>3, SeqEqual
  <2>5. QED BY <2>1, <2>4
<1>4. \A k \in 1..L : k - 1 \in T => k \in T
  <2>1. TAKE k \in 1..L
  <2>2. HAVE k - 1 \in T
  <2> DEFINE p == g(k-1)
  <2>3. k - 1 \in 0..L /\ k \in 0..L /\ k # 0 /\ L - (k - 1) = (L - k) + 1 /\ L - k \in Nat
    BY <1>1
  <2>4. p \in DOMAIN tree /\ p \in Seq(S) /\ Len(p) = (L - k) + 1
    BY <1>2, <2>2, <2>3
  <2>9. \A m \in 0..((L - k) + 1) : SubSeq(p, 1, m) = SubSeq(q, 1, m)
    BY <1>2, <2>3
  <2> HIDE DEF p, g
  <2>5. p # <<>>
    <3>1. Len(p) # 0
      BY <2>3, <2>4
    <3>2. QED BY <3>1
  <2>6. Parent(p) \in DOMAIN tree /\ tree[Parent(p)].dir /\ Parent(p) = SubSeq(p, 1, Len(p) - 1)
    BY <2>4, <2>5, AncestorsOf DEF ClosedTree
  <2>7. Len(p) - 1 = L - k /\ L - k \in 0..((L - k) + 1)
    BY <2>3, <2>4
  <2>8. Parent(p) = g(k)
    BY <2>6, <2>7, <2>9 DEF g
  <2>10. QED BY <2>3, <2>6, <2>8
<1> HIDE DEF T
<1>5. \A k \in 0..L : k \in T
  BY <1>1, <1>3, <1>4, UpTo
<1>6. ASSUME NEW a \in Ancestors(q)
      PROVE  a \in DOMAIN tree /\ tree[a].dir
  <2>1. PICK n \in 0..(Len(q) - 1) : a = SubSeq(q, 1, n)
    BY DEF Ancestors
  <2>2. L - n \in 0..L /\ L - n # 0 /\ L - (L - n) = n
    BY <1>1
  <2>3. L - n \in T
    BY <1>5, <2>2
  <2>4. QED BY <2>1, <2>2, <2>3 DEF T
<1>7. QED BY <1>6

\* Where a build may have a directory.
KnownDirs == {p \in DOMAIN SetupTree : SetupTree[p].dir} \cup UNION {Ancestors(q) : q \in Outputs}

\* The directories there may be: none of them is where a file may be, and what
\* is above a directory or a file is a directory.
LEMMA KnownAre ==
  /\ KnownDirs \cap Places = {} /\ KnownDirs \cup Places \subseteq Seq(Names)
  /\ \A q \in KnownDirs \cup Places : Ancestors(q) \subseteq KnownDirs
<1>1. DOMAIN SetupTree \subseteq Seq(Names) /\ Outputs \subseteq Seq(Names)
  BY TreeAssumption DEF Names
<1>2. ClosedTree(SetupTree)
  BY TreeAssumption DEF ClosedTree
<1>3. \A q \in DOMAIN SetupTree : Ancestors(q) \subseteq KnownDirs
  BY <1>1, <1>2, AncestorsIn DEF KnownDirs
<1>4. \A q \in Outputs : /\ Ancestors(q) \subseteq KnownDirs
                         /\ \A a \in Ancestors(q) : a \in Seq(Names) /\ Ancestors(a) \subseteq KnownDirs
  <2>1. TAKE q \in Outputs
  <2>2. Ancestors(q) \subseteq KnownDirs
    BY DEF KnownDirs
  <2>3. QED BY <1>1, <2>2, AncestorsOf
<1>5. KnownDirs \cap Places = {}
  <2>1. \A p \in DOMAIN SetupTree : SetupTree[p].dir => p \notin Places
    BY TreeAssumption DEF Places, FilesOf
  <2>2. \A q \in Outputs : Ancestors(q) \cap Places = {}
    BY LayoutAssumption DEF Places
  <2>3. QED BY <2>1, <2>2 DEF KnownDirs
<1>6. KnownDirs \cup Places \subseteq Seq(Names)
  BY <1>1, <1>4 DEF KnownDirs, Places, FilesOf
<1>7. \A q \in KnownDirs \cup Places : Ancestors(q) \subseteq KnownDirs
  <2>1. TAKE q \in KnownDirs \cup Places
  <2>2. q \in DOMAIN SetupTree \/ q \in Outputs \/ \E o \in Outputs : q \in Ancestors(o)
    BY DEF KnownDirs, Places, FilesOf
  <2>3. QED BY <1>3, <1>4, <2>2
<1>8. QED BY <1>5, <1>6, <1>7

\* What is in a tree is a directory or a file where there may be one.
Placed(tree) == \A p \in DOMAIN tree : IF tree[p].dir THEN p \in KnownDirs ELSE p \in Places
Shaped(tree) == Placed(tree) /\ ClosedTree(tree)

\* One such tree over another.
LEMMA ShapedOver ==
  ASSUME NEW f, NEW g, Shaped(f), Shaped(g)
  PROVE  Shaped(Overlay(f, g))
<1> DEFINE t == Overlay(f, g)
<1>1. /\ DOMAIN t = DOMAIN f \cup DOMAIN g /\ \A p \in DOMAIN f : t[p] = f[p]
      /\ \A p \in DOMAIN g \ DOMAIN f : t[p] = g[p]
  BY OverlayIs
<1> HIDE DEF t
<1>2. Placed(t)
  BY <1>1 DEF Placed, Shaped
<1>3. ASSUME NEW p \in DOMAIN t \ {<<>>}
      PROVE  Parent(p) \in DOMAIN t /\ t[Parent(p)].dir
  <2>1. CASE p \in DOMAIN f
    <3>1. Parent(p) \in DOMAIN f /\ f[Parent(p)].dir
      BY <1>3, <2>1 DEF Shaped, ClosedTree
    <3>2. QED BY <1>1, <3>1
  <2>2. CASE p \notin DOMAIN f
    <3>1. Parent(p) \in DOMAIN g /\ g[Parent(p)].dir
      BY <1>1, <1>3, <2>2 DEF Shaped, ClosedTree
    <3>2. Parent(p) \in KnownDirs
      BY <3>1 DEF Shaped, Placed
    <3>3. Parent(p) \in DOMAIN f => f[Parent(p)].dir
      BY <3>2, KnownAre DEF Shaped, Placed
    <3>4. QED BY <1>1, <3>1, <3>3
  <2>3. QED BY <2>1, <2>2
<1>4. QED BY <1>2, <1>3 DEF Shaped, ClosedTree, t

\* Files and directories, with the directories above them.
LEMMA LeftShaped ==
  ASSUME NEW left, Placed(left)
  PROVE  Shaped(Overlay(left, Above(DOMAIN left)))
<1> DEFINE above == Above(DOMAIN left)
           t == Overlay(left, above)
<1>1. DOMAIN above = UNION {Ancestors(p) : p \in DOMAIN left} /\ \A d \in DOMAIN above : above[d] = Dir /\ Dir.dir
  BY DEF Above, Dir
<1>2. \A p \in DOMAIN left : p \in KnownDirs \cup Places
  BY DEF Placed
<1> HIDE DEF above
<1>3. /\ DOMAIN t = DOMAIN left \cup DOMAIN above /\ \A p \in DOMAIN left : t[p] = left[p]
      /\ \A p \in DOMAIN above \ DOMAIN left : t[p] = above[p]
  BY OverlayIs
<1> HIDE DEF t
<1>4. \A p \in DOMAIN above : p \in KnownDirs /\ p \in DOMAIN t /\ t[p].dir
  <2>1. TAKE p \in DOMAIN above
  <2>2. PICK q \in DOMAIN left : p \in Ancestors(q)
    BY <1>1
  <2>3. p \in KnownDirs
    BY <1>2, <2>2, KnownAre
  <2>4. p \in DOMAIN left => left[p].dir
    BY <2>3, KnownAre DEF Placed
  <2>5. QED BY <1>1, <1>3, <2>3, <2>4
<1>5. Placed(t)
  BY <1>3, <1>4 DEF Placed
<1>6. ASSUME NEW p \in DOMAIN t \ {<<>>}
      PROVE  Parent(p) \in DOMAIN t /\ t[Parent(p)].dir
  <2>1. p \in Seq(Names)
    BY <1>2, <1>3, <1>4, KnownAre
  <2>2. Parent(p) \in Ancestors(p)
    BY <1>6, <2>1, AncestorsOf
  <2>3. CASE p \in DOMAIN left
    BY <1>1, <1>4, <2>2, <2>3
  <2>4. CASE p \notin DOMAIN left
    <3>1. PICK q \in DOMAIN left : p \in Ancestors(q)
      BY <1>1, <1>3, <2>4
    <3>2. q \in Seq(Names)
      BY <1>2, KnownAre
    <3>3. Parent(p) \in Ancestors(q)
      BY <2>2, <3>1, <3>2, AncestorsOf
    <3>4. QED BY <1>1, <1>4, <3>3
  <2>5. QED BY <2>3, <2>4
<1>7. QED BY <1>5, <1>6 DEF Shaped, ClosedTree, t, above

\* A file that is written.
LEMMA WriteShaped ==
  ASSUME Shaped(media), NEW p \in Outputs, NEW data
  PROVE  Shaped(Write(p, data))
<1> DEFINE n == Only(p, File(data))
<1>1. DOMAIN n = {p} /\ n[p].dir = FALSE
  BY DEF Only, File
<1>2. Write(p, data) = Overlay(Overlay(n, Above(DOMAIN n)), media)
  BY <1>1 DEF Write
<1> HIDE DEF n
<1>3. Placed(n)
  BY <1>1 DEF Placed, Places
<1>4. QED BY <1>2, <1>3, LeftShaped, ShapedOver

\* The empty tree of a work directory, and the setup tree.
LEMMA EmptyShaped == Shaped(Empty)
<1>1. DOMAIN Empty = {<<>>} /\ Empty[<<>>].dir
  BY DEF Empty, Only, Dir
<1>2. <<>> \in KnownDirs
  BY TreeAssumption DEF KnownDirs
<1>3. QED BY <1>1, <1>2 DEF Shaped, Placed, ClosedTree

\* The setup tree extracted over sources.
LEMMA SetupShaped == Shaped(Overlay(SetupTree, Only(Sources, Dir)))
<1> DEFINE f == SetupTree
           g == Only(Sources, Dir)
           t == Overlay(f, g)
<1>1. DOMAIN g = {Sources} /\ g[Sources].dir
  BY DEF Only, Dir
<1>2. ClosedTree(f) /\ Placed(f)
  BY TreeAssumption DEF ClosedTree, Placed, KnownDirs, Places, FilesOf
<1>3. Sources \in KnownDirs /\ Parent(Sources) = <<>>
  <2>1. BootWim \in Outputs /\ Sources \in Ancestors(BootWim) /\ Len(Sources) = 1
    BY TreeAssumption, PlacesOK
  <2>2. Sources \in KnownDirs
    BY <2>1 DEF KnownDirs
  <2>3. Sources \in Seq(Names)
    BY <2>2, KnownAre
  <2>4. Sources # <<>>
    BY <2>1
  <2>5. Parent(Sources) \in Seq(Names) /\ Len(Parent(Sources)) = 0
    BY <2>1, <2>3, <2>4, AncestorsOf
  <2>6. QED BY <2>2, <2>5, EmptySeq
<1>4. <<>> \in DOMAIN f /\ f[<<>>].dir
  BY TreeAssumption
<1> HIDE DEF f, g
<1>5. /\ DOMAIN t = DOMAIN f \cup DOMAIN g /\ \A p \in DOMAIN f : t[p] = f[p]
      /\ \A p \in DOMAIN g \ DOMAIN f : t[p] = g[p]
  BY OverlayIs
<1> HIDE DEF t
<1>6. Placed(t)
  BY <1>1, <1>2, <1>3, <1>5 DEF Placed
<1>7. ClosedTree(t)
  BY <1>1, <1>2, <1>3, <1>4, <1>5 DEF ClosedTree
<1>8. QED BY <1>6, <1>7 DEF Shaped, t, f, g

\* What a failed step leaves.
LEMMA HalfwayPlaced ==
  ASSUME BuildInv, NEW left \in Halfway
  PROVE  Placed(left)
<1>1. \A p \in Outputs : \A data : Placed(Only(p, File(data)))
  BY DEF Placed, Only, File, Places
<1>2. BootWim \in Outputs /\ InstallWim \in Outputs /\ \A k \in DOMAIN KeyPath : KeyPath[k] \in Outputs
  BY PlacesOK
<1>3. CASE pc = "extract"
  <2>1. Halfway = {<<>>} \cup
                  {[q \in {p \in DOMAIN SetupTree : p \in Ancestors(f) \/ p = f} |->
                     IF q = f THEN File(<<>>) ELSE Dir] : f \in {p \in DOMAIN SetupTree : ~SetupTree[p].dir}}
    BY <1>3 DEF Halfway
  <2>2. CASE left = <<>>
    BY <2>2 DEF Placed
  <2>3. CASE left # <<>>
    <3>1. PICK f \in FilesOf(SetupTree) :
            left = [q \in {p \in DOMAIN SetupTree : p \in Ancestors(f) \/ p = f} |->
                      IF q = f THEN File(<<>>) ELSE Dir]
      BY <2>1, <2>3 DEF FilesOf
    <3>2. \A q \in DOMAIN left : left[q] = (IF q = f THEN File(<<>>) ELSE Dir) /\ (q # f => q \in Ancestors(f))
      BY <3>1
    <3>3. File(<<>>).dir = FALSE /\ Dir.dir = TRUE
      BY DEF File, Dir
    <3>4. f \in Places /\ Ancestors(f) \subseteq KnownDirs
      BY KnownAre DEF Places
    <3> DEFINE file == File(<<>>)
               d == Dir
    <3> HIDE DEF file, d
    <3>5. QED BY <3>2, <3>3, <3>4 DEF Placed
  <2>4. QED BY <2>2, <2>3
<1>4. CASE pc = "boot"
  BY <1>1, <1>2, <1>4 DEF Halfway
<1>5. CASE pc = "install"
  BY <1>1, <1>2, <1>5 DEF Halfway
<1>6. CASE pc = "bypass"
  BY <1>1, <1>2, <1>6 DEF Halfway
<1>7. CASE pc = "extras"
  <2>1. inject \subseteq DOMAIN KeyPath
    BY <1>7 DEF BuildInv, ExtrasInv
  <2>2. QED BY <1>1, <1>2, <1>7, <2>1 DEF Halfway
<1>8. pc \in {"extract", "boot", "install", "bypass", "extras"}
  BY DEF Halfway
<1>9. QED BY <1>3, <1>4, <1>5, <1>6, <1>7, <1>8

\* Every step keeps the media tree in shape.
LEMMA ShapedStep ==
  ASSUME DiscInv, Shaped(media), [Next]_vars
  PROVE  Shaped(media')
<1>1. CASE media' = media
  BY <1>1
<1>2. CASE media' = Empty
  BY <1>2, EmptyShaped
<1>3. CASE BuilderNext
  <2>1. CASE ExtractSetup
    BY <2>1, SetupShaped, ShapedOver DEF ExtractSetup
  <2>2. BootWim \in Outputs /\ InstallWim \in Outputs /\ \A k \in DOMAIN KeyPath : KeyPath[k] \in Outputs
    BY PlacesOK
  <2>3. CASE BuildBootWim
    BY <2>2, <2>3, WriteShaped DEF BuildBootWim
  <2>4. CASE BuildInstallWim
    BY <1>1, <2>2, <2>4, WriteShaped DEF BuildInstallWim
  <2>5. CASE ApplyBypass
    BY <1>1, <2>2, <2>5, WriteShaped DEF ApplyBypass
  <2>6. CASE InjectExtra
    <3>1. inject \subseteq DOMAIN KeyPath
      BY <2>6 DEF InjectExtra, DiscInv, BuildInv, ExtrasInv
    <3>2. PICK k \in inject : media' = Write(KeyPath[k], extras[k])
      BY <2>6 DEF InjectExtra
    <3>3. QED BY <2>2, <3>1, <3>2, WriteShaped
  <2>7. CASE FailBuild
    <3>1. PICK left \in Halfway :
            media' = IF opts.fresh THEN Empty ELSE Overlay(Overlay(left, Above(DOMAIN left)), media)
      BY <2>7 DEF FailBuild
    <3>2. Placed(left)
      BY HalfwayPlaced DEF DiscInv
    <3>3. Shaped(Overlay(left, Above(DOMAIN left)))
      BY <3>2, LeftShaped
    <3>4. Shaped(Overlay(Overlay(left, Above(DOMAIN left)), media))
      BY <3>3, ShapedOver
    <3>5. QED BY <3>1, <3>4, EmptyShaped
  <2>8. CASE \E o \in BuildOptions : StartBuild(o)
    BY <1>1, <1>2, <2>8 DEF StartBuild
  <2>9. CASE Master \/ MasterTree \/ MasterNode
    BY <1>1, <2>9 DEF Master, MasterTree, MasterNode
  <2>10. CASE MasterEnds
    BY <1>1, <1>2, <2>10 DEF MasterEnds, Return
  <2>11. QED BY <1>3, <2>1, <2>3, <2>4, <2>5, <2>6, <2>7, <2>8, <2>9, <2>10 DEF BuilderNext
<1>4. CASE Change
  <2>1. CASE \E c \in Changes : c.path \in DOMAIN media /\ media' = [media EXCEPT ![c.path] = File(c.data)]
    <3>1. PICK c \in Changes : c.path \in DOMAIN media /\ media' = [media EXCEPT ![c.path] = File(c.data)]
      BY <2>1
    <3> DEFINE p == c.path
               n == File(c.data)
    <3>2. p \in Places /\ n.dir = FALSE
      BY ChangesAssumption DEF File
    <3> HIDE DEF n
    <3>3. DOMAIN media' = DOMAIN media /\ \A q \in DOMAIN media : media'[q] = IF q = p THEN n ELSE media[q]
      BY <3>1 DEF n
    <3> HIDE DEF p
    <3>4. Placed(media')
      BY <3>2, <3>3 DEF Shaped, Placed
    <3>5. \A q \in DOMAIN media : media[q].dir => q # p
      BY <3>2, KnownAre DEF Shaped, Placed
    <3>6. ClosedTree(media')
      BY <3>3, <3>5 DEF Shaped, ClosedTree
    <3>7. QED BY <3>4, <3>6 DEF Shaped
  <2>2. CASE \E p \in Removals \cap DOMAIN media : media' = [q \in DOMAIN media \ {p} |-> media[q]]
    <3>1. PICK p \in Removals \cap DOMAIN media : media' = [q \in DOMAIN media \ {p} |-> media[q]]
      BY <2>2
    <3>2. p \in Places
      BY ChangesAssumption
    <3>3. DOMAIN media' = DOMAIN media \ {p} /\ \A q \in DOMAIN media \ {p} : media'[q] = media[q]
      BY <3>1
    <3>4. Placed(media')
      BY <3>3 DEF Shaped, Placed
    <3>5. \A q \in DOMAIN media : media[q].dir => q # p
      BY <3>2, KnownAre DEF Shaped, Placed
    <3>6. ClosedTree(media')
      BY <3>3, <3>5 DEF Shaped, ClosedTree
    <3>7. QED BY <3>4, <3>6 DEF Shaped
  <2>3. QED BY <1>4, <2>1, <2>2 DEF Change
<1>5. CASE RewriteCatalog
  BY <1>1, <1>5 DEF RewriteCatalog
<1>6. CASE \E d \in Disks, o \in UsbOptions : WriteMedia(d, o)
  BY <1>1, <1>6 DEF WriteMedia
<1>7. CASE UNCHANGED vars
  BY <1>1, <1>7 DEF vars
<1>8. QED BY <1>1, <1>3, <1>4, <1>5, <1>6, <1>7 DEF Next

--------------------------------------------------------------------------------
(* What a build finds in the directory, and what it adds. *)

\* A file that was there before, and one that a build writes.
Kept(p) == p \in DOMAIN leftover /\ media[p] = leftover[p]
Made(p) ==
  \/ p \in FilesOf(SetupTree) \/ p = BootWim
  \/ p = InstallWim /\ Editions # <<>>
  \/ pc = "extras" /\ Given(p) # {}

\* There is always a root; and while a build fills the tree, every file of it
\* is one or the other, and nothing was in a directory of the build's own.
LeftInv ==
  /\ <<>> \in DOMAIN media
  /\ pc \in {"extract", "boot", "install", "bypass", "extras"} =>
       /\ opts.fresh => FilesOf(leftover) = {}
       /\ \A p \in FilesOf(media) : Kept(p) \/ Made(p)

\* The files of one tree over another.
LEMMA FilesOver ==
  ASSUME NEW f, NEW g, NEW p \in FilesOf(Overlay(f, g))
  PROVE  p \in FilesOf(f) \/ (p \in FilesOf(g) /\ Overlay(f, g)[p] = g[p])
<1> DEFINE t == Overlay(f, g)
<1>1. /\ DOMAIN t = DOMAIN f \cup DOMAIN g /\ \A q \in DOMAIN f : t[q] = f[q]
      /\ \A q \in DOMAIN g \ DOMAIN f : t[q] = g[q]
  BY OverlayIs
<1>2. p \in DOMAIN t /\ ~t[p].dir
  BY DEF FilesOf
<1> HIDE DEF t
<1>3. QED BY <1>1, <1>2 DEF FilesOf, t

\* A file that is written is the only one that is new.
LEMMA WriteAdds ==
  ASSUME NEW q, NEW data, NEW p \in FilesOf(Write(q, data)), p # q
  PROVE  p \in FilesOf(media) /\ Write(q, data)[p] = media[p]
<1> DEFINE n == Only(q, File(data))
           a == Above({q})
           l == Overlay(n, a)
<1>1. DOMAIN n = {q} /\ \A d \in DOMAIN a : a[d].dir
  BY DEF Only, Above, Dir
<1>2. Write(q, data) = Overlay(l, media)
  BY DEF Write
<1> HIDE DEF n, a
<1>3. p \notin FilesOf(n) /\ p \notin FilesOf(a)
  BY <1>1 DEF FilesOf
<1>4. p \notin FilesOf(l)
  BY <1>3, FilesOver
<1> HIDE DEF l
<1>5. QED BY <1>2, <1>4, FilesOver

\* A step of a build that adds files it makes.
LEMMA LeftGrows ==
  ASSUME LeftInv, pc \in {"extract", "boot", "install", "bypass", "extras"},
         opts' = opts, leftover' = leftover, DOMAIN media \subseteq DOMAIN media',
         \A p : Made(p) => Made(p)',
         \A p \in FilesOf(media') : Made(p)' \/ (p \in FilesOf(media) /\ media'[p] = media[p])
  PROVE  LeftInv'
<1>1. <<>> \in DOMAIN media'
  BY DEF LeftInv
<1>2. opts'.fresh => FilesOf(leftover') = {}
  BY DEF LeftInv
<1>3. ASSUME NEW p \in FilesOf(media')
      PROVE  Kept(p)' \/ Made(p)'
  <2>1. CASE Made(p)'
    BY <2>1
  <2>2. CASE p \in FilesOf(media) /\ media'[p] = media[p]
    <3>1. Kept(p) \/ Made(p)
      BY <2>2 DEF LeftInv
    <3>2. Kept(p) => Kept(p)'
      BY <2>2 DEF Kept
    <3>3. QED BY <3>1, <3>2
  <2>3. QED BY <1>3, <2>1, <2>2
<1>4. QED BY <1>1, <1>2, <1>3 DEF LeftInv

\* Writing one file that is made keeps it.
LEMMA LeftWrites ==
  ASSUME LeftInv, pc \in {"extract", "boot", "install", "bypass", "extras"},
         opts' = opts, leftover' = leftover, \A p : Made(p) => Made(p)',
         NEW q \in Outputs, NEW data \in Seq(Nat), TreeOK(media), media' = Write(q, data), Made(q)'
  PROVE  LeftInv'
<1>1. DOMAIN media \subseteq DOMAIN media'
  BY PlacesOK, WriteIs
<1>2. \A p \in FilesOf(media') : Made(p)' \/ (p \in FilesOf(media) /\ media'[p] = media[p])
  <2>1. TAKE p \in FilesOf(media')
  <2>2. CASE p = q
    BY <2>2
  <2>3. CASE p # q
    BY <2>3, WriteAdds
  <2>4. QED BY <2>2, <2>3
<1>3. QED BY <1>1, <1>2, LeftGrows

\* So do the steps of a build, its beginning and its end.
LEMMA LeftBuild ==
  ASSUME DiscInv, LeftInv, BuilderNext
  PROVE  LeftInv'
<1>1. TreeOK(media) /\ BuildInv
  BY DEF DiscInv, BuildInv
<1>2. BootWim \in Outputs /\ InstallWim \in Outputs
  BY PlacesOK
<1>3. <<>> \in DOMAIN Empty /\ FilesOf(Empty) = {}
  BY DEF Empty, Only, Dir, FilesOf
<1>4. ASSUME pc # "extras"
      PROVE  \A p : Made(p) => Made(p)'
  BY <1>4 DEF Made
<1>5. CASE \E o \in BuildOptions : StartBuild(o)
  <2>1. PICK o \in BuildOptions : StartBuild(o)
    BY <1>5
  <2>2. /\ opts' = o /\ pc' = "extract" /\ leftover' = media'
        /\ media' = IF o.fresh THEN Empty ELSE media
    BY <2>1 DEF StartBuild
  <2>3. <<>> \in DOMAIN media' /\ (opts'.fresh => FilesOf(leftover') = {})
    BY <1>3, <2>2 DEF LeftInv
  <2>4. \A p \in FilesOf(media') : Kept(p)'
    BY <2>2 DEF Kept, FilesOf
  <2>5. QED BY <2>3, <2>4 DEF LeftInv
<1>6. CASE ExtractSetup
  <2> DEFINE d == Only(Sources, Dir)
             t == Overlay(SetupTree, d)
  <2>1. pc = "extract" /\ opts' = opts /\ leftover' = leftover /\ media' = Overlay(t, media)
    BY <1>6 DEF ExtractSetup, Goto
  <2>2. FilesOf(d) = {}
    BY DEF Only, Dir, FilesOf
  <2> HIDE DEF d
  <2>3. \A p \in FilesOf(t) : Made(p)'
    BY <2>2, FilesOver DEF Made
  <2> HIDE DEF t
  <2>4. \A p \in FilesOf(media') : Made(p)' \/ (p \in FilesOf(media) /\ media'[p] = media[p])
    BY <2>1, <2>3, FilesOver
  <2>5. DOMAIN media \subseteq DOMAIN media'
    BY <2>1, OverlayIs
  <2>6. QED BY <1>4, <2>1, <2>4, <2>5, LeftGrows
<1>7. CASE BuildBootWim
  <2> DEFINE wim == Wim(BootImagesOf, Len(BootImagesOf), FALSE)
  <2>1. pc = "boot" /\ opts' = opts /\ leftover' = leftover /\ media' = Write(BootWim, wim)
    BY <1>7 DEF BuildBootWim, Goto
  <2>2. wim \in Seq(Nat) /\ Made(BootWim)'
    BY WimsOK DEF Made
  <2> HIDE DEF wim
  <2>3. QED BY <1>1, <1>2, <1>4, <2>1, <2>2, LeftWrites
<1>8. CASE BuildInstallWim
  <2> DEFINE wim == Wim(Editions, 0, FALSE)
  <2>1. /\ pc = "install" /\ opts' = opts /\ leftover' = leftover
        /\ media' = IF Editions = <<>> THEN media ELSE Write(InstallWim, wim)
    BY <1>8 DEF BuildInstallWim, Goto
  <2>2. wim \in Seq(Nat)
    BY WimsOK
  <2> HIDE DEF wim
  <2>3. CASE Editions = <<>>
    <3>1. media' = media
      BY <2>1, <2>3
    <3>2. QED BY <1>4, <2>1, <3>1, LeftGrows
  <2>4. CASE Editions # <<>>
    <3>1. Made(InstallWim)' /\ media' = Write(InstallWim, wim)
      BY <2>1, <2>4 DEF Made
    <3>2. QED BY <1>1, <1>2, <1>4, <2>1, <2>2, <3>1, LeftWrites
  <2>5. QED BY <2>3, <2>4
<1>9. CASE ApplyBypass
  <2> DEFINE wim == Wim(Editions, 0, TRUE)
  <2>1. /\ pc = "bypass" /\ opts' = opts /\ leftover' = leftover
        /\ media' = IF opts.server /\ Editions # <<>> THEN Write(InstallWim, wim) ELSE media
    BY <1>9 DEF ApplyBypass, Goto
  <2>2. wim \in Seq(Nat)
    BY WimsOK
  <2> HIDE DEF wim
  <2>3. CASE ~(opts.server /\ Editions # <<>>)
    <3>1. media' = media
      BY <2>1, <2>3
    <3>2. QED BY <1>4, <2>1, <3>1, LeftGrows
  <2>4. CASE opts.server /\ Editions # <<>>
    <3>1. Made(InstallWim)' /\ media' = Write(InstallWim, wim)
      BY <2>1, <2>4 DEF Made
    <3>2. QED BY <1>1, <1>2, <1>4, <2>1, <2>2, <3>1, LeftWrites
  <2>5. QED BY <2>3, <2>4
<1>10. CASE InjectExtra
  <2>1. PICK k \in inject : media' = Write(KeyPath[k], extras[k])
    BY <1>10 DEF InjectExtra
  <2>2. /\ pc = "extras" /\ pc' = "extras" /\ opts' = opts /\ leftover' = leftover /\ extras' = extras
    BY <1>10 DEF InjectExtra, Goto
  <2>3. k \in DOMAIN extras /\ DOMAIN extras \subseteq DOMAIN KeyPath /\ extras[k] \in Seq(Nat)
    BY <1>1, <2>2 DEF BuildInv, ExtrasInv
  <2>4. \A p : Given(p)' = Given(p)
    BY <2>2 DEF Given
  <2>5. \A p : Made(p) => Made(p)'
    BY <2>2, <2>4 DEF Made
  <2>6. Made(KeyPath[k])'
    BY <2>2, <2>3, <2>4 DEF Made, Given
  <2>7. KeyPath[k] \in Outputs
    BY <2>3, PlacesOK
  <2>8. QED BY <1>1, <2>1, <2>2, <2>3, <2>5, <2>6, <2>7, LeftWrites
<1>11. CASE Master
  BY <1>11 DEF Master, LeftInv
<1>12. CASE MasterTree \/ MasterNode
  <2>1. UNCHANGED <<media, pc, opts, extras, leftover>>
    BY <1>12 DEF MasterTree, MasterNode, builderVars
  <2>2. \A p : Made(p)' = Made(p) /\ Kept(p)' = Kept(p)
    BY <2>1 DEF Made, Kept, Given
  <2>3. QED BY <2>1, <2>2 DEF LeftInv
<1>13. CASE MasterEnds
  BY <1>3, <1>13 DEF MasterEnds, Return, LeftInv
<1>14. CASE FailBuild
  <2>1. PICK left :
          media' = IF opts.fresh THEN Empty ELSE Overlay(Overlay(left, Above(DOMAIN left)), media)
    BY <1>14 DEF FailBuild
  <2>2. pc' = "idle"
    BY <1>14 DEF FailBuild
  <2>3. <<>> \in DOMAIN media'
    BY <1>3, <2>1, OverlayIs DEF LeftInv
  <2>4. QED BY <2>2, <2>3 DEF LeftInv
<1>15. QED
  BY <1>5, <1>6, <1>7, <1>8, <1>9, <1>10, <1>11, <1>12, <1>13, <1>14 DEF BuilderNext

\* And every other step, none of which is taken while a build fills the tree.
LEMMA LeftStep ==
  ASSUME DiscInv, LeftInv, [Next]_vars
  PROVE  LeftInv'
<1>1. ASSUME UNCHANGED <<media, builderVars>>
      PROVE  LeftInv'
  <2>1. UNCHANGED <<media, pc, opts, extras, leftover>>
    BY <1>1 DEF builderVars
  <2>2. \A p : Made(p)' = Made(p) /\ Kept(p)' = Kept(p)
    BY <2>1 DEF Made, Kept, Given
  <2>3. QED BY <2>1, <2>2 DEF LeftInv
<1>2. CASE BuilderNext
  BY <1>2, LeftBuild
<1>3. CASE RewriteCatalog
  BY <1>1, <1>3 DEF RewriteCatalog
<1>4. CASE \E d \in Disks, o \in UsbOptions : WriteMedia(d, o)
  BY <1>1, <1>4 DEF WriteMedia
<1>5. CASE Change
  <2>1. pc' \in {"mastering", "idle"}
    BY <1>5 DEF Change, builderVars, DiscInv, UsbInv
  <2>2. <<>> \notin Places
    <3>1. <<>> \in KnownDirs
      BY TreeAssumption DEF KnownDirs
    <3>2. QED BY <3>1, KnownAre
  <2>3. <<>> \in DOMAIN media'
    <3>1. CASE \E c \in Changes : media' = [media EXCEPT ![c.path] = File(c.data)]
      BY <3>1 DEF LeftInv
    <3>2. CASE \E p \in Removals \cap DOMAIN media : media' = [q \in DOMAIN media \ {p} |-> media[q]]
      BY <2>2, <3>2, ChangesAssumption DEF LeftInv
    <3>3. QED BY <1>5, <3>1, <3>2 DEF Change
  <2>4. QED BY <2>1, <2>3 DEF LeftInv
<1>6. CASE UNCHANGED vars
  BY <1>1, <1>6 DEF vars
<1>7. QED BY <1>1, <1>2, <1>3, <1>4, <1>5, <1>6 DEF Next

--------------------------------------------------------------------------------
(* Images: their structures, and the nodes that are written. *)

\* A sector of something written over an image.
LEMMA OverlaySector ==
  ASSUME NEW f, NEW g, NEW s
  PROVE  SectorOf(Overlay(f, g), s) = IF s \in DOMAIN f THEN f[s] ELSE SectorOf(g, s)
BY DEF SectorOf, Overlay

\* Consecutive sectors.
LEMMA FromIs ==
  ASSUME NEW sector \in Nat, NEW c, Len(c) \in Nat
  PROVE  /\ DOMAIN From(sector, c) = sector..(sector + Len(c) - 1)
         /\ \A k \in 1..Len(c) : From(sector, c)[sector + k - 1] = c[k]
<1> DEFINE n == Len(c)
<1>1. From(sector, c) = [s \in sector..(sector + n - 1) |-> c[s - sector + 1]]
  BY DEF From
<1>2. \A k \in 1..n : sector + k - 1 \in sector..(sector + n - 1) /\ (sector + k - 1) - sector + 1 = k
  OBVIOUS
<1> HIDE DEF n
<1>3. DOMAIN From(sector, c) = sector..(sector + n - 1) /\ \A k \in 1..n : From(sector, c)[sector + k - 1] = c[k]
  BY <1>1, <1>2
<1>4. QED BY <1>3 DEF n

\* The parts of a sector.
Tag(x) == x[1]
Place(x) == x[2]
Body(x) == x[3]

\* A sector with three parts has those parts.
LEMMA PartsAre ==
  /\ \A img, s, tag, loc : HasTag(img, s, tag, loc) <=> Tag(SectorOf(img, s)) = tag /\ Place(SectorOf(img, s)) = loc
  /\ \A tag, loc, body, x : x = <<tag, loc, body>> => Tag(x) = tag /\ Place(x) = loc /\ Body(x) = body
<1>1. \A img, s, tag, loc : HasTag(img, s, tag, loc) <=> Tag(SectorOf(img, s)) = tag /\ Place(SectorOf(img, s)) = loc
  BY DEF HasTag, Tag, Place
<1>2. ASSUME NEW tag, NEW loc, NEW body, NEW x, x = <<tag, loc, body>>
      PROVE  Tag(x) = tag /\ Place(x) = loc /\ Body(x) = body
  <2>1. x[1] = tag /\ x[2] = loc /\ x[3] = body
    BY <1>2
  <2>2. Tag(x) = tag
    BY <2>1 DEF Tag
  <2>3. Place(x) = loc
    BY <2>1 DEF Place
  <2>4. Body(x) = body
    BY <2>1 DEF Body
  <2>5. QED BY <2>2, <2>3, <2>4
<1>3. QED BY <1>1, <1>2

\* The tags of the descriptors, their places and their bodies.
LEMMA TagsAre ==
  ASSUME NEW loc, NEW blocks
  PROVE  /\ Tag(Anchor(loc)) = "anchor"
         /\ Tag(PrimaryVolumeDescriptor(loc)) = "primary volume"
         /\ Tag(ImplUseVolumeDescriptor(loc)) = "implementation use"
         /\ Tag(PartitionDescriptor(loc, blocks)) = "partition"
         /\ Tag(LogicalVolumeDescriptor(loc)) = "logical volume"
         /\ Tag(UnallocatedSpaceDescriptor(loc)) = "unallocated space"
         /\ Tag(TerminatingDescriptor(loc)) = "terminating"
<1>1. Tag(Anchor(loc)) = "anchor"
  BY DEF Anchor, Tag
<1>2. Tag(PrimaryVolumeDescriptor(loc)) = "primary volume"
  BY DEF PrimaryVolumeDescriptor, Tag
<1>3. Tag(ImplUseVolumeDescriptor(loc)) = "implementation use"
  BY DEF ImplUseVolumeDescriptor, Tag
<1>4. Tag(PartitionDescriptor(loc, blocks)) = "partition"
  BY DEF PartitionDescriptor, Tag
<1>5. Tag(LogicalVolumeDescriptor(loc)) = "logical volume"
  BY DEF LogicalVolumeDescriptor, Tag
<1>6. Tag(UnallocatedSpaceDescriptor(loc)) = "unallocated space"
  BY DEF UnallocatedSpaceDescriptor, Tag
<1>7. Tag(TerminatingDescriptor(loc)) = "terminating"
  BY DEF TerminatingDescriptor, Tag
<1>8. QED BY <1>1, <1>2, <1>3, <1>4, <1>5, <1>6, <1>7

\* Where the descriptors of a sequence say they are.
LEMMA PlacesAre ==
  ASSUME NEW loc, NEW blocks
  PROVE  /\ Place(Anchor(loc)) = loc
         /\ Place(PrimaryVolumeDescriptor(loc)) = loc
         /\ Place(ImplUseVolumeDescriptor(loc)) = loc
         /\ Place(PartitionDescriptor(loc, blocks)) = loc
         /\ Place(LogicalVolumeDescriptor(loc)) = loc
         /\ Place(UnallocatedSpaceDescriptor(loc)) = loc
         /\ Place(TerminatingDescriptor(loc)) = loc
<1>1. Place(Anchor(loc)) = loc
  BY DEF Anchor, Place
<1>2. Place(PrimaryVolumeDescriptor(loc)) = loc
  BY DEF PrimaryVolumeDescriptor, Place
<1>3. Place(ImplUseVolumeDescriptor(loc)) = loc
  BY DEF ImplUseVolumeDescriptor, Place
<1>4. Place(PartitionDescriptor(loc, blocks)) = loc
  BY DEF PartitionDescriptor, Place
<1>5. Place(LogicalVolumeDescriptor(loc)) = loc
  BY DEF LogicalVolumeDescriptor, Place
<1>6. Place(UnallocatedSpaceDescriptor(loc)) = loc
  BY DEF UnallocatedSpaceDescriptor, Place
<1>7. Place(TerminatingDescriptor(loc)) = loc
  BY DEF TerminatingDescriptor, Place
<1>8. QED BY <1>1, <1>2, <1>3, <1>4, <1>5, <1>6, <1>7

\* What an anchor says.
LEMMA AnchorBody == Body(Anchor(LbnAnchor)) = [main |-> LbnMainVDS, sectors |-> VdsSectors, reserve |-> LbnReserveVDS]
BY DEF Anchor, Body

\* What a Partition Descriptor says.
LEMMA PartitionBody == \A loc, blocks : Body(PartitionDescriptor(loc, blocks)) = [start |-> LbnPartition, blocks |-> blocks]
BY DEF PartitionDescriptor, Body

\* What a Logical Volume Descriptor says.
LEMMA LogicalBody == \A loc : Body(LogicalVolumeDescriptor(loc)) = [blockSize |-> SectorSize, maps |-> 1, fileSet |-> 0]
BY DEF LogicalVolumeDescriptor, Body

\* The descriptors of a Volume Descriptor Sequence.
LEMMA VdsIs ==
  ASSUME NEW base \in Nat, NEW blocks
  PROVE  LET v == VDS(base, blocks)
         IN  /\ DOMAIN v = base..(base + 5)
             /\ v[base] = PrimaryVolumeDescriptor(base)
             /\ v[base + 1] = ImplUseVolumeDescriptor(base + 1)
             /\ v[base + 2] = PartitionDescriptor(base + 2, blocks)
             /\ v[base + 3] = LogicalVolumeDescriptor(base + 3)
             /\ v[base + 4] = UnallocatedSpaceDescriptor(base + 4)
             /\ v[base + 5] = TerminatingDescriptor(base + 5)
<1> DEFINE d1 == PrimaryVolumeDescriptor(base)
           d2 == ImplUseVolumeDescriptor(base + 1)
           d3 == PartitionDescriptor(base + 2, blocks)
           d4 == LogicalVolumeDescriptor(base + 3)
           d5 == UnallocatedSpaceDescriptor(base + 4)
           d6 == TerminatingDescriptor(base + 5)
           c == <<d1, d2, d3, d4, d5, d6>>
           v == VDS(base, blocks)
<1>2. v = From(base, c)
  BY DEF VDS
<1> HIDE DEF v, d1, d2, d3, d4, d5, d6
<1>3. Len(c) = 6 /\ c[1] = d1 /\ c[2] = d2 /\ c[3] = d3 /\ c[4] = d4 /\ c[5] = d5 /\ c[6] = d6
  OBVIOUS
<1> HIDE DEF c
<1>4. DOMAIN v = base..(base + 6 - 1) /\ \A k \in 1..6 : v[base + k - 1] = c[k]
  <2>1. Len(c) \in Nat
    BY <1>3
  <2>2. DOMAIN v = base..(base + Len(c) - 1) /\ \A k \in 1..Len(c) : v[base + k - 1] = c[k]
    BY <1>2, <2>1, FromIs
  <2>3. QED BY <1>3, <2>2
<1>5. /\ base + 6 - 1 = base + 5 /\ base + 1 - 1 = base /\ base + 2 - 1 = base + 1 /\ base + 3 - 1 = base + 2
      /\ base + 4 - 1 = base + 3 /\ base + 5 - 1 = base + 4
  OBVIOUS
<1>6. v[base + 1 - 1] = c[1] /\ v[base + 2 - 1] = c[2] /\ v[base + 3 - 1] = c[3]
  BY <1>4
<1>7. v[base + 4 - 1] = c[4] /\ v[base + 5 - 1] = c[5] /\ v[base + 6 - 1] = c[6]
  BY <1>4
<1>8. v[base] = c[1] /\ v[base + 1] = c[2] /\ v[base + 2] = c[3]
  BY <1>5, <1>6
<1>9. v[base + 3] = c[4] /\ v[base + 4] = c[5] /\ v[base + 5] = c[6]
  BY <1>5, <1>7
<1>10. QED BY <1>3, <1>4, <1>5, <1>8, <1>9 DEF v, d1, d2, d3, d4, d5, d6

\* The structures Volume looks for, with this root.
Structured(img, root) ==
  /\ SectorOf(img, LbnAnchor) = Anchor(LbnAnchor)
  /\ \E blocks : \A s \in DOMAIN VDS(LbnMainVDS, blocks) : SectorOf(img, s) = VDS(LbnMainVDS, blocks)[s]
  /\ SectorOf(img, LbnPartition) = <<"file set", 0, [root |-> root]>>

\* The inspector finds no boot record, and the one of the bridge.
NoRecords(img) == \A s \in 16..32 : Tag(SectorOf(img, s)) # "boot record"

Bootable(img) ==
  /\ \A s \in 16..32 : Tag(SectorOf(img, s)) = "boot record" <=> s = BootRecSector
  /\ Body(SectorOf(img, BootRecSector)) = [catalog |-> CatalogSector]
  /\ Tag(SectorOf(img, CatalogSector)) = "catalog"

\* Two images are the same from the anchor up to a sector.
SameTo(img, new, b) == \A s \in Nat : LbnAnchor <= s /\ s < b => SectorOf(new, s) = SectorOf(img, s)

\* What is written after the file set leaves the structures as they are.
LEMMA StructureKept ==
  ASSUME NEW img, NEW new, NEW root, NEW b \in Nat, b > LbnPartition, SameTo(img, new, b), Structured(img, root)
  PROVE  Structured(new, root)
<1>1. LbnAnchor \in Nat /\ LbnPartition \in Nat /\ LbnAnchor < b /\ LbnAnchor <= LbnPartition
  BY DEF LbnAnchor, LbnPartition
<1>2. LbnMainVDS \in Nat /\ LbnAnchor < LbnMainVDS /\ LbnMainVDS + 5 < LbnPartition
  BY DEF LbnAnchor, LbnPartition, LbnMainVDS
<1>3. PICK blocks : \A s \in DOMAIN VDS(LbnMainVDS, blocks) : SectorOf(img, s) = VDS(LbnMainVDS, blocks)[s]
  BY DEF Structured
<1>4. DOMAIN VDS(LbnMainVDS, blocks) = LbnMainVDS..(LbnMainVDS + 5)
  BY <1>2, VdsIs
<1>5. \A s \in LbnMainVDS..(LbnMainVDS + 5) : s \in Nat /\ LbnAnchor <= s /\ s < b
  BY <1>1, <1>2
<1>6. \A s \in DOMAIN VDS(LbnMainVDS, blocks) : SectorOf(new, s) = VDS(LbnMainVDS, blocks)[s]
  BY <1>3, <1>4, <1>5 DEF SameTo
<1>7. SectorOf(new, LbnAnchor) = SectorOf(img, LbnAnchor) /\ SectorOf(new, LbnPartition) = SectorOf(img, LbnPartition)
  BY <1>1 DEF SameTo
<1>8. QED BY <1>6, <1>7 DEF Structured

\* The sequence of the sectors before its terminator.
LEMMA SequenceIs ==
  ASSUME NEW img, NEW blocks, \A s \in DOMAIN VDS(LbnMainVDS, blocks) : SectorOf(img, s) = VDS(LbnMainVDS, blocks)[s]
  PROVE  LET seq == Sequence(img, Body(Anchor(LbnAnchor)))
         IN  /\ DOMAIN seq = 1..5
             /\ \A k \in 1..5 : seq[k] = VDS(LbnMainVDS, blocks)[LbnMainVDS + k - 1]
<1> DEFINE m == LbnMainVDS
           anchor == Body(Anchor(LbnAnchor))
           seq == Sequence(img, anchor)
           v == VDS(m, blocks)
           S(s) == SectorOf(img, s)
<1>1. m \in Nat /\ anchor.main = m /\ anchor.sectors = 16
  <2>1. anchor = [main |-> LbnMainVDS, sectors |-> VdsSectors, reserve |-> LbnReserveVDS]
    BY AnchorBody
  <2> HIDE DEF anchor
  <2>2. anchor.main = LbnMainVDS /\ anchor.sectors = VdsSectors
    BY <2>1
  <2>3. QED BY <2>2 DEF LbnMainVDS, VdsSectors
<1> DEFINE IsEnd(n) == /\ \A k \in 0..(n - 1) : Tag(S(m + k)) \notin {"zero", "terminating"}
                       /\ n = 16 \/ Tag(S(m + n)) \in {"zero", "terminating"}
           end == CHOOSE n \in 0..16 : IsEnd(n)
<1>2. seq = [k \in 1..end |-> S(m + k - 1)]
  BY <1>1 DEF Sequence, Tag
<1> HIDE DEF m, anchor, seq, S
<1>3. /\ DOMAIN v = m..(m + 5)
      /\ v[m] = PrimaryVolumeDescriptor(m) /\ v[m + 1] = ImplUseVolumeDescriptor(m + 1)
      /\ v[m + 2] = PartitionDescriptor(m + 2, blocks) /\ v[m + 3] = LogicalVolumeDescriptor(m + 3)
      /\ v[m + 4] = UnallocatedSpaceDescriptor(m + 4) /\ v[m + 5] = TerminatingDescriptor(m + 5)
  BY <1>1, VdsIs
<1>4. \A s \in DOMAIN v : S(s) = v[s]
  BY DEF S, m
<1> HIDE DEF v
<1>5. \A k \in 0..5 : S(m + k) = v[m + k]
  BY <1>1, <1>3, <1>4
<1>6. m + 0 = m
  BY <1>1
<1>7. /\ Tag(S(m + 0)) = "primary volume" /\ Tag(S(m + 1)) = "implementation use" /\ Tag(S(m + 2)) = "partition"
      /\ Tag(S(m + 3)) = "logical volume" /\ Tag(S(m + 4)) = "unallocated space" /\ Tag(S(m + 5)) = "terminating"
  <2>1. S(m + 0) = v[m]
    BY <1>5, <1>6
  <2>2. S(m + 1) = v[m + 1] /\ S(m + 2) = v[m + 2] /\ S(m + 3) = v[m + 3] /\ S(m + 4) = v[m + 4] /\ S(m + 5) = v[m + 5]
    BY <1>5
  <2>3. Tag(S(m + 0)) = "primary volume"
    BY <1>3, <2>1, TagsAre
  <2>4. Tag(S(m + 1)) = "implementation use" /\ Tag(S(m + 2)) = "partition" /\ Tag(S(m + 3)) = "logical volume"
    BY <1>3, <2>2, TagsAre, ZenonT(60)
  <2>5. Tag(S(m + 4)) = "unallocated space" /\ Tag(S(m + 5)) = "terminating"
    BY <1>3, <2>2, TagsAre, ZenonT(60)
  <2>6. QED BY <2>3, <2>4, <2>5
<1>8. \A k \in 0..4 : Tag(S(m + k)) \notin {"zero", "terminating"}
  <2>1. 0..4 = {0, 1, 2, 3, 4}
    OBVIOUS
  <2>2. \A k \in {0, 1, 2, 3, 4} : Tag(S(m + k)) \notin {"zero", "terminating"}
    BY <1>7
  <2>3. QED BY <2>1, <2>2
<1>9. IsEnd(5)
  <2>1. 5 - 1 = 4
    OBVIOUS
  <2>2. QED BY <1>7, <1>8, <2>1
<1>10. ASSUME NEW n \in 0..16, IsEnd(n)
       PROVE  n = 5
  <2>1. CASE n < 5
    <3>1. n \in 0..4 /\ n # 16
      BY <2>1
    <3>2. QED BY <1>8, <1>10, <3>1
  <2>2. CASE n > 5
    <3>1. 5 \in 0..(n - 1)
      BY <2>2
    <3>2. QED BY <1>7, <1>10, <3>1
  <2>3. QED BY <2>1, <2>2
<1> HIDE DEF IsEnd
<1>11. end = 5
  <2>1. 5 \in 0..16
    OBVIOUS
  <2>2. QED BY <1>9, <1>10, <2>1
<1> HIDE DEF end
<1>12. \A k \in 1..5 : S(m + k - 1) = v[m + k - 1]
  <2>1. \A k \in 1..5 : m + k - 1 = m + (k - 1) /\ k - 1 \in 0..5
    BY <1>1
  <2>2. QED BY <1>5, <2>1
<1>13. DOMAIN seq = 1..5 /\ \A k \in 1..5 : seq[k] = v[m + k - 1]
  BY <1>2, <1>11, <1>12
<1>14. QED BY <1>13 DEF seq, v, m, anchor

\* What Volume finds.
LEMMA VolumeIs ==
  ASSUME NEW img, NEW root, Structured(img, root)
  PROVE  Volume(img).ok /\ Volume(img).part = LbnPartition /\ Volume(img).root = root
<1> DEFINE anchor == Body(SectorOf(img, 256))
           seq == Sequence(img, anchor)
           Found(tag) == {k \in DOMAIN seq : Tag(seq[k]) = tag}
           pd == Body(seq[Max(Found("partition"))])
           lvd == Body(seq[Max(Found("logical volume"))])
           m == LbnMainVDS
<1>1. SectorOf(img, 256) = Anchor(LbnAnchor) /\ Tag(SectorOf(img, 256)) = "anchor" /\ Place(SectorOf(img, 256)) = 256
  <2>1. SectorOf(img, 256) = Anchor(LbnAnchor)
    BY DEF Structured, LbnAnchor
  <2>2. Tag(Anchor(LbnAnchor)) = "anchor" /\ Place(Anchor(LbnAnchor)) = 256
    BY TagsAre, PlacesAre, ZenonT(60) DEF LbnAnchor
  <2>3. QED BY <2>1, <2>2
<1>2. PICK blocks : \A s \in DOMAIN VDS(LbnMainVDS, blocks) : SectorOf(img, s) = VDS(LbnMainVDS, blocks)[s]
  BY DEF Structured
<1> DEFINE v == VDS(m, blocks)
<1>3. /\ v[m] = PrimaryVolumeDescriptor(m) /\ v[m + 1] = ImplUseVolumeDescriptor(m + 1)
      /\ v[m + 2] = PartitionDescriptor(m + 2, blocks) /\ v[m + 3] = LogicalVolumeDescriptor(m + 3)
      /\ v[m + 4] = UnallocatedSpaceDescriptor(m + 4)
  BY VdsIs DEF LbnMainVDS
<1>4. DOMAIN seq = 1..5 /\ \A k \in 1..5 : seq[k] = v[m + k - 1]
  BY <1>1, <1>2, SequenceIs
<1>5. m \in Nat /\ anchor.main = m
  <2>1. anchor.main = LbnMainVDS
    <3>1. anchor = [main |-> LbnMainVDS, sectors |-> VdsSectors, reserve |-> LbnReserveVDS]
      BY <1>1, AnchorBody
    <3> HIDE DEF anchor
    <3>2. QED BY <3>1
  <2>2. QED BY <2>1 DEF LbnMainVDS
<1> HIDE DEF m, v, anchor, seq
<1>6. m + 1 - 1 = m /\ m + 2 - 1 = m + 1 /\ m + 3 - 1 = m + 2 /\ m + 4 - 1 = m + 3 /\ m + 5 - 1 = m + 4 /\ 1..5 = {1, 2, 3, 4, 5}
  BY <1>5
<1>7. seq[1] = v[m] /\ seq[2] = v[m + 1] /\ seq[3] = v[m + 2] /\ seq[4] = v[m + 3] /\ seq[5] = v[m + 4]
  <2>1. seq[1] = v[m + 1 - 1] /\ seq[2] = v[m + 2 - 1] /\ seq[3] = v[m + 3 - 1] /\ seq[4] = v[m + 4 - 1] /\ seq[5] = v[m + 5 - 1]
    BY <1>4
  <2>2. QED BY <1>6, <2>1
<1>8. /\ Tag(seq[1]) = "primary volume" /\ Place(seq[1]) = m
      /\ Tag(seq[2]) = "implementation use" /\ Place(seq[2]) = m + 1
      /\ Tag(seq[3]) = "partition" /\ Place(seq[3]) = m + 2
  <2>1. Tag(seq[1]) = "primary volume" /\ Place(seq[1]) = m
    BY <1>3, <1>7, TagsAre, PlacesAre, ZenonT(60)
  <2>2. Tag(seq[2]) = "implementation use" /\ Place(seq[2]) = m + 1
    BY <1>3, <1>7, TagsAre, PlacesAre, ZenonT(60)
  <2>3. Tag(seq[3]) = "partition" /\ Place(seq[3]) = m + 2
    <3>1. seq[3] = PartitionDescriptor(m + 2, blocks)
      BY <1>3, <1>7
    <3>2. Tag(PartitionDescriptor(m + 2, blocks)) = "partition"
      BY TagsAre
    <3>3. Place(PartitionDescriptor(m + 2, blocks)) = m + 2
      BY PlacesAre
    <3>4. QED BY <3>1, <3>2, <3>3
  <2>4. QED BY <2>1, <2>2, <2>3
<1>9. /\ Tag(seq[4]) = "logical volume" /\ Place(seq[4]) = m + 3
      /\ Tag(seq[5]) = "unallocated space" /\ Place(seq[5]) = m + 4
  <2>1. Tag(seq[4]) = "logical volume" /\ Place(seq[4]) = m + 3
    <3>1. seq[4] = LogicalVolumeDescriptor(m + 3)
      BY <1>3, <1>7
    <3>2. Tag(LogicalVolumeDescriptor(m + 3)) = "logical volume"
      BY TagsAre
    <3>3. Place(LogicalVolumeDescriptor(m + 3)) = m + 3
      BY PlacesAre
    <3>4. QED BY <3>1, <3>2, <3>3
  <2>2. Tag(seq[5]) = "unallocated space" /\ Place(seq[5]) = m + 4
    <3>1. seq[5] = UnallocatedSpaceDescriptor(m + 4)
      BY <1>3, <1>7
    <3>2. Tag(UnallocatedSpaceDescriptor(m + 4)) = "unallocated space"
      BY TagsAre
    <3>3. Place(UnallocatedSpaceDescriptor(m + 4)) = m + 4
      BY PlacesAre
    <3>4. QED BY <3>1, <3>2, <3>3
  <2>3. QED BY <2>1, <2>2
<1>10. Found("partition") = {3} /\ Found("logical volume") = {4}
  BY <1>4, <1>6, <1>8, <1>9
<1>11. \A k \in DOMAIN seq : Place(seq[k]) = anchor.main + k - 1
  <2>1. \A k \in {1, 2, 3, 4, 5} : Place(seq[k]) = m + k - 1
    BY <1>6, <1>8, <1>9
  <2>2. QED BY <1>4, <1>5, <1>6, <2>1
<1>12. \A x \in Nat : Max({x}) = x
  <2>1. TAKE x \in Nat
  <2>2. \A y \in {x} : x >= y
    OBVIOUS
  <2>3. Max({x}) = CHOOSE y \in {x} : \A z \in {x} : y >= z
    BY DEF Max
  <2>4. QED BY <2>2, <2>3
<1>13. pd = Body(seq[3]) /\ lvd = Body(seq[4])
  <2>1. Max({3}) = 3 /\ Max({4}) = 4
    BY <1>12
  <2> HIDE DEF Found
  <2>2. QED BY <1>10, <2>1
<1> HIDE DEF pd, lvd
<1> DEFINE s == pd.start + lvd.fileSet
<1>14. lvd.blockSize = SectorSize /\ lvd.maps = 1 /\ lvd.fileSet = 0 /\ pd.start = LbnPartition /\ s = LbnPartition
  <2>1. lvd.blockSize = SectorSize /\ lvd.maps = 1 /\ lvd.fileSet = 0 /\ pd.start = LbnPartition
    <3>1. lvd = [blockSize |-> SectorSize, maps |-> 1, fileSet |-> 0]
      BY <1>3, <1>7, <1>13, LogicalBody
    <3>2. pd.start = LbnPartition
      <4>1. pd = [start |-> LbnPartition, blocks |-> blocks]
        BY <1>3, <1>7, <1>13, PartitionBody
      <4>2. QED BY <4>1
    <3>3. lvd.blockSize = SectorSize /\ lvd.maps = 1 /\ lvd.fileSet = 0
      BY <3>1
    <3>4. QED BY <3>2, <3>3
  <2>2. QED BY <2>1 DEF LbnPartition
<1> HIDE DEF s
<1> DEFINE bad == \/ \E k \in DOMAIN seq : Place(seq[k]) # anchor.main + k - 1
                  \/ Found("partition") = {} \/ Found("logical volume") = {}
           worse == lvd.blockSize # SectorSize \/ lvd.maps # 1 \/ ~HasTag(img, s, "file set", lvd.fileSet)
<1>15. ~bad
  <2> HIDE DEF Found
  <2>1. QED BY <1>10, <1>11
<1>16. ~worse /\ Body(SectorOf(img, s)).root = root
  <2>1. SectorOf(img, s) = <<"file set", 0, [root |-> root]>>
    BY <1>14 DEF Structured
  <2>2. Tag(SectorOf(img, s)) = "file set" /\ Place(SectorOf(img, s)) = 0 /\ Body(SectorOf(img, s)).root = root
    <3> DEFINE x == SectorOf(img, s)
               body == [root |-> root]
    <3>1. x = <<"file set", 0, body>>
      BY <2>1
    <3>2. body.root = root
      OBVIOUS
    <3> HIDE DEF x, body
    <3>3. Tag(x) = "file set" /\ Place(x) = 0 /\ Body(x) = body
      BY <3>1, PartsAre
    <3>4. QED BY <3>2, <3>3 DEF x
  <2>3. HasTag(img, s, "file set", 0)
    BY <2>2, PartsAre
  <2>4. QED BY <1>14, <2>2, <2>3
<1>17. HasTag(img, 256, "anchor", 256)
  BY <1>1, PartsAre
<1>18. Volume(img) = IF ~HasTag(img, 256, "anchor", 256) THEN NoVolume
                     ELSE IF bad THEN NoVolume
                     ELSE IF worse THEN NoVolume
                     ELSE [ok |-> TRUE, part |-> pd.start, blocks |-> pd.blocks, root |-> Body(SectorOf(img, s)).root]
  BY DEF Volume, pd, lvd, seq, anchor, s, Tag, Place, Body
<1> HIDE DEF bad, worse
<1>19. Volume(img) = [ok |-> TRUE, part |-> pd.start, blocks |-> pd.blocks, root |-> Body(SectorOf(img, s)).root]
  BY <1>15, <1>16, <1>17, <1>18
<1>21. QED BY <1>14, <1>16, <1>19

\* The image a call begins with.
LEMMA BeginIs ==
  ASSUME BeginTree(VrsSector)
  PROVE  Structured(image', nodes'[1].fe) /\ NoRecords(image')
<1> DEFINE a == AssignBlocks(media)
           fs == FileSet(a.nodes[1].fe)
           vrs == From(VrsSector, <<<<"BEA01", 0, <<>>>>, <<"NSR02", 0, <<>>>>, <<"TEA01", 0, <<>>>>>>)
           anc == Only(LbnAnchor, Anchor(LbnAnchor))
           main == VDS(LbnMainVDS, a.next)
           res == VDS(LbnReserveVDS, a.next)
           integ == Integrity(media)
           rest == Overlay(res, integ)
<1>1. image' = Overlay(fs, Overlay(vrs, Overlay(anc, Overlay(main, rest)))) /\ nodes' = a.nodes
  BY DEF BeginTree, VolumeStructures
<1>2. DOMAIN fs = 291..292 /\ fs[291] = <<"file set", 0, [root |-> a.nodes[1].fe]>>
  <2> DEFINE x == <<"file set", 0, [root |-> a.nodes[1].fe]>>
             y == TerminatingDescriptor(1)
             c == <<x, y>>
             p == LbnPartition
  <2>1. fs = From(p, c)
    BY DEF FileSet
  <2>2. p = 291 /\ p \in Nat
    BY DEF LbnPartition
  <2> HIDE DEF x, y, p
  <2>3. Len(c) = 2 /\ c[1] = x
    OBVIOUS
  <2> HIDE DEF c, fs
  <2>4. DOMAIN From(p, c) = p..(p + Len(c) - 1) /\ \A k \in 1..Len(c) : From(p, c)[p + k - 1] = c[k]
    <3>1. Len(c) \in Nat
      BY <2>3
    <3>2. p \in Nat
      BY <2>2
    <3> HIDE DEF vrs, anc, main, res, integ, rest, a
    <3>3. QED BY <3>1, <3>2, FromIs
  <2>5. From(p, c)[p + 1 - 1] = c[1]
    BY <2>3, <2>4
  <2>6. p + 1 - 1 = p /\ p + 2 - 1 = 292
    BY <2>2
  <2>7. DOMAIN fs = 291..292 /\ fs[291] = x
    BY <2>1, <2>2, <2>3, <2>4, <2>5, <2>6
  <2>8. QED BY <2>7 DEF x
<1>3. DOMAIN vrs = 19..21 /\ \A s \in 19..21 : vrs[s][1] # "boot record"
  <2> DEFINE x == <<"BEA01", 0, <<>>>>
             y == <<"NSR02", 0, <<>>>>
             z == <<"TEA01", 0, <<>>>>
             c == <<x, y, z>>
  <2>1. vrs = From(19, c)
    BY DEF VrsSector
  <2>5. x[1] # "boot record" /\ y[1] # "boot record" /\ z[1] # "boot record"
    OBVIOUS
  <2> HIDE DEF x, y, z
  <2>2. Len(c) = 3 /\ c[1] = x /\ c[2] = y /\ c[3] = z /\ 19 + 3 - 1 = 21 /\ \A s \in 19..21 : s - 18 \in 1..3 /\ 19 + (s - 18) - 1 = s
    OBVIOUS
  <2>6. \A k \in 1..3 : c[k][1] # "boot record"
    <3>1. 1..3 = {1, 2, 3}
      OBVIOUS
    <3>2. QED BY <2>2, <2>5, <3>1
  <2> HIDE DEF c, vrs
  <2>3. DOMAIN From(19, c) = 19..(19 + Len(c) - 1) /\ \A k \in 1..Len(c) : From(19, c)[19 + k - 1] = c[k]
    <3>1. Len(c) \in Nat /\ 19 \in Nat
      BY <2>2
    <3>2. QED BY <3>1, FromIs
  <2>4. DOMAIN vrs = 19..21
    BY <2>1, <2>2, <2>3
  <2>7. ASSUME NEW s \in 19..21
        PROVE  vrs[s][1] # "boot record"
    <3> DEFINE k == s - 18
    <3>1. k \in 1..3 /\ 19 + k - 1 = s
      OBVIOUS
    <3> HIDE DEF k
    <3>2. vrs[s] = c[k]
      BY <2>1, <2>2, <2>3, <3>1
    <3>3. QED BY <2>6, <3>1, <3>2
  <2>8. QED BY <2>4, <2>7
<1>4. DOMAIN anc = {256} /\ anc[256] = Anchor(256)
  BY DEF Only, LbnAnchor
<1>5. \A base \in Nat : DOMAIN VDS(base, a.next) = base..(base + 5)
  BY VdsIs
<1>6. DOMAIN main = 257..262
  <2>1. DOMAIN main = LbnMainVDS..(LbnMainVDS + 5)
    <3>1. LbnMainVDS \in Nat
      BY DEF LbnMainVDS
    <3>2. QED BY <1>5, <3>1
  <2>2. LbnMainVDS + 5 = 262
    BY DEF LbnMainVDS
  <2>3. QED BY <2>1, <2>2 DEF LbnMainVDS
<1>7. DOMAIN rest = DOMAIN res \cup DOMAIN integ /\ DOMAIN res = 273..278 /\ DOMAIN integ = 289..290
  <2>1. DOMAIN res = 273..278
    <3>1. LbnReserveVDS \in Nat /\ LbnReserveVDS + 5 = 278
      BY DEF LbnReserveVDS
    <3>2. DOMAIN res = LbnReserveVDS..(LbnReserveVDS + 5)
      BY <1>5, <3>1
    <3>3. QED BY <3>1, <3>2 DEF LbnReserveVDS
  <2>2. DOMAIN integ = 289..290
    <3> DEFINE x == <<"integrity", LbnIntegrity,
                      [files |-> Cardinality({p \in DOMAIN media : ~media[p].dir}),
                       dirs |-> Cardinality({p \in DOMAIN media : media[p].dir}), nextId |-> 16]>>
               y == TerminatingDescriptor(LbnIntegrity + 1)
               c == <<x, y>>
    <3>1. integ = From(289, c)
      BY DEF Integrity, LbnIntegrity
    <3> HIDE DEF x, y
    <3>2. Len(c) = 2 /\ 289 + 2 - 1 = 290
      OBVIOUS
    <3> HIDE DEF c, integ
    <3>3. DOMAIN From(289, c) = 289..(289 + Len(c) - 1)
      <4>1. Len(c) \in Nat /\ 289 \in Nat
        BY <3>2
      <4>2. QED BY <4>1, FromIs
    <3>4. QED BY <3>1, <3>2, <3>3
  <2>3. QED BY <2>1, <2>2 DEF Overlay
<1>21. DOMAIN fs = 291..292 /\ DOMAIN vrs = 19..21 /\ DOMAIN anc = {256}
  <2>1. DOMAIN fs = 291..292
    BY <1>2
  <2>2. DOMAIN vrs = 19..21
    BY <1>3
  <2>3. QED BY <1>4, <2>1, <2>2
<1> HIDE DEF fs, vrs, anc, main, rest, res, integ, a
<1>8. \A s : SectorOf(image', s) = IF s \in DOMAIN fs THEN fs[s] ELSE IF s \in DOMAIN vrs THEN vrs[s]
                                   ELSE IF s \in DOMAIN anc THEN anc[s] ELSE IF s \in DOMAIN main THEN main[s]
                                   ELSE SectorOf(rest, s)
  <2> DEFINE r3 == Overlay(main, rest)
             r2 == Overlay(anc, r3)
             r1 == Overlay(vrs, r2)
  <2>1. \A s : SectorOf(r3, s) = IF s \in DOMAIN main THEN main[s] ELSE SectorOf(rest, s)
    BY OverlaySector
  <2> HIDE DEF r3
  <2>2. \A s : SectorOf(r2, s) = IF s \in DOMAIN anc THEN anc[s] ELSE SectorOf(r3, s)
    BY OverlaySector
  <2> HIDE DEF r2
  <2>3. \A s : SectorOf(r1, s) = IF s \in DOMAIN vrs THEN vrs[s] ELSE SectorOf(r2, s)
    BY OverlaySector
  <2> HIDE DEF r1
  <2>4. image' = Overlay(fs, r1)
    BY <1>1 DEF r1, r2, r3
  <2>5. \A s : SectorOf(image', s) = IF s \in DOMAIN fs THEN fs[s] ELSE SectorOf(r1, s)
    BY <2>4, OverlaySector
  <2>6. QED BY <2>1, <2>2, <2>3, <2>5
<1>9. \A s \in 257..262 : SectorOf(image', s) = main[s]
  <2>1. \A s \in 257..262 : s \notin DOMAIN fs
    BY <1>21
  <2>2. \A s \in 257..262 : s \notin DOMAIN vrs
    BY <1>21
  <2>3. \A s \in 257..262 : s \notin DOMAIN anc
    BY <1>21
  <2>4. QED BY <1>6, <1>8, <2>1, <2>2, <2>3
<1>10. SectorOf(image', 256) = Anchor(256)
  <2>1. 256 \notin DOMAIN fs
    BY <1>21
  <2>2. 256 \notin DOMAIN vrs
    BY <1>21
  <2>3. QED BY <1>4, <1>8, <2>1, <2>2
<1>11. SectorOf(image', 291) = <<"file set", 0, [root |-> nodes'[1].fe]>>
  <2>1. 291 \in 291..292
    OBVIOUS
  <2>2. QED BY <1>1, <1>2, <1>8, <2>1, ZenonT(60)
<1>12. NoRecords(image')
  <2> SUFFICES ASSUME NEW s \in 16..32
               PROVE  SectorOf(image', s)[1] # "boot record"
    BY DEF NoRecords, Tag
  <2>1. s \notin DOMAIN fs /\ s \notin DOMAIN anc
    BY <1>21
  <2>2. s \notin DOMAIN main
    BY <1>6
  <2>3. s \notin DOMAIN rest
    BY <1>7
  <2>4. SectorOf(rest, s)[1] = "zero"
    BY <2>3 DEF SectorOf
  <2>5. SectorOf(image', s) = IF s \in DOMAIN vrs THEN vrs[s] ELSE SectorOf(rest, s)
    BY <1>8, <2>1, <2>2
  <2>6. CASE s \in DOMAIN vrs
    BY <1>3, <2>5, <2>6
  <2>7. CASE s \notin DOMAIN vrs
    BY <2>4, <2>5, <2>7
  <2>8. QED BY <2>6, <2>7
<1>13. Structured(image', nodes'[1].fe)
  <2>1. main = VDS(LbnMainVDS, a.next) /\ DOMAIN main = 257..262
    BY <1>6 DEF main
  <2>2. SectorOf(image', LbnAnchor) = Anchor(LbnAnchor)
    BY <1>10 DEF LbnAnchor
  <2>3. SectorOf(image', LbnPartition) = <<"file set", 0, [root |-> nodes'[1].fe]>>
    BY <1>11 DEF LbnPartition
  <2>4. \A s \in DOMAIN VDS(LbnMainVDS, a.next) : SectorOf(image', s) = VDS(LbnMainVDS, a.next)[s]
    BY <1>9, <2>1
  <2>5. QED BY <2>2, <2>3, <2>4 DEF Structured
<1>14. QED BY <1>12, <1>13

--------------------------------------------------------------------------------
(* The nodes that are written. *)

\* Cells that are written can be read.
LEMMA SectorsOn ==
  ASSUME NEW S, NEW cells \in Seq(S), NEW lb \in Nat, NEW kind, NEW f, f = Sectors(kind, cells, LbnPartition + lb)
  PROVE  /\ DOMAIN f = (LbnPartition + lb)..(LbnPartition + lb + Blocks(Len(cells)) - 1)
         /\ \A i \in 1..Len(cells) :
              LET s == LbnPartition + lb + (i - 1) \div SectorSize
              IN  s \in DOMAIN f /\ f[s][1] = kind /\ f[s][3][((i - 1) % SectorSize) + 1] = cells[i]
<1> DEFINE m == SectorSize
           base == LbnPartition + lb
           len == Len(cells)
           b == Blocks(len)
           Cell(at) == IF at <= len THEN cells[at] ELSE ZeroCell(kind)
           Cont(s) == [i \in 1..m |-> Cell((s - base) * m + i)]
<1>1. m \in Nat \ {0} /\ len \in Nat /\ base \in Nat
  BY UdfAssumption, LenProperties DEF LbnPartition
<1>2. b \in Nat /\ \A i \in 1..len : (i - 1) \div SectorSize \in Nat /\ (i - 1) \div SectorSize < b
  BY <1>1, BlocksIs
<1>3. f = [s \in base..(base + b - 1) |-> <<kind, 0, Cont(s)>>]
  BY DEF Sectors
<1> HIDE DEF base, len, b, Cell
<1>4. ASSUME NEW i \in 1..len
      PROVE  LET s == base + (i - 1) \div SectorSize
             IN  s \in DOMAIN f /\ f[s][1] = kind /\ f[s][3][((i - 1) % SectorSize) + 1] = cells[i]
  <2> DEFINE q == (i - 1) \div m
             r == (i - 1) % m
             s == base + q
             x == f[s]
             cont == Cont(s)
  <2>1. q \in Nat /\ q < b /\ i - 1 \in Nat
    BY <1>1, <1>2
  <2>2. i - 1 = q * m + r /\ r \in 0..(m - 1)
    <3> DEFINE j == i - 1
    <3>1. j \in Nat
      BY <2>1
    <3> HIDE DEF j, m
    <3>2. j = (j \div m) * m + (j % m) /\ j % m \in 0..(m - 1)
      BY <1>1, <3>1
    <3>3. QED BY <3>2 DEF j
  <2> HIDE DEF q, r
  <2>3. s \in base..(base + b - 1)
    BY <1>1, <1>2, <2>1
  <2>4. x = <<kind, 0, cont>>
    BY <1>3, <2>3
  <2>5. s - base = q
    BY <1>1, <2>1
  <2>6. r + 1 \in 1..m
    BY <1>1, <2>2
  <2>7. cont[r + 1] = Cell((s - base) * m + (r + 1))
    BY <2>6
  <2> HIDE DEF s
  <2>8. (s - base) * m + (r + 1) = i
    <3> DEFINE p == q * m
    <3>1. p \in Nat
      BY <1>1, <2>1
    <3>2. (s - base) * m = p
      BY <2>5
    <3> HIDE DEF p
    <3>3. i - 1 = p + r /\ r \in Nat
      BY <2>2 DEF p
    <3>4. p + (r + 1) = i
      BY <3>1, <3>3
    <3>5. QED BY <3>2, <3>4
  <2>9. cont[r + 1] = cells[i]
    BY <2>7, <2>8 DEF Cell
  <2> HIDE DEF x, cont
  <2>10. x[1] = kind /\ x[3] = cont
    BY <2>4
  <2>11. s \in DOMAIN f
    BY <1>3, <2>3
  <2>12. f[s][1] = kind /\ f[s][3][r + 1] = cells[i]
    BY <2>9, <2>10 DEF x
  <2>13. QED BY <2>11, <2>12 DEF s, q, r
<1>5. DOMAIN f = base..(base + b - 1)
  BY <1>3
<1>6. QED BY <1>4, <1>5 DEF base, len, b

\* They stay as long as their sectors do.
LEMMA CellsSame ==
  ASSUME NEW S, NEW cells \in Seq(S), NEW lb \in Nat, NEW kind, NEW img, NEW new, CellsOn(img, kind, lb, cells),
         \A s \in Nat : LbnPartition + lb <= s /\ s < LbnPartition + lb + Blocks(Len(cells)) => SectorOf(new, s) = SectorOf(img, s)
  PROVE  CellsOn(new, kind, lb, cells)
<1>1. Len(cells) \in Nat /\ LbnPartition + lb \in Nat
  BY LenProperties DEF LbnPartition
<1> SUFFICES ASSUME NEW i \in 1..Len(cells)
             PROVE  LET s == LbnPartition + lb + (i - 1) \div SectorSize
                    IN  SectorOf(new, s) = SectorOf(img, s)
  BY DEF CellsOn
<1> DEFINE q == (i - 1) \div SectorSize
           base == LbnPartition + lb
           s == base + q
<1>2. q \in Nat /\ q < Blocks(Len(cells)) /\ Blocks(Len(cells)) \in Nat
  BY <1>1, BlocksIs
<1> HIDE DEF q
<1>3. base \in Nat
  BY <1>1
<1> HIDE DEF base
<1>4. s \in Nat /\ base <= s /\ s < base + Blocks(Len(cells))
  BY <1>2, <1>3
<1> HIDE DEF s
<1>5. SectorOf(new, s) = SectorOf(img, s)
  BY <1>4 DEF base
<1>6. QED BY <1>5 DEF s, q, base

\* The first of them.
LEMMA CellsFirst ==
  ASSUME NEW S, NEW cells \in Seq(S), NEW lb, NEW kind, NEW img, CellsOn(img, kind, lb, cells), NEW n \in 0..Len(cells)
  PROVE  CellsOn(img, kind, lb, SubSeq(cells, 1, n))
<1>1. Len(SubSeq(cells, 1, n)) = n /\ \A i \in 1..n : SubSeq(cells, 1, n)[i] = cells[i]
  BY PrefixIs
<1>2. \A i \in 1..n : i \in 1..Len(cells)
  BY LenProperties
<1>3. QED BY <1>1, <1>2 DEF CellsOn

\* Cells that are written are on the image.
LEMMA CellsWritten ==
  ASSUME NEW S, NEW cells \in Seq(S), NEW lb \in Nat, NEW kind, NEW f, f = Sectors(kind, cells, LbnPartition + lb),
         NEW new, \A s \in DOMAIN f : SectorOf(new, s) = f[s]
  PROVE  CellsOn(new, kind, lb, cells)
<1>1. \A i \in 1..Len(cells) :
        LET s == LbnPartition + lb + (i - 1) \div SectorSize
        IN  s \in DOMAIN f /\ f[s][1] = kind /\ f[s][3][((i - 1) % SectorSize) + 1] = cells[i]
  BY SectorsOn
<1> SUFFICES ASSUME NEW i \in 1..Len(cells)
             PROVE  LET s == LbnPartition + lb + (i - 1) \div SectorSize
                    IN  SectorOf(new, s)[1] = kind /\ SectorOf(new, s)[3][((i - 1) % SectorSize) + 1] = cells[i]
  BY DEF CellsOn
<1> DEFINE s == LbnPartition + lb + (i - 1) \div SectorSize
           r == ((i - 1) % SectorSize) + 1
<1>2. s \in DOMAIN f /\ f[s][1] = kind /\ f[s][3][r] = cells[i]
  BY <1>1
<1> HIDE DEF s, r
<1>3. SectorOf(new, s) = f[s]
  BY <1>2
<1>4. SectorOf(new, s)[1] = kind /\ SectorOf(new, s)[3][r] = cells[i]
  BY <1>2, <1>3
<1>5. QED BY <1>4 DEF s, r

\* Two images are the same below a sector.
SameBelow(img, new, b) == \A s \in Nat : s < b => SectorOf(new, s) = SectorOf(img, s)

\* What writing a node leaves on the image.
LEMMA WrittenOver ==
  ASSUME NEW n, n.fe \in Nat, n.lb = n.fe + 1, NEW D, \A s \in DOMAIN D : s \in Nat /\ s >= LbnPartition + n.lb,
         NEW img, NEW new, new = Overlay(Overlay(FileEntry(n), D), img)
  PROVE  /\ SectorOf(new, LbnPartition + n.fe) = FileEntry(n)[LbnPartition + n.fe]
         /\ \A s \in DOMAIN D : SectorOf(new, s) = D[s]
         /\ SameBelow(img, new, LbnPartition + n.fe)
<1> DEFINE at == LbnPartition + n.fe
           e == FileEntry(n)
<1>1. at \in Nat /\ LbnPartition + n.lb = at + 1
  BY DEF LbnPartition
<1>2. DOMAIN e = {at}
  BY DEF FileEntry, Only
<1> HIDE DEF at, e
<1> DEFINE w == Overlay(e, D)
<1>3. \A s : SectorOf(new, s) = IF s \in DOMAIN w THEN w[s] ELSE SectorOf(img, s)
  BY OverlaySector DEF e
<1>4. DOMAIN w = {at} \cup DOMAIN D /\ w[at] = e[at] /\ \A s \in DOMAIN D \ {at} : w[s] = D[s]
  <2>1. /\ DOMAIN Overlay(e, D) = DOMAIN e \cup DOMAIN D
        /\ \A p \in DOMAIN e : Overlay(e, D)[p] = e[p]
        /\ \A p \in DOMAIN D \ DOMAIN e : Overlay(e, D)[p] = D[p]
    BY OverlayIs
  <2> HIDE DEF w
  <2>2. DOMAIN w = DOMAIN e \cup DOMAIN D /\ (\A p \in DOMAIN e : w[p] = e[p]) /\ \A p \in DOMAIN D \ DOMAIN e : w[p] = D[p]
    BY <2>1 DEF w
  <2>3. QED BY <1>2, <2>2
<1> HIDE DEF w
<1>5. \A s \in DOMAIN D : s \in Nat /\ s >= at + 1
  BY <1>1
<1>6. at \notin DOMAIN D
  BY <1>1, <1>5
<1>7. SectorOf(new, at) = e[at]
  BY <1>3, <1>4
<1>8. \A s \in DOMAIN D : SectorOf(new, s) = D[s]
  BY <1>3, <1>4, <1>6
<1>9. ASSUME NEW s \in Nat, s < at
      PROVE  SectorOf(new, s) = SectorOf(img, s)
  <2>1. s \notin DOMAIN w
    BY <1>1, <1>4, <1>5, <1>9
  <2>2. QED BY <1>3, <2>1
<1>10. SameBelow(img, new, at)
  BY <1>9 DEF SameBelow
<1>11. QED BY <1>7, <1>8, <1>10 DEF at, e

--------------------------------------------------------------------------------
(* What a node that is written is on the image. *)

\* How many descriptors are to name a node.
Links(ns, n) ==
  IF n.dir THEN 1 + Cardinality({m \in Range(ns) : m.dir /\ m.path # <<>> /\ Parent(m.path) = n.path}) ELSE 1

EntryFor(ns, n, fe) ==
  fe.dir = n.dir /\ fe.len = n.len /\ fe.links = Links(ns, n) /\ fe.exts = Extents(n.len, n.lb)

\* The entries of a directory: its parent, and the nodes under it.
DirectoryOf(ns, ents, n) ==
  LET kids == ChildrenAt(Paths(ns), n.path) IN
  /\ ents \in Seq(EntrySet) /\ Len(ents) = 1 + Cardinality(kids)
  /\ \E j \in DOMAIN ns : /\ ns[j].path = IF n.path = <<>> THEN <<>> ELSE Parent(n.path)
                          /\ ents[1] = [name |-> 0, fe |-> ns[j].fe, dir |-> TRUE]
  /\ \A k \in 1..Cardinality(kids) : ents[k + 1] = Kid(ns[Positions(kids)[k]])

Listed(ns, img, n, cells, off, ents) ==
  /\ cells \in Seq(Cells) /\ Len(cells) = n.len /\ CellsOn(img, "fids", n.lb, cells)
  /\ Streams(cells, off, ents, n.lb) /\ DirectoryOf(ns, ents, n)

NodeOn(ns, img, str, n) ==
  /\ \E fe : SectorOf(img, LbnPartition + n.fe) = <<"file entry", n.fe, fe>> /\ EntryFor(ns, n, fe)
  /\ n.dir => \E cells, off, ents : Listed(ns, img, n, cells, off, ents)
  /\ ~n.dir /\ n.path \in DOMAIN str /\ Len(str[n.path]) >= n.len => CellsOn(img, "file", n.lb, SubSeq(str[n.path], 1, n.len))

\* A directory's descriptors.
LEMMA ListingIs ==
  ASSUME WalkInv, NEW i \in DOMAIN nodes, nodes[i].dir
  PROVE  LET cells == DirFidStream(nodes[i]) IN
         /\ cells \in Seq(Cells) /\ Len(cells) = nodes[i].len
         /\ \E off : Streams(cells, off, DirEntries(nodes[i]), nodes[i].lb)
         /\ DirectoryOf(nodes, DirEntries(nodes[i]), nodes[i])
<1> DEFINE n == nodes[i]
           ents == DirEntries(n)
<1>1. PICK off : Streams(DirFidStream(n), off, ents, n.lb) /\ Len(DirFidStream(n)) = n.len
  BY DirectoryIs
<1>2. DirFidStream(n) \in Seq(Cells)
  BY <1>1 DEF Streams
<1>3. IsDirectory(ents, n)
  BY DirEntriesAre
<1>4. PICK j \in DOMAIN nodes : /\ nodes[j].path = (IF n.path = <<>> THEN <<>> ELSE Parent(n.path))
                                /\ ParentEntry(n) = nodes[j].fe
  BY ParentIs
<1> HIDE DEF ents, n
<1>5. DirectoryOf(nodes, ents, n)
  <2>1. ents[1] = [name |-> 0, fe |-> nodes[j].fe, dir |-> TRUE]
    BY <1>3, <1>4 DEF IsDirectory
  <2>2. \E x \in DOMAIN nodes : /\ nodes[x].path = (IF n.path = <<>> THEN <<>> ELSE Parent(n.path))
                                /\ ents[1] = [name |-> 0, fe |-> nodes[x].fe, dir |-> TRUE]
    BY <1>4, <2>1
  <2>3. QED BY <1>3, <2>2 DEF IsDirectory, DirectoryOf, KidsAt
<1>6. QED BY <1>1, <1>2, <1>5 DEF n, ents

\* What comes after a node leaves it as it is.
LEMMA NodeKept ==
  ASSUME NEW ns, NEW n \in NodeSet, NEW img, NEW new, NEW str, NEW str2, NodeOn(ns, img, str, n),
         NEW b \in Nat, LbnPartition + n.lb + Blocks(n.len) <= b, n.fe < n.lb, SameTo(img, new, b),
         n.path \in DOMAIN str2 => n.path \in DOMAIN str /\ str2[n.path] = str[n.path] /\ str[n.path] \in Seq(Nat)
  PROVE  NodeOn(ns, new, str2, n)
<1>1. n.fe \in Nat /\ n.lb \in Nat /\ n.len \in Nat /\ Blocks(n.len) \in Nat
  BY BlocksIs DEF NodeSet
<1>2. LbnPartition \in Nat /\ LbnAnchor \in Nat /\ LbnAnchor <= LbnPartition
  BY DEF LbnPartition, LbnAnchor
<1>3. \A s \in Nat : LbnPartition <= s /\ s < LbnPartition + n.lb + Blocks(n.len) => SectorOf(new, s) = SectorOf(img, s)
  BY <1>1, <1>2 DEF SameTo
<1>4. SectorOf(new, LbnPartition + n.fe) = SectorOf(img, LbnPartition + n.fe)
  <2> DEFINE s == LbnPartition + n.fe
  <2>1. s \in Nat /\ LbnPartition <= s /\ s < LbnPartition + n.lb + Blocks(n.len)
    BY <1>1, <1>2
  <2> HIDE DEF s
  <2>2. SectorOf(new, s) = SectorOf(img, s)
    BY <1>3, <2>1
  <2>3. QED BY <2>2 DEF s
<1>5. \A s \in Nat : LbnPartition + n.lb <= s /\ s < LbnPartition + n.lb + Blocks(n.len) => SectorOf(new, s) = SectorOf(img, s)
  BY <1>1, <1>2, <1>3
<1>6. ASSUME NEW S, NEW cells \in Seq(S), NEW kind, Len(cells) = n.len, CellsOn(img, kind, n.lb, cells)
      PROVE  CellsOn(new, kind, n.lb, cells)
  <2>1. \A s \in Nat : LbnPartition + n.lb <= s /\ s < LbnPartition + n.lb + Blocks(Len(cells)) => SectorOf(new, s) = SectorOf(img, s)
    BY <1>5, <1>6
  <2>2. QED BY <1>1, <1>6, <2>1, CellsSame
<1>7. \E fe : SectorOf(new, LbnPartition + n.fe) = <<"file entry", n.fe, fe>> /\ EntryFor(ns, n, fe)
  BY <1>4 DEF NodeOn
<1>8. ASSUME n.dir
      PROVE  \E cells, off, ents : Listed(ns, new, n, cells, off, ents)
  <2>1. PICK cells, off, ents : Listed(ns, img, n, cells, off, ents)
    BY <1>8 DEF NodeOn
  <2>2. cells \in Seq(Cells) /\ Len(cells) = n.len /\ CellsOn(img, "fids", n.lb, cells)
    BY <2>1 DEF Listed
  <2>3. CellsOn(new, "fids", n.lb, cells)
    BY <1>6, <2>2
  <2>4. Listed(ns, new, n, cells, off, ents)
    BY <2>1, <2>3 DEF Listed
  <2>5. QED BY <2>4
<1>9. ASSUME ~n.dir, n.path \in DOMAIN str2, Len(str2[n.path]) >= n.len
      PROVE  CellsOn(new, "file", n.lb, SubSeq(str2[n.path], 1, n.len))
  <2> DEFINE d == str2[n.path]
             c == SubSeq(d, 1, n.len)
  <2>1. n.path \in DOMAIN str /\ d = str[n.path] /\ d \in Seq(Nat)
    BY <1>9
  <2>2. CellsOn(img, "file", n.lb, c)
    BY <1>9, <2>1 DEF NodeOn
  <2>3. Len(d) >= n.len
    BY <1>9
  <2> HIDE DEF d
  <2>4. n.len \in 0..Len(d)
    BY <1>1, <2>1, <2>3, LenProperties
  <2>5. c \in Seq(Nat) /\ Len(c) = n.len
    BY <2>1, <2>4, PrefixIs
  <2> HIDE DEF c
  <2>6. CellsOn(new, "file", n.lb, c)
    BY <1>6, <2>2, <2>5
  <2>7. QED BY <2>6 DEF c, d
<1>10. QED BY <1>7, <1>8, <1>9 DEF NodeOn

\* A node's File Entry.
LEMMA EntryIs ==
  ASSUME NEW n, n.fe \in Nat
  PROVE  \E fe : FileEntry(n)[LbnPartition + n.fe] = <<"file entry", n.fe, fe>> /\ EntryFor(nodes, n, fe)
<1> DEFINE l == LinkCount(n)
           x == Extents(n.len, n.lb)
           fe == [dir |-> n.dir, len |-> n.len, links |-> l, uid |-> n.uid, exts |-> x]
           at == LbnPartition + n.fe
           e == <<"file entry", n.fe, fe>>
<1>1. FileEntry(n) = [p \in {at} |-> e]
  BY DEF FileEntry, Only
<1>2. l = Links(nodes, n)
  BY DEF LinkCount, Links, Subdirectories
<1> HIDE DEF l, x
<1>3. fe.dir = n.dir /\ fe.len = n.len /\ fe.links = l /\ fe.exts = x
  OBVIOUS
<1> HIDE DEF fe
<1>4. EntryFor(nodes, n, fe)
  BY <1>2, <1>3 DEF EntryFor, x
<1> HIDE DEF e, at
<1>5. FileEntry(n)[at] = e
  BY <1>1
<1>6. QED BY <1>4, <1>5 DEF at, e

\* A node that has been written.
LEMMA NodeWritten ==
  ASSUME WalkInv, NEW i \in DOMAIN nodes, NEW img, NEW new, NEW str,
         new = Overlay(IF nodes[i].dir THEN DirEntry(nodes[i]) ELSE Overlay(FileEntry(nodes[i]), Streamed(nodes[i])), img),
         \A p \in DOMAIN str : str[p] \in Seq(Nat),
         ~nodes[i].dir /\ nodes[i].len > 0 => nodes[i].path \in DOMAIN str /\ str[nodes[i].path] = media[nodes[i].path].data
  PROVE  NodeOn(nodes, new, str, nodes[i]) /\ SameBelow(img, new, LbnPartition + nodes[i].fe)
<1> DEFINE n == nodes[i]
           stream == DirFidStream(n)
           data == media[n.path].data
           base == LbnPartition + n.lb
           D == IF n.dir THEN Sectors("fids", stream, base) ELSE Streamed(n)
<1>1. n \in NodeSet /\ n.fe \in Nat /\ n.lb \in Nat /\ n.len \in Nat /\ n.lb = n.fe + 1 /\ base \in Nat
  BY NodesAre DEF WalkInv, Laid, LbnPartition
<1>2. new = Overlay(Overlay(FileEntry(n), D), img)
  <2>1. CASE n.dir
    BY <2>1 DEF DirEntry
  <2>2. CASE ~n.dir
    BY <2>2
  <2>3. QED BY <2>1, <2>2
<1>3. n.dir => /\ stream \in Seq(Cells) /\ Len(stream) = n.len
               /\ \E off : Streams(stream, off, DirEntries(n), n.lb)
               /\ DirectoryOf(nodes, DirEntries(n), n)
  BY ListingIs
<1>4. ~n.dir /\ n.len > 0 => n.path \in DOMAIN str /\ data = str[n.path] /\ data \in Seq(Nat)
  OBVIOUS
<1>5. Streamed(n) = IF n.len > 0 THEN Sectors("file", data, base) ELSE <<>>
  BY DEF Streamed
<1> HIDE DEF stream, data, n
<1>6. \A s \in DOMAIN D : s \in Nat /\ s >= base
  <2>1. CASE n.dir
    <3>1. DOMAIN Sectors("fids", stream, base) = base..(base + Blocks(Len(stream)) - 1)
      BY <1>1, <1>3, <2>1, SectorsOn
    <3>2. \A s \in base..(base + Blocks(Len(stream)) - 1) : s \in Nat /\ s >= base
      BY <1>1
    <3>3. D = Sectors("fids", stream, base)
      BY <2>1
    <3>4. QED BY <3>1, <3>2, <3>3
  <2>2. CASE ~n.dir /\ n.len > 0
    <3>1. DOMAIN Sectors("file", data, base) = base..(base + Blocks(Len(data)) - 1)
      BY <1>1, <1>4, <2>2, SectorsOn
    <3>2. \A s \in base..(base + Blocks(Len(data)) - 1) : s \in Nat /\ s >= base
      BY <1>1
    <3>3. D = Sectors("file", data, base)
      BY <1>5, <2>2
    <3>4. QED BY <3>1, <3>2, <3>3
  <2>3. CASE ~n.dir /\ ~(n.len > 0)
    <3>1. D = <<>>
      BY <1>5, <2>3
    <3>2. QED BY <3>1
  <2>4. QED BY <2>1, <2>2, <2>3
<1> DEFINE sect == Sectors(IF n.dir THEN "fids" ELSE "file", IF n.dir THEN stream ELSE data, base)
<1> HIDE DEF D
<1>7. /\ SectorOf(new, LbnPartition + n.fe) = FileEntry(n)[LbnPartition + n.fe]
      /\ \A s \in DOMAIN D : SectorOf(new, s) = D[s]
      /\ SameBelow(img, new, LbnPartition + n.fe)
  BY <1>1, <1>2, <1>6, WrittenOver
<1>8. \E fe : SectorOf(new, LbnPartition + n.fe) = <<"file entry", n.fe, fe>> /\ EntryFor(nodes, n, fe)
  <2>1. \E fe : FileEntry(n)[LbnPartition + n.fe] = <<"file entry", n.fe, fe>> /\ EntryFor(nodes, n, fe)
    BY <1>1, EntryIs
  <2>2. QED BY <1>7, <2>1
<1>9. ASSUME n.dir
      PROVE  \E cells, off, ents : Listed(nodes, new, n, cells, off, ents)
  <2>1. D = Sectors("fids", stream, base)
    BY <1>9 DEF D
  <2>2. CellsOn(new, "fids", n.lb, stream)
    BY <1>1, <1>3, <1>7, <1>9, <2>1, CellsWritten
  <2>3. PICK off : Streams(stream, off, DirEntries(n), n.lb)
    BY <1>3, <1>9
  <2>4. Listed(nodes, new, n, stream, off, DirEntries(n))
    BY <1>3, <1>9, <2>2, <2>3 DEF Listed
  <2>5. QED BY <2>4
<1>10. ASSUME ~n.dir, n.path \in DOMAIN str, Len(str[n.path]) >= n.len
       PROVE  CellsOn(new, "file", n.lb, SubSeq(str[n.path], 1, n.len))
  <2> DEFINE d == str[n.path]
             c == SubSeq(d, 1, n.len)
  <2>1. d \in Seq(Nat) /\ n.len \in 0..Len(d)
    BY <1>1, <1>10, LenProperties
  <2>2. CASE n.len > 0
    <3>1. data = d
      BY <1>4, <1>10, <2>2
    <3> HIDE DEF d
    <3>2. D = Sectors("file", d, base)
      BY <1>5, <1>10, <2>2, <3>1 DEF D
    <3>3. CellsOn(new, "file", n.lb, d)
      BY <1>1, <1>7, <2>1, <3>2, CellsWritten
    <3>4. CellsOn(new, "file", n.lb, c)
      BY <2>1, <3>3, CellsFirst
    <3>5. QED BY <3>4 DEF d
  <2>3. CASE ~(n.len > 0)
    <3>1. n.len = 0
      BY <1>1, <2>3
    <3>2. Len(c) = n.len
      BY <2>1, PrefixIs
    <3> HIDE DEF c
    <3>3. 1..Len(c) = {}
      BY <3>1, <3>2
    <3>4. CellsOn(new, "file", n.lb, c)
      BY <3>3 DEF CellsOn
    <3>5. QED BY <3>4 DEF c, d
  <2>4. QED BY <2>2, <2>3
<1>11. NodeOn(nodes, new, str, n)
  BY <1>8, <1>9, <1>10 DEF NodeOn
<1>12. QED BY <1>7, <1>11 DEF n

--------------------------------------------------------------------------------
(* The image while it is written and afterwards. *)

\* The first w nodes are on the image, the rest is to come.
OnImage(ns, img, str, rest, w) ==
  /\ rest = SubSeq(ns, w + 1, Len(ns))
  /\ \A k \in 1..w : NodeOn(ns, img, str, ns[k])
  /\ \A p \in DOMAIN str : \E k \in 1..w : ns[k].path = p /\ ~ns[k].dir

\* WalkInv of any tree and nodes.
Walked(tree, ns) == Laid(tree, ns) /\ WalkOK(tree) /\ ClosedTree(tree)

\* An image of a tree, up to the node the second walk has reached; when it is
\* done, with a boot record that leads to the catalog.
OnDisc(tree, ns, img, str, rest, done) ==
  /\ Walked(tree, ns) /\ Structured(img, ns[1].fe)
  /\ \A p \in DOMAIN str : str[p] \in Seq(Nat)
  /\ \E w \in 0..Len(ns) : OnImage(ns, img, str, rest, w)
  /\ IF done THEN rest = <<>> /\ Bootable(img) ELSE NoRecords(img)

\* The inductive invariant of images, from their first node to the last rewrite.
ImageInv == iso \in {"writing", "done"} => OnDisc(walked, nodes, image, streamed, todo, iso = "done")

\* The nodes are apart, and the image ends after them.
LEMMA NodesApart ==
  ASSUME NEW tree, NEW ns, Laid(tree, ns)
  PROVE  /\ Len(ns) \in Nat \ {0} /\ DOMAIN ns = 1..Len(ns)
         /\ \A k \in 1..Len(ns) : ns[k] \in NodeSet /\ ns[k].fe \in Nat /\ ns[k].lb \in Nat /\ ns[k].len \in Nat
                                  /\ Blocks(ns[k].len) \in Nat /\ ns[k].fe < ns[k].lb /\ 2 <= ns[k].fe
                                  /\ ns[k].lb = ns[k].fe + 1
         /\ \A j, k \in 1..Len(ns) : j < k => ns[j].lb + Blocks(ns[j].len) <= ns[k].fe
         /\ \A k \in 1..Len(ns) : ns[k].lb + Blocks(ns[k].len) <= Last(ns).lb + Blocks(Last(ns).len)
<1> DEFINE N == Len(ns)
<1>1. N \in Nat \ {0} /\ DOMAIN ns = 1..N
  BY LenProperties, EmptySeq DEF Laid
<1>2. ASSUME NEW k \in 1..N
      PROVE  ns[k] \in NodeSet /\ ns[k].fe \in Nat /\ ns[k].lb \in Nat /\ ns[k].len \in Nat
             /\ Blocks(ns[k].len) \in Nat /\ ns[k].fe < ns[k].lb /\ 2 <= ns[k].fe /\ ns[k].lb = ns[k].fe + 1
  <2>1. ns[k] \in NodeSet
    BY <1>1, <1>2, ElementOfSeq DEF Laid
  <2>2. ns[k].fe \in Nat /\ ns[k].lb \in Nat /\ ns[k].len \in Nat
    BY <2>1 DEF NodeSet
  <2>3. Blocks(ns[k].len) \in Nat
    BY <2>2, BlocksIs
  <2>4. ns[k].lb = ns[k].fe + 1 /\ ns[k].fe >= 2
    BY <1>1 DEF Laid
  <2>5. QED BY <2>1, <2>2, <2>3, <2>4
<1>3. \A j, k \in 1..N : j < k => ns[j].lb + Blocks(ns[j].len) <= ns[k].fe
  BY <1>1 DEF Laid
<1> HIDE DEF N
<1>4. N \in 1..N /\ Last(ns) = ns[N]
  BY <1>1 DEF Last, N
<1>5. ASSUME NEW k \in 1..N
      PROVE  ns[k].lb + Blocks(ns[k].len) <= ns[N].lb + Blocks(ns[N].len)
  <2>1. CASE k = N
    <3>1. ns[N].lb + Blocks(ns[N].len) \in Nat
      BY <1>2, <1>4
    <3>2. QED BY <2>1, <3>1
  <2>2. CASE k # N
    <3> DEFINE x == ns[k].lb
               y == Blocks(ns[k].len)
               f == ns[N].fe
               l == ns[N].lb
               z == Blocks(ns[N].len)
    <3>1. k < N
      BY <1>1, <2>2
    <3>2. x + y <= f
      BY <1>3, <1>4, <3>1
    <3>3. x \in Nat /\ y \in Nat /\ f \in Nat /\ l \in Nat /\ z \in Nat /\ f < l
      BY <1>2, <1>4
    <3> HIDE DEF x, y, f, l, z
    <3>4. x + y <= l + z
      BY <3>2, <3>3
    <3>5. QED BY <3>4 DEF x, y, l, z
  <2>3. QED BY <2>1, <2>2
<1>6. QED BY <1>1, <1>2, <1>3, <1>4, <1>5 DEF N

\* A tree that is mastered can be walked.
LEMMA MediaWalked ==
  ASSUME DiscInv, Shaped(media), LeftInv
  PROVE  WalkOK(media)
<1>1. TreeOK(media)
  BY DEF DiscInv, BuildInv
<1>2. DOMAIN media \subseteq Seq(Names)
  BY KnownAre DEF Shaped, Placed
<1>3. <<>> \in DOMAIN media
  BY DEF LeftInv
<1>4. media[<<>>].dir
  <2>1. <<>> \in KnownDirs
    BY TreeAssumption DEF KnownDirs
  <2>2. QED BY <1>3, <2>1, KnownAre DEF Shaped, Placed
<1>5. QED BY <1>1, <1>2, <1>3, <1>4 DEF WalkOK, TreeOK

\* A call begins.
LEMMA BeginStep ==
  ASSUME DiscInv, Shaped(media), LeftInv, BeginISO
  PROVE  ImageInv'
<1>1. WalkOK(media) /\ ClosedTree(media)
  BY MediaWalked DEF Shaped
<1>2. BeginTree(VrsSector) /\ iso' = "writing"
  BY DEF BeginISO
<1>3. nodes' = AssignBlocks(media).nodes /\ todo' = nodes' /\ walked' = media /\ streamed' = <<>>
  BY <1>2 DEF BeginTree
<1>4. Laid(media, nodes')
  BY <1>1, <1>3, AssignIs
<1>5. Structured(image', nodes'[1].fe) /\ NoRecords(image')
  BY <1>2, BeginIs
<1> DEFINE ns == nodes'
<1>6. Len(ns) \in Nat /\ ns \in Seq(NodeSet)
  BY <1>4, LenProperties DEF Laid
<1> HIDE DEF ns
<1>7. SubSeq(ns, 1, Len(ns)) = ns
  BY <1>6, SubSeqFull
<1>8. OnImage(ns, image', <<>>, ns, 0)
  <2>1. 0 + 1 = 1 /\ 1..0 = {} /\ DOMAIN <<>> = {}
    OBVIOUS
  <2>2. QED BY <1>7, <2>1 DEF OnImage
<1>9. 0 \in 0..Len(ns) /\ \A p \in DOMAIN <<>> : <<>>[p] \in Seq(Nat)
  BY <1>6
<1>10. OnDisc(media, ns, image', <<>>, ns, FALSE)
  BY <1>1, <1>4, <1>5, <1>8, <1>9 DEF OnDisc, Walked, ns
<1>11. QED BY <1>2, <1>3, <1>10 DEF ImageInv, ns

\* A node is written.
LEMMA NodeStep ==
  ASSUME DiscInv, ImageInv, WriteISONode
  PROVE  ImageInv'
<1>1. /\ iso = "writing" /\ iso' = "writing" /\ todo # <<>> /\ nodes' = nodes /\ walked' = walked /\ todo' = Tail(todo)
      /\ Head(todo).dir \/ Head(todo).len = 0 \/ Head(todo).path \in DOMAIN media
  BY DEF WriteISONode, WriteNode
<1>2. OnDisc(walked, nodes, image, streamed, todo, FALSE)
  BY <1>1 DEF ImageInv
<1>3. WalkInv
  BY <1>2 DEF OnDisc, Walked, WalkInv
<1>4. PICK w \in 0..Len(nodes) : OnImage(nodes, image, streamed, todo, w)
  BY <1>2 DEF OnDisc
<1>5. /\ Len(nodes) \in Nat \ {0} /\ DOMAIN nodes = 1..Len(nodes) /\ nodes \in Seq(NodeSet)
      /\ \A k \in 1..Len(nodes) : nodes[k] \in NodeSet /\ nodes[k].fe \in Nat /\ nodes[k].lb \in Nat /\ nodes[k].len \in Nat
                                  /\ Blocks(nodes[k].len) \in Nat /\ nodes[k].fe < nodes[k].lb /\ 2 <= nodes[k].fe
      /\ \A j, k \in 1..Len(nodes) : j < k => nodes[j].lb + Blocks(nodes[j].len) <= nodes[k].fe
  BY <1>3, NodesApart, ZenonT(60) DEF WalkInv, Laid
<1> DEFINE N == Len(nodes)
           i == w + 1
           n == nodes[i]
           str == streamed'
           b == LbnPartition + n.fe
<1>6. i \in 1..N /\ Head(todo) = n /\ Tail(todo) = SubSeq(nodes, i + 1, N)
  <2>1. todo = SubSeq(nodes, w + 1, N)
    BY <1>4 DEF OnImage
  <2>2. w < N
    <3>1. CASE w = N
      <4>1. SubSeq(nodes, w + 1, N) = <<>>
        BY <1>5, <3>1, SubSeqEmpty
      <4>2. QED BY <1>1, <2>1, <4>1
    <3>2. QED BY <1>5, <3>1
  <2>3. i \in 1..N
    BY <1>5, <2>2
  <2> HIDE DEF i
  <2>4. i <= N /\ i \in Nat \ {0}
    BY <1>5, <2>3
  <2>5. Head(SubSeq(nodes, i, N)) = nodes[i] /\ Tail(SubSeq(nodes, i, N)) = SubSeq(nodes, i + 1, N)
    <3>1. nodes \in Seq(NodeSet) /\ i \in 1..Len(nodes) /\ N \in i..Len(nodes)
      BY <1>5, <2>3
    <3> HIDE DEF N, n
    <3>2. QED BY <3>1, HeadTailOfSubSeq
  <2>6. QED BY <2>1, <2>3, <2>5 DEF i
<1>7. n \in NodeSet /\ n.fe \in Nat /\ n.len \in Nat /\ b \in Nat /\ b > LbnPartition
  <2> HIDE DEF n, i
  <2>1. n \in NodeSet /\ n.fe \in Nat /\ n.len \in Nat /\ 2 <= n.fe
    BY <1>5, <1>6 DEF n
  <2>2. QED BY <2>1 DEF LbnPartition
<1>8. \A p \in DOMAIN streamed : streamed[p] \in Seq(Nat)
  BY <1>2 DEF OnDisc
<1>9. /\ DOMAIN str = IF n.dir \/ n.len = 0 THEN DOMAIN streamed ELSE {n.path} \cup DOMAIN streamed
      /\ \A p \in DOMAIN streamed \ {n.path} : str[p] = streamed[p]
      /\ ~n.dir /\ n.len > 0 => str[n.path] = media[n.path].data
      /\ n.dir \/ n.len = 0 => str = streamed
  <2>1. streamed' = IF n.dir \/ n.len = 0 THEN streamed ELSE Overlay(Only(n.path, media[n.path].data), streamed)
    BY <1>6 DEF WriteISONode, WriteNode
  <2>2. CASE n.dir \/ n.len = 0
    BY <1>7, <2>1, <2>2
  <2>3. CASE ~(n.dir \/ n.len = 0)
    <3> DEFINE o == Only(n.path, media[n.path].data)
    <3>1. DOMAIN o = {n.path} /\ o[n.path] = media[n.path].data
      BY DEF Only
    <3>2. str = Overlay(o, streamed)
      BY <2>1, <2>3
    <3> HIDE DEF o
    <3>3. /\ DOMAIN Overlay(o, streamed) = DOMAIN o \cup DOMAIN streamed
          /\ \A p \in DOMAIN o : Overlay(o, streamed)[p] = o[p]
          /\ \A p \in DOMAIN streamed \ DOMAIN o : Overlay(o, streamed)[p] = streamed[p]
      BY OverlayIs
    <3>4. QED BY <2>3, <3>1, <3>2, <3>3
  <2>4. QED BY <2>2, <2>3
<1>10. ~n.dir /\ n.len > 0 => media[n.path].data \in Seq(Nat) /\ n.path \in DOMAIN str
  <2> SUFFICES ASSUME ~n.dir, n.len > 0
               PROVE  media[n.path].data \in Seq(Nat) /\ n.path \in DOMAIN str
    OBVIOUS
  <2>1. n.path \in DOMAIN media
    BY <1>1, <1>6, <1>7
  <2>2. media[n.path] \in Node
    BY <2>1 DEF DiscInv, BuildInv, TreeOK
  <2>3. media[n.path].data \in Seq(Nat)
    BY <2>2, NodeIs
  <2>4. QED BY <1>7, <1>9, <2>3
<1>11. \A p \in DOMAIN str : str[p] \in Seq(Nat)
  <2> SUFFICES ASSUME NEW p \in DOMAIN str
               PROVE  str[p] \in Seq(Nat)
    OBVIOUS
  <2>1. CASE n.dir \/ n.len = 0
    BY <1>8, <1>9, <2>1
  <2>2. CASE ~n.dir /\ n.len # 0 /\ p = n.path
    BY <1>7, <1>9, <1>10, <2>2
  <2>3. CASE ~n.dir /\ n.len # 0 /\ p # n.path
    BY <1>8, <1>9, <2>3
  <2>4. QED BY <2>1, <2>2, <2>3
<1>12. image' = Overlay(IF n.dir THEN DirEntry(n) ELSE Overlay(FileEntry(n), Streamed(n)), image)
  BY <1>6 DEF WriteISONode, WriteNode
<1>13. NodeOn(nodes, image', str, n) /\ SameTo(image, image', b) /\ SameBelow(image, image', b)
  <2>1. ~n.dir /\ n.len > 0 => n.path \in DOMAIN str /\ str[n.path] = media[n.path].data
    BY <1>9, <1>10
  <2>2. i \in DOMAIN nodes
    BY <1>5, <1>6
  <2> HIDE DEF str, i
  <2>3. NodeOn(nodes, image', str, n) /\ SameBelow(image, image', b)
    BY <1>3, <1>11, <1>12, <2>1, <2>2, NodeWritten
  <2>4. QED BY <2>3 DEF SameTo, SameBelow
<1> HIDE DEF str
<1>14. ASSUME NEW k \in 1..w
       PROVE  NodeOn(nodes, image', str, nodes[k])
  <2>1. k \in 1..N /\ k < i /\ i \in 1..N
    BY <1>5, <1>6
  <2> DEFINE m == nodes[k]
             e == m.lb + Blocks(m.len)
  <2>2. e <= n.fe /\ e \in Nat
    BY <1>5, <2>1
  <2>3. LbnPartition + m.lb + Blocks(m.len) <= b
    <3> DEFINE x == m.lb
               y == Blocks(m.len)
               f == n.fe
    <3>1. x \in Nat /\ y \in Nat /\ f \in Nat /\ x + y <= f
      BY <1>5, <1>7, <2>1, <2>2
    <3> HIDE DEF x, y, f
    <3>2. LbnPartition + x + y <= LbnPartition + f
      BY <3>1 DEF LbnPartition
    <3>3. QED BY <3>2 DEF x, y, f
  <2>4. m \in NodeSet /\ m.fe < m.lb /\ NodeOn(nodes, image, streamed, m)
    BY <1>4, <1>5, <2>1 DEF OnImage
  <2>5. m.path # n.path
    <3>1. \A x, y \in DOMAIN nodes : nodes[x].path = nodes[y].path => x = y
      BY <1>3 DEF WalkInv, Laid
    <3>2. k \in DOMAIN nodes /\ i \in DOMAIN nodes /\ k # i
      BY <1>5, <2>1
    <3> HIDE DEF i
    <3>3. QED BY <3>1, <3>2
  <2> HIDE DEF e, n
  <2>6. m.path \in DOMAIN str => m.path \in DOMAIN streamed /\ str[m.path] = streamed[m.path] /\ streamed[m.path] \in Seq(Nat)
    BY <1>8, <1>9, <2>5
  <2> HIDE DEF m, b
  <2>7. NodeOn(nodes, image', str, m)
    BY <1>7, <1>13, <2>3, <2>4, <2>6, NodeKept
  <2>8. QED BY <2>7 DEF m
<1>15. OnImage(nodes, image', str, todo', i)
  <2>1. \A k \in 1..i : k = i \/ k \in 1..w
    OBVIOUS
  <2>2. \A k \in 1..i : NodeOn(nodes, image', str, nodes[k])
    BY <1>13, <1>14, <2>1
  <2>3. ASSUME NEW p \in DOMAIN str
        PROVE  \E k \in 1..i : nodes[k].path = p /\ ~nodes[k].dir
    <3>1. CASE p \in DOMAIN streamed
      <4>1. PICK k \in 1..w : nodes[k].path = p /\ ~nodes[k].dir
        BY <1>4, <3>1 DEF OnImage
      <4>2. k \in 1..i
        OBVIOUS
      <4>3. QED BY <4>1, <4>2
    <3>2. CASE p \notin DOMAIN streamed
      <4>1. p = n.path /\ ~n.dir
        BY <1>9, <2>3, <3>2
      <4>2. i \in 1..i
        BY <1>6
      <4>3. QED BY <4>1, <4>2
    <3>3. QED BY <3>1, <3>2
  <2>4. todo' = SubSeq(nodes, i + 1, N)
    BY <1>1, <1>6
  <2> HIDE DEF i, N
  <2>5. QED BY <2>2, <2>3, <2>4 DEF OnImage, N
<1>16. Structured(image', nodes[1].fe)
  BY <1>2, <1>7, <1>13, StructureKept DEF OnDisc
<1>17. NoRecords(image')
  <2> SUFFICES ASSUME NEW s \in 16..32
               PROVE  Tag(SectorOf(image', s)) # "boot record"
    BY DEF NoRecords
  <2>1. SectorOf(image', s) = SectorOf(image, s)
    <3>1. s \in Nat /\ s < b
      BY <1>7 DEF LbnPartition
    <3> HIDE DEF b
    <3>2. QED BY <1>13, <3>1 DEF SameBelow
  <2>2. QED BY <1>2, <2>1 DEF OnDisc, NoRecords
<1>18. i \in 0..N
  BY <1>5, <1>6
<1>19. OnDisc(walked, nodes, image', str, todo', FALSE)
  BY <1>2, <1>11, <1>15, <1>16, <1>17, <1>18 DEF OnDisc
<1>20. QED BY <1>1, <1>19 DEF ImageInv, str

--------------------------------------------------------------------------------
(* The boot catalog, and the calls that rewrite it. *)

\* The sectors of the bridge.
LEMMA BridgeIs ==
  ASSUME NEW entries, NEW total
  PROVE  LET f == Bridge(entries, total)
         IN  /\ DOMAIN f = 16..18 \cup 22..25
             /\ \A s \in DOMAIN f : Tag(f[s]) = "boot record" <=> s = 17
             /\ Body(f[17]) = [catalog |-> CatalogSector] /\ Tag(f[22]) = "catalog"
<1> DEFINE body == [catalog |-> CatalogSector]
           a1 == <<"iso primary", 0, [blocks |-> total, root |-> RootDirSector]>>
           a2 == <<"boot record", 0, body>>
           a3 == <<"iso terminator", 0, <<>>>>
           c1 == Catalog(entries)
           c2 == <<"path table", 0, [root |-> RootDirSector]>>
           c4 == <<"iso directory", 0, [names |-> {}]>>
           a == <<a1, a2, a3>>
           c == <<c1, c2, c2, c4>>
           F == From(PvdSector, a)
           G == From(CatalogSector, c)
           f == Bridge(entries, total)
<1>1. f = Overlay(F, G)
  BY DEF Bridge
<1>2. Tag(a1) = "iso primary" /\ Tag(a3) = "iso terminator"
  BY DEF Tag
<1>3. Tag(a2) = "boot record" /\ Body(a2) = body
  BY DEF Tag, Body
<1>4. Tag(c1) = "catalog"
  BY DEF Tag, Catalog
<1>5. Tag(c2) = "path table" /\ Tag(c4) = "iso directory"
  BY DEF Tag
<1> HIDE DEF a1, a2, a3, c1, c2, c4, body, f
<1>6. Len(a) = 3 /\ a[1] = a1 /\ a[2] = a2 /\ a[3] = a3
  OBVIOUS
<1>7. Len(c) = 4 /\ c[1] = c1 /\ c[2] = c2 /\ c[3] = c2 /\ c[4] = c4
  OBVIOUS
<1> HIDE DEF a, c
<1>8. DOMAIN F = 16..18 /\ \A k \in 1..3 : F[15 + k] = a[k]
  <2> DEFINE p == PvdSector
  <2>1. p \in Nat /\ p = 16 /\ Len(a) \in Nat
    BY <1>6 DEF PvdSector
  <2> HIDE DEF p
  <2>2. DOMAIN From(p, a) = p..(p + Len(a) - 1) /\ \A k \in 1..Len(a) : From(p, a)[p + k - 1] = a[k]
    BY <2>1, FromIs
  <2>3. \A k \in 1..3 : p + k - 1 = 15 + k
    BY <2>1
  <2>4. p + 3 - 1 = 18
    BY <2>1
  <2>5. QED BY <1>6, <2>1, <2>2, <2>3, <2>4 DEF p
<1>9. DOMAIN G = 22..25 /\ \A k \in 1..4 : G[21 + k] = c[k]
  <2> DEFINE p == CatalogSector
  <2>1. p \in Nat /\ p = 22 /\ Len(c) \in Nat
    BY <1>7 DEF CatalogSector
  <2> HIDE DEF p
  <2>2. DOMAIN From(p, c) = p..(p + Len(c) - 1) /\ \A k \in 1..Len(c) : From(p, c)[p + k - 1] = c[k]
    BY <2>1, FromIs
  <2>3. \A k \in 1..4 : p + k - 1 = 21 + k
    BY <2>1
  <2>4. p + 4 - 1 = 25
    BY <2>1
  <2>5. QED BY <1>7, <2>1, <2>2, <2>3, <2>4 DEF p
<1> HIDE DEF F, G
<1>10. /\ DOMAIN Overlay(F, G) = DOMAIN F \cup DOMAIN G
       /\ \A s \in DOMAIN F : Overlay(F, G)[s] = F[s]
       /\ \A s \in DOMAIN G \ DOMAIN F : Overlay(F, G)[s] = G[s]
  BY OverlayIs
<1>11. \A k \in 1..3 : f[15 + k] = a[k]
  <2>1. \A k \in 1..3 : 15 + k \in 16..18
    OBVIOUS
  <2>2. QED BY <1>1, <1>8, <1>10, <2>1
<1>12. \A k \in 1..4 : f[21 + k] = c[k]
  <2>1. \A k \in 1..4 : 21 + k \in 22..25 /\ 21 + k \notin 16..18
    OBVIOUS
  <2>2. QED BY <1>1, <1>8, <1>9, <1>10, <2>1
<1>13. \A k \in 1..3 : Tag(a[k]) = "boot record" <=> k = 2
  <2>1. 1..3 = {1, 2, 3}
    OBVIOUS
  <2>2. QED BY <1>2, <1>3, <1>6, <2>1
<1>14. \A k \in 1..4 : Tag(c[k]) # "boot record"
  <2>1. 1..4 = {1, 2, 3, 4}
    OBVIOUS
  <2>2. QED BY <1>4, <1>5, <1>7, <2>1
<1>15. ASSUME NEW s \in 16..18
       PROVE  Tag(f[s]) = "boot record" <=> s = 17
  <2> DEFINE k == s - 15
  <2>1. k \in 1..3 /\ s = 15 + k /\ (k = 2 <=> s = 17)
    OBVIOUS
  <2> HIDE DEF k
  <2>2. QED BY <1>11, <1>13, <2>1
<1>16. ASSUME NEW s \in 22..25
       PROVE  Tag(f[s]) # "boot record" /\ s # 17
  <2> DEFINE k == s - 21
  <2>1. k \in 1..4 /\ s = 21 + k /\ s # 17
    OBVIOUS
  <2> HIDE DEF k
  <2>2. QED BY <1>12, <1>14, <2>1
<1>17. DOMAIN f = 16..18 \cup 22..25
  BY <1>1, <1>8, <1>9, <1>10
<1>18. Body(f[17]) = body
  <2>1. 15 + 2 = 17 /\ 2 \in 1..3
    OBVIOUS
  <2>2. QED BY <1>3, <1>6, <1>11, <2>1
<1>19. Tag(f[22]) = "catalog"
  <2>1. 21 + 1 = 22 /\ 1 \in 1..4
    OBVIOUS
  <2>2. QED BY <1>4, <1>7, <1>12, <2>1
<1>20. \A s \in DOMAIN f : Tag(f[s]) = "boot record" <=> s = 17
  BY <1>15, <1>16, <1>17
<1>21. QED BY <1>17, <1>18, <1>19, <1>20 DEF f, body

\* What leaves the volume as it is.
LEMMA DiscKept ==
  ASSUME NEW tree, NEW ns, NEW img, NEW new, NEW str, NEW rest, NEW done, OnDisc(tree, ns, img, str, rest, done),
         SameTo(img, new, LbnPartition + (Last(ns).lb + Blocks(Last(ns).len))), rest = <<>>, Bootable(new)
  PROVE  OnDisc(tree, ns, new, str, rest, TRUE)
<1> DEFINE e == Last(ns).lb + Blocks(Last(ns).len)
           b == LbnPartition + e
           N == Len(ns)
<1>1. /\ N \in Nat \ {0} /\ DOMAIN ns = 1..N
      /\ \A k \in 1..N : ns[k] \in NodeSet /\ ns[k].fe \in Nat /\ ns[k].lb \in Nat /\ ns[k].len \in Nat
                         /\ Blocks(ns[k].len) \in Nat /\ ns[k].fe < ns[k].lb /\ 2 <= ns[k].fe
      /\ \A k \in 1..N : ns[k].lb + Blocks(ns[k].len) <= e
  BY NodesApart DEF OnDisc, Walked
<1> HIDE DEF N
<1>2. e \in Nat /\ e > 0
  <2>1. N \in 1..N /\ Last(ns) = ns[N]
    BY <1>1 DEF Last, N
  <2>2. QED BY <1>1, <2>1
<1>3. PICK w \in 0..N : OnImage(ns, img, str, rest, w)
  BY DEF OnDisc, N
<1> HIDE DEF e
<1>4. b \in Nat /\ b > LbnPartition
  BY <1>2 DEF LbnPartition
<1>5. ASSUME NEW k \in 1..w
      PROVE  NodeOn(ns, new, str, ns[k])
  <2> DEFINE m == ns[k]
             x == m.lb
             y == Blocks(m.len)
  <2>1. k \in 1..N
    BY <1>1
  <2>2. m \in NodeSet /\ m.fe < m.lb /\ x \in Nat /\ y \in Nat /\ x + y <= e /\ NodeOn(ns, img, str, m)
    BY <1>1, <1>3, <2>1 DEF OnImage
  <2> HIDE DEF x, y
  <2>3. LbnPartition + x + y <= b
    BY <1>2, <2>2 DEF LbnPartition
  <2> HIDE DEF m
  <2>4. m.path \in DOMAIN str => str[m.path] \in Seq(Nat)
    BY DEF OnDisc
  <2>5. SameTo(img, new, b)
    BY DEF e
  <2>6. LbnPartition + m.lb + Blocks(m.len) <= b
    BY <2>3 DEF x, y
  <2> HIDE DEF b
  <2>7. NodeOn(ns, new, str, m)
    BY <1>4, <2>2, <2>4, <2>5, <2>6, NodeKept
  <2>8. QED BY <2>7 DEF m
<1>6. OnImage(ns, new, str, rest, w)
  BY <1>3, <1>5 DEF OnImage
<1>7. Structured(new, ns[1].fe)
  <2>1. SameTo(img, new, b) /\ Structured(img, ns[1].fe)
    BY DEF OnDisc, e
  <2> HIDE DEF b
  <2>2. QED BY <1>4, <2>1, StructureKept
<1>8. QED BY <1>6, <1>7 DEF OnDisc, N

\* An image is finished.
LEMMA EndStep ==
  ASSUME ImageInv, EndISO
  PROVE  ImageInv'
<1> DEFINE f == Bridge(BootEntries, TotalSectors + 1)
           t == TotalSectors
           o == Only(t, Anchor(t))
           e == Last(nodes).lb + Blocks(Last(nodes).len)
<1>1. /\ iso = "writing" /\ todo = <<>> /\ iso' = "done" /\ nodes' = nodes /\ todo' = todo /\ walked' = walked
      /\ streamed' = streamed /\ image' = Overlay(f, Overlay(o, image))
  BY DEF EndISO, EndTree
<1>2. OnDisc(walked, nodes, image, streamed, todo, FALSE)
  BY <1>1 DEF ImageInv
<1>3. t = LbnPartition + e
  BY DEF TotalSectors, PartitionBlocks
<1>4. e \in Nat
  <2>1. Len(nodes) \in Nat \ {0} /\ \A k \in 1..Len(nodes) : nodes[k].lb \in Nat /\ Blocks(nodes[k].len) \in Nat
    BY <1>2, NodesApart DEF OnDisc, Walked
  <2> DEFINE N == Len(nodes)
  <2>2. N \in 1..N /\ Last(nodes) = nodes[N]
    BY <2>1 DEF Last
  <2>3. QED BY <2>1, <2>2
<1> HIDE DEF e
<1>5. t \in Nat /\ t > 32 /\ 256 < t
  BY <1>3, <1>4 DEF LbnPartition
<1>6. DOMAIN o = {t}
  BY DEF Only
<1>7. /\ DOMAIN f = 16..18 \cup 22..25
      /\ \A s \in DOMAIN f : Tag(f[s]) = "boot record" <=> s = 17
      /\ Body(f[17]) = [catalog |-> CatalogSector] /\ Tag(f[22]) = "catalog"
  BY BridgeIs
<1>71. DOMAIN f = 16..18 \cup 22..25
  BY <1>7
<1>72. \A s \in DOMAIN f : Tag(f[s]) = "boot record" <=> s = 17
  BY <1>7
<1> HIDE DEF f, o, t
<1>8. \A s : SectorOf(image', s) = IF s \in DOMAIN f THEN f[s] ELSE IF s = t THEN o[s] ELSE SectorOf(image, s)
  <2> DEFINE g == Overlay(o, image)
  <2>1. \A s : SectorOf(g, s) = IF s \in DOMAIN o THEN o[s] ELSE SectorOf(image, s)
    BY OverlaySector
  <2> HIDE DEF g
  <2>2. \A s : SectorOf(Overlay(f, g), s) = IF s \in DOMAIN f THEN f[s] ELSE SectorOf(g, s)
    BY OverlaySector
  <2>3. image' = Overlay(f, g)
    BY <1>1 DEF g
  <2>4. QED BY <1>6, <2>1, <2>2, <2>3
<1>9. \A s \in DOMAIN f : SectorOf(image', s) = f[s]
  BY <1>8
<1>10. Bootable(image')
  <2>1. SectorOf(image', 17) = f[17] /\ SectorOf(image', 22) = f[22]
    <3>1. 17 \in DOMAIN f /\ 22 \in DOMAIN f
      BY <1>71
    <3>2. QED BY <1>9, <3>1
  <2>2. ASSUME NEW s \in 16..32
        PROVE  Tag(SectorOf(image', s)) = "boot record" <=> s = 17
    <3>1. CASE s \in DOMAIN f
      BY <1>72, <1>9, <3>1
    <3>2. CASE s \notin DOMAIN f
      <4>1. s # t /\ s # 17
        BY <1>5, <1>71, <3>2
      <4>2. SectorOf(image', s) = SectorOf(image, s)
        BY <1>8, <3>2, <4>1
      <4>3. Tag(SectorOf(image, s)) # "boot record"
        BY <1>2 DEF OnDisc, NoRecords
      <4>4. QED BY <4>1, <4>2, <4>3
    <3>3. QED BY <3>1, <3>2
  <2>3. Body(SectorOf(image', 17)) = [catalog |-> CatalogSector]
    BY <1>7, <2>1
  <2>4. Tag(SectorOf(image', 22)) = "catalog"
    BY <1>7, <2>1
  <2>5. BootRecSector = 17 /\ CatalogSector = 22
    BY DEF BootRecSector, CatalogSector
  <2>6. QED BY <2>2, <2>3, <2>4, <2>5 DEF Bootable
<1>11. SameTo(image, image', t)
  <2> SUFFICES ASSUME NEW s \in Nat, LbnAnchor <= s, s < t
               PROVE  SectorOf(image', s) = SectorOf(image, s)
    BY DEF SameTo
  <2>1. s > 32
    BY DEF LbnAnchor
  <2>2. s \notin DOMAIN f /\ s # t
    BY <1>5, <1>71, <2>1
  <2>3. QED BY <1>8, <2>2
<1>12. OnDisc(walked, nodes, image', streamed, todo, TRUE)
  <2>1. SameTo(image, image', LbnPartition + (Last(nodes).lb + Blocks(Last(nodes).len)))
    BY <1>3, <1>11 DEF e
  <2>2. QED BY <1>1, <1>2, <1>10, <2>1, DiscKept
<1>13. QED BY <1>1, <1>12 DEF ImageInv

\* Where the inspector finds the catalog.
LEMMA CatalogAt ==
  ASSUME NEW img, Bootable(img)
  PROVE  InspectElTorito(img).sector = CatalogSector
<1> DEFINE records == {s \in 16..32 : SectorOf(img, s)[1] = "boot record"}
           sector == SectorOf(img, Min(records))[3].catalog
           cat == SectorOf(img, sector)[3]
           Of(p) == Selected(cat.entries, {k \in DOMAIN cat.entries : cat.entries[k].platform = p})
           uefi == SubSeq(Of(UEFI), 1, Min({1, Len(Of(UEFI))}))
           bios == SubSeq(Of(BIOS), 1, Min({1, Len(Of(BIOS))}))
           gone == (IF ChecksumOK(cat) THEN {} ELSE {"checksum"}) \cup (IF Of(UEFI) = <<>> THEN {"no UEFI"} ELSE {})
           x == BootRecSector
<1>1. \A s \in 16..32 : SectorOf(img, s)[1] = "boot record" <=> s = x
  BY DEF Bootable, Tag
<1>2. x \in 16..32
  BY DEF BootRecSector
<1> HIDE DEF x
<1>3. records = {x}
  BY <1>1, <1>2
<1>4. Min(records) = x
  <2>1. Min({x}) = CHOOSE y \in {x} : \A z \in {x} : y <= z
    BY DEF Min
  <2>2. \A y \in {x} : x <= y
    BY <1>2
  <2>3. QED BY <1>3, <2>1, <2>2
<1> HIDE DEF records
<1>5. sector = CatalogSector
  <2> DEFINE body == SectorOf(img, x)[3]
  <2>1. body = [catalog |-> CatalogSector]
    BY DEF Bootable, Body, x
  <2> HIDE DEF body
  <2>2. body.catalog = CatalogSector
    BY <2>1
  <2>3. QED BY <1>4, <2>2 DEF body
<1>6. SectorOf(img, sector)[1] = "catalog"
  BY <1>5 DEF Bootable, Tag
<1> DEFINE result == [present |-> TRUE, sector |-> sector, platform |-> cat.platform, entries |-> cat.entries,
                      uefi |-> uefi, bios |-> bios, errors |-> gone]
<1>7. InspectElTorito(img) = IF records = {} THEN NoCatalog
                             ELSE IF SectorOf(img, sector)[1] # "catalog"
                             THEN [NoCatalog EXCEPT !.present = TRUE, !.errors = {"malformed"}] ELSE result
  BY DEF InspectElTorito, records
<1> HIDE DEF uefi, bios, gone, cat, Of
<1>8. result.sector = sector
  OBVIOUS
<1> HIDE DEF result, sector
<1>9. InspectElTorito(img) = result
  BY <1>3, <1>6, <1>7
<1>10. QED BY <1>5, <1>8, <1>9

\* The catalog is rewritten.
LEMMA RewriteStep ==
  ASSUME ImageInv, iso = "done", NEW entry, Rewrite(entry)
  PROVE  ImageInv'
<1>1. OnDisc(walked, nodes, image, streamed, todo, TRUE)
  BY DEF ImageInv
<1>2. Bootable(image) /\ todo = <<>>
  BY <1>1 DEF OnDisc
<1> DEFINE c == Catalog(<<entry>>)
           r == CatalogSector
<1>3. /\ image' = [image EXCEPT ![r] = c] /\ iso' = "done" /\ nodes' = nodes /\ todo' = todo /\ walked' = walked
      /\ streamed' = streamed
  BY <1>2, CatalogAt DEF Rewrite
<1>4. Tag(c) = "catalog"
  BY DEF Catalog, Tag
<1> HIDE DEF c
<1>5. r = 22
  BY DEF CatalogSector
<1>6. r \in DOMAIN image
  <2> SUFFICES ASSUME r \notin DOMAIN image
               PROVE  FALSE
    OBVIOUS
  <2>1. SectorOf(image, r) = <<"zero", 0, <<>>>>
    BY DEF SectorOf
  <2>2. Tag(<<"zero", 0, <<>>>>) = "zero"
    BY DEF Tag
  <2>3. Tag(SectorOf(image, r)) = "catalog"
    BY <1>2 DEF Bootable
  <2>4. QED BY <2>1, <2>2, <2>3
<1> HIDE DEF r
<1>7. \A s : SectorOf(image', s) = IF s = r THEN c ELSE SectorOf(image, s)
  BY <1>3, <1>6 DEF SectorOf
<1>8. SectorOf(image', r) = c /\ \A s : s # r => SectorOf(image', s) = SectorOf(image, s)
  BY <1>7
<1>9. Bootable(image')
  <2>1. BootRecSector = 17 /\ CatalogSector = r
    BY DEF BootRecSector, r
  <2>2. \A s \in 16..32 : s # r => (Tag(SectorOf(image', s)) = "boot record" <=> s = 17)
    BY <1>2, <1>8, <2>1 DEF Bootable
  <2>3. Tag(SectorOf(image', r)) = "catalog"
    BY <1>4, <1>8
  <2>4. \A s \in 16..32 : Tag(SectorOf(image', s)) = "boot record" <=> s = 17
    <3> SUFFICES ASSUME NEW s \in 16..32
                 PROVE  Tag(SectorOf(image', s)) = "boot record" <=> s = 17
      OBVIOUS
    <3>1. CASE s = r
      <4>1. s # 17
        BY <1>5, <3>1
      <4>2. Tag(SectorOf(image', s)) = "catalog"
        BY <2>3, <3>1
      <4>3. QED BY <4>1, <4>2
    <3>2. CASE s # r
      BY <2>2, <3>2
    <3>3. QED BY <3>1, <3>2
  <2>5. SectorOf(image', 17) = SectorOf(image, 17)
    BY <1>5, <1>8
  <2>6. Body(SectorOf(image', 17)) = [catalog |-> CatalogSector]
    BY <1>2, <2>1, <2>5 DEF Bootable
  <2>7. QED BY <2>1, <2>3, <2>4, <2>6 DEF Bootable
<1>10. \A b : SameTo(image, image', b)
  <2> SUFFICES ASSUME NEW s \in Nat, LbnAnchor <= s
               PROVE  SectorOf(image', s) = SectorOf(image, s)
    BY DEF SameTo
  <2>1. s # r
    BY <1>5 DEF LbnAnchor
  <2>2. QED BY <1>8, <2>1
<1>11. OnDisc(walked, nodes, image', streamed, todo, TRUE)
  <2>1. SameTo(image, image', LbnPartition + (Last(nodes).lb + Blocks(Last(nodes).len)))
    BY <1>10
  <2>2. QED BY <1>1, <1>2, <1>9, <2>1, DiscKept
<1>12. QED BY <1>3, <1>11 DEF ImageInv

\* Every step keeps it.
LEMMA ImageStep ==
  ASSUME DiscInv, Shaped(media), LeftInv, ImageInv, [Next]_vars
  PROVE  ImageInv'
<1>1. CASE UNCHANGED isoVars
  BY <1>1 DEF isoVars, udfVars, ImageInv
<1>2. CASE BuilderNext
  <2>1. CASE Master
    BY <2>1 DEF Master, IndexISO, ImageInv
  <2>7. CASE MasterTree
    BY <2>7, BeginStep DEF MasterTree
  <2>2. CASE MasterNode
    BY <2>2, NodeStep DEF MasterNode
  <2>3. CASE MasterEnds
    <3>1. CASE EndISO
      BY <3>1, EndStep
    <3>2. CASE FailISO
      BY <3>2 DEF FailISO, ImageInv
    <3>3. QED BY <2>3, <3>1, <3>2 DEF MasterEnds
  <2>4. CASE \E o \in BuildOptions : StartBuild(o)
    BY <1>1, <2>4 DEF StartBuild
  <2>5. CASE ExtractSetup \/ BuildBootWim \/ BuildInstallWim \/ ApplyBypass \/ InjectExtra \/ FailBuild
    BY <1>1, <2>5 DEF ExtractSetup, BuildBootWim, BuildInstallWim, ApplyBypass, InjectExtra, FailBuild, Goto
  <2>6. QED BY <1>2, <2>1, <2>2, <2>3, <2>4, <2>5, <2>7 DEF BuilderNext
<1>3. CASE RewriteCatalog
  <2>1. CASE SetElToritoUEFIOnly
    <3>1. iso = "done" /\ \E entry : Rewrite(entry)
      BY <2>1 DEF SetElToritoUEFIOnly
    <3>2. QED BY <3>1, RewriteStep
  <2>2. CASE \E p \in Targets : RetargetElToritoUEFI(p)
    <3>1. iso = "done" /\ \E entry : Rewrite(entry)
      BY <2>2 DEF RetargetElToritoUEFI
    <3>2. QED BY <3>1, RewriteStep
  <2>3. QED BY <1>3, <2>1, <2>2 DEF RewriteCatalog
<1>4. CASE \E d \in Disks, o \in UsbOptions : WriteMedia(d, o)
  BY <1>1, <1>4 DEF WriteMedia
<1>5. CASE Change
  BY <1>1, <1>5 DEF Change
<1>6. CASE UNCHANGED vars
  BY <1>1, <1>6 DEF vars
<1>7. QED BY <1>1, <1>2, <1>3, <1>4, <1>5, <1>6 DEF Next

--------------------------------------------------------------------------------
(* What the strict reader finds in a directory of a finished image. *)

StreamOf(img, n) == ParseFids(EntryData(img, LbnPartition, "fids", Body(SectorOf(img, LbnPartition + n.fe))))

\* Descriptors of a directory's entries, each at a block of the directory.
FidsAre(fids, ents, n) ==
  /\ DirectoryOf(nodes, ents, n) /\ DOMAIN fids = 1..Len(ents)
  /\ \A k \in 1..Len(ents) : \E loc : /\ fids[k] = FidHead(ents[k].name, ents[k].fe, ents[k].dir, loc)
                                      /\ n.lb <= loc /\ loc < n.lb + Blocks(n.len)

\* A directory of the image is parsed to the end.
LEMMA DirectoryRead ==
  ASSUME NamesFit, WalkInv, NEW img, NEW str, NEW i \in DOMAIN nodes, nodes[i].dir, NodeOn(nodes, img, str, nodes[i])
  PROVE  StreamOf(img, nodes[i]).ok /\ \E ents : FidsAre(StreamOf(img, nodes[i]).fids, ents, nodes[i])
<1> DEFINE n == nodes[i]
           sector == SectorOf(img, LbnPartition + n.fe)
<1>1. PICK fe : sector = <<"file entry", n.fe, fe>> /\ EntryFor(nodes, n, fe)
  BY DEF NodeOn
<1>2. PICK cells, off, ents : Listed(nodes, img, n, cells, off, ents)
  BY DEF NodeOn
<1>3. n.lb \in Nat /\ n.len \in Nat
  BY NodesAre
<1> DEFINE at == n.fe
<1> HIDE DEF sector
<1>4. Body(sector) = fe
  <2>1. sector = <<"file entry", at, fe>>
    BY <1>1
  <2> HIDE DEF at
  <2>2. QED BY <2>1, PartsAre
<1> HIDE DEF n
<1>5. /\ cells \in Seq(Cells) /\ Len(cells) = n.len /\ CellsOn(img, "fids", n.lb, cells)
      /\ Streams(cells, off, ents, n.lb) /\ DirectoryOf(nodes, ents, n)
  BY <1>2 DEF Listed
<1>6. fe.exts = Extents(Len(cells), n.lb)
  BY <1>1, <1>5 DEF EntryFor
<1>7. EntryData(img, LbnPartition, "fids", fe) = cells
  BY <1>3, <1>5, <1>6, EntryDataIs
<1>8. StreamOf(img, n) = ParseFids(cells)
  BY <1>4, <1>7 DEF StreamOf, sector
<1>9. ents \in Seq(EntrySet)
  BY <1>5 DEF DirectoryOf
<1> DEFINE fids == ParseFids(cells).fids
<1>10. /\ ParseFids(cells).ok /\ DOMAIN fids = 1..Len(ents)
       /\ \A k \in 1..Len(ents) : fids[k] = HeadOf(ents[k], n.lb, off[k-1])
  <2> DEFINE lb == n.lb
  <2>1. Streams(cells, off, ents, lb)
    BY <1>5
  <2> HIDE DEF lb
  <2>2. /\ ParseFids(cells).ok /\ DOMAIN ParseFids(cells).fids = 1..Len(ents)
        /\ \A k \in 1..Len(ents) : ParseFids(cells).fids[k] = HeadOf(ents[k], lb, off[k-1])
    BY <1>9, <2>1, ParseIs
  <2>3. QED BY <2>2 DEF lb
<1> HIDE DEF fids
<1>11. ASSUME NEW k \in 1..Len(ents)
       PROVE  \E loc : /\ fids[k] = FidHead(ents[k].name, ents[k].fe, ents[k].dir, loc)
                       /\ n.lb <= loc /\ loc < n.lb + Blocks(n.len)
  <2> DEFINE a == off[k-1]
             q == a \div SectorSize
  <2>1. a \in Nat /\ a < n.len
    <3>1. /\ off[k-1] \in Nat /\ off[k] \in Nat /\ off[k-1] < off[k] /\ off[k] <= Len(cells)
      BY <1>5, <1>9, StreamBounds
    <3>2. QED BY <1>3, <1>5, <3>1
  <2> HIDE DEF a
  <2>2. a + 1 \in 1..n.len /\ (a + 1) - 1 = a
    BY <1>3, <2>1
  <2> DEFINE t == a + 1
  <2>3. \A x \in 1..n.len : (x - 1) \div SectorSize \in Nat /\ (x - 1) \div SectorSize < Blocks(n.len)
    BY <1>3, BlocksIs
  <2>4. q \in Nat /\ q < Blocks(n.len)
    BY <2>2, <2>3
  <2>5. Blocks(n.len) \in Nat
    BY <1>3, BlocksIs
  <2> HIDE DEF q
  <2>6. n.lb <= n.lb + q /\ n.lb + q < n.lb + Blocks(n.len)
    BY <1>3, <2>4, <2>5
  <2>7. fids[k] = FidHead(ents[k].name, ents[k].fe, ents[k].dir, n.lb + q)
    BY <1>10 DEF HeadOf, q, a
  <2>8. QED BY <2>6, <2>7
<1>12. FidsAre(fids, ents, n)
  BY <1>5, <1>10, <1>11 DEF FidsAre
<1>13. QED BY <1>8, <1>10, <1>12 DEF fids, n

Up(p) == IF p = <<>> THEN <<>> ELSE Parent(p)

\* What the descriptors of a directory name: the directory above it, then each
\* of its children once.
NamesAbove(fids, n) ==
  fids[1].parent /\ \E j \in DOMAIN nodes : nodes[j].path = Up(n.path) /\ fids[1].fe = nodes[j].fe
NamesKid(fid, m) == ~fid.parent /\ fid.name = Last(m.path) /\ fid.fe = m.fe /\ fid.dir = m.dir
FidsOf(fids, n, c, pos) ==
  /\ c \in Nat /\ DOMAIN fids = 1..(c + 1) /\ pos \in [1..c -> KidsAt(n.path)]
  /\ c = Cardinality(KidsAt(n.path))
  /\ \A j, k \in 1..c : pos[j] = pos[k] => j = k
  /\ \A i \in KidsAt(n.path) : \E k \in 1..c : pos[k] = i
  /\ NamesAbove(fids, n)
  /\ \A k \in 1..c : NamesKid(fids[k + 1], nodes[pos[k]])
  /\ \A k \in 1..(c + 1) : fids[k].loc >= n.lb /\ fids[k].loc < n.lb + Blocks(n.len)

\* What the descriptors of a directory name: its parent, then every child.
LEMMA FidsName ==
  ASSUME WalkInv, NEW i \in DOMAIN nodes, NEW fids, NEW ents, FidsAre(fids, ents, nodes[i])
  PROVE  \E c, pos : FidsOf(fids, nodes[i], c, pos)
<1> DEFINE n == nodes[i]
           keep == KidsAt(n.path)
           c == Cardinality(keep)
           pos == Positions(keep)
<1>1. /\ keep \in SUBSET (1..Len(nodes)) /\ \A k \in keep : Last(nodes[k].path) \in Names
      /\ Len(nodes) \in Nat /\ DOMAIN nodes = 1..Len(nodes) /\ n.lb \in Nat /\ Blocks(n.len) \in Nat
  BY KidsAre, NodesAre, BlocksIs
<1>2. /\ c \in Nat /\ pos \in [1..c -> keep] /\ \A j, k \in 1..c : pos[j] = pos[k] => j = k
      /\ \A x \in keep : \E k \in 1..c : pos[k] = x
  <2> HIDE DEF keep
  <2>1. keep \in SUBSET (1..Len(nodes)) /\ Len(nodes) \in Nat
    BY <1>1
  <2>2. QED BY <2>1, SelectedIs
<1> HIDE DEF n
<1>3. /\ ents \in Seq(EntrySet) /\ Len(ents) = 1 + c
      /\ \E j \in DOMAIN nodes : /\ nodes[j].path = Up(n.path)
                                /\ ents[1] = [name |-> 0, fe |-> nodes[j].fe, dir |-> TRUE]
      /\ \A k \in 1..c : ents[k + 1] = Kid(nodes[pos[k]])
  BY DEF FidsAre, DirectoryOf, Up, KidsAt, n
<1>4. /\ DOMAIN fids = 1..Len(ents)
      /\ \A k \in 1..Len(ents) : \E loc : /\ fids[k] = FidHead(ents[k].name, ents[k].fe, ents[k].dir, loc)
                                          /\ n.lb <= loc /\ loc < n.lb + Blocks(n.len)
  BY DEF FidsAre, n
<1> HIDE DEF keep, c, pos
<1>5. Len(ents) = c + 1 /\ 1 \in 1..Len(ents) /\ \A k \in 1..c : k + 1 \in 1..Len(ents)
  BY <1>2, <1>3
<1>6. ASSUME NEW h, NEW name, NEW fe, NEW dir, NEW loc, h = FidHead(name, fe, dir, loc)
      PROVE  h.name = name /\ h.fe = fe /\ h.dir = dir /\ h.loc = loc /\ (h.parent <=> name = 0)
  BY <1>6 DEF FidHead
<1>7. NamesAbove(fids, n)
  <2>1. PICK j \in DOMAIN nodes : nodes[j].path = Up(n.path) /\ ents[1] = [name |-> 0, fe |-> nodes[j].fe, dir |-> TRUE]
    BY <1>3
  <2>2. ents[1].name = 0 /\ ents[1].fe = nodes[j].fe
    BY <2>1
  <2>3. PICK loc : fids[1] = FidHead(ents[1].name, ents[1].fe, ents[1].dir, loc)
    BY <1>4, <1>5
  <2>4. fids[1].parent /\ fids[1].fe = nodes[j].fe
    BY <1>6, <2>2, <2>3
  <2>5. QED BY <2>1, <2>4 DEF NamesAbove
<1>8. ASSUME NEW k \in 1..c
      PROVE  NamesKid(fids[k + 1], nodes[pos[k]])
  <2> DEFINE m == nodes[pos[k]]
             x == ents[k + 1]
  <2>1. x.name = Last(m.path) /\ x.fe = m.fe /\ x.dir = m.dir
    <3>1. x = Kid(m)
      BY <1>3
    <3> HIDE DEF x, m
    <3>2. QED BY <3>1 DEF Kid
  <2>2. Last(m.path) \in Names
    BY <1>1, <1>2
  <2>3. Last(m.path) # 0
    BY <2>2, NamesAre
  <2>4. PICK loc : fids[k + 1] = FidHead(x.name, x.fe, x.dir, loc)
    BY <1>4, <1>5
  <2> HIDE DEF x, m
  <2>5. NamesKid(fids[k + 1], m)
    BY <1>6, <2>1, <2>3, <2>4 DEF NamesKid
  <2>6. QED BY <2>5 DEF m
<1>9. ASSUME NEW k \in 1..(c + 1)
      PROVE  fids[k].loc >= n.lb /\ fids[k].loc < n.lb + Blocks(n.len)
  <2>1. PICK loc : /\ fids[k] = FidHead(ents[k].name, ents[k].fe, ents[k].dir, loc)
                   /\ n.lb <= loc /\ loc < n.lb + Blocks(n.len)
    BY <1>4, <1>5
  <2>2. fids[k].loc = loc
    BY <1>6, <2>1
  <2>3. QED BY <2>1, <2>2
<1>10. DOMAIN fids = 1..(c + 1)
  BY <1>4, <1>5
<1>11. FidsOf(fids, n, c, pos)
  BY <1>2, <1>7, <1>8, <1>9, <1>10 DEF FidsOf, keep, c
<1>12. QED BY <1>11 DEF n

\* An image that is finished: every node of the walked tree is on it.
Finished ==
  /\ WalkInv /\ Structured(image, nodes[1].fe)
  /\ \A k \in DOMAIN nodes : NodeOn(nodes, image, streamed, nodes[k])
  /\ \A p \in DOMAIN streamed : streamed[p] \in Seq(Nat) /\ \E k \in DOMAIN nodes : nodes[k].path = p /\ ~nodes[k].dir

\* An image that is mastered is finished.
LEMMA FinishedIs ==
  ASSUME ImageInv, iso = "done"
  PROVE  Finished
<1>1. OnDisc(walked, nodes, image, streamed, todo, TRUE)
  BY DEF ImageInv
<1>2. WalkInv /\ Structured(image, nodes[1].fe) /\ todo = <<>> /\ \A p \in DOMAIN streamed : streamed[p] \in Seq(Nat)
  BY <1>1 DEF OnDisc, Walked, WalkInv
<1> DEFINE N == Len(nodes)
<1>3. PICK w \in 0..N : OnImage(nodes, image, streamed, todo, w)
  BY <1>1 DEF OnDisc
<1>4. N \in Nat \ {0} /\ DOMAIN nodes = 1..N /\ nodes \in Seq(NodeSet)
  BY <1>2, NodesAre DEF WalkInv, Laid
<1>5. SubSeq(nodes, w + 1, N) = <<>>
  BY <1>2, <1>3 DEF OnImage
<1> HIDE DEF N
<1>6. w = N
  <2>1. SUFFICES ASSUME w + 1 <= N
                 PROVE  FALSE
    BY <1>4
  <2>2. \A k \in (w + 1)..N : nodes[k] \in NodeSet
    BY <1>2, <1>4, NodesAre
  <2>3. w + 1 \in Int /\ N \in Int
    BY <1>4
  <2>4. Len(SubSeq(nodes, w + 1, N)) = N - (w + 1) + 1
    BY <2>1, <2>2, <2>3, SubSeqProperties
  <2>5. Len(<<>>) = 0
    OBVIOUS
  <2>6. QED BY <1>4, <1>5, <2>1, <2>4, <2>5
<1>7. QED BY <1>2, <1>3, <1>4, <1>6 DEF OnImage, Finished
--------------------------------------------------------------------------------
(* The links of a finished image. *)


Stream(img, n) == StreamOf(img, n).fids
Named(img) ==
  UNION {LET fids == Stream(img, d) IN {<<d.fe, k, fids[k].fe>> : k \in DOMAIN fids} : d \in {n \in Range(nodes) : n.dir}}
ChildDirs(n) == {m \in Range(nodes) : m.dir /\ m.path # <<>> /\ Parent(m.path) = n.path}

\* No two nodes have the same File Entry.
LEMMA EntriesApart ==
  ASSUME WalkInv
  PROVE  \A j, k \in DOMAIN nodes : nodes[j].fe = nodes[k].fe => j = k
<1> DEFINE N == Len(nodes)
<1>1. /\ N \in Nat /\ DOMAIN nodes = 1..N
      /\ \A k \in 1..N : nodes[k].fe \in Nat /\ nodes[k].lb \in Nat /\ Blocks(nodes[k].len) \in Nat /\ nodes[k].fe < nodes[k].lb
      /\ \A j, k \in 1..N : j < k => nodes[j].lb + Blocks(nodes[j].len) <= nodes[k].fe
  BY NodesApart DEF WalkInv
<1> HIDE DEF N
<1>2. ASSUME NEW j \in 1..N, NEW k \in 1..N, j < k
      PROVE  nodes[j].fe # nodes[k].fe
  <2> DEFINE a == nodes[j].fe
             b == nodes[j].lb
             c == Blocks(nodes[j].len)
             d == nodes[k].fe
  <2>1. a \in Nat /\ b \in Nat /\ c \in Nat /\ d \in Nat /\ a < b /\ b + c <= d
    BY <1>1, <1>2
  <2> HIDE DEF a, b, c, d
  <2>2. a # d
    BY <2>1
  <2>3. QED BY <2>2 DEF a, d
<1>3. \A j, k \in 1..N : j # k => j < k \/ k < j
  BY <1>1
<1>4. QED BY <1>1, <1>2, <1>3

\* The nodes of a finished image, and the descriptors of its directories.
LEMMA FinishedHas ==
  ASSUME NamesFit, Finished
  PROVE  /\ WalkInv /\ \A j, k \in DOMAIN nodes : nodes[j].path = nodes[k].path => j = k
         /\ \A j, k \in DOMAIN nodes : nodes[j].fe = nodes[k].fe => j = k
         /\ \A d \in DOMAIN nodes : nodes[d].dir => /\ StreamOf(image, nodes[d]).ok
                                                    /\ \E c, pos : FidsOf(Stream(image, nodes[d]), nodes[d], c, pos)
<1>1. /\ WalkInv /\ \A k \in DOMAIN nodes : NodeOn(nodes, image, streamed, nodes[k])
      /\ \A j, k \in DOMAIN nodes : nodes[j].path = nodes[k].path => j = k
  BY DEF Finished, WalkInv, Laid
<1>2. ASSUME NEW d \in DOMAIN nodes, nodes[d].dir
      PROVE  /\ StreamOf(image, nodes[d]).ok
             /\ \E c, pos : FidsOf(Stream(image, nodes[d]), nodes[d], c, pos)
  <2>1. StreamOf(image, nodes[d]).ok /\ \E ents : FidsAre(StreamOf(image, nodes[d]).fids, ents, nodes[d])
    BY <1>1, <1>2, DirectoryRead
  <2>2. QED BY <1>1, <2>1, FidsName DEF Stream
<1>3. QED BY <1>1, <1>2, EntriesApart

\* Who names a node: a child directory in its first descriptor, the root in its
\* own, and the directory above the node in one other.
LEMMA WhoNames ==
  ASSUME NamesFit, Finished, NEW i \in DOMAIN nodes, NEW d \in DOMAIN nodes, nodes[d].dir
  PROVE  /\ 1 \in DOMAIN Stream(image, nodes[d])
         /\ Stream(image, nodes[d])[1].fe = nodes[i].fe <=> nodes[i].path = Up(nodes[d].path)
         /\ nodes[i].path # <<>> /\ Parent(nodes[i].path) = nodes[d].path
              => \E k \in DOMAIN Stream(image, nodes[d]) \ {1} :
                   \A j \in DOMAIN Stream(image, nodes[d]) \ {1} : Stream(image, nodes[d])[j].fe = nodes[i].fe <=> j = k
         /\ ~(nodes[i].path # <<>> /\ Parent(nodes[i].path) = nodes[d].path)
              => \A j \in DOMAIN Stream(image, nodes[d]) \ {1} : Stream(image, nodes[d])[j].fe # nodes[i].fe
<1> DEFINE fids == Stream(image, nodes[d])
           p == nodes[d].path
<1>1. /\ WalkInv /\ \A j, k \in DOMAIN nodes : nodes[j].path = nodes[k].path => j = k
      /\ \A j, k \in DOMAIN nodes : nodes[j].fe = nodes[k].fe => j = k
  BY FinishedHas
<1>2. PICK c, pos : FidsOf(fids, nodes[d], c, pos)
  BY FinishedHas
<1> HIDE DEF fids
<1>3. /\ c \in Nat /\ DOMAIN fids = 1..(c + 1) /\ pos \in [1..c -> KidsAt(p)]
      /\ \A j, k \in 1..c : pos[j] = pos[k] => j = k
      /\ \A x \in KidsAt(p) : \E k \in 1..c : pos[k] = x
      /\ \E j \in DOMAIN nodes : nodes[j].path = Up(p) /\ fids[1].fe = nodes[j].fe
      /\ \A k \in 1..c : fids[k + 1].fe = nodes[pos[k]].fe
  BY <1>2 DEF FidsOf, NamesAbove, NamesKid
<1>4. \A x \in DOMAIN nodes : x \in KidsAt(p) <=> nodes[x].path # <<>> /\ Parent(nodes[x].path) = p
  BY <1>1, KidsAre
<1>5. \A x \in KidsAt(p) : x \in DOMAIN nodes
  BY <1>1, KidsAre, NodesAre
<1> HIDE DEF p
<1>6. fids[1].fe = nodes[i].fe <=> nodes[i].path = Up(p)
  BY <1>1, <1>3
<1>7. \A j \in DOMAIN fids \ {1} : j - 1 \in 1..c /\ fids[j].fe = nodes[pos[j - 1]].fe
  <2> SUFFICES ASSUME NEW j \in DOMAIN fids \ {1}
               PROVE  j - 1 \in 1..c /\ fids[j].fe = nodes[pos[j - 1]].fe
    OBVIOUS
  <2>1. j - 1 \in 1..c /\ (j - 1) + 1 = j
    BY <1>3
  <2>2. QED BY <1>3, <2>1
<1>8. \A j \in DOMAIN fids \ {1} : fids[j].fe = nodes[i].fe <=> pos[j - 1] = i
  BY <1>1, <1>3, <1>5, <1>7
<1>9. CASE i \in KidsAt(p)
  <2>1. PICK k \in 1..c : pos[k] = i
    BY <1>3, <1>9
  <2>2. k + 1 \in DOMAIN fids \ {1}
    BY <1>3
  <2>3. ASSUME NEW j \in DOMAIN fids \ {1}
        PROVE  fids[j].fe = nodes[i].fe <=> j = k + 1
    <3>1. j - 1 \in 1..c /\ j \in Int
      BY <1>3, <1>7
    <3>2. pos[j - 1] = i <=> j - 1 = k
      BY <1>3, <2>1, <3>1
    <3>3. j - 1 = k <=> j = k + 1
      BY <3>1
    <3>4. QED BY <1>8, <3>2, <3>3
  <2>4. nodes[i].path # <<>> /\ Parent(nodes[i].path) = p
    BY <1>4, <1>9
  <2>5. \E x \in DOMAIN fids \ {1} : \A j \in DOMAIN fids \ {1} : fids[j].fe = nodes[i].fe <=> j = x
    BY <2>2, <2>3
  <2>6. 1 \in DOMAIN fids
    BY <1>3
  <2>7. QED BY <1>6, <2>4, <2>5, <2>6 DEF fids, p
<1>10. CASE i \notin KidsAt(p)
  <2>1. \A j \in DOMAIN fids \ {1} : fids[j].fe # nodes[i].fe
    BY <1>3, <1>7, <1>8, <1>10
  <2>2. ~(nodes[i].path # <<>> /\ Parent(nodes[i].path) = p)
    BY <1>4, <1>10
  <2>3. QED BY <1>3, <1>6, <2>1, <2>2 DEF fids, p
<1>11. QED BY <1>9, <1>10

\* The descriptors that name a node are those of its child directories and one
\* more.
LEMMA NamedBy ==
  ASSUME NamesFit, Finished, NEW i \in DOMAIN nodes
  PROVE  LET n == nodes[i]
             subs == {<<m.fe, 1, n.fe>> : m \in ChildDirs(n)}
         IN  \E e : e \notin subs /\ {x \in Named(image) : x[3] = n.fe} = subs \cup {e}
<1> DEFINE n == nodes[i]
           subs == {<<m.fe, 1, n.fe>> : m \in ChildDirs(n)}
           fids(d) == Stream(image, nodes[d])
           By(d, k) == <<nodes[d].fe, k, fids(d)[k].fe>>
           all == {x \in Named(image) : x[3] = n.fe}
           dirs == {d \in DOMAIN nodes : nodes[d].dir}
<1>1. /\ WalkInv /\ \A j, k \in DOMAIN nodes : nodes[j].path = nodes[k].path => j = k
      /\ \A j, k \in DOMAIN nodes : nodes[j].fe = nodes[k].fe => j = k
  BY FinishedHas
<1>2. Named(image) = UNION {{By(d, k) : k \in DOMAIN fids(d)} : d \in dirs}
  BY DEF Named, Range
<1>3. subs = {<<nodes[d].fe, 1, n.fe>> : d \in {e \in dirs : nodes[e].path # <<>> /\ Parent(nodes[e].path) = n.path}}
  BY DEF ChildDirs, Range
<1>4. \A d \in dirs : /\ 1 \in DOMAIN fids(d)
                      /\ fids(d)[1].fe = n.fe <=> n.path = Up(nodes[d].path)
                      /\ n.path # <<>> /\ Parent(n.path) = nodes[d].path
                           => \E k \in DOMAIN fids(d) \ {1} : \A j \in DOMAIN fids(d) \ {1} : fids(d)[j].fe = n.fe <=> j = k
                      /\ ~(n.path # <<>> /\ Parent(n.path) = nodes[d].path) => \A j \in DOMAIN fids(d) \ {1} : fids(d)[j].fe # n.fe
  BY WhoNames
<1>5. PICK p \in DOMAIN nodes : nodes[p].path = Up(n.path) /\ (n.path # <<>> => nodes[p].dir)
  BY <1>1, ParentIs DEF Up
<1>6. n.path = <<>> => n.dir
  <2>1. n.path \in DOMAIN walked /\ n.dir = walked[n.path].dir
    BY <1>1, PathWalked
  <2>2. QED BY <1>1, <2>1 DEF WalkInv, WalkOK
<1> HIDE DEF fids, n, dirs
<1>7. \A x : x \in all <=> \E d \in dirs : \E k \in DOMAIN fids(d) : x = <<nodes[d].fe, k, n.fe>> /\ fids(d)[k].fe = n.fe
  BY <1>2
<1>8. \A d \in dirs : d \in DOMAIN nodes /\ nodes[d].dir
  BY DEF dirs
<1> HIDE DEF all, subs
<1>9. ASSUME NEW d \in dirs, nodes[d].path # <<>>, Parent(nodes[d].path) = n.path
      PROVE  <<nodes[d].fe, 1, n.fe>> \in all
  BY <1>4, <1>7, <1>9 DEF Up
<1>10. CASE n.path = <<>>
  <2> DEFINE e == <<n.fe, 1, n.fe>>
  <2>1. i \in dirs
    BY <1>6, <1>10 DEF dirs, n
  <2>2. e \in all
    <3>1. fids(i)[1].fe = n.fe /\ 1 \in DOMAIN fids(i)
      BY <1>4, <1>10, <2>1 DEF Up, n
    <3>2. QED BY <1>7, <2>1, <3>1 DEF n
  <2>3. e \notin subs
    <3> SUFFICES ASSUME NEW d \in dirs, nodes[d].path # <<>>, e = <<nodes[d].fe, 1, n.fe>>
                 PROVE  FALSE
      BY <1>3
    <3>1. n.fe = nodes[d].fe
      OBVIOUS
    <3>2. i = d
      BY <1>1, <1>8, <3>1 DEF n
    <3>3. QED BY <1>10, <3>2 DEF n
  <2>4. ASSUME NEW x \in all
        PROVE  x \in subs \/ x = e
    <3>0. PICK d \in dirs : \E k \in DOMAIN fids(d) : x = <<nodes[d].fe, k, n.fe>> /\ fids(d)[k].fe = n.fe
      BY <1>7
    <3>1. PICK k \in DOMAIN fids(d) : x = <<nodes[d].fe, k, n.fe>> /\ fids(d)[k].fe = n.fe
      BY <3>0
    <3>2. k = 1
      BY <1>4, <1>10, <3>1
    <3>3. n.path = Up(nodes[d].path)
      BY <1>4, <3>1, <3>2
    <3>4. CASE nodes[d].path = <<>>
      <4>1. d = i
        BY <1>1, <1>8, <1>10, <3>4 DEF n
      <4>2. QED BY <3>1, <3>2, <4>1 DEF n
    <3>5. CASE nodes[d].path # <<>>
      BY <1>3, <3>1, <3>2, <3>3, <3>5 DEF Up
    <3>6. QED BY <3>4, <3>5
  <2>5. subs \subseteq all
    BY <1>3, <1>9
  <2>6. all = subs \cup {e}
    BY <2>2, <2>4, <2>5
  <2>7. QED BY <2>3, <2>6 DEF all, subs, n
<1>11. CASE n.path # <<>>
  <2>1. p \in dirs /\ nodes[p].path = Parent(n.path)
    BY <1>5, <1>11 DEF Up, dirs
  <2>2. PICK k \in DOMAIN fids(p) \ {1} : \A j \in DOMAIN fids(p) \ {1} : fids(p)[j].fe = n.fe <=> j = k
    BY <1>4, <1>11, <2>1
  <2> DEFINE e == <<nodes[p].fe, k, n.fe>>
  <2>3. e \in all
    BY <1>7, <2>1, <2>2
  <2>4. e \notin subs
    <3> SUFFICES ASSUME NEW d \in dirs, e = <<nodes[d].fe, 1, n.fe>>
                 PROVE  FALSE
      BY <1>3
    <3>1. k = 1
      OBVIOUS
    <3>2. QED BY <3>1
  <2>5. ASSUME NEW x \in all
        PROVE  x \in subs \/ x = e
    <3>0. PICK d \in dirs : \E j \in DOMAIN fids(d) : x = <<nodes[d].fe, j, n.fe>> /\ fids(d)[j].fe = n.fe
      BY <1>7
    <3>1. PICK j \in DOMAIN fids(d) : x = <<nodes[d].fe, j, n.fe>> /\ fids(d)[j].fe = n.fe
      BY <3>0
    <3>2. CASE j = 1
      <4>1. n.path = Up(nodes[d].path)
        BY <1>4, <3>1, <3>2
      <4>2. nodes[d].path # <<>> /\ Parent(nodes[d].path) = n.path
        BY <1>11, <4>1 DEF Up
      <4>3. QED BY <1>3, <3>1, <3>2, <4>2
    <3>3. CASE j # 1
      <4>1. Parent(n.path) = nodes[d].path
        BY <1>4, <3>1, <3>3
      <4>2. d = p
        BY <1>1, <1>8, <2>1, <4>1
      <4>3. j = k
        BY <2>2, <3>1, <3>3, <4>2
      <4>4. QED BY <3>1, <4>2, <4>3
    <3>4. QED BY <3>2, <3>3
  <2>6. subs \subseteq all
    BY <1>3, <1>9
  <2>7. all = subs \cup {e}
    BY <2>3, <2>5, <2>6
  <2>8. QED BY <2>4, <2>7 DEF all, subs, n
<1>12. QED BY <1>10, <1>11

\* The nodes are finitely many, and so is what is made of some of them.
LEMMA SubsAre ==
  ASSUME WalkInv, NEW i \in DOMAIN nodes
  PROVE  LET n == nodes[i]
             subs == {<<m.fe, 1, n.fe>> : m \in ChildDirs(n)}
         IN  /\ IsFiniteSet(subs) /\ Cardinality(subs) = Cardinality(ChildDirs(n)) /\ Cardinality(subs) \in Nat
             /\ ~n.dir => Cardinality(subs) = 0
<1> DEFINE n == nodes[i]
           c == n.fe
           S == ChildDirs(n)
           subs == {<<m.fe, 1, n.fe>> : m \in S}
           g == [m \in S |-> <<m.fe, 1, c>>]
<1>1. IsFiniteSet(Range(nodes))
  <2>1. DOMAIN nodes = 1..Len(nodes) /\ Len(nodes) \in Nat
    BY NodesAre
  <2>2. IsFiniteSet(DOMAIN nodes)
    BY <2>1, FS_Interval
  <2>3. nodes \in Surjection(DOMAIN nodes, Range(nodes))
    <3>1. nodes \in [DOMAIN nodes -> Range(nodes)]
      BY DEF WalkInv, Laid, Range
    <3>2. \A y \in Range(nodes) : \E x \in DOMAIN nodes : nodes[x] = y
      BY DEF Range
    <3>3. QED BY <3>1, <3>2 DEF Surjection
  <2>4. QED BY <2>2, <2>3, FS_Surjection
<1>2. IsFiniteSet(S)
  <2>1. S \in SUBSET Range(nodes)
    BY DEF ChildDirs
  <2> HIDE DEF S
  <2>2. QED BY <1>1, <2>1, FS_Subset
<1>3. \A x, y \in S : x.fe = y.fe => x = y
  BY EntriesApart DEF ChildDirs, Range
<1>4. ~n.dir => S = {}
  <2> SUFFICES ASSUME ~n.dir, NEW k \in DOMAIN nodes, nodes[k].path # <<>>, Parent(nodes[k].path) = n.path
               PROVE  FALSE
    BY DEF ChildDirs, Range
  <2>1. PICK j \in DOMAIN nodes : nodes[j].path = Parent(nodes[k].path) /\ nodes[j].dir
    BY ParentIs
  <2>2. j = i
    BY <2>1 DEF WalkInv, Laid
  <2>3. QED BY <2>1, <2>2
<1> HIDE DEF S
<1>5. subs = {<<m.fe, 1, c>> : m \in S}
  OBVIOUS
<1> HIDE DEF subs, c
<1>6. g \in [S -> subs] /\ (\A t \in subs : \E x \in S : g[x] = t) /\ \A x, y \in S : g[x] = g[y] => x = y
  <2>1. \A x \in S : g[x] = <<x.fe, 1, c>>
    OBVIOUS
  <2>2. \A x, y : <<x, 1, c>> = <<y, 1, c>> => x = y
    OBVIOUS
  <2>3. g \in [S -> subs] /\ \A t \in subs : \E x \in S : g[x] = t
    BY <1>5
  <2>4. \A x, y \in S : g[x] = g[y] => x.fe = y.fe
    BY <2>1, <2>2
  <2>5. QED BY <1>3, <2>3, <2>4
<1> HIDE DEF g
<1>7. Cardinality(subs) = Cardinality(S)
  BY <1>2, <1>6, SameSize
<1>8. IsFiniteSet(subs)
  <2>1. g \in Surjection(S, subs)
    BY <1>6 DEF Surjection
  <2>2. QED BY <1>2, <2>1, FS_Surjection
<1>9. Cardinality(S) \in Nat /\ (S = {} => Cardinality(S) = 0)
  BY <1>2, FS_CardinalityType, FS_EmptySet
<1>10. QED BY <1>4, <1>7, <1>8, <1>9 DEF S, subs

\* A File Entry counts the descriptors that name it.
LEMMA LinksCounted ==
  ASSUME NamesFit, Finished, NEW i \in DOMAIN nodes
  PROVE  Body(SectorOf(image, LbnPartition + nodes[i].fe)).links = Cardinality({x \in Named(image) : x[3] = nodes[i].fe})
<1> DEFINE n == nodes[i]
           sector == SectorOf(image, LbnPartition + n.fe)
           subs == {<<m.fe, 1, n.fe>> : m \in ChildDirs(n)}
           all == {x \in Named(image) : x[3] = n.fe}
           at == n.fe
<1>1. WalkInv /\ NodeOn(nodes, image, streamed, n)
  BY DEF Finished
<1>2. PICK fe : sector = <<"file entry", at, fe>> /\ EntryFor(nodes, n, fe)
  BY <1>1 DEF NodeOn
<1>3. Links(nodes, n) = IF n.dir THEN 1 + Cardinality(ChildDirs(n)) ELSE 1
  BY DEF Links, ChildDirs
<1>4. IsFiniteSet(subs) /\ Cardinality(subs) = Cardinality(ChildDirs(n)) /\ Cardinality(subs) \in Nat
      /\ (~n.dir => Cardinality(subs) = 0)
  BY <1>1, SubsAre
<1>5. PICK e : e \notin subs /\ all = subs \cup {e}
  BY NamedBy
<1> HIDE DEF sector, subs, all, n, at
<1>6. Body(sector) = fe
  BY <1>2, PartsAre
<1>7. fe.links = Links(nodes, n)
  BY <1>2 DEF EntryFor
<1>8. Cardinality(all) = Cardinality(subs) + 1
  BY <1>4, <1>5, FS_AddElement
<1>9. fe.links = Cardinality(all)
  BY <1>3, <1>4, <1>7, <1>8
<1>10. QED BY <1>6, <1>9 DEF sector, all, n

\* The links of an image that is finished.
LEMMA LinksAreClosed ==
  ASSUME NamesFit, Finished
  PROVE  LinksClosed
<1> DEFINE dirs == {n \in Range(nodes) : n.dir}
           Fids(n) == ParseFids(EntryData(image, LbnPartition, "fids", SectorOf(image, LbnPartition + n.fe)[3])).fids
           named == UNION {LET fids == Fids(d) IN {<<d.fe, k, fids[k].fe>> : k \in DOMAIN fids} : d \in dirs}
<1>1. \A n : Fids(n) = Stream(image, n)
  BY DEF Stream, StreamOf, Body
<1> HIDE DEF Fids
<1>2. named = Named(image)
  <2> DEFINE A(d) == {<<d.fe, k, Fids(d)[k].fe>> : k \in DOMAIN Fids(d)}
             B(d) == {<<d.fe, k, Stream(image, d)[k].fe>> : k \in DOMAIN Stream(image, d)}
  <2>1. named = UNION {A(d) : d \in dirs} /\ Named(image) = UNION {B(d) : d \in dirs}
    BY DEF Named
  <2>2. \A d : A(d) = B(d)
    BY <1>1
  <2> HIDE DEF A, B, named
  <2>3. QED BY <2>1, <2>2
<1> HIDE DEF named
<1>3. ASSUME NEW n \in dirs
      PROVE  LET fids == Fids(n) IN
             /\ fids[1].parent
             /\ fids[1].fe = NodeAt(IF n.path = <<>> THEN <<>> ELSE Parent(n.path)).fe
             /\ \A k \in DOMAIN fids : fids[k].loc >= n.lb /\ fids[k].loc < n.lb + Blocks(n.len)
  <2> DEFINE fids == Fids(n)
  <2>1. PICK i \in DOMAIN nodes : n = nodes[i] /\ n.dir
    BY DEF Range
  <2>2. PICK c, pos : FidsOf(Stream(image, n), n, c, pos)
    BY <2>1, FinishedHas
  <2>3. fids = Stream(image, n)
    BY <1>1
  <2> HIDE DEF fids
  <2>4. /\ DOMAIN fids = 1..(c + 1) /\ NamesAbove(fids, n)
        /\ \A k \in 1..(c + 1) : fids[k].loc >= n.lb /\ fids[k].loc < n.lb + Blocks(n.len)
    BY <2>2, <2>3 DEF FidsOf
  <2>5. PICK j \in DOMAIN nodes : nodes[j].path = Up(n.path) /\ fids[1].fe = nodes[j].fe /\ fids[1].parent
    BY <2>4 DEF NamesAbove
  <2>6. NodeAt(Up(n.path)) = nodes[j]
    BY <2>5, FinishedHas, NodesAre
  <2>7. QED BY <2>4, <2>5, <2>6 DEF fids, Up
<1>4. ASSUME NEW n \in Range(nodes)
      PROVE  SectorOf(image, LbnPartition + n.fe)[3].links = Cardinality({x \in named : x[3] = n.fe})
  <2>1. PICK i \in DOMAIN nodes : n = nodes[i]
    BY DEF Range
  <2>2. Body(SectorOf(image, LbnPartition + n.fe)).links = Cardinality({x \in Named(image) : x[3] = n.fe})
    BY <2>1, LinksCounted
  <2>3. QED BY <1>2, <2>2 DEF Body
<1>5. QED BY <1>3, <1>4 DEF LinksClosed, Fids, named

--------------------------------------------------------------------------------
(* What the strict reader makes of a finished image. *)

\* The entries that are read of a directory: each of its children, once.
EntriesOf(d, path) ==
  /\ d.ok /\ DOMAIN d.entries = 1..Cardinality(KidsAt(path)) /\ Len(d.entries) = Cardinality(KidsAt(path))
  /\ \A j \in DOMAIN d.entries : \E k \in KidsAt(path) : NamesKid(d.entries[j], nodes[k])
  /\ \A k \in KidsAt(path) : \E j \in DOMAIN d.entries : NamesKid(d.entries[j], nodes[k])

\* Every node has its File Entry.
LEMMA EntryAt ==
  ASSUME Finished, NEW k \in DOMAIN nodes
  PROVE  /\ HasTag(image, LbnPartition + nodes[k].fe, "file entry", nodes[k].fe)
         /\ EntryFor(nodes, nodes[k], Body(SectorOf(image, LbnPartition + nodes[k].fe)))
<1> DEFINE at == nodes[k].fe
           s == LbnPartition + nodes[k].fe
           sector == SectorOf(image, s)
<1>1. PICK fe : sector = <<"file entry", at, fe>> /\ EntryFor(nodes, nodes[k], fe)
  BY DEF Finished, NodeOn
<1> HIDE DEF sector, at
<1>2. Tag(sector) = "file entry" /\ Place(sector) = at /\ Body(sector) = fe
  BY <1>1, PartsAre
<1> HIDE DEF s
<1>3. HasTag(image, s, "file entry", at)
  BY <1>2, PartsAre DEF sector
<1>4. QED BY <1>1, <1>2, <1>3 DEF sector, s, at

\* A directory is listed: each of its children, once.
LEMMA DirectoryListed ==
  ASSUME NamesFit, Finished, NEW vol, vol.part = LbnPartition, NEW i \in DOMAIN nodes, nodes[i].dir
  PROVE  EntriesOf(ReadDirEntries(image, vol, nodes[i].fe), nodes[i].path)
<1> DEFINE n == nodes[i]
           path == n.path
           p == StreamOf(image, n)
           fids == Stream(image, n)
           named == {k \in DOMAIN p.fids : ~p.fids[k].parent}
           entries == Selected(fids, named)
<1>1. WalkInv /\ p.ok
  BY FinishedHas
<1>2. PICK c, pos : FidsOf(fids, n, c, pos)
  BY FinishedHas
<1>3. p.fids = fids
  BY DEF Stream
<1>4. HasTag(image, LbnPartition + n.fe, "file entry", n.fe)
  BY EntryAt
<1>5. ReadDirEntries(image, vol, n.fe) =
        IF /\ HasTag(image, LbnPartition + n.fe, "file entry", n.fe) /\ p.ok
           /\ \A k \in named : HasTag(image, LbnPartition + p.fids[k].fe, "file entry", p.fids[k].fe)
        THEN [ok |-> TRUE, entries |-> Selected(p.fids, named)] ELSE NotRead
  BY DEF ReadDirEntries, StreamOf, Body
<1> HIDE DEF p, fids
<1>6. /\ c \in Nat /\ DOMAIN fids = 1..(c + 1) /\ pos \in [1..c -> KidsAt(path)] /\ c = Cardinality(KidsAt(path))
      /\ \A x \in KidsAt(path) : \E k \in 1..c : pos[k] = x
      /\ fids[1].parent /\ \A k \in 1..c : NamesKid(fids[k + 1], nodes[pos[k]])
  BY <1>2 DEF FidsOf, NamesAbove
<1> HIDE DEF n, path
<1>7. \A k \in 2..(c + 1) : k - 1 \in 1..c /\ NamesKid(fids[k], nodes[pos[k - 1]])
  <2> SUFFICES ASSUME NEW k \in 2..(c + 1)
               PROVE  k - 1 \in 1..c /\ NamesKid(fids[k], nodes[pos[k - 1]])
    OBVIOUS
  <2>1. k - 1 \in 1..c /\ (k - 1) + 1 = k
    BY <1>6
  <2>2. QED BY <1>6, <2>1
<1>8. \A k \in 1..(c + 1) : k = 1 \/ k \in 2..(c + 1)
  BY <1>6
<1>9. named = 2..(c + 1)
  <2>1. \A k \in 2..(c + 1) : k \in 1..(c + 1) /\ ~fids[k].parent
    BY <1>6, <1>7 DEF NamesKid
  <2>2. named = {k \in 1..(c + 1) : ~fids[k].parent}
    BY <1>3, <1>6
  <2> HIDE DEF named
  <2>3. \A k \in named : k \in 2..(c + 1)
    BY <1>6, <1>8, <2>2
  <2>4. \A k \in 2..(c + 1) : k \in named
    BY <2>1, <2>2
  <2>5. QED BY <2>3, <2>4
<1> HIDE DEF named
<1>10. \A k \in named : HasTag(image, LbnPartition + p.fids[k].fe, "file entry", p.fids[k].fe)
  <2> SUFFICES ASSUME NEW k \in named
               PROVE  HasTag(image, LbnPartition + fids[k].fe, "file entry", fids[k].fe)
    BY <1>3
  <2> DEFINE m == pos[k - 1]
  <2>1. m \in KidsAt(path) /\ fids[k].fe = nodes[m].fe
    BY <1>6, <1>7, <1>9 DEF NamesKid
  <2>2. m \in DOMAIN nodes
    BY <1>1, <2>1, KidsAre, NodesAre
  <2> HIDE DEF m
  <2>3. HasTag(image, LbnPartition + nodes[m].fe, "file entry", nodes[m].fe)
    BY <2>2, EntryAt
  <2>4. QED BY <2>1, <2>3
<1> DEFINE d == ReadDirEntries(image, vol, n.fe)
<1>11. d = [ok |-> TRUE, entries |-> entries]
  BY <1>1, <1>3, <1>4, <1>5, <1>10
<1>12. Cardinality(named) = c
  <2> DEFINE N == c + 1
  <2>1. c \in Nat /\ N \in Int /\ N = c + 1
    BY <1>6
  <2> HIDE DEF N
  <2>2. Cardinality(2..N) = IF 2 > N THEN 0 ELSE N - 2 + 1
    BY <2>1, FS_Interval
  <2>3. QED BY <1>9, <2>1, <2>2
<1> DEFINE at == Positions(named)
<1>13. /\ at \in [1..c -> named] /\ \A k \in named : \E j \in 1..c : at[j] = k
       /\ DOMAIN entries = 1..c /\ Len(entries) = c /\ \A j \in 1..c : entries[j] = fids[at[j]]
  <2> DEFINE N == c + 1
  <2>1. N \in Nat /\ named \in SUBSET (1..N)
    BY <1>6, <1>9
  <2> HIDE DEF N
  <2>2. /\ at \in [1..Cardinality(named) -> named] /\ \A k \in named : \E j \in 1..Cardinality(named) : at[j] = k
    BY <2>1, SelectedIs
  <2>3. Picks(entries, fids, named)
    BY <2>1, SelectedIs
  <2>4. QED BY <1>12, <2>2, <2>3 DEF Picks
<1> HIDE DEF entries, at
<1>14. \A j \in 1..c : \E k \in KidsAt(path) : NamesKid(entries[j], nodes[k])
  <2> SUFFICES ASSUME NEW j \in 1..c
               PROVE  \E k \in KidsAt(path) : NamesKid(entries[j], nodes[k])
    OBVIOUS
  <2>1. at[j] \in 2..(c + 1)
    BY <1>9, <1>13
  <2>2. at[j] - 1 \in 1..c /\ NamesKid(fids[at[j]], nodes[pos[at[j] - 1]])
    BY <1>7, <2>1
  <2>3. pos[at[j] - 1] \in KidsAt(path)
    BY <1>6, <2>2
  <2>4. QED BY <1>13, <2>2, <2>3
<1>15. \A k \in KidsAt(path) : \E j \in 1..c : NamesKid(entries[j], nodes[k])
  <2> SUFFICES ASSUME NEW k \in KidsAt(path)
               PROVE  \E j \in 1..c : NamesKid(entries[j], nodes[k])
    OBVIOUS
  <2>1. PICK x \in 1..c : pos[x] = k
    BY <1>6
  <2>2. x + 1 \in named
    BY <1>6, <1>9
  <2>3. PICK j \in 1..c : at[j] = x + 1
    BY <1>13, <2>2
  <2>4. NamesKid(fids[x + 1], nodes[k])
    BY <1>6, <2>1
  <2>5. QED BY <1>13, <2>3, <2>4
<1>16. d.ok /\ d.entries = entries
  BY <1>11
<1> HIDE DEF d
<1>17. EntriesOf(d, path)
  BY <1>6, <1>13, <1>14, <1>15, <1>16 DEF EntriesOf
<1>18. QED BY <1>17 DEF d, path, n

LeadsTo(d, n) ==
  LET found == {j \in DOMAIN d.entries : d.entries[j].name = Last(n.path)}
  IN  d.ok /\ found # {} /\ d.entries[Min(found)].dir = n.dir /\ d.entries[Min(found)].fe = n.fe

\* One component of a path leads from a directory to its child of that name.
LEMMA OneStep ==
  ASSUME NamesFit, Finished, NEW vol, vol.part = LbnPartition, NEW a \in DOMAIN nodes, nodes[a].dir,
         NEW b \in DOMAIN nodes, nodes[b].path # <<>>, Parent(nodes[b].path) = nodes[a].path
  PROVE  LeadsTo(ReadDirEntries(image, vol, nodes[a].fe), nodes[b])
<1> DEFINE d == ReadDirEntries(image, vol, nodes[a].fe)
           found == {j \in DOMAIN d.entries : d.entries[j].name = Last(nodes[b].path)}
           p == nodes[a].path
           c == Cardinality(KidsAt(p))
<1>1. EntriesOf(d, p) /\ WalkInv
  BY DirectoryListed DEF Finished
<1> HIDE DEF d
<1>2. b \in KidsAt(p) /\ KidsAt(p) \in SUBSET (1..Len(nodes)) /\ Len(nodes) \in Nat /\ DOMAIN nodes = 1..Len(nodes)
  BY <1>1, KidsAre, NodesAre
<1>3. PICK j \in DOMAIN d.entries : NamesKid(d.entries[j], nodes[b])
  BY <1>1, <1>2 DEF EntriesOf
<1>4. j \in found
  BY <1>3 DEF NamesKid
<1>5. c \in Nat /\ found \in SUBSET Nat
  <2>1. c \in Nat
    BY <1>2, SelectedIs
  <2> HIDE DEF c
  <2>2. DOMAIN d.entries = 1..c
    BY <1>1 DEF EntriesOf, c
  <2>3. QED BY <2>1, <2>2
<1> DEFINE m == Min(found)
<1>6. m \in found
  <2> HIDE DEF found
  <2>1. QED BY <1>4, <1>5, MinIsIn
<1> HIDE DEF m
<1>7. m \in DOMAIN d.entries /\ d.entries[m].name = Last(nodes[b].path)
  BY <1>6
<1>8. PICK k \in KidsAt(p) : NamesKid(d.entries[m], nodes[k])
  BY <1>1, <1>7 DEF EntriesOf
<1>9. k \in DOMAIN nodes /\ nodes[k].path # <<>> /\ Parent(nodes[k].path) = p /\ Last(nodes[k].path) = Last(nodes[b].path)
  BY <1>1, <1>2, <1>7, <1>8, KidsAre DEF NamesKid
<1>10. nodes[k].path = nodes[b].path
  <2>1. nodes[k].path \in Seq(Names) /\ nodes[b].path \in Seq(Names)
    BY <1>1, <1>9, NodesAre
  <2>2. Append(Parent(nodes[k].path), Last(nodes[k].path)) = nodes[k].path
    BY <1>9, <2>1, AncestorsOf
  <2>3. Append(Parent(nodes[b].path), Last(nodes[b].path)) = nodes[b].path
    BY <2>1, AncestorsOf
  <2>4. QED BY <1>9, <2>2, <2>3
<1>11. k = b
  BY <1>1, <1>9, <1>10 DEF WalkInv, Laid
<1>12. d.entries[m].dir = nodes[b].dir /\ d.entries[m].fe = nodes[b].fe
  BY <1>8, <1>11 DEF NamesKid
<1>13. d.ok
  BY <1>1 DEF EntriesOf
<1>14. found # {} /\ d.entries[Min(found)].dir = nodes[b].dir /\ d.entries[Min(found)].fe = nodes[b].fe
  BY <1>4, <1>12 DEF m
<1>15. LeadsTo(d, nodes[b])
  BY <1>13, <1>14 DEF LeadsTo
<1>16. QED BY <1>15 DEF d

\* The path of a node leads to it.
LEMMA Resolved ==
  ASSUME NamesFit, Finished, NEW vol, vol.part = LbnPartition, vol.root = nodes[1].fe, NEW i \in DOMAIN nodes
  PROVE  LET e == Resolve(image, vol, nodes[i].path) IN e.ok /\ e.dir = nodes[i].dir /\ e.fe = nodes[i].fe
<1> DEFINE p == nodes[i].path
           L == Len(p)
           Dir1(s) == ReadDirEntries(image, vol, s.fe)
           Found(k, s) == {j \in DOMAIN Dir1(s).entries : Dir1(s).entries[j].name = p[k]}
           first == [ok |-> TRUE, dir |-> TRUE, fe |-> vol.root]
           Step(k, s) == IF ~s.ok \/ ~Dir1(s).ok \/ Found(k, s) = {} THEN NoEntry
                         ELSE [ok |-> TRUE, dir |-> Dir1(s).entries[Min(Found(k, s))].dir,
                               fe |-> Dir1(s).entries[Min(Found(k, s))].fe]
           f == CHOOSE g : g = [k \in 0..L |-> IF k = 0 THEN first ELSE Step(k, g[k-1])]
           q(k) == SubSeq(p, 1, k)
           At(k) == [ok |-> TRUE, dir |-> NodeAt(q(k)).dir, fe |-> NodeAt(q(k)).fe]
<1>1. Resolve(image, vol, p) = f[L]
  BY DEF Resolve
<1> HIDE DEF f
<1>2. WalkInv /\ p \in Seq(Names) /\ L \in Nat /\ NodeAt(p) = nodes[i]
  BY NodesAre, LenProperties DEF Finished
<1>3. \A k \in 0..L : q(k) \in DOMAIN walked /\ (k < L => walked[q(k)].dir)
  <2>1. p \in DOMAIN walked /\ DOMAIN walked \subseteq Seq(Names) /\ ClosedTree(walked)
    BY <1>2, PathWalked DEF WalkInv, WalkOK
  <2>2. \A a \in Ancestors(p) : a \in DOMAIN walked /\ walked[a].dir
    BY <2>1, AncestorsIn
  <2>3. q(L) = p
    BY <1>2, SubSeqFull
  <2>4. Ancestors(p) = {q(k) : k \in 0..(L - 1)}
    BY DEF Ancestors
  <2> HIDE DEF q, p, L
  <2>5. \A k \in 0..L : k = L \/ (k \in 0..(L - 1) /\ k < L)
    BY <1>2
  <2>6. ~(L < L)
    BY <1>2
  <2>7. QED BY <2>1, <2>2, <2>3, <2>4, <2>5, <2>6
<1>4. \A k \in 0..L : \E j \in DOMAIN nodes : nodes[j].path = q(k) /\ NodeAt(q(k)) = nodes[j] /\ (k < L => nodes[j].dir)
  <2> SUFFICES ASSUME NEW k \in 0..L
               PROVE  \E j \in DOMAIN nodes : nodes[j].path = q(k) /\ NodeAt(q(k)) = nodes[j] /\ (k < L => nodes[j].dir)
    OBVIOUS
  <2> DEFINE r == q(k)
  <2>1. r \in DOMAIN walked /\ (k < L => walked[r].dir)
    BY <1>3
  <2> HIDE DEF r
  <2>2. PICK j \in DOMAIN nodes : nodes[j].path = r
    BY <1>2, <2>1, NodesAre
  <2>3. NodeAt(r) = nodes[j] /\ nodes[j].dir = walked[r].dir
    BY <1>2, <2>2, NodesAre, PathWalked
  <2>4. QED BY <2>1, <2>2, <2>3 DEF r
<1>5. \A k \in 1..L : Step(k, At(k-1)) = At(k)
  <2> SUFFICES ASSUME NEW k \in 1..L
               PROVE  Step(k, At(k-1)) = At(k)
    OBVIOUS
  <2> DEFINE s == At(k-1)
             u == q(k-1)
             v == q(k)
  <2>1. k \in 0..L /\ k - 1 \in 0..L /\ k - 1 < L /\ k \in Nat /\ L \in Int
    BY <1>2
  <2>2. PICK a \in DOMAIN nodes : nodes[a].path = u /\ NodeAt(u) = nodes[a] /\ nodes[a].dir
    BY <1>4, <2>1
  <2>3. PICK b \in DOMAIN nodes : nodes[b].path = v /\ NodeAt(v) = nodes[b]
    BY <1>4, <2>1
  <2>4. v # <<>> /\ Parent(v) = u /\ Last(v) = p[k]
    <3>1. v \in Seq(Names) /\ Len(v) = k /\ v[k] = p[k] /\ SubSeq(v, 1, k - 1) = u
      <4>1. k \in 1..k /\ k - 1 \in 0..k
        BY <2>1
      <4>2. QED BY <1>2, <2>1, <4>1, PrefixIs
    <3> HIDE DEF v, u, p
    <3>2. v # <<>>
      BY <2>1, <3>1
    <3>3. Parent(v) = SubSeq(v, 1, Len(v) - 1)
      BY <3>1, <3>2, AncestorsOf
    <3>4. QED BY <3>1, <3>2, <3>3 DEF Last
  <2>5. At(k) = [ok |-> TRUE, dir |-> nodes[b].dir, fe |-> nodes[b].fe]
    BY <2>3
  <2>6. s.ok /\ s.fe = nodes[a].fe
    BY <2>2
  <2> DEFINE d == ReadDirEntries(image, vol, nodes[a].fe)
             found == {j \in DOMAIN d.entries : d.entries[j].name = Last(nodes[b].path)}
  <2>7. d.ok /\ found # {} /\ d.entries[Min(found)].dir = nodes[b].dir /\ d.entries[Min(found)].fe = nodes[b].fe
    <3>1. nodes[b].path # <<>> /\ Parent(nodes[b].path) = nodes[a].path
      BY <2>2, <2>3, <2>4
    <3>2. nodes[a].dir
      BY <2>2
    <3>3. LeadsTo(d, nodes[b])
      BY <3>1, <3>2, OneStep
    <3> HIDE DEF d
    <3>4. QED BY <3>3 DEF LeadsTo
  <2>8. Dir1(s) = d
    BY <2>6
  <2>9. Found(k, s) = found
    BY <2>3, <2>4, <2>8
  <2> HIDE DEF s, Dir1, Found, d, found, At
  <2>10. Step(k, s) = [ok |-> TRUE, dir |-> d.entries[Min(found)].dir, fe |-> d.entries[Min(found)].fe]
    BY <2>6, <2>7, <2>8, <2>9
  <2>11. QED BY <2>5, <2>7, <2>10 DEF s
<1>6. At(0) = first
  <2>1. q(0) = <<>>
    BY <1>2, PrefixIs, EmptySeq
  <2>2. 1 \in DOMAIN nodes /\ nodes[1].path = <<>>
    BY <1>2, NodesAre DEF WalkInv, Laid
  <2>3. NodeAt(<<>>) = nodes[1] /\ nodes[1].dir
    <3>1. NodeAt(nodes[1].path) = nodes[1]
      BY <1>2, <2>2, NodesAre
    <3>2. nodes[1].dir = walked[nodes[1].path].dir
      BY <1>2, <2>2, PathWalked
    <3>3. walked[<<>>].dir
      BY <1>2 DEF WalkInv, WalkOK
    <3>4. nodes[1].dir \in BOOLEAN
      BY <1>2, <2>2, NodesAre
    <3>5. QED BY <2>2, <3>1, <3>2, <3>3, <3>4
  <2>4. nodes[1].dir = TRUE
    BY <1>2, <2>2, <2>3, NodesAre
  <2>5. QED BY <2>1, <2>3, <2>4
<1>7. At(L).ok /\ At(L).dir = nodes[i].dir /\ At(L).fe = nodes[i].fe
  <2>1. q(L) = p
    BY <1>2, SubSeqFull
  <2>2. QED BY <1>2, <2>1
<1> HIDE DEF At, Step, first, q, p, L
<1>8. \E g : g = [k \in 0..L |-> IF k = 0 THEN first ELSE Step(k, g[k-1])]
  <2> DEFINE g == [k \in 0..L |-> At(k)]
  <2>1. \A k \in 0..L : k # 0 => k \in 1..L /\ k - 1 \in 0..L
    BY <1>2
  <2>2. \A k \in 0..L : k # 0 => g[k-1] = At(k-1)
    BY <2>1
  <2>3. \A k \in 0..L : At(k) = IF k = 0 THEN first ELSE Step(k, g[k-1])
    <3> HIDE DEF g
    <3>1. QED BY <1>5, <1>6, <2>1, <2>2
  <2>4. g = [k \in 0..L |-> IF k = 0 THEN first ELSE Step(k, g[k-1])]
    <3>1. g = [k \in 0..L |-> At(k)]
      OBVIOUS
    <3> HIDE DEF g
    <3>2. QED BY <2>3, <3>1
  <2> HIDE DEF g
  <2>5. QED BY <2>4
<1>9. f = [k \in 0..L |-> IF k = 0 THEN first ELSE Step(k, f[k-1])]
  BY ZenonT(30), <1>8 DEF f
<1> DEFINE T == {k \in 0..L : f[k] = At(k)}
<1>10. 0 \in T
  BY <1>2, <1>6, <1>9
<1>11. \A k \in 1..L : k - 1 \in T => k \in T
  <2>1. TAKE k \in 1..L
  <2>2. HAVE k - 1 \in T
  <2>3. f[k-1] = At(k-1) /\ k \in 0..L /\ k # 0
    BY <1>2, <2>2
  <2>4. f[k] = Step(k, f[k-1])
    BY <1>9, <2>3
  <2>5. QED BY <1>5, <2>3, <2>4
<1> HIDE DEF T
<1>12. L \in T
  <2>1. \A k \in 0..L : k \in T
    BY <1>2, <1>10, <1>11, UpTo
  <2>2. QED BY <1>2, <2>1
<1>13. f[L] = At(L)
  BY <1>12 DEF T
<1>14. QED BY <1>1, <1>7, <1>13 DEF p

\* The entries of a directory are the children of its path in the tree.
LEMMA ChildrenRead ==
  ASSUME WalkInv, NEW path \in Seq(Names), NEW d, EntriesOf(d, path)
  PROVE  /\ Len(d.entries) = Cardinality(Children(walked, path))
         /\ {Append(path, f.name) : f \in Range(d.entries)} = Children(walked, path)
<1> DEFINE keep == KidsAt(path)
           T == Children(walked, path)
           g == [k \in keep |-> nodes[k].path]
<1>1. /\ keep \in SUBSET (1..Len(nodes)) /\ Len(nodes) \in Nat /\ DOMAIN nodes = 1..Len(nodes)
      /\ \A k \in DOMAIN nodes : k \in keep <=> nodes[k].path # <<>> /\ Parent(nodes[k].path) = path
      /\ \A k \in DOMAIN nodes : nodes[k].path \in Seq(Names)
  BY KidsAre, NodesAre
<1>2. /\ \A j, k \in DOMAIN nodes : nodes[j].path = nodes[k].path => j = k
      /\ DOMAIN walked = {nodes[k].path : k \in DOMAIN nodes}
  BY DEF WalkInv, Laid
<1>3. IsFiniteSet(keep)
  BY <1>1, SelectedIs
<1> HIDE DEF keep
<1>4. T = {nodes[k].path : k \in keep}
  BY <1>1, <1>2 DEF Children
<1>5. \A k \in keep : Append(path, Last(nodes[k].path)) = nodes[k].path
  BY <1>1, AncestorsOf
<1> HIDE DEF T
<1>6. Cardinality(T) = Cardinality(keep)
  <2>1. /\ g \in [keep -> T] /\ \A x, y \in keep : g[x] = g[y] => x = y
        /\ \A t \in T : \E x \in keep : g[x] = t
    BY <1>1, <1>2, <1>4
  <2> HIDE DEF g
  <2>2. QED BY <1>3, <2>1, SameSize
<1>7. Len(d.entries) = Cardinality(T)
  BY <1>6 DEF EntriesOf, keep
<1>8. /\ \A j \in DOMAIN d.entries : \E k \in keep : d.entries[j].name = Last(nodes[k].path)
      /\ \A k \in keep : \E j \in DOMAIN d.entries : d.entries[j].name = Last(nodes[k].path)
  BY DEF EntriesOf, NamesKid, keep
<1> DEFINE A == {Append(path, f.name) : f \in Range(d.entries)}
<1>9. A = {Append(path, d.entries[j].name) : j \in DOMAIN d.entries}
  BY DEF Range
<1>10. A = T
  <2> HIDE DEF A
  <2>1. ASSUME NEW t \in A
        PROVE  t \in T
    <3>1. PICK j \in DOMAIN d.entries : t = Append(path, d.entries[j].name)
      BY <1>9, <2>1
    <3>2. PICK k \in keep : d.entries[j].name = Last(nodes[k].path)
      BY <1>8
    <3>3. t = nodes[k].path
      BY <1>5, <3>1, <3>2
    <3>4. QED BY <1>4, <3>3
  <2>2. ASSUME NEW t \in T
        PROVE  t \in A
    <3>1. PICK k \in keep : t = nodes[k].path
      BY <1>4, <2>2
    <3>2. PICK j \in DOMAIN d.entries : d.entries[j].name = Last(nodes[k].path)
      BY <1>8
    <3>3. t = Append(path, d.entries[j].name)
      BY <1>5, <3>1, <3>2
    <3>4. QED BY <1>9, <3>3
  <2>3. QED BY <2>1, <2>2
<1>11. QED BY <1>7, <1>10 DEF T

\* The bytes of a file.
LEMMA FileRead ==
  ASSUME Finished, NEW vol, vol.part = LbnPartition, NEW i \in DOMAIN nodes, ~nodes[i].dir,
         nodes[i].path \in DOMAIN streamed, Len(streamed[nodes[i].path]) >= nodes[i].len
  PROVE  ReadFileData(image, vol, nodes[i].fe) = SubSeq(streamed[nodes[i].path], 1, nodes[i].len)
<1> DEFINE n == nodes[i]
           str == streamed[n.path]
           len == n.len
           cells == SubSeq(str, 1, len)
           fe == Body(SectorOf(image, LbnPartition + n.fe))
           data == EntryData(image, LbnPartition, "file", fe)
<1>1. str \in Seq(Nat) /\ len \in Nat /\ n.lb \in Nat /\ Len(str) >= len
  BY NodesAre DEF Finished
<1>2. CellsOn(image, "file", n.lb, cells)
  BY DEF Finished, NodeOn
<1>3. EntryFor(nodes, n, fe)
  BY EntryAt
<1> HIDE DEF fe
<1>4. ReadFileData(image, vol, n.fe) = IF Len(data) > fe.len THEN SubSeq(data, 1, fe.len) ELSE data
  BY DEF ReadFileData, Body, fe
<1> HIDE DEF str
<1>5. cells \in Seq(Nat) /\ Len(cells) = len
  <2> HIDE DEF len
  <2>1. len \in 0..Len(str)
    BY <1>1, LenProperties
  <2>2. QED BY <1>1, <2>1, PrefixIs
<1> HIDE DEF cells, data
<1>6. fe.len = len /\ fe.exts = Extents(Len(cells), n.lb)
  BY <1>3, <1>5 DEF EntryFor
<1> HIDE DEF len, n
<1>7. data = cells
  BY <1>1, <1>2, <1>5, <1>6, EntryDataIs DEF data
<1>8. ~(Len(data) > fe.len)
  BY <1>1, <1>5, <1>6, <1>7
<1>9. ReadFileData(image, vol, n.fe) = cells
  BY <1>4, <1>7, <1>8
<1>10. QED BY <1>9 DEF cells, str, len, n

\* What the strict reader makes of an image that is finished.
LEMMA ReadsBack ==
  ASSUME NamesFit, Finished
  PROVE  ImageReadsBack
<1> DEFINE vol == Volume(image)
<1>1. vol.ok /\ vol.part = LbnPartition /\ vol.root = nodes[1].fe /\ WalkInv
  BY VolumeIs DEF Finished
<1> HIDE DEF vol
<1>2. ASSUME NEW p \in DOMAIN walked
      PROVE  LET e == Resolve(image, vol, p)
                 d == ReadDirEntries(image, vol, e.fe)
                 size == Len(walked[p].data)
             IN  /\ e.ok /\ e.dir = walked[p].dir
                 /\ e.dir => /\ d.ok /\ Len(d.entries) = Cardinality(Children(walked, p))
                             /\ {Append(p, f.name) : f \in Range(d.entries)} = Children(walked, p)
                 /\ ~e.dir => SectorOf(image, vol.part + e.fe)[3].len = size
                 /\ p \in DOMAIN streamed /\ Len(streamed[p]) >= size
                      => ReadFileData(image, vol, e.fe) = SubSeq(streamed[p], 1, size)
  <2> DEFINE e == Resolve(image, vol, p)
             d == ReadDirEntries(image, vol, e.fe)
             size == Len(walked[p].data)
  <2>1. PICK i \in DOMAIN nodes : nodes[i].path = p
    BY <1>1, NodesAre
  <2>2. /\ p \in Seq(Names) /\ nodes[i].dir = walked[p].dir
        /\ ~nodes[i].dir => nodes[i].len = size
    BY <1>1, <2>1, NodesAre, PathWalked DEF WalkInv, Laid
  <2>3. e.ok /\ e.dir = nodes[i].dir /\ e.fe = nodes[i].fe
    BY <1>1, <2>1, Resolved
  <2> HIDE DEF e, size
  <2>4. ASSUME e.dir
        PROVE  /\ d.ok /\ Len(d.entries) = Cardinality(Children(walked, p))
               /\ {Append(p, f.name) : f \in Range(d.entries)} = Children(walked, p)
    <3>1. nodes[i].dir
      BY <2>3, <2>4
    <3>2. EntriesOf(ReadDirEntries(image, vol, nodes[i].fe), nodes[i].path)
      BY <1>1, <3>1, DirectoryListed
    <3>3. EntriesOf(d, p)
      BY <2>1, <2>3, <3>2
    <3> HIDE DEF d
    <3>4. d.ok
      BY <3>3 DEF EntriesOf
    <3>5. /\ Len(d.entries) = Cardinality(Children(walked, p))
          /\ {Append(p, f.name) : f \in Range(d.entries)} = Children(walked, p)
      BY <1>1, <2>2, <3>3, ChildrenRead
    <3>6. QED BY <3>4, <3>5
  <2>5. ASSUME ~e.dir
        PROVE  SectorOf(image, vol.part + e.fe)[3].len = size
    <3> DEFINE x == Body(SectorOf(image, LbnPartition + nodes[i].fe))
    <3>1. EntryFor(nodes, nodes[i], x)
      BY EntryAt
    <3>2. SectorOf(image, vol.part + e.fe)[3] = x
      BY <1>1, <2>3 DEF Body
    <3> HIDE DEF x
    <3>3. x.len = nodes[i].len /\ nodes[i].len = size
      BY <2>2, <2>3, <2>5, <3>1 DEF EntryFor
    <3>4. QED BY <3>2, <3>3
  <2>6. ASSUME p \in DOMAIN streamed, Len(streamed[p]) >= size
        PROVE  ReadFileData(image, vol, e.fe) = SubSeq(streamed[p], 1, size)
    <3>1. PICK k \in DOMAIN nodes : nodes[k].path = p /\ ~nodes[k].dir
      BY <2>6 DEF Finished
    <3>2. k = i
      BY <1>1, <2>1, <3>1 DEF WalkInv, Laid
    <3>3. nodes[i].len = size
      BY <2>2, <3>1, <3>2
    <3>4. ReadFileData(image, vol, nodes[i].fe) = SubSeq(streamed[nodes[i].path], 1, nodes[i].len)
      BY <1>1, <2>1, <2>6, <3>1, <3>2, <3>3, FileRead
    <3>5. QED BY <2>1, <2>3, <3>3, <3>4
  <2>7. QED BY <2>2, <2>3, <2>4, <2>5, <2>6 DEF d, e, size
<1>3. QED BY <1>1, <1>2 DEF ImageReadsBack, vol

--------------------------------------------------------------------------------
(* The theorems. *)

\* Every step keeps the invariant.
LEMMA DiscStep ==
  ASSUME DiscInv, [Next]_vars
  PROVE  DiscInv'
<1>1. ASSUME UNCHANGED <<media, builderVars, usbVars>>
      PROVE  DiscInv'
  <2>1. BuildInv'
    BY <1>1, TreeKept DEF DiscInv
  <2>2. UNCHANGED <<usb, plan, pending, medium, planned, touched, pc, opts>>
    BY <1>1 DEF usbVars, builderVars
  <2>3. PlanInv => PlanInv'
    BY <1>1, <2>2, PlanKept
  <2>4. CopyInv => CopyInv'
    BY <2>2 DEF CopyInv, Fits
  <2>5. StageInv => StageInv'
    BY <2>2 DEF StageInv, PartsOn, HasLoader
  <2>6. UsbInv'
    BY <2>2, <2>3, <2>4, <2>5 DEF DiscInv, UsbInv
  <2>7. QED BY <2>1, <2>6 DEF DiscInv
<1>2. CASE usb = "idle" /\ BuilderNext /\ UNCHANGED usbVars
  <2>1. BuildInv'
    BY <1>2, BuilderStep DEF DiscInv
  <2>2. usb' = "idle"
    BY <1>2 DEF usbVars
  <2>3. QED BY <2>1, <2>2 DEF DiscInv, UsbInv
<1>3. CASE RewriteCatalog
  BY <1>1, <1>3 DEF RewriteCatalog
<1>4. CASE \E d \in Disks, o \in UsbOptions : WriteMedia(d, o)
  BY <1>4, WriteMediaStep
<1>5. CASE UsbNext /\ UNCHANGED <<media, isoVars, builderVars>>
  BY <1>5, UsbStep
<1>6. CASE Change
  BY <1>6, ChangeStep
<1>7. CASE UNCHANGED vars
  BY <1>1, <1>7 DEF vars
<1>8. QED BY <1>2, <1>3, <1>4, <1>5, <1>6, <1>7 DEF Next

\* Whatever is built, fails, is changed or is written: the tree of a build
\* holds what its steps so far have put there, and a disk what its plan says.
THEOREM DiscInvariant == Spec => []DiscInv
<1>1. Init => DiscInv
  BY InitOK
<1>2. DiscInv /\ [Next]_vars => DiscInv'
  BY DiscStep
<1>3. QED BY <1>1, <1>2, PTL DEF Spec

\* A disk written without an error is complete (pkg/usb/media.go planMedia and
\* execute), and no file on it is over the limit but one that has changed or a
\* part with a single resource; for any tree, sizes, resources, file system and
\* architecture, whatever changes in the tree after it was planned.
THEOREM MediumCompleteTheorem == Spec => []MediumComplete
<1>1. DiscInv => MediumComplete
  <2>1. SUFFICES ASSUME DiscInv, usb = "done"
                 PROVE  MediumComplete
    BY DEF MediumComplete
  <2>2. PlanInv /\ CopyInv /\ StageInv
    BY <2>1 DEF DiscInv, UsbInv
  <2>3. pending = {} /\ HasLoader /\ (plan.split \notin touched \cup {<<>>} => PartsOn)
    BY <2>1, <2>2 DEF StageInv
  <2>4. QED BY <2>1, <2>2, <2>3 DEF CopyInv, Fits, PartsOn, HasLoader, MediumComplete
<1>2. QED BY <1>1, DiscInvariant, PTL

\* Trees stay closed and images stay whole.
LEMMA ImageInvariant == Spec => [](DiscInv /\ Shaped(media) /\ LeftInv /\ ImageInv)
<1>1. Init => DiscInv /\ Shaped(media) /\ LeftInv /\ ImageInv
  <2> SUFFICES ASSUME Init
               PROVE  DiscInv /\ Shaped(media) /\ LeftInv /\ ImageInv
    OBVIOUS
  <2>1. DiscInv
    BY InitOK
  <2>2. media = Empty /\ iso = "none"
    BY DEF Init, BuilderInit, IsoInit
  <2>3. pc = "idle" /\ <<>> \in DOMAIN Empty
    BY DEF Init, BuilderInit, Empty, Only
  <2>4. LeftInv
    BY <2>2, <2>3 DEF LeftInv
  <2>5. QED BY <2>1, <2>2, <2>4, EmptyShaped DEF ImageInv
<1>2. DiscInv /\ Shaped(media) /\ LeftInv /\ ImageInv /\ [Next]_vars
        => (DiscInv /\ Shaped(media) /\ LeftInv /\ ImageInv)'
  BY DiscStep, ShapedStep, LeftStep, ImageStep
<1>3. QED BY <1>1, <1>2, PTL DEF Spec

\* When a build has put its files into the tree, each of them holds what its
\* options ask for, and every other file is one the directory held before,
\* unchanged: in a directory of the build's own there is none
\* (pkg/builder/builder.go BuildISOFromWIM); for any ESD, extra files and
\* options, and after any number of builds that failed in the same directory.
THEOREM BuiltFromOptionsTheorem == Spec => []BuiltFromOptions
<1>1. ASSUME DiscInv, Shaped(media), LeftInv, pc = "extras", inject = {}
      PROVE  BuiltFromOptions
  <2>1. ExtrasInv
    BY <1>1 DEF DiscInv, BuildInv
  <2>2. \A p \in Places : p \in DOMAIN media => p \in FilesOf(media)
    BY <1>1, KnownAre DEF Shaped, Placed, FilesOf
  <2>3. \A k \in DOMAIN extras : KeyPath[k] \in DOMAIN media /\ media[KeyPath[k]].data \in {extras[j] : j \in Given(KeyPath[k])}
    BY <1>1, <2>1 DEF ExtrasInv
  <2>4. ASSUME NEW p \in FilesOf(SetupTree) \cup Outputs, Wanted(p) # {}
        PROVE  p \in FilesOf(media) /\ media[p].data \in Wanted(p)
    <3>1. p \in DOMAIN media /\ media[p].data \in Wanted(p)
      <4>1. CASE Given(p) # {}
        <5>1. PICK k \in DOMAIN extras : KeyPath[k] = p
          BY <4>1 DEF Given
        <5>2. Wanted(p) = {extras[j] : j \in Given(p)}
          BY <4>1 DEF Wanted
        <5>3. QED BY <2>3, <5>1, <5>2
      <4>2. CASE Given(p) = {} /\ p \in FilesOf(SetupTree)
        <5>1. Holds(p, SetupTree[p].data)
          BY <1>1, <2>1, <4>2 DEF ExtrasInv, FilesOf
        <5>2. Wanted(p) = {SetupTree[p].data}
          BY <4>2 DEF Wanted
        <5>3. QED BY <5>1, <5>2 DEF Holds
      <4>3. CASE Given(p) = {} /\ p \notin FilesOf(SetupTree) /\ p = BootWim
        <5>1. Holds(BootWim, Wim(BootImagesOf, Len(BootImagesOf), FALSE))
          BY <1>1, <2>1, <4>3 DEF ExtrasInv
        <5>2. Wanted(p) = {Wim(BootImagesOf, Len(BootImagesOf), FALSE)}
          BY <4>3 DEF Wanted
        <5>3. QED BY <4>3, <5>1, <5>2 DEF Holds
      <4>4. CASE Given(p) = {} /\ p \notin FilesOf(SetupTree) /\ p # BootWim
        <5>1. p = InstallWim /\ Editions # <<>> /\ Wanted(p) = {Wim(Editions, 0, opts.server)}
          BY <2>4, <4>4 DEF Wanted
        <5>2. Holds(InstallWim, Wim(Editions, 0, opts.server))
          BY <1>1, <2>1, <4>4, <5>1 DEF ExtrasInv
        <5>3. QED BY <5>1, <5>2 DEF Holds
      <4>5. QED BY <4>1, <4>2, <4>3, <4>4
    <3>2. p \in Places
      BY PlacesOK DEF Places
    <3>3. QED BY <2>2, <3>1, <3>2
  <2>5. ASSUME NEW p \in FilesOf(media), Wanted(p) = {}
        PROVE  ~opts.fresh /\ p \in DOMAIN leftover /\ media[p] = leftover[p]
    <3>1. Given(p) = {}
      <4>1. Given(p) # {} => {extras[k] : k \in Given(p)} # {}
        OBVIOUS
      <4>2. QED BY <2>5, <4>1 DEF Wanted
    <3>2. p \notin FilesOf(SetupTree) /\ p # BootWim /\ ~(p = InstallWim /\ Editions # <<>>)
      BY <2>5, <3>1 DEF Wanted
    <3>3. ~Made(p)
      BY <3>1, <3>2 DEF Made
    <3>4. Kept(p) /\ (opts.fresh => FilesOf(leftover) = {})
      BY <1>1, <3>3 DEF LeftInv
    <3>5. p \in FilesOf(leftover)
      BY <3>4 DEF Kept, FilesOf
    <3>6. QED BY <3>4, <3>5 DEF Kept
  <2>6. AutoKey \in opts.extras => media[KeyPath[AutoKey]].data # AnswerData
    <3>1. SUFFICES ASSUME AutoKey \in opts.extras
                   PROVE  media[KeyPath[AutoKey]].data # AnswerData
      OBVIOUS
    <3>2. AutoKey \in DOMAIN extras /\ \A k \in DOMAIN extras : extras[k] # AnswerData
      BY <1>1, <2>1, <3>1 DEF ExtrasInv
    <3>3. PICK j \in Given(KeyPath[AutoKey]) : media[KeyPath[AutoKey]].data = extras[j]
      BY <2>3, <3>2
    <3>4. QED BY <3>2, <3>3 DEF Given
  <2>7. QED BY <2>4, <2>5, <2>6 DEF BuiltFromOptions
<1>2. DiscInv /\ Shaped(media) /\ LeftInv /\ ImageInv => BuiltFromOptions
  BY <1>1 DEF BuiltFromOptions
<1>3. QED BY <1>2, ImageInvariant, PTL

\* When every name is as long encoded as counted: the directories of a finished
\* image refer back to their parents, at blocks of their own, and each File
\* Entry counts the descriptors that name it (pkg/udf/writer.go writeDirEntry,
\* descriptors.go fileEntry), for trees of any shape and any sizes.
THEOREM LinksClosedTheorem == NamesFit => (Spec => []LinksClosed)
<1> SUFFICES ASSUME NamesFit
             PROVE  Spec => []LinksClosed
  OBVIOUS
<1>1. ImageInv => LinksClosed
  <2>1. CASE iso = "done"
    BY <2>1, FinishedIs, LinksAreClosed
  <2>2. CASE iso # "done"
    BY <2>2 DEF LinksClosed, Mastered
  <2>3. QED BY <2>1, <2>2
<1>2. QED BY <1>1, ImageInvariant, PTL

\* When every name is as long encoded as counted: a finished image read with the
\* strict reader holds the tree that was walked, with its directories, sizes and
\* the bytes of every file that was no shorter when it was copied
\* (pkg/udf/writer.go WriteTree, reader.go), for trees of any shape and any
\* sizes, whatever changes in the tree meanwhile.
THEOREM ImageReadsBackTheorem == NamesFit => (Spec => []ImageReadsBack)
<1> SUFFICES ASSUME NamesFit
             PROVE  Spec => []ImageReadsBack
  OBVIOUS
<1>1. ImageInv => ImageReadsBack
  <2>1. CASE iso = "done"
    BY <2>1, FinishedIs, ReadsBack
  <2>2. CASE iso # "done"
    BY <2>2 DEF ImageReadsBack, Mastered
  <2>3. QED BY <2>1, <2>2
<1>2. QED BY <1>1, ImageInvariant, PTL
================================================================================
