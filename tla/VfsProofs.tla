----------------------------- MODULE VfsProofs -----------------------------
(***************************************************************************)
(* Proofs about Vfs, for every image, devices, paths and tasks.  A node is *)
(* what its inode says it is, whoever made it and whenever (NodesOK), so a *)
(* component leads from it where the tree says unless it asks devfs for a  *)
(* device that is not there (PartFollows).  From /dev on, a path can only  *)
(* come to /dev itself and to devices it mentions (PastDev).  What it      *)
(* names depends on the devices only in one component (BranchesAgree), so  *)
(* a descriptor keeps standing for what it stood for.  Last, what the      *)
(* files, the terminal and its input keep side by side.                    *)
(***************************************************************************)
EXTENDS MCFiles, TtyProofs, ListLemmas

USE DEF NULL

\* pci_init is the only task that registers a device (dev/pci.c:113-132), so at
\* most one is not counted in the length the node of /dev was mounted with.
OneLateDevice == Len(LateDevices) <= 1

----------------------------------------------------------------------------
(* The invariant.                                                          *)

\* The devices so far: those of Devices, the last perhaps without its name.
DevsOK(d) ==
  /\ d \in Seq(Name \cup {NoName})
  /\ Len(BootDevices) <= Len(d) /\ Len(d) <= Len(Devices)
  /\ \A k \in 1 .. Len(d) : d[k] = Devices[k] \/ (d[k] = NoName /\ k = Len(d))

\* What the node of an inode is.
NodeFits(node, d) ==
  \/ /\ node.ino = Dev /\ node.fs = "devfs" /\ node.length = Len(BootDevices)
  \/ /\ node.ino \in Inode \ {Dev} /\ node.fs = "initrd"
     /\ node.length = Image[node.ino].length
  \/ /\ node.ino \in 0 .. (Len(d) - 1) /\ node.fs = "devfs" /\ node.length = 0

NodesOK(ns, d) ==
  /\ ns \in Seq(fs_node_t)
  /\ Len(ns) > 0 /\ ns[1].ino = Root /\ Cached(ns, Dev)
  /\ \A k \in 1 .. Len(ns) : NodeFits(ns[k], d)

\* The path goes on behind a component that is looked up in /dev.
PassesDev(d, path) ==
  \E k \in 1 .. (Looked(path) - 1) : Branch(d, path)[k - 1] = Dev

\* The devices the first n components mention.
DevsIn(d, path, n) == {j - 1 : j \in {i \in DOMAIN d : \E k \in 1 .. n : path[k] = d[i]}}

\* A descriptor stands for what its path named and still names, or for a device
\* that a path mentions which goes on behind /dev.
FileOK(file, d) ==
  /\ file \in file_t
  /\ file.ino \in Inode => ~Image[file.ino].dir
  /\ \/ file.ino = Named(d, file.path)
     \/ PassesDev(d, file.path) /\ file.ino \in Mentioned(d, file.path)

TableOK(files, next, d) ==
  /\ files \in Seq(file_t) /\ Len(files) = next
  /\ \A k \in 1 .. Len(files) : FileOK(files[k], d) /\ files[k].fd = k - 1

VfsInv ==
  /\ DevsOK(devs)
  /\ NodesOK(nodes, devs)
  /\ next_fd \in [Task -> 0 .. MAX_OPEN]
  /\ DOMAIN fd_table = Task /\ fd_table = [t \in Task |-> fd_table[t]]
  /\ \A t \in Task : TableOK(fd_table[t], next_fd[t], devs)
----------------------------------------------------------------------------
(* Directories and the tree.                                               *)

\* The constants, as the proofs use them.
LEMMA Shapes ==
  /\ Len(BootDevices) \in Nat /\ Len(BootDevices) > 0
  /\ Len(LateDevices) \in Nat /\ Len(Devices) = Len(BootDevices) + Len(LateDevices)
  /\ Devices \in Seq(Name) /\ DOMAIN Devices = 1 .. Len(Devices)
  /\ \A k \in 1 .. Len(Devices) : Devices[k] \in Name
  /\ \A k \in 1 .. Len(BootDevices) : Devices[k] = BootDevices[k]
  /\ Root \in Inode /\ Dev \in Inode /\ Root # Dev /\ Root \in Nat /\ Dev \in Nat
  /\ \A i \in Inode : i \in Nat /\ i >= Len(Devices)
  /\ Inode \subseteq Ino /\ NULL \notin Ino
<1>1. /\ BootDevices \in Seq(Name) /\ LateDevices \in Seq(Name)
  BY DeviceAssumption
<1>2. /\ Devices \in Seq(Name) /\ Len(Devices) = Len(BootDevices) + Len(LateDevices)
      /\ \A k \in 1 .. Len(BootDevices) : Devices[k] = BootDevices[k]
  BY <1>1, ConcatProperties DEF Devices
<1>3. /\ Len(BootDevices) \in Nat /\ Len(LateDevices) \in Nat /\ Len(BootDevices) > 0
      /\ DOMAIN Devices = 1 .. Len(Devices)
      /\ \A k \in 1 .. Len(Devices) : Devices[k] \in Name
  BY <1>1, <1>2, LenProperties, ElementOfSeq, DeviceAssumption
<1>4. /\ Root \in Inode /\ Dev \in Inode /\ Root # Dev
      /\ \A i \in Inode : i \in Nat /\ i >= Len(Devices)
  BY ImageAssumption
<1>5. \A i \in Ino : i >= 0
  BY <1>3, <1>4 DEF Ino
<1> QED  BY <1>2, <1>3, <1>4, <1>5 DEF Ino

LEMMA DevsShape ==
  ASSUME NEW d, DevsOK(d)
  PROVE  /\ Len(d) \in Nat /\ Len(d) > 0 /\ DOMAIN d = 1 .. Len(d)
         /\ Len(d) <= Len(Devices)
         /\ \A j, k \in 1 .. Len(d) : d[j] = d[k] /\ d[j] \in Name => j = k
<1>1. Len(d) \in Nat /\ DOMAIN d = 1 .. Len(d)
  BY LenProperties DEF DevsOK
<1>2. Len(d) > 0 /\ Len(d) <= Len(Devices)
  <2>1. Len(BootDevices) <= Len(d) /\ Len(d) <= Len(Devices)  BY DEF DevsOK
  <2>2. Len(BootDevices) \in Nat /\ Len(BootDevices) > 0  BY Shapes
  <2> QED  BY <1>1, <2>1, <2>2
<1>3. ASSUME NEW j \in 1 .. Len(d), NEW k \in 1 .. Len(d), d[j] = d[k], d[j] \in Name
      PROVE  j = k
  <2>1. d[j] = Devices[j] /\ d[k] = Devices[k]
    BY <1>3, DeviceAssumption DEF DevsOK
  <2>2. j \in DOMAIN Devices /\ k \in DOMAIN Devices
    BY <1>1, <1>2, Shapes
  <2> QED  BY <1>3, <2>1, <2>2, DeviceAssumption
<1> QED  BY <1>1, <1>2, <1>3

LEMMA KidsShape ==
  ASSUME NEW i \in Inode
  PROVE  /\ Len(Image[i].kids) \in Nat /\ DOMAIN Image[i].kids = 1 .. Len(Image[i].kids)
         /\ \A k \in 1 .. Len(Image[i].kids) : Image[i].kids[k].ino \in Inode
         /\ \A j, k \in 1 .. Len(Image[i].kids) :
               Image[i].kids[j].name = Image[i].kids[k].name => j = k
         /\ Image[i].length \in Nat /\ Len(Image[i].kids) <= Image[i].length
<1>1. /\ Image[i] \in initrd_file_head_t
      /\ Image[i].dir => Image[i].length = Len(Image[i].kids)
      /\ ~Image[i].dir => Image[i].kids = << >>
      /\ \A j, k \in DOMAIN Image[i].kids :
            Image[i].kids[j].name = Image[i].kids[k].name => j = k
  BY ImageAssumption
<1>2. PICK T : T = [name : Name, ino : Inode]  OBVIOUS
<1>3. Image[i].kids \in Seq(T) /\ Image[i].length \in Nat /\ Image[i].dir \in BOOLEAN
  BY <1>1, <1>2 DEF initrd_file_head_t
<1>4. /\ Len(Image[i].kids) \in Nat /\ DOMAIN Image[i].kids = 1 .. Len(Image[i].kids)
      /\ \A k \in 1 .. Len(Image[i].kids) : Image[i].kids[k] \in T
  BY <1>3, LenProperties, ElementOfSeq
<1>5. Len(Image[i].kids) <= Image[i].length
  <2>1. CASE Image[i].dir
    BY <1>1, <1>3, <1>4, <2>1
  <2>2. CASE ~Image[i].dir
    <3>1. Len(Image[i].kids) = 0  BY <1>1, <2>2, EmptySeq
    <3> QED  BY <1>3, <3>1
  <2> QED  BY <2>1, <2>2
<1> QED  BY <1>1, <1>2, <1>3, <1>4, <1>5

\* The one entry of a directory with a name.
LEMMA OnlyEntry ==
  ASSUME NEW ents, NEW name, NEW j \in DOMAIN ents, ents[j].name = name,
         \A k \in DOMAIN ents : ents[k].name = name => k = j
  PROVE  (CHOOSE k \in DOMAIN ents : ents[k].name = name) = j
OBVIOUS

\* The children of /dev are the devices.
LEMMA ChildOfDev ==
  ASSUME NEW d, DevsOK(d), NEW name \in Name
  PROVE  /\ \A j \in 1 .. Len(d) : d[j] = name => Child(d, Dev, name) = j - 1
         /\ (\A j \in 1 .. Len(d) : d[j] # name) => Child(d, Dev, name) = NULL
<1>1. PICK ents : ents = [k \in DOMAIN d |-> [name |-> d[k], ino |-> k - 1]]
  OBVIOUS
<1>2. DOMAIN ents = 1 .. Len(d)  BY <1>1, DevsShape
<1>3. \A k \in 1 .. Len(d) : ents[k].name = d[k] /\ ents[k].ino = k - 1
  BY <1>1, <1>2
<1>4. Child(d, Dev, name) = IF \E k \in DOMAIN ents : ents[k].name = name
                            THEN ents[CHOOSE k \in DOMAIN ents : ents[k].name = name].ino
                            ELSE NULL
  BY <1>1 DEF Child
<1>5. ASSUME NEW j \in 1 .. Len(d), d[j] = name  PROVE Child(d, Dev, name) = j - 1
  <2>1. \A k \in DOMAIN ents : ents[k].name = name => k = j
    BY <1>2, <1>3, <1>5, DevsShape
  <2>2. (CHOOSE k \in DOMAIN ents : ents[k].name = name) = j
    BY <1>2, <1>3, <1>5, <2>1, OnlyEntry
  <2>3. \E k \in DOMAIN ents : ents[k].name = name  BY <1>2, <1>3, <1>5
  <2> QED  BY <1>3, <1>4, <2>2, <2>3
<1>6. ASSUME \A j \in 1 .. Len(d) : d[j] # name  PROVE Child(d, Dev, name) = NULL
  BY <1>2, <1>3, <1>4, <1>6
<1> QED  BY <1>5, <1>6

\* Those of another directory do not depend on the devices.
LEMMA ChildOfDir ==
  ASSUME NEW i \in Inode, i # Dev, NEW name, NEW d
  PROVE  /\ \A j \in 1 .. Len(Image[i].kids) :
              Image[i].kids[j].name = name => Child(d, i, name) = Image[i].kids[j].ino
         /\ (\A j \in 1 .. Len(Image[i].kids) : Image[i].kids[j].name # name)
              => Child(d, i, name) = NULL
         /\ Child(d, i, name) \in Inode \cup {NULL}
<1>1. PICK ents : ents = Image[i].kids  OBVIOUS
<1>2. /\ DOMAIN ents = 1 .. Len(ents)
      /\ \A k \in 1 .. Len(ents) : ents[k].ino \in Inode
      /\ \A j, k \in 1 .. Len(ents) : ents[j].name = ents[k].name => j = k
  BY <1>1, KidsShape
<1>3. Child(d, i, name) = IF \E k \in DOMAIN ents : ents[k].name = name
                          THEN ents[CHOOSE k \in DOMAIN ents : ents[k].name = name].ino
                          ELSE NULL
  BY <1>1 DEF Child
<1>4. ASSUME NEW j \in 1 .. Len(ents), ents[j].name = name
      PROVE  Child(d, i, name) = ents[j].ino
  <2>1. \A k \in DOMAIN ents : ents[k].name = name => k = j  BY <1>2, <1>4
  <2>2. (CHOOSE k \in DOMAIN ents : ents[k].name = name) = j
    BY <1>2, <1>4, <2>1, OnlyEntry
  <2>3. \E k \in DOMAIN ents : ents[k].name = name  BY <1>2, <1>4
  <2> QED  BY <1>3, <2>2, <2>3
<1>5. ASSUME \A j \in 1 .. Len(ents) : ents[j].name # name  PROVE Child(d, i, name) = NULL
  BY <1>2, <1>3, <1>5
<1>6. Child(d, i, name) \in Inode \cup {NULL}  BY <1>2, <1>4, <1>5
<1> QED  BY <1>1, <1>4, <1>5, <1>6

\* What is not a directory of the image or a file of it has none.
LEMMA ChildOfNone ==
  ASSUME NEW i, i \notin Inode, NEW name, NEW d
  PROVE  Child(d, i, name) = NULL
<1>1. i # Dev  BY Shapes
<1> QED  BY <1>1 DEF Child
----------------------------------------------------------------------------
(* One component.                                                          *)

\* The node of a cached inode.
LEMMA NodeOfIs ==
  ASSUME NEW ns, DOMAIN ns = 1 .. Len(ns), Len(ns) \in Nat, NEW i, Cached(ns, i)
  PROVE  \E k \in 1 .. Len(ns) : NodeOf(ns, i) = ns[k] /\ ns[k].ino = i
<1> DEFINE T == {k \in 1 .. Len(ns) : ns[k].ino = i}
<1>1. T \subseteq Nat /\ T # {}  BY DEF Cached
<1>2. PICK m \in T : \A j \in T : m <= j
  <2> HIDE DEF T
  <2> QED  BY <1>1, NatMin
<1>3. m \in 1 .. Len(ns) /\ ns[m].ino = i  OBVIOUS
<1>4. \A j \in 1 .. (m - 1) : ns[j].ino # i
  <2> TAKE j \in 1 .. (m - 1)
  <2>1. j \in 1 .. Len(ns) /\ ~(m <= j)  BY <1>3
  <2> QED  BY <1>2, <2>1
<1> DEFINE First(k) == ns[k].ino = i /\ \A j \in 1 .. (k - 1) : ns[j].ino # i
<1>5. m \in DOMAIN ns /\ First(m)  BY <1>3, <1>4
<1>6. PICK fst : fst = CHOOSE k \in DOMAIN ns : First(k)  OBVIOUS
<1>7. fst \in DOMAIN ns /\ First(fst)
  <2> HIDE DEF First
  <2> QED  BY <1>5, <1>6
<1>8. NodeOf(ns, i) = ns[fst]  BY <1>6 DEF NodeOf
<1> QED  BY <1>7, <1>8

\* What a resolution holds: the list and the inode it is at, if any.
Sound(r) ==
  /\ r = [nodes |-> r.nodes, at |-> r.at]
  /\ NodesOK(r.nodes, devs)
  /\ r.at = NULL \/ Cached(r.nodes, r.at)

\* The node a resolution is at.
LEMMA NodeAt ==
  ASSUME DevsOK(devs), NEW ns, NodesOK(ns, devs), NEW i, Cached(ns, i)
  PROVE  /\ NodeOf(ns, i).ino = i /\ NodeFits(NodeOf(ns, i), devs)
         /\ NodeOf(ns, i) \in fs_node_t /\ i \in Ino
<1>1. /\ ns \in Seq(fs_node_t) /\ Len(ns) \in Nat /\ DOMAIN ns = 1 .. Len(ns)
  BY LenProperties DEF NodesOK
<1>2. PICK k \in 1 .. Len(ns) : NodeOf(ns, i) = ns[k] /\ ns[k].ino = i
  BY <1>1, NodeOfIs
<1>3. NodeFits(ns[k], devs)  BY DEF NodesOK
<1>4. ns[k] \in fs_node_t  BY <1>1, ElementOfSeq
<1> QED  BY <1>2, <1>3, <1>4 DEF fs_node_t

\* A new node is what its inode says, and /dev and the root are there already.
LEMMA OpenSound ==
  ASSUME DevsOK(devs), NEW ns, NodesOK(ns, devs), NEW node, NEW i,
         \/ node.fs = "devfs" /\ i \in 0 .. (Len(devs) - 1)
         \/ node.fs = "initrd" /\ i \in Inode
  PROVE  /\ NodesOK(opennode(ns, node, i), devs)
         /\ Cached(opennode(ns, node, i), i)
<1> DEFINE e == IF node.fs = "devfs" THEN [ino |-> i, fs |-> "devfs", length |-> 0]
                ELSE [ino |-> i, fs |-> "initrd", length |-> Image[i].length]
<1>1. opennode(ns, node, i) = IF Cached(ns, i) THEN ns ELSE Append(ns, e)
  BY DEF opennode, devfs_create_node, initrd_create_node
<1>2. CASE Cached(ns, i)
  BY <1>1, <1>2
<1>3. CASE ~Cached(ns, i)
  <2>1. i # Dev  BY <1>3 DEF NodesOK
  <2>2. Len(devs) \in Nat /\ Len(devs) <= Len(Devices)  BY DevsShape
  <2>3. e.ino = i /\ NodeFits(e, devs)
    BY <2>1 DEF NodeFits
  <2>4. e \in fs_node_t
    <3>1. CASE node.fs = "devfs"
      <4>1. i \in Ino  BY <2>2, <3>1, Shapes DEF Ino
      <4> QED  BY <3>1, <4>1 DEF fs_node_t
    <3>2. CASE node.fs # "devfs"
      <4>1. i \in Ino /\ Image[i].length \in Nat  BY <3>2, KidsShape DEF Ino
      <4> QED  BY <3>2, <4>1 DEF fs_node_t
    <3> QED  BY <3>1, <3>2
  <2> HIDE DEF e
  <2>5. ns \in Seq(fs_node_t) /\ Len(ns) \in Nat /\ DOMAIN ns = 1 .. Len(ns) /\ Len(ns) > 0
    BY LenProperties DEF NodesOK
  <2>6. PICK q : q = Append(ns, e)  OBVIOUS
  <2>7. /\ q \in Seq(fs_node_t) /\ Len(q) = Len(ns) + 1
        /\ \A k \in 1 .. Len(ns) : q[k] = ns[k]
        /\ q[Len(ns) + 1] = e
    BY <2>4, <2>5, <2>6, AppendProperties
  <2>8. DOMAIN q = 1 .. (Len(ns) + 1)  BY <2>7, LenProperties
  <2>9. \A k \in 1 .. Len(q) : NodeFits(q[k], devs)
    <3> TAKE k \in 1 .. Len(q)
    <3>1. k \in 1 .. Len(ns) \/ k = Len(ns) + 1  BY <2>5, <2>7
    <3> QED  BY <2>3, <2>7, <3>1 DEF NodesOK
  <2>10. q[1].ino = Root  BY <2>5, <2>7 DEF NodesOK
  <2>11. Cached(q, Dev)
    <3>1. PICK k \in DOMAIN ns : ns[k].ino = Dev  BY DEF NodesOK, Cached
    <3>2. k \in DOMAIN q /\ q[k].ino = Dev  BY <2>5, <2>7, <2>8, <3>1
    <3> QED  BY <3>2 DEF Cached
  <2>12. Cached(q, i)
    <3>1. Len(ns) + 1 \in DOMAIN q  BY <2>5, <2>8
    <3> QED  BY <2>3, <2>7, <3>1 DEF Cached
  <2>13. Len(q) > 0  BY <2>5, <2>7
  <2> QED  BY <1>1, <1>3, <2>6, <2>7, <2>9, <2>10, <2>11, <2>12, <2>13 DEF NodesOK
<1> QED  BY <1>2, <1>3

\* The entries of a directory, no two of the same name, of which it tries t.
Entries(ents, n, t, name) ==
  /\ n \in Nat /\ t \in Nat /\ DOMAIN ents = 1 .. n /\ Len(ents) = n
  /\ \A j, k \in 1 .. n : ents[j].name = name /\ ents[k].name = name => j = k

\* The node at hand, its entries and how many of them are tried.
LooksIn(r, name, node, ents, n, t) ==
  /\ r.at # NULL /\ node = NodeOf(r.nodes, r.at) /\ ents = readdir(node)
  /\ t = Tried(node) /\ Entries(ents, n, t, name)

LEMMA PartIs ==
  ASSUME NEW r, NEW name, NEW node, NEW ents, NEW n, NEW t,
         LooksIn(r, name, node, ents, n, t)
  PROVE  /\ \A j \in 1 .. n : j <= t /\ ents[j].name = name
              => Part(r, name) = [nodes |-> opennode(r.nodes, node, ents[j].ino),
                                  at |-> ents[j].ino]
         /\ (\A j \in 1 .. n : j <= t => ents[j].name # name)
              => Part(r, name) = IF t > n THEN [r EXCEPT !.at = NULL] ELSE r
<1> USE DEF LooksIn
<1> DEFINE hits == {i \in DOMAIN ents : i <= t /\ ents[i].name = name}
           hit == CHOOSE h \in hits : \A g \in hits : h <= g
<1>1. Part(r, name) =
        IF hits # {}
        THEN [nodes |-> opennode(r.nodes, node, ents[hit].ino), at |-> ents[hit].ino]
        ELSE IF t > Len(ents) THEN [r EXCEPT !.at = NULL] ELSE r
  BY DEF Part
<1>2. ASSUME NEW j \in 1 .. n, j <= t, ents[j].name = name
      PROVE  Part(r, name) = [nodes |-> opennode(r.nodes, node, ents[j].ino),
                              at |-> ents[j].ino]
  <2>1. \A h : h \in hits <=> h = j  BY <1>2 DEF Entries
  <2>2. j <= j  BY DEF Entries
  <2> HIDE DEF hits
  <2>3. hit = j  BY <2>1, <2>2
  <2>4. hits # {}  BY <2>1
  <2> HIDE DEF hit
  <2> QED  BY <1>1, <2>3, <2>4
<1>3. ASSUME \A j \in 1 .. n : j <= t => ents[j].name # name
      PROVE  Part(r, name) = IF t > n THEN [r EXCEPT !.at = NULL] ELSE r
  <2>1. hits = {}  BY <1>3 DEF Entries
  <2> HIDE DEF hits
  <2> QED  BY <1>1, <2>1 DEF Entries
<1> QED  BY <1>2, <1>3
\* What readdir gives for each kind of node and how much of it is tried.
LEMMA Readdir ==
  ASSUME DevsOK(devs), NEW node, NodeFits(node, devs), NEW name \in Name
  PROVE  /\ node.ino \in Inode \ {Dev} =>
              /\ node.fs = "initrd" /\ readdir(node) = Image[node.ino].kids
              /\ Entries(readdir(node), Len(Image[node.ino].kids), Tried(node), name)
              /\ Tried(node) > Len(Image[node.ino].kids)
         /\ node.ino \notin Inode \ {Dev} =>
              /\ node.fs = "devfs" /\ readdir(node) = devfs_readdir
              /\ Entries(readdir(node), Len(devs), Tried(node), name)
         /\ node.ino = Dev => Tried(node) = Len(BootDevices) + 1
<1> USE DEF Tried
<1>1. \A i \in 0 .. (Len(devs) - 1) : i \notin Inode
  <2>1. Len(devs) \in Nat /\ Len(devs) <= Len(Devices)  BY DevsShape
  <2>2. \A i \in Inode : i \in Nat /\ i >= Len(Devices)  BY Shapes
  <2>3. Len(Devices) \in Nat  BY Shapes
  <2> QED  BY <2>1, <2>2, <2>3
<1>2. Dev \in Inode /\ Len(BootDevices) \in Nat  BY Shapes
<1>3. CASE node.ino \in Inode \ {Dev}
  <2>1. node.fs = "initrd" /\ node.length = Image[node.ino].length
    BY <1>1, <1>2, <1>3 DEF NodeFits
  <2>2. readdir(node) = Image[node.ino].kids
    BY <2>1 DEF readdir, initrd_readdir
  <2>3. PICK ents : ents = Image[node.ino].kids  OBVIOUS
  <2>4. /\ Len(ents) \in Nat /\ DOMAIN ents = 1 .. Len(ents)
        /\ \A j, k \in 1 .. Len(ents) : ents[j].name = ents[k].name => j = k
        /\ node.length \in Nat /\ Len(ents) <= node.length
    BY <1>3, <2>1, <2>3, KidsShape
  <2>5. Entries(ents, Len(ents), node.length + 1, name) /\ node.length + 1 > Len(ents)
    BY <2>4 DEF Entries
  <2> QED  BY <1>3, <2>1, <2>2, <2>3, <2>5
<1>4. CASE node.ino \notin Inode \ {Dev}
  <2>1. /\ node.fs = "devfs" /\ node.length \in Nat
        /\ node.ino = Dev => node.length = Len(BootDevices)
    BY <1>1, <1>2, <1>4 DEF NodeFits
  <2>2. readdir(node) = devfs_readdir  BY <2>1 DEF readdir
  <2>3. PICK ents : ents = devfs_readdir  OBVIOUS
  <2>4. /\ Len(devs) \in Nat /\ DOMAIN devs = 1 .. Len(devs)
        /\ \A j, k \in 1 .. Len(devs) : devs[j] = devs[k] /\ devs[j] \in Name => j = k
    BY DevsShape
  <2>5. /\ ents = [i \in 1 .. Len(devs) |-> [name |-> devs[i], ino |-> i - 1]]
        /\ DOMAIN ents = 1 .. Len(devs)
    BY <2>3, <2>4 DEF devfs_readdir
  <2>6. Len(ents) = Len(devs)
    BY <2>4, <2>5, LenProperties
  <2>7. \A j \in 1 .. Len(devs) : ents[j].name = devs[j]  BY <2>5
  <2>8. Entries(ents, Len(devs), node.length + 1, name)
    BY <2>1, <2>4, <2>5, <2>6, <2>7 DEF Entries
  <2> QED  BY <1>4, <2>1, <2>2, <2>3, <2>8
<1> QED  BY <1>3, <1>4

\* A component leads from a node of the image where the tree says, from /dev too
\* or, for a device that is not there, nowhere or back to /dev, and from a device
\* to some device or nowhere or back.
LEMMA PartFollows ==
  ASSUME DevsOK(devs), OneLateDevice, NEW r, Sound(r), NEW name \in Name
  PROVE  /\ Sound(Part(r, name))
         /\ r.at = NULL => Part(r, name).at = NULL
         /\ r.at \in Inode \ {Dev} => Part(r, name).at = Child(devs, r.at, name)
         /\ r.at = Dev => \/ Part(r, name).at = Child(devs, Dev, name)
                          \/ Child(devs, Dev, name) = NULL /\ Part(r, name).at \in {NULL, Dev}
         /\ r.at \notin Inode \ {Dev} =>
               \/ Part(r, name).at \in {NULL, r.at}
               \/ \E j \in 1 .. Len(devs) : devs[j] = name /\ Part(r, name).at = j - 1
<1>1. CASE r.at = NULL
  BY <1>1, Shapes DEF Part
<1>2. CASE r.at # NULL
  <2>1. r = [nodes |-> r.nodes, at |-> r.at] /\ NodesOK(r.nodes, devs) /\ Cached(r.nodes, r.at)
    BY <1>2 DEF Sound
  <2>2. PICK node : node = NodeOf(r.nodes, r.at)  OBVIOUS
  <2>3. node.ino = r.at /\ NodeFits(node, devs)
    BY <2>1, <2>2, NodeAt
  <2>4. PICK ents : ents = readdir(node)  OBVIOUS
  <2>5. /\ [r EXCEPT !.at = NULL] = [nodes |-> r.nodes, at |-> NULL]
        /\ Sound([r EXCEPT !.at = NULL]) /\ [r EXCEPT !.at = NULL].at = NULL
    <3>1. [r EXCEPT !.at = NULL] = [nodes |-> r.nodes, at |-> NULL]  BY <2>1
    <3> QED  BY <2>1, <3>1 DEF Sound
  <2>6. /\ \A ns, i : NodesOK(ns, devs) /\ Cached(ns, i) => Sound([nodes |-> ns, at |-> i])
        /\ \A ns, i : [nodes |-> ns, at |-> i].at = i
    BY DEF Sound
  <2>7. CASE r.at \in Inode \ {Dev}
    <3>1. PICK n : n = Len(Image[r.at].kids)  OBVIOUS
    <3>2. /\ node.fs = "initrd" /\ ents = Image[r.at].kids
          /\ Entries(ents, n, Tried(node), name) /\ Tried(node) > n
      BY <2>3, <2>4, <2>7, <3>1, Readdir
    <3>3. LooksIn(r, name, node, ents, n, Tried(node))
      BY <1>2, <2>2, <2>4, <3>2 DEF LooksIn
    <3>4. \A j \in 1 .. n : j <= Tried(node)  BY <3>2 DEF Entries
    <3>5. CASE \E j \in 1 .. n : ents[j].name = name
      <4>1. PICK j \in 1 .. n : ents[j].name = name  BY <3>5
      <4>2. Part(r, name) = [nodes |-> opennode(r.nodes, node, ents[j].ino), at |-> ents[j].ino]
        <5>1. j <= Tried(node)  BY <3>4
        <5> QED  BY <3>3, <4>1, <5>1, PartIs
      <4>3. ents[j].ino \in Inode  BY <2>7, <3>1, <3>2, KidsShape
      <4>4. Child(devs, r.at, name) = ents[j].ino
        BY <2>7, <3>1, <3>2, <4>1, ChildOfDir
      <4>5. PICK ns : ns = opennode(r.nodes, node, ents[j].ino)  OBVIOUS
      <4>6. NodesOK(ns, devs) /\ Cached(ns, ents[j].ino)
        BY <2>1, <3>2, <4>3, <4>5, OpenSound
      <4>7. Sound(Part(r, name)) /\ Part(r, name).at = ents[j].ino
        BY <2>6, <4>2, <4>5, <4>6
      <4> QED  BY <1>2, <2>7, <4>4, <4>7
    <3>6. CASE ~\E j \in 1 .. n : ents[j].name = name
      <4>1. Part(r, name) = [r EXCEPT !.at = NULL]
        BY <3>2, <3>6, <3>3, PartIs
      <4>2. Child(devs, r.at, name) = NULL
        BY <2>7, <3>1, <3>2, <3>6, ChildOfDir
      <4> QED  BY <1>2, <2>5, <2>7, <4>1, <4>2
    <3> QED  BY <3>5, <3>6
  <2>8. CASE r.at \notin Inode \ {Dev}
    <3>1. PICK t : t = Tried(node)  OBVIOUS
    <3>2. /\ node.fs = "devfs" /\ ents = devfs_readdir /\ Entries(ents, Len(devs), t, name)
          /\ r.at = Dev => t = Len(BootDevices) + 1
      BY <2>3, <2>4, <2>8, <3>1, Readdir
    <3>3. LooksIn(r, name, node, ents, Len(devs), t)
      BY <1>2, <2>2, <2>4, <3>1, <3>2 DEF LooksIn
    <3>4. Len(devs) \in Nat /\ DOMAIN devs = 1 .. Len(devs)  BY DevsShape
    <3>5. \A j \in 1 .. Len(devs) : ents[j].name = devs[j] /\ ents[j].ino = j - 1
      BY <3>2, <3>4 DEF devfs_readdir
    <3>6. r.at = Dev => \A j \in 1 .. Len(devs) : j <= t
      <4>1. Len(devs) <= Len(BootDevices) + 1
        BY Shapes, DevsShape DEF OneLateDevice
      <4>2. Len(BootDevices) \in Nat  BY Shapes
      <4> QED  BY <3>2, <3>4, <4>1, <4>2
    <3>7. CASE \E j \in 1 .. Len(devs) : j <= t /\ ents[j].name = name
      <4>1. PICK j \in 1 .. Len(devs) : j <= t /\ ents[j].name = name  BY <3>7
      <4>2. Part(r, name) = [nodes |-> opennode(r.nodes, node, j - 1), at |-> j - 1]
        <5>1. ents[j].ino = j - 1  BY <3>5
        <5>2. Part(r, name) = [nodes |-> opennode(r.nodes, node, ents[j].ino),
                               at |-> ents[j].ino]
          BY <3>3, <4>1, PartIs
        <5> QED  BY <5>1, <5>2
      <4>3. j - 1 \in 0 .. (Len(devs) - 1)  BY <3>4
      <4>4. Child(devs, Dev, name) = j - 1  BY <3>5, <4>1, ChildOfDev
      <4>5. PICK ns : ns = opennode(r.nodes, node, j - 1)  OBVIOUS
      <4>6. NodesOK(ns, devs) /\ Cached(ns, j - 1)
        BY <2>1, <3>2, <4>3, <4>5, OpenSound
      <4>7. Sound(Part(r, name)) /\ Part(r, name).at = j - 1
        BY <2>6, <4>2, <4>5, <4>6
      <4>8. devs[j] = name  BY <3>5, <4>1
      <4> QED  BY <1>2, <2>8, <4>4, <4>7, <4>8
    <3>8. CASE ~\E j \in 1 .. Len(devs) : j <= t /\ ents[j].name = name
      <4>1. Part(r, name) = IF t > Len(devs) THEN [r EXCEPT !.at = NULL] ELSE r
        BY <3>8, <3>3, PartIs
      <4>2. Sound(Part(r, name)) /\ Part(r, name).at \in {NULL, r.at}
        BY <2>5, <4>1
      <4>3. r.at = Dev => Child(devs, Dev, name) = NULL
        BY <3>5, <3>6, <3>8, ChildOfDev
      <4> QED  BY <1>2, <2>8, <4>2, <4>3
    <3> QED  BY <3>7, <3>8
  <2> QED  BY <2>7, <2>8
<1> QED  BY <1>1, <1>2
----------------------------------------------------------------------------
(* Paths.                                                                  *)

\* The recursion of resolve_path has its solution.
LEMMA PartsIs ==
  ASSUME NEW ns, NEW path, Len(path) \in Nat
  PROVE  /\ DOMAIN Parts(ns, path) = 0 .. Len(path)
         /\ Parts(ns, path)[0] = [nodes |-> ns, at |-> ns[1].ino]
         /\ \A k \in 1 .. Len(path) : Parts(ns, path)[k] = Part(Parts(ns, path)[k - 1], path[k])
<1> DEFINE Is(f, n) ==
             f = [k \in 0 .. n |-> IF k = 0 THEN [nodes |-> ns, at |-> ns[1].ino]
                                   ELSE Part(f[k - 1], path[k])]
           T == {n \in Nat : ~\E f : Is(f, n)}
<1>1. ASSUME T # {} PROVE FALSE
  <2>0. T \subseteq Nat  OBVIOUS
  <2>1. PICK x \in T : \A l \in T : x <= l
    <3> HIDE DEF T
    <3> QED  BY <1>1, <2>0, NatMin
  <2>2. x \in Nat /\ ~\E f : Is(f, x)  OBVIOUS
  <2>3. CASE x = 0
    <3>1. Is([k \in 0 .. 0 |-> [nodes |-> ns, at |-> ns[1].ino]], 0)  OBVIOUS
    <3> QED  BY <2>2, <2>3, <3>1
  <2>4. CASE x # 0
    <3>1. x - 1 \in Nat /\ ~(x <= x - 1)  BY <2>2, <2>4
    <3>2. PICK f : Is(f, x - 1)  BY <2>1, <3>1
    <3> DEFINE g == [k \in 0 .. x |-> IF k # x THEN f[k] ELSE Part(f[x - 1], path[x])]
    <3>3. ASSUME NEW k \in 0 .. x
          PROVE  g[k] = IF k = 0 THEN [nodes |-> ns, at |-> ns[1].ino] ELSE Part(g[k - 1], path[k])
      <4>1. CASE k = x
        <5>1. k # 0 /\ g[x - 1] = f[x - 1]  BY <2>2, <2>4, <4>1
        <5> QED  BY <4>1, <5>1
      <4>2. CASE k # x
        <5>1. k \in 0 .. (x - 1) /\ g[k] = f[k]  BY <4>2
        <5>2. k # 0 => g[k - 1] = f[k - 1]  BY <5>1
        <5> QED  BY <3>2, <5>1, <5>2
      <4> QED  BY <4>1, <4>2
    <3>4. g = [k \in 0 .. x |-> g[k]]  OBVIOUS
    <3>5. Is(g, x)
      <4> HIDE DEF g
      <4> QED  BY <3>3, <3>4
    <3> QED  BY <2>2, <3>5
  <2> QED  BY <2>3, <2>4
<1>2. \E f : Is(f, Len(path))  BY <1>1
<1>3. Parts(ns, path) = CHOOSE f : Is(f, Len(path))  BY Zenon DEF Parts
<1>4. Is(Parts(ns, path), Len(path))
  <2> HIDE DEF Is
  <2> QED  BY <1>2, <1>3
<1>5. PICK f : f = Parts(ns, path)  OBVIOUS
<1>6. Is(f, Len(path))  BY <1>4, <1>5
<1> QED  BY <1>5, <1>6

\* So has that of the tree.
LEMMA BranchIs ==
  ASSUME NEW d, NEW path, Len(path) \in Nat
  PROVE  /\ DOMAIN Branch(d, path) = 0 .. Len(path)
         /\ Branch(d, path)[0] = Root
         /\ \A k \in 1 .. Len(path) : Branch(d, path)[k] = Child(d, Branch(d, path)[k - 1], path[k])
<1> DEFINE Is(f, n) ==
             f = [k \in 0 .. n |-> IF k = 0 THEN Root ELSE Child(d, f[k - 1], path[k])]
           T == {n \in Nat : ~\E f : Is(f, n)}
<1>1. ASSUME T # {} PROVE FALSE
  <2>0. T \subseteq Nat  OBVIOUS
  <2>1. PICK x \in T : \A l \in T : x <= l
    <3> HIDE DEF T
    <3> QED  BY <1>1, <2>0, NatMin
  <2>2. x \in Nat /\ ~\E f : Is(f, x)  OBVIOUS
  <2>3. CASE x = 0
    <3>1. Is([k \in 0 .. 0 |-> Root], 0)  OBVIOUS
    <3> QED  BY <2>2, <2>3, <3>1
  <2>4. CASE x # 0
    <3>1. x - 1 \in Nat /\ ~(x <= x - 1)  BY <2>2, <2>4
    <3>2. PICK f : Is(f, x - 1)  BY <2>1, <3>1
    <3> DEFINE g == [k \in 0 .. x |-> IF k # x THEN f[k] ELSE Child(d, f[x - 1], path[x])]
    <3>3. ASSUME NEW k \in 0 .. x
          PROVE  g[k] = IF k = 0 THEN Root ELSE Child(d, g[k - 1], path[k])
      <4>1. CASE k = x
        <5>1. k # 0 /\ g[x - 1] = f[x - 1]  BY <2>2, <2>4, <4>1
        <5> QED  BY <4>1, <5>1
      <4>2. CASE k # x
        <5>1. k \in 0 .. (x - 1) /\ g[k] = f[k]  BY <4>2
        <5>2. k # 0 => g[k - 1] = f[k - 1]  BY <5>1
        <5> QED  BY <3>2, <5>1, <5>2
      <4> QED  BY <4>1, <4>2
    <3>4. g = [k \in 0 .. x |-> g[k]]  OBVIOUS
    <3>5. Is(g, x)
      <4> HIDE DEF g
      <4> QED  BY <3>3, <3>4
    <3> QED  BY <2>2, <3>5
  <2> QED  BY <2>3, <2>4
<1>2. \E f : Is(f, Len(path))  BY <1>1
<1>3. Branch(d, path) = CHOOSE f : Is(f, Len(path))  BY Zenon DEF Branch
<1>4. Is(Branch(d, path), Len(path))
  <2> HIDE DEF Is
  <2> QED  BY <1>2, <1>3
<1>5. PICK f : f = Branch(d, path)  OBVIOUS
<1>6. Is(f, Len(path))  BY <1>4, <1>5
<1> QED  BY <1>5, <1>6
\* As long as it has not looked into /dev a path leads where the tree says.
LEMMA PathFollows ==
  ASSUME DevsOK(devs), OneLateDevice, NEW ns, NodesOK(ns, devs), NEW path \in Seq(Name),
         NEW f, f = Parts(ns, path), NEW w, w = Branch(devs, path)
  PROVE  \A n \in 0 .. Len(path) :
           /\ Sound(f[n])
           /\ (\A j \in 0 .. (n - 1) : w[j] # Dev)
                => f[n].at = w[n] /\ w[n] \in Inode \cup {NULL}
<1>1. /\ Len(path) \in Nat /\ \A k \in 1 .. Len(path) : path[k] \in Name
  BY LenProperties, ElementOfSeq
<1>2. /\ f[0] = [nodes |-> ns, at |-> ns[1].ino]
      /\ \A k \in 1 .. Len(path) : f[k] = Part(f[k - 1], path[k])
  BY <1>1, PartsIs
<1>3. w[0] = Root /\ \A k \in 1 .. Len(path) : w[k] = Child(devs, w[k - 1], path[k])
  BY <1>1, BranchIs
<1> DEFINE Good(n) == /\ Sound(f[n])
                      /\ (\A j \in 0 .. (n - 1) : w[j] # Dev)
                           => f[n].at = w[n] /\ w[n] \in Inode \cup {NULL}
           T == {n \in 0 .. Len(path) : ~Good(n)}
<1>4. ASSUME T # {} PROVE FALSE
  <2>0. T \subseteq Nat  OBVIOUS
  <2>1. PICK x \in T : \A l \in T : x <= l
    <3> HIDE DEF T
    <3> QED  BY <1>4, <2>0, NatMin
  <2>2. x \in 0 .. Len(path) /\ ~Good(x)  OBVIOUS
  <2>3. CASE x = 0
    <3>1. ns[1].ino = Root /\ Cached(ns, Root)
      <4>1. Len(ns) \in Nat /\ DOMAIN ns = 1 .. Len(ns) /\ Len(ns) > 0 /\ ns[1].ino = Root
        BY LenProperties DEF NodesOK
      <4> QED  BY <4>1 DEF Cached
    <3>2. Sound(f[0]) /\ f[0].at = Root
      BY <1>2, <3>1 DEF Sound
    <3> QED  BY <1>3, <2>2, <2>3, <3>2, Shapes
  <2>4. CASE x # 0
    <3>1. x - 1 \in 0 .. Len(path) /\ x \in 1 .. Len(path) /\ ~(x <= x - 1)
      BY <1>1, <2>2, <2>4
    <3>2. Good(x - 1)  BY <2>1, <3>1
    <3>3. PICK r : r = f[x - 1]  OBVIOUS
    <3>4. PICK name \in Name : name = path[x]  BY <1>1, <3>1
    <3>5. f[x] = Part(r, name) /\ w[x] = Child(devs, w[x - 1], name)
      BY <1>2, <1>3, <3>1, <3>3, <3>4
    <3>6. Sound(r)  BY <3>2, <3>3
    <3>7. /\ Sound(Part(r, name))
          /\ r.at = NULL => Part(r, name).at = NULL
          /\ r.at \in Inode \ {Dev} => Part(r, name).at = Child(devs, r.at, name)
      BY <3>6, PartFollows
    <3>8. ASSUME \A j \in 0 .. (x - 1) : w[j] # Dev
          PROVE  f[x].at = w[x] /\ w[x] \in Inode \cup {NULL}
      <4>1. r.at = w[x - 1] /\ w[x - 1] \in Inode \cup {NULL}
        BY <1>1, <2>2, <3>1, <3>2, <3>3, <3>8
      <4>2. w[x - 1] # Dev  BY <3>1, <3>8
      <4>3. CASE w[x - 1] = NULL
        BY <3>5, <3>7, <4>1, <4>3, ChildOfNone, Shapes
      <4>4. CASE w[x - 1] \in Inode
        BY <3>5, <3>7, <4>1, <4>2, <4>4, ChildOfDir
      <4> QED  BY <4>1, <4>3, <4>4
    <3> QED  BY <2>2, <3>5, <3>7, <3>8
  <2> QED  BY <2>3, <2>4
<1> QED  BY <1>4

\* Behind /dev the tree has the devices and nothing in them.
LEMMA BehindDev ==
  ASSUME NEW d, DevsOK(d), NEW path \in Seq(Name), NEW w, w = Branch(d, path)
  PROVE  \A n \in 0 .. Len(path) :
           (\E j \in 0 .. (n - 1) : w[j] = Dev) =>
              \/ w[n] = NULL
              \/ w[n - 1] = Dev /\ w[n] \in DevsIn(d, path, n) /\ w[n] \notin Inode
<1>1. /\ Len(path) \in Nat /\ \A k \in 1 .. Len(path) : path[k] \in Name
  BY LenProperties, ElementOfSeq
<1>2. \A k \in 1 .. Len(path) : w[k] = Child(d, w[k - 1], path[k])
  BY <1>1, BranchIs
<1>3. /\ Len(d) \in Nat /\ Len(d) <= Len(Devices) /\ DOMAIN d = 1 .. Len(d)
      /\ Len(Devices) \in Nat /\ \A i \in Inode : i \in Nat /\ i >= Len(Devices)
      /\ NULL \notin Inode
  BY DevsShape, Shapes
<1> DEFINE Good(n) == (\E j \in 0 .. (n - 1) : w[j] = Dev) =>
              \/ w[n] = NULL
              \/ w[n - 1] = Dev /\ w[n] \in DevsIn(d, path, n) /\ w[n] \notin Inode
           T == {n \in 0 .. Len(path) : ~Good(n)}
<1>4. ASSUME T # {} PROVE FALSE
  <2>0. T \subseteq Nat  OBVIOUS
  <2>1. PICK x \in T : \A l \in T : x <= l
    <3> HIDE DEF T
    <3> QED  BY <1>4, <2>0, NatMin
  <2>2. x \in 0 .. Len(path) /\ ~Good(x)  OBVIOUS
  <2>3. PICK i \in 0 .. (x - 1) : w[i] = Dev  BY <2>2
  <2>4. x - 1 \in 0 .. Len(path) /\ x \in 1 .. Len(path) /\ ~(x <= x - 1)
    BY <1>1, <2>2, <2>3
  <2>5. PICK name \in Name : name = path[x]  BY <1>1, <2>4
  <2>6. w[x] = Child(d, w[x - 1], name)  BY <1>2, <2>4, <2>5
  <2>7. CASE w[x - 1] = Dev
    <3>1. CASE \E j \in 1 .. Len(d) : d[j] = name
      <4>1. PICK j \in 1 .. Len(d) : d[j] = name  BY <3>1
      <4>2. w[x] = j - 1  BY <2>6, <2>7, <4>1, ChildOfDev
      <4>3. w[x] \in DevsIn(d, path, x)
        <5>1. j \in DOMAIN d /\ x \in 1 .. x /\ path[x] = d[j]
          BY <1>3, <2>4, <2>5, <4>1
        <5> QED  BY <4>2, <5>1 DEF DevsIn
      <4>4. w[x] \notin Inode
        <5>1. w[x] < Len(Devices) /\ w[x] \in Nat  BY <1>3, <4>2
        <5>2. ASSUME w[x] \in Inode  PROVE FALSE
          <6>1. w[x] >= Len(Devices)  BY <1>3, <5>2
          <6> QED  BY <1>3, <5>1, <6>1
        <5> QED  BY <5>2
      <4> QED  BY <2>2, <2>7, <4>3, <4>4
    <3>2. CASE ~\E j \in 1 .. Len(d) : d[j] = name
      <4>1. w[x] = NULL  BY <2>6, <2>7, <3>2, ChildOfDev
      <4> QED  BY <2>2, <4>1
    <3> QED  BY <3>1, <3>2
  <2>8. CASE w[x - 1] # Dev
    <3>1. Good(x - 1)  BY <2>1, <2>4
    <3>2. i \in 0 .. ((x - 1) - 1)
      <4>1. i # x - 1  BY <2>3, <2>8
      <4> QED  BY <2>3, <2>4, <4>1
    <3>3. w[x - 1] \notin Inode  BY <1>3, <2>3, <3>1, <3>2
    <3>4. w[x] = NULL  BY <2>6, <3>3, ChildOfNone
    <3> QED  BY <2>2, <3>4
  <2> QED  BY <2>7, <2>8
<1> QED  BY <1>4

\* Once it has looked into /dev a path leads to the device the tree says or, where
\* the tree has nothing, nowhere, to /dev, or to a device that it mentions; the
\* last only behind the component that was looked up in /dev.
LEMMA PastDev ==
  ASSUME DevsOK(devs), OneLateDevice, NEW ns, NodesOK(ns, devs), NEW path \in Seq(Name),
         NEW f, f = Parts(ns, path), NEW w, w = Branch(devs, path)
  PROVE  \A n \in 0 .. Len(path) :
           (\E j \in 0 .. (n - 1) : w[j] = Dev) =>
              \/ f[n].at = w[n] /\ w[n] \in DevsIn(devs, path, n)
              \/ w[n] = NULL /\ f[n].at \in {NULL, Dev}
              \/ /\ w[n] = NULL /\ f[n].at \in DevsIn(devs, path, n)
                 /\ \E j \in 0 .. (n - 2) : w[j] = Dev
<1>1. /\ Len(path) \in Nat /\ \A k \in 1 .. Len(path) : path[k] \in Name
  BY LenProperties, ElementOfSeq
<1>2. \A k \in 1 .. Len(path) : f[k] = Part(f[k - 1], path[k])
  BY <1>1, PartsIs
<1>3. \A n \in 0 .. Len(path) :
           /\ Sound(f[n])
           /\ (\A j \in 0 .. (n - 1) : w[j] # Dev) => f[n].at = w[n]
  BY PathFollows
<1>4. \A n \in 0 .. Len(path) :
           (\E j \in 0 .. (n - 1) : w[j] = Dev) =>
              \/ w[n] = NULL
              \/ w[n - 1] = Dev /\ w[n] \in DevsIn(devs, path, n) /\ w[n] \notin Inode
  BY BehindDev
<1>5. \A k \in 1 .. Len(path) : w[k] = Child(devs, w[k - 1], path[k])
  BY <1>1, BranchIs
<1>6. /\ Len(devs) \in Nat /\ Len(devs) <= Len(Devices) /\ DOMAIN devs = 1 .. Len(devs)
      /\ Len(Devices) \in Nat /\ \A i \in Inode : i \in Nat /\ i >= Len(Devices)
      /\ NULL \notin Inode /\ Dev \in Inode
  BY DevsShape, Shapes
<1>7. ASSUME NEW n  PROVE \A a \in DevsIn(devs, path, n) : a \notin Inode
  <2> TAKE a \in DevsIn(devs, path, n)
  <2>1. PICK j \in DOMAIN devs : a = j - 1  BY DEF DevsIn
  <2>2. a \in Nat /\ a < Len(Devices)  BY <1>6, <2>1
  <2>3. ASSUME a \in Inode  PROVE FALSE
    <3>1. a >= Len(Devices)  BY <1>6, <2>3
    <3> QED  BY <1>6, <2>2, <3>1
  <2> QED  BY <2>3
<1> DEFINE Good(n) == (\E j \in 0 .. (n - 1) : w[j] = Dev) =>
              \/ f[n].at = w[n] /\ w[n] \in DevsIn(devs, path, n)
              \/ w[n] = NULL /\ f[n].at \in {NULL, Dev}
              \/ /\ w[n] = NULL /\ f[n].at \in DevsIn(devs, path, n)
                 /\ \E j \in 0 .. (n - 2) : w[j] = Dev
           T == {n \in 0 .. Len(path) : ~Good(n)}
<1>8. ASSUME T # {} PROVE FALSE
  <2>0. T \subseteq Nat  OBVIOUS
  <2>1. PICK x \in T : \A l \in T : x <= l
    <3> HIDE DEF T
    <3> QED  BY <1>8, <2>0, NatMin
  <2>2. x \in 0 .. Len(path) /\ ~Good(x)  OBVIOUS
  <2>3. PICK i \in 0 .. (x - 1) : w[i] = Dev  BY <2>2
  <2>4. x - 1 \in 0 .. Len(path) /\ x \in 1 .. Len(path) /\ ~(x <= x - 1)
    BY <1>1, <2>2, <2>3
  <2>5. PICK name \in Name : name = path[x]  BY <1>1, <2>4
  <2>6. PICK r : r = f[x - 1]  OBVIOUS
  <2>7. Sound(r) /\ f[x] = Part(r, name)  BY <1>2, <1>3, <2>4, <2>5, <2>6
  <2>8. \A j \in 1 .. Len(devs) : devs[j] = name => j - 1 \in DevsIn(devs, path, x)
    <3> TAKE j \in 1 .. Len(devs)
    <3>1. j \in DOMAIN devs /\ x \in 1 .. x  BY <1>6, <2>4
    <3> QED  BY <2>5, <3>1 DEF DevsIn
  <2>9. CASE \E j \in 0 .. (x - 2) : w[j] = Dev
    <3>1. PICK j \in 0 .. (x - 2) : w[j] = Dev  BY <2>9
    <3>2. Good(x - 1)  BY <2>1, <2>4
    <3>3. j \in 0 .. ((x - 1) - 1)  BY <2>4
    <3>4. r.at \in {NULL, Dev} \cup DevsIn(devs, path, x - 1)
      BY <2>6, <3>1, <3>2, <3>3
    <3>5. r.at \notin Inode \ {Dev}  BY <1>6, <1>7, <3>4
    <3>6. DevsIn(devs, path, x - 1) \subseteq DevsIn(devs, path, x)
      <4>1. \A k \in 1 .. (x - 1) : k \in 1 .. x  BY <2>4
      <4> QED  BY <4>1 DEF DevsIn
    <3>7. \/ Part(r, name).at \in {NULL, r.at}
          \/ \E l \in 1 .. Len(devs) : devs[l] = name /\ Part(r, name).at = l - 1
      BY <2>7, <3>5, PartFollows
    <3>8. f[x].at \in {NULL, Dev} \cup DevsIn(devs, path, x)
      BY <2>7, <2>8, <3>4, <3>6, <3>7
    <3>9. w[x - 1] # Dev
      BY <1>4, <1>6, <2>4, <3>1, <3>3
    <3>10. w[x] = NULL  BY <1>4, <2>2, <2>3, <3>9
    <3> QED  BY <2>2, <2>9, <3>8, <3>10
  <2>10. CASE ~\E j \in 0 .. (x - 2) : w[j] = Dev
    <3>1. i = x - 1
      <4>1. i \notin 0 .. (x - 2)  BY <2>3, <2>10
      <4> QED  BY <2>3, <2>4, <4>1
    <3>2. r.at = Dev
      <4>1. \A j \in 0 .. ((x - 1) - 1) : w[j] # Dev
        <5>1. (x - 1) - 1 = x - 2  BY <2>4
        <5> QED  BY <2>10, <5>1
      <4> QED  BY <1>3, <2>3, <2>4, <2>6, <3>1, <4>1
    <3>3. w[x] = Child(devs, Dev, name)  BY <1>5, <2>3, <2>4, <2>5, <3>1
    <3>4. \/ f[x].at = w[x]
          \/ w[x] = NULL /\ f[x].at \in {NULL, Dev}
      BY <2>7, <3>2, <3>3, PartFollows
    <3>5. w[x] = NULL \/ w[x] \in DevsIn(devs, path, x)  BY <1>4, <2>2, <2>3
    <3> QED  BY <2>2, <3>4, <3>5
  <2> QED  BY <2>9, <2>10
<1> QED  BY <1>8

LEMMA LookedIs ==
  ASSUME NEW path \in Seq(Name)
  PROVE  Looked(path) \in 0 .. Len(path) /\ Len(path) \in Nat
<1>1. Len(path) \in Nat /\ MAX_PARTS \in Nat  BY LenProperties, PathAssumption
<1> QED  BY <1>1 DEF Looked

\* Where resolve_path ends.
EndsWell(r, path) ==
  \/ r.at = Named(devs, path)
  \/ /\ AsksDevfsInVain(devs, path)
     /\ r.at = Dev \/ (PassesDev(devs, path) /\ r.at \in Mentioned(devs, path))

LEMMA ResolveIs ==
  ASSUME DevsOK(devs), OneLateDevice, NEW ns, NodesOK(ns, devs), NEW path \in Seq(Name)
  PROVE  /\ Sound(resolve_path(ns, path))
         /\ EndsWell(resolve_path(ns, path), path)
<1>1. PICK f : f = Parts(ns, path)  OBVIOUS
<1>2. PICK w : w = Branch(devs, path)  OBVIOUS
<1>3. PICK n : n = Looked(path)  OBVIOUS
<1>4. n \in 0 .. Len(path) /\ Len(path) \in Nat  BY <1>3, LookedIs
<1>5. /\ Sound(f[n])
      /\ (\A j \in 0 .. (n - 1) : w[j] # Dev) => f[n].at = w[n]
  BY <1>1, <1>2, <1>4, PathFollows
<1>6. resolve_path(ns, path) = f[n] /\ Named(devs, path) = w[n]
  BY <1>1, <1>2, <1>3 DEF resolve_path, Named
<1>7. CASE \A j \in 0 .. (n - 1) : w[j] # Dev
  BY <1>5, <1>6, <1>7 DEF EndsWell
<1>8. CASE ~\A j \in 0 .. (n - 1) : w[j] # Dev
  <2>1. PICK j \in 0 .. (n - 1) : w[j] = Dev  BY <1>8
  <2>2. \/ f[n].at = w[n]
        \/ w[n] = NULL /\ f[n].at \in {NULL, Dev}
        \/ /\ w[n] = NULL /\ f[n].at \in DevsIn(devs, path, n)
           /\ \E i \in 0 .. (n - 2) : w[i] = Dev
    BY <1>1, <1>2, <1>4, <2>1, PastDev
  <2>3. j + 1 \in 1 .. n /\ (j + 1) - 1 = j  BY <1>4, <2>1
  <2>4. w[n] = NULL => AsksDevfsInVain(devs, path)
    BY <1>2, <1>3, <1>6, <2>1, <2>3 DEF AsksDevfsInVain
  <2>5. (\E i \in 0 .. (n - 2) : w[i] = Dev) => PassesDev(devs, path)
    <3> SUFFICES ASSUME NEW i \in 0 .. (n - 2), w[i] = Dev  PROVE PassesDev(devs, path)
      OBVIOUS
    <3>1. i + 1 \in 1 .. (n - 1) /\ (i + 1) - 1 = i  BY <1>4
    <3> QED  BY <1>2, <1>3, <3>1 DEF PassesDev
  <2>6. DevsIn(devs, path, n) = Mentioned(devs, path)
    BY <1>3 DEF DevsIn, Mentioned
  <2>7. PICK r : r = resolve_path(ns, path)  OBVIOUS
  <2>8. r.at = f[n].at  BY <1>6, <2>7
  <2>9. \/ r.at = Named(devs, path)
        \/ AsksDevfsInVain(devs, path) /\ r.at = Dev
        \/ /\ AsksDevfsInVain(devs, path) /\ PassesDev(devs, path)
           /\ r.at \in Mentioned(devs, path)
    BY <1>6, <2>2, <2>4, <2>5, <2>6, <2>8
  <2> QED  BY <1>5, <1>6, <2>7, <2>9 DEF EndsWell
<1> QED  BY <1>5, <1>6, <1>7, <1>8

\* A device has nothing in it, so what goes on behind /dev asks in vain.
LEMMA PassesInVain ==
  ASSUME NEW d, DevsOK(d), NEW path \in Seq(Name), PassesDev(d, path)
  PROVE  AsksDevfsInVain(d, path)
<1>1. PICK w : w = Branch(d, path)  OBVIOUS
<1>2. PICK n : n = Looked(path)  OBVIOUS
<1>3. n \in 0 .. Len(path) /\ Len(path) \in Nat  BY <1>2, LookedIs
<1>4. PICK k \in 1 .. (n - 1) : w[k - 1] = Dev  BY <1>1, <1>2 DEF PassesDev
<1>5. \A m \in 0 .. Len(path) :
           (\E j \in 0 .. (m - 1) : w[j] = Dev) =>
              \/ w[m] = NULL
              \/ w[m - 1] = Dev /\ w[m] \in DevsIn(d, path, m) /\ w[m] \notin Inode
  BY <1>1, BehindDev
<1>6. k - 1 \in 0 .. ((n - 1) - 1) /\ k - 1 \in 0 .. (n - 1) /\ n - 1 \in 0 .. Len(path)
      /\ k \in 1 .. n
  BY <1>3
<1>7. w[n - 1] # Dev  BY <1>4, <1>5, <1>6, Shapes
<1>8. w[n] = NULL  BY <1>3, <1>4, <1>5, <1>6, <1>7
<1> QED  BY <1>1, <1>2, <1>4, <1>6, <1>8 DEF AsksDevfsInVain, Named

\* Every path leads to what it names, or astray in devfs.
LEMMA InvResolves ==
  ASSUME OneLateDevice, VfsInv
  PROVE  ResolvesAsTree
<1> SUFFICES ASSUME NEW path \in Paths
             PROVE  LET at == resolve_path(nodes, path).at
                    IN  \/ at = Named(devs, path)
                        \/ AsksDevfsInVain(devs, path) /\ at \in {Dev} \cup Mentioned(devs, path)
  BY DEF ResolvesAsTree
<1>1. path \in Seq(Name)  BY PathAssumption
<1>2. DevsOK(devs) /\ NodesOK(nodes, devs)  BY DEF VfsInv
<1>3. EndsWell(resolve_path(nodes, path), path)  BY <1>1, <1>2, ResolveIs
<1> QED  BY <1>3 DEF EndsWell

----------------------------------------------------------------------------
(* More devices change nothing a node or a descriptor relied on.           *)

Grows(d, e) ==
  /\ DevsOK(d) /\ DevsOK(e) /\ Len(d) <= Len(e)
  /\ \A k \in 1 .. Len(d) : d[k] # NoName => e[k] = d[k]

LEMMA BranchesAgree ==
  ASSUME NEW path \in Seq(Name), NEW d, NEW e
  PROVE  \A n \in 0 .. Len(path) :
           (\A j \in 0 .. (n - 1) : Branch(d, path)[j] # Dev)
             => Branch(e, path)[n] = Branch(d, path)[n]
<1>w. PICK w : w = Branch(d, path)  OBVIOUS
<1>v. PICK v : v = Branch(e, path)  OBVIOUS
<1>1. Len(path) \in Nat  BY LenProperties
<1>2. /\ w[0] = Root /\ \A k \in 1 .. Len(path) : w[k] = Child(d, w[k - 1], path[k])
      /\ v[0] = Root /\ \A k \in 1 .. Len(path) : v[k] = Child(e, v[k - 1], path[k])
  BY <1>1, <1>w, <1>v, BranchIs
<1>3. \A i, name : i # Dev => Child(d, i, name) = Child(e, i, name)
  BY DEF Child
<1> DEFINE Good(n) == (\A j \in 0 .. (n - 1) : w[j] # Dev) => v[n] = w[n]
           T == {n \in 0 .. Len(path) : ~Good(n)}
<1>4. ASSUME T # {} PROVE FALSE
  <2>0. T \subseteq Nat  OBVIOUS
  <2>1. PICK x \in T : \A l \in T : x <= l
    <3> HIDE DEF T
    <3> QED  BY <1>4, <2>0, NatMin
  <2>2. x \in 0 .. Len(path) /\ ~Good(x)  OBVIOUS
  <2>3. CASE x = 0
    BY <1>2, <2>2, <2>3
  <2>4. CASE x # 0
    <3>1. x - 1 \in 0 .. Len(path) /\ x \in 1 .. Len(path) /\ ~(x <= x - 1)
          /\ x - 1 \in 0 .. (x - 1)
      BY <1>1, <2>2, <2>4
    <3>2. Good(x - 1)  BY <2>1, <3>1
    <3>3. (\A j \in 0 .. (x - 1) : w[j] # Dev) /\ v[x] # w[x]  BY <2>2
    <3>4. v[x - 1] = w[x - 1] /\ w[x - 1] # Dev
      <4>1. \A j \in 0 .. ((x - 1) - 1) : w[j] # Dev  BY <1>1, <3>1, <3>3
      <4> QED  BY <3>1, <3>2, <3>3, <4>1
    <3>5. v[x] = Child(e, w[x - 1], path[x]) /\ w[x] = Child(d, w[x - 1], path[x])
      BY <1>2, <3>1, <3>4
    <3> QED  BY <1>3, <3>3, <3>4, <3>5
  <2> QED  BY <2>3, <2>4
<1> QED  BY <1>4, <1>w, <1>v

\* A device that is found in /dev is found there ever after.
LEMMA StaysInDev ==
  ASSUME NEW d, NEW e, Grows(d, e), NEW name \in Name, Child(d, Dev, name) # NULL
  PROVE  Child(e, Dev, name) = Child(d, Dev, name)
<1>1. PICK j \in 1 .. Len(d) : d[j] = name
  BY ChildOfDev DEF Grows
<1>2. Child(d, Dev, name) = j - 1  BY <1>1, ChildOfDev DEF Grows
<1>3. j \in 1 .. Len(e) /\ e[j] = name
  <2>1. Len(d) \in Nat /\ Len(e) \in Nat /\ Len(d) <= Len(e)  BY DevsShape DEF Grows
  <2>2. d[j] # NoName  BY <1>1, DeviceAssumption
  <2>3. e[j] = d[j]  BY <1>1, <2>2 DEF Grows
  <2> QED  BY <1>1, <2>1, <2>3
<1>4. Child(e, Dev, name) = j - 1  BY <1>3, ChildOfDev DEF Grows
<1> QED  BY <1>2, <1>4

\* What a path names stays what it is, and so does its going on behind /dev.
LEMMA NamedStays ==
  ASSUME NEW d, NEW e, Grows(d, e), NEW path \in Seq(Name)
  PROVE  /\ Named(d, path) # NULL => Named(e, path) = Named(d, path)
         /\ PassesDev(d, path) => PassesDev(e, path)
<1>n. PICK n : n = Looked(path)  OBVIOUS
<1>3. /\ n \in 0 .. Len(path) /\ Len(path) \in Nat
      /\ \A k \in 1 .. Len(path) : path[k] \in Name
  BY <1>n, LookedIs, ElementOfSeq
<1>4. PICK w : w = Branch(d, path)  OBVIOUS
<1>5. PICK v : v = Branch(e, path)  OBVIOUS
<1>6. \A m \in 0 .. Len(path) : (\A j \in 0 .. (m - 1) : w[j] # Dev) => v[m] = w[m]
  BY <1>4, <1>5, BranchesAgree
<1>7. ASSUME \E k \in 1 .. (n - 1) : w[k - 1] = Dev
      PROVE  \E k \in 1 .. (n - 1) : v[k - 1] = Dev
  <2> DEFINE T == {j \in 0 .. (n - 2) : w[j] = Dev}
  <2>1. T \subseteq Nat /\ T # {}
    <3>1. PICK k \in 1 .. (n - 1) : w[k - 1] = Dev  BY <1>7
    <3>2. k - 1 \in 0 .. (n - 2)  BY <1>3
    <3> QED  BY <3>1, <3>2
  <2>2. PICK x \in T : \A l \in T : x <= l
    <3> HIDE DEF T
    <3> QED  BY <2>1, NatMin
  <2>3. x \in 0 .. (n - 2) /\ w[x] = Dev  OBVIOUS
  <2>4. \A j \in 0 .. (x - 1) : w[j] # Dev
    <3> TAKE j \in 0 .. (x - 1)
    <3>1. j \in 0 .. (n - 2) /\ ~(x <= j)  BY <1>3, <2>3
    <3> QED  BY <2>2, <3>1
  <2>5. x \in 0 .. Len(path) /\ x + 1 \in 1 .. (n - 1) /\ (x + 1) - 1 = x
    BY <1>3, <2>3
  <2>6. v[x] = Dev  BY <1>6, <2>3, <2>4, <2>5
  <2> QED  BY <2>5, <2>6
<1>8. ASSUME w[n] # NULL
      PROVE  v[n] = w[n]
  <2>1. CASE \A j \in 0 .. (n - 1) : w[j] # Dev
    BY <1>3, <1>6, <2>1
  <2>2. CASE ~\A j \in 0 .. (n - 1) : w[j] # Dev
    <3>1. PICK j \in 0 .. (n - 1) : w[j] = Dev  BY <2>2
    <3>2. \A i \in 0 .. (n - 2) : w[i] # Dev
      <4> TAKE i \in 0 .. (n - 2)
      <4>1. i + 1 \in 1 .. (n - 1) /\ (i + 1) - 1 = i  BY <1>3
      <4>2. ASSUME w[i] = Dev  PROVE FALSE
        <5>1. PassesDev(d, path)  BY <1>n, <1>4, <4>1, <4>2 DEF PassesDev
        <5>2. Named(d, path) = NULL  BY <5>1, PassesInVain DEF AsksDevfsInVain, Grows
        <5> QED  BY <1>n, <1>4, <1>8, <5>2 DEF Named
      <4> QED  BY <4>2
    <3>3. n > 0 /\ j = n - 1
      <4>1. j \notin 0 .. (n - 2)  BY <3>1, <3>2
      <4> QED  BY <1>3, <3>1, <4>1
    <3>4. PICK m : m = n - 1  OBVIOUS
    <3>5. m \in 0 .. Len(path) /\ n \in 1 .. Len(path) /\ m - 1 = n - 2
      BY <1>3, <3>3, <3>4
    <3>6. v[m] = Dev /\ w[m] = Dev  BY <1>6, <3>1, <3>2, <3>3, <3>4, <3>5
    <3>7. PICK name \in Name : name = path[n]  BY <1>3, <3>5
    <3>8. w[n] = Child(d, Dev, name) /\ v[n] = Child(e, Dev, name)
      BY <1>3, <1>4, <1>5, <3>4, <3>5, <3>6, <3>7, BranchIs
    <3> QED  BY <1>8, <3>8, StaysInDev
  <2> QED  BY <2>1, <2>2
<1> QED  BY <1>n, <1>4, <1>5, <1>7, <1>8 DEF Named, PassesDev

LEMMA FileStays ==
  ASSUME NEW d, NEW e, Grows(d, e), NEW file, FileOK(file, d)
  PROVE  FileOK(file, e)
<1>1. PICK path : path = file.path  OBVIOUS
<1>2. path \in Seq(Name) /\ file.ino \in Ino
  BY <1>1, PathAssumption DEF FileOK, file_t
<1>3. file.ino # NULL  BY <1>2, Shapes
<1>4. Mentioned(d, path) \subseteq Mentioned(e, path)
  <2>1. /\ Len(d) \in Nat /\ Len(e) \in Nat /\ Len(d) <= Len(e)
        /\ DOMAIN d = 1 .. Len(d) /\ DOMAIN e = 1 .. Len(e)
    BY DevsShape DEF Grows
  <2>2. Looked(path) \in 0 .. Len(path) /\ \A k \in 1 .. Len(path) : path[k] # NoName
    BY <1>2, LookedIs, ElementOfSeq, DeviceAssumption
  <2>3. Len(path) \in Nat  BY <1>2, LookedIs
  <2>4. ASSUME NEW i \in DOMAIN d, NEW k \in 1 .. Looked(path), path[k] = d[i]
        PROVE  i \in DOMAIN e /\ path[k] = e[i]
    <3>1. k \in 1 .. Len(path)  BY <2>2, <2>3
    <3>2. d[i] # NoName  BY <2>2, <2>4, <3>1
    <3> QED  BY <2>1, <2>4, <3>2 DEF Grows
  <2> QED  BY <2>4 DEF Mentioned
<1>5. file.ino = Named(e, path) \/ (PassesDev(e, path) /\ file.ino \in Mentioned(e, path))
  <2>1. file.ino = Named(d, path) \/ (PassesDev(d, path) /\ file.ino \in Mentioned(d, path))
    BY <1>1 DEF FileOK
  <2> QED  BY <1>2, <1>3, <1>4, <2>1, NamedStays
<1> QED  BY <1>1, <1>5 DEF FileOK

LEMMA Stays ==
  ASSUME VfsInv, Grows(devs, devs'), UNCHANGED <<nodes, fd_table, next_fd>>
  PROVE  VfsInv'
<1>1. PICK d, e : d = devs /\ e = devs'  OBVIOUS
<1>2. Grows(d, e)  BY <1>1
<1>3. Len(d) \in Nat /\ Len(e) \in Nat /\ Len(d) <= Len(e)  BY <1>2, DevsShape DEF Grows
<1>4. \A node : NodeFits(node, d) => NodeFits(node, e)
  BY <1>3 DEF NodeFits
<1>5. \A file : FileOK(file, d) => FileOK(file, e)
  BY <1>2, FileStays
<1>6. NodesOK(nodes, e)
  BY <1>1, <1>4 DEF VfsInv, NodesOK
<1>7. \A t \in Task : TableOK(fd_table[t], next_fd[t], e)
  BY <1>1, <1>5 DEF VfsInv, TableOK
<1> QED  BY <1>1, <1>2, <1>6, <1>7 DEF VfsInv, Grows
----------------------------------------------------------------------------
(* The steps.                                                              *)

LEMMA CreateKeeps ==
  ASSUME VfsInv, dev_create
  PROVE  VfsInv'
<1>1. PICK d, e : d = devs /\ e = devs'  OBVIOUS
<1>2. /\ DevsOK(d) /\ e = Append(d, NoName) /\ Len(d) < Len(Devices) /\ d[Len(d)] # NoName
      /\ UNCHANGED <<nodes, fd_table, next_fd>>
  BY <1>1 DEF VfsInv, dev_create
<1>3. Len(d) \in Nat /\ Len(Devices) \in Nat /\ Len(BootDevices) \in Nat
  BY <1>2, DevsShape, Shapes
<1>4. /\ e \in Seq(Name \cup {NoName}) /\ Len(e) = Len(d) + 1
      /\ \A k \in 1 .. Len(d) : e[k] = d[k]
      /\ e[Len(d) + 1] = NoName
  <2>1. d \in Seq(Name \cup {NoName}) /\ NoName \in Name \cup {NoName}  BY <1>2 DEF DevsOK
  <2> QED  BY <1>2, <2>1, AppendProperties
<1>5. DevsOK(e)
  <2>1. Len(BootDevices) <= Len(e) /\ Len(e) <= Len(Devices)
    BY <1>2, <1>3, <1>4 DEF DevsOK
  <2>2. ASSUME NEW k \in 1 .. Len(e)
        PROVE  e[k] = Devices[k] \/ (e[k] = NoName /\ k = Len(e))
    <3>1. k \in 1 .. Len(d) \/ k = Len(d) + 1  BY <1>3, <1>4
    <3>2. CASE k \in 1 .. Len(d)
      <4>1. d[k] = Devices[k]  BY <1>2, <3>2 DEF DevsOK
      <4> QED  BY <1>4, <3>2, <4>1
    <3> QED  BY <1>4, <3>1, <3>2
  <2> QED  BY <1>4, <2>1, <2>2 DEF DevsOK
<1>6. Grows(d, e)
  BY <1>2, <1>3, <1>4, <1>5 DEF Grows
<1> QED  BY <1>1, <1>2, <1>6, Stays

LEMMA NameKeeps ==
  ASSUME VfsInv, NameDevice
  PROVE  VfsInv'
<1>1. PICK d, e : d = devs /\ e = devs'  OBVIOUS
<1>2. /\ DevsOK(d) /\ e = [d EXCEPT ![Len(d)] = Devices[Len(d)]] /\ d[Len(d)] = NoName
      /\ UNCHANGED <<nodes, fd_table, next_fd>>
  BY <1>1 DEF VfsInv, NameDevice
<1>3. /\ Len(d) \in Nat /\ Len(d) > 0 /\ DOMAIN d = 1 .. Len(d) /\ Len(d) <= Len(Devices)
      /\ Len(Devices) \in Nat
  BY <1>2, DevsShape, Shapes
<1>4. Devices[Len(d)] \in Name
  <2>1. Len(d) \in 1 .. Len(Devices)  BY <1>3
  <2> QED  BY <2>1, Shapes
<1>5. /\ e \in Seq(Name \cup {NoName}) /\ Len(e) = Len(d)
      /\ \A k \in 1 .. Len(d) : e[k] = IF k = Len(d) THEN Devices[Len(d)] ELSE d[k]
  <2>1. d \in Seq(Name \cup {NoName})  BY <1>2 DEF DevsOK
  <2>2. DOMAIN e = 1 .. Len(d)  BY <1>2, <1>3
  <2>3. \A k \in 1 .. Len(d) : e[k] = IF k = Len(d) THEN Devices[Len(d)] ELSE d[k]
    BY <1>2, <1>3
  <2>4. \A k \in 1 .. Len(d) : d[k] \in Name \cup {NoName}  BY <2>1, ElementOfSeq
  <2>5. \A k \in 1 .. Len(d) : e[k] \in Name \cup {NoName}  BY <1>4, <2>3, <2>4
  <2>6. e = [k \in 1 .. Len(d) |-> e[k]]  BY <1>2, <1>3
  <2>7. e \in [1 .. Len(d) -> Name \cup {NoName}]  BY <2>5, <2>6
  <2>8. e \in Seq(Name \cup {NoName})  BY <1>3, <2>7, SeqDef
  <2>9. Len(e) \in Nat /\ 1 .. Len(e) = 1 .. Len(d)
    BY <2>2, <2>8, LenProperties
  <2>10. Len(e) = Len(d)  BY <1>3, <2>9
  <2> QED  BY <2>3, <2>8, <2>10
<1>6. DevsOK(e)
  BY <1>2, <1>3, <1>5 DEF DevsOK
<1>7. Grows(d, e)
  <2>1. ASSUME NEW k \in 1 .. Len(d), d[k] # NoName  PROVE e[k] = d[k]
    BY <1>2, <1>5, <2>1
  <2>2. Len(d) <= Len(e)
    <3>1. Len(e) = Len(d)  BY <1>5
    <3> QED  BY <1>3, <3>1
  <2> QED  BY <1>2, <1>6, <2>1, <2>2 DEF Grows
<1> QED  BY <1>1, <1>2, <1>7, Stays

\* What file_open puts into the table stands for what its path leads to.
LEMMA OpensWell ==
  ASSUME OneLateDevice, VfsInv, NEW path \in Paths, NEW r, r = resolve_path(nodes, path),
         r.at # NULL, Opens(NodeOf(r.nodes, r.at)), NEW fd \in Nat
  PROVE  FileOK([fd |-> fd, ino |-> r.at, pos |-> 0, path |-> path], devs)
<1>1. path \in Seq(Name)  BY PathAssumption
<1>2. DevsOK(devs) /\ NodesOK(nodes, devs)  BY DEF VfsInv
<1>3. Sound(r) /\ EndsWell(r, path)
  BY <1>1, <1>2, ResolveIs
<1>4. NodesOK(r.nodes, devs) /\ Cached(r.nodes, r.at)  BY <1>3 DEF Sound
<1>5. PICK node : node = NodeOf(r.nodes, r.at)  OBVIOUS
<1>6. node.ino = r.at /\ NodeFits(node, devs) /\ r.at \in Ino
  BY <1>2, <1>4, <1>5, NodeAt
<1>7. Opens(node)  BY <1>5
<1>8. /\ Len(devs) \in Nat /\ Len(devs) <= Len(Devices) /\ Len(Devices) \in Nat
      /\ \A i \in Inode : i \in Nat /\ i >= Len(Devices)
  BY <1>2, DevsShape, Shapes
<1>9. r.at # Dev /\ (r.at \in Inode => ~Image[r.at].dir)
  <2>1. CASE node.fs = "devfs"
    <3>1. r.at < Len(devs)  BY <1>6, <1>7, <2>1 DEF Opens, devfs_open
    <3>2. r.at \notin Inode
      <4>1. ASSUME r.at \in Inode  PROVE FALSE
        <5>1. r.at \in Nat /\ r.at >= Len(Devices)  BY <1>8, <4>1
        <5> QED  BY <1>8, <3>1, <5>1
      <4> QED  BY <4>1
    <3> QED  BY <3>2, Shapes
  <2>2. CASE node.fs # "devfs"
    BY <1>6, <1>7, <2>2 DEF Opens, initrd_open, NodeFits
  <2> QED  BY <2>1, <2>2
<1>10. \/ r.at = Named(devs, path)
       \/ PassesDev(devs, path) /\ r.at \in Mentioned(devs, path)
  BY <1>3, <1>9 DEF EndsWell
<1>11. [fd |-> fd, ino |-> r.at, pos |-> 0, path |-> path] \in file_t
  BY <1>6, BoundAssumption DEF file_t
<1> QED  BY <1>9, <1>10, <1>11 DEF FileOK

LEMMA AddKeeps ==
  ASSUME NEW files, NEW n \in Nat, NEW d, TableOK(files, n, d), NEW file, FileOK(file, d),
         file.fd = n
  PROVE  TableOK(Append(files, file), n + 1, d)
<1>1. files \in Seq(file_t) /\ Len(files) = n /\ file \in file_t
  BY DEF TableOK, FileOK
<1>2. PICK q : q = Append(files, file)  OBVIOUS
<1>3. /\ q \in Seq(file_t) /\ Len(q) = n + 1
      /\ \A k \in 1 .. n : q[k] = files[k]
      /\ q[n + 1] = file
  BY <1>1, <1>2, AppendProperties
<1>4. \A k \in 1 .. Len(q) : k \in 1 .. n \/ k = n + 1
  BY <1>3
<1>5. \A k \in 1 .. Len(q) : FileOK(q[k], d) /\ q[k].fd = k - 1
  <2> TAKE k \in 1 .. Len(q)
  <2>1. CASE k \in 1 .. n
    BY <1>1, <1>3, <2>1 DEF TableOK
  <2>2. CASE k = n + 1
    BY <1>3, <2>2
  <2> QED  BY <1>4, <2>1, <2>2
<1> QED  BY <1>2, <1>3, <1>5 DEF TableOK

\* The entry that is made first is the last one: overwriting it is appending the
\* file, and deleting it, the head of a table without another one included, leaves
\* the table as it was.
LEMMA MadeAndDeleted ==
  ASSUME NEW files, NEW S, files \in Seq(S), NEW file
  PROVE  LET made == clist_insert_after(files)
         IN  /\ [made EXCEPT ![Len(made)] = file] = Append(files, file)
             /\ clist_delete(made, Len(made)) = files
<1>1. Len(files) \in Nat /\ DOMAIN files = 1 .. Len(files)  BY LenProperties
<1>2. PICK R : R = S \cup {NewEntry, file}  OBVIOUS
<1>3. files \in Seq(R) /\ NewEntry \in R /\ file \in R
  <2>1. S \subseteq R  BY <1>2
  <2> QED  BY <1>2, <2>1, SeqMonotonic
<1>4. PICK n : n = Len(files)  OBVIOUS
<1>5. PICK made : made = clist_insert_after(files)  OBVIOUS
<1>6. /\ made \in Seq(R) /\ Len(made) = n + 1 /\ DOMAIN made = 1 .. (n + 1)
      /\ \A k \in 1 .. n : made[k] = files[k]
  BY <1>3, <1>4, <1>5, AppendProperties, LenProperties DEF clist_insert_after
<1>7. [made EXCEPT ![n + 1] = file] = Append(files, file)
  <2>1. PICK p : p = [made EXCEPT ![n + 1] = file]  OBVIOUS
  <2>2. PICK q : q = Append(files, file)  OBVIOUS
  <2>3. /\ q \in Seq(R) /\ Len(q) = n + 1 /\ DOMAIN q = 1 .. (n + 1)
        /\ \A k \in 1 .. n : q[k] = files[k]
        /\ q[n + 1] = file
    BY <1>3, <1>4, <2>2, AppendProperties, LenProperties
  <2>4. p = [k \in 1 .. (n + 1) |-> p[k]] /\ q = [k \in 1 .. (n + 1) |-> q[k]]
    <3>1. made = [k \in 1 .. (n + 1) |-> made[k]]  BY <1>6
    <3>2. p = [k \in 1 .. (n + 1) |-> IF k = n + 1 THEN file ELSE made[k]]
      BY <2>1, <3>1
    <3>3. q = [k \in 1 .. (n + 1) |-> q[k]]
      <4>1. q = [k \in 1 .. Len(q) |-> q[k]]  BY <2>3
      <4> QED  BY <2>3, <4>1
    <3> QED  BY <3>2, <3>3
  <2>5. \A k \in 1 .. (n + 1) : p[k] = q[k]
    <3> TAKE k \in 1 .. (n + 1)
    <3>1. p[k] = IF k = n + 1 THEN file ELSE made[k]  BY <1>6, <2>1
    <3>2. k = n + 1 \/ k \in 1 .. n  BY <1>1, <1>4
    <3> QED  BY <1>6, <2>3, <3>1, <3>2
  <2> QED  BY <2>1, <2>2, <2>4, <2>5
<1>8. clist_delete(made, n + 1) = files
  <2>1. ~(n + 1 = 1 /\ Len(made) > 1)  BY <1>1, <1>4, <1>6
  <2>2. PICK p, q : p = SubSeq(made, 1, n) /\ q = SubSeq(made, n + 2, n + 1)  OBVIOUS
  <2>3. clist_delete(made, n + 1) = p \o q
    <3>1. (n + 1) - 1 = n /\ (n + 1) + 1 = n + 2  BY <1>1, <1>4
    <3> QED  BY <1>6, <2>1, <2>2, <3>1 DEF clist_delete
  <2>4. /\ p \in Seq(R) /\ Len(p) = n /\ \A k \in 1 .. n : p[k] = made[k]
    BY <1>1, <1>4, <1>6, <2>2, SubSeqProperties
  <2>5. q = << >>  BY <1>1, <1>4, <1>6, <2>2
  <2>6. p \o q = p  BY <2>4, <2>5
  <2>7. p = files
    <3>1. p = [k \in 1 .. n |-> p[k]]  BY <2>4, LenProperties
    <3>2. files = [k \in 1 .. n |-> files[k]]  BY <1>1, <1>4
    <3>3. \A k \in 1 .. n : p[k] = files[k]  BY <1>6, <2>4
    <3> QED  BY <3>1, <3>2, <3>3
  <2> QED  BY <2>3, <2>6, <2>7
<1> QED  BY <1>5, <1>6, <1>7, <1>8

LEMMA OpenKeeps ==
  ASSUME OneLateDevice, VfsInv, NEW t \in Task, NEW path \in Paths, file_open(t, path)
  PROVE  VfsInv'
<1>1. PICK r : r = resolve_path(nodes, path)  OBVIOUS
<1>2. NodesOK(r.nodes, devs)
  <2>1. path \in Seq(Name) /\ DevsOK(devs) /\ NodesOK(nodes, devs)
    BY PathAssumption DEF VfsInv
  <2> QED  BY <1>1, <2>1, ResolveIs DEF Sound
<1>3. PICK made : made = clist_insert_after(fd_table[t])  OBVIOUS
<1>4. PICK file : file = [fd |-> next_fd[t], ino |-> r.at, pos |-> 0, path |-> path]
  OBVIOUS
<1>5. TableOK(fd_table[t], next_fd[t], devs)  BY DEF VfsInv
<1>6. /\ [made EXCEPT ![Len(made)] = file] = Append(fd_table[t], file)
      /\ clist_delete(made, Len(made)) = fd_table[t]
  <2>1. fd_table[t] \in Seq(file_t)  BY <1>5 DEF TableOK
  <2> QED  BY <1>3, <2>1, MadeAndDeleted
<1>7. /\ next_fd[t] < MAX_OPEN /\ nodes' = r.nodes /\ devs' = devs
      /\ \/ UNCHANGED <<fd_table, next_fd>>
         \/ /\ r.at # NULL /\ Opens(NodeOf(r.nodes, r.at))
            /\ fd_table' = [fd_table EXCEPT ![t] = Append(fd_table[t], file)]
            /\ next_fd' = [next_fd EXCEPT ![t] = next_fd[t] + 1]
         \/ /\ fd_table' = [fd_table EXCEPT ![t] = fd_table[t]]
            /\ next_fd' = next_fd
  BY <1>1, <1>3, <1>4, <1>6 DEF file_open
<1>8. DevsOK(devs') /\ NodesOK(nodes', devs')
  BY <1>2, <1>7 DEF VfsInv
<1>9. CASE /\ r.at # NULL /\ Opens(NodeOf(r.nodes, r.at))
           /\ fd_table' = [fd_table EXCEPT ![t] = Append(fd_table[t], file)]
           /\ next_fd' = [next_fd EXCEPT ![t] = next_fd[t] + 1]
  <2>1. next_fd[t] \in Nat /\ next_fd[t] + 1 \in 0 .. MAX_OPEN
    BY <1>7, BoundAssumption DEF VfsInv
  <2>2. FileOK(file, devs)  BY <1>1, <1>4, <1>9, <2>1, OpensWell
  <2>3. TableOK(Append(fd_table[t], file), next_fd[t] + 1, devs)
    BY <1>4, <1>5, <2>1, <2>2, AddKeeps
  <2>4. /\ next_fd' \in [Task -> 0 .. MAX_OPEN] /\ DOMAIN fd_table' = Task
        /\ fd_table' = [s \in Task |-> fd_table'[s]]
    BY <1>9, <2>1 DEF VfsInv
  <2>5. \A s \in Task : TableOK(fd_table'[s], next_fd'[s], devs')
    BY <1>7, <1>9, <2>3 DEF VfsInv
  <2> QED  BY <1>8, <2>4, <2>5 DEF VfsInv
<1>10. CASE UNCHANGED <<fd_table, next_fd>>
  BY <1>7, <1>8, <1>10 DEF VfsInv
<1>11. CASE fd_table' = [fd_table EXCEPT ![t] = fd_table[t]] /\ next_fd' = next_fd
  <2>1. fd_table' = fd_table  BY <1>11 DEF VfsInv
  <2> QED  BY <1>7, <1>8, <1>11, <2>1 DEF VfsInv
<1> QED  BY <1>7, <1>9, <1>10, <1>11

LEMMA ReadKeeps ==
  ASSUME VfsInv, NEW t \in Task, NEW fd \in 0 .. MAX_OPEN, file_read(t, fd)
  PROVE  VfsInv'
<1>1. PICK k \in DOMAIN fd_table[t], pos \in 0 .. MAX_POS :
        /\ fd_table' = [fd_table EXCEPT ![t][k].pos = pos]
        /\ UNCHANGED <<nodes, devs, next_fd>>
  BY DEF file_read, find_file_by_fd
<1>2. PICK files, d, n : files = fd_table[t] /\ d = devs /\ n = next_fd[t]  OBVIOUS
<1>3. TableOK(files, n, d)  BY <1>2 DEF VfsInv
<1>4. files \in Seq(file_t) /\ Len(files) \in Nat /\ DOMAIN files = 1 .. Len(files)
  BY <1>3, LenProperties DEF TableOK
<1>5. PICK q : q = [files EXCEPT ![k].pos = pos]  OBVIOUS
<1>6. fd_table' = [fd_table EXCEPT ![t] = q]  BY <1>1, <1>2, <1>5
<1>7. k \in 1 .. Len(files)  BY <1>2, <1>4
<1>8. files[k] \in file_t  BY <1>4, <1>7, ElementOfSeq
<1>9. PICK file : file = [files[k] EXCEPT !.pos = pos]  OBVIOUS
<1>10. /\ file \in file_t /\ file.fd = files[k].fd /\ file.ino = files[k].ino
       /\ file.path = files[k].path
  BY <1>8, <1>9 DEF file_t
<1>11. /\ q = [files EXCEPT ![k] = file]
       /\ \A j \in 1 .. Len(files) : q[j] = IF j = k THEN file ELSE files[j]
  BY <1>4, <1>5, <1>7, <1>9
<1>12. q \in Seq(file_t) /\ Len(q) = Len(files)
  BY <1>4, <1>7, <1>10, <1>11, ExceptSeq
<1>13. TableOK(q, n, d)
  <2>1. FileOK(files[k], d) /\ files[k].fd = k - 1  BY <1>3, <1>7 DEF TableOK
  <2>2. FileOK(file, d) /\ file.fd = k - 1  BY <1>10, <2>1 DEF FileOK
  <2>3. \A j \in 1 .. Len(q) : FileOK(q[j], d) /\ q[j].fd = j - 1
    BY <1>3, <1>11, <1>12, <2>2 DEF TableOK
  <2> QED  BY <1>3, <1>12, <2>3 DEF TableOK
<1> QED  BY <1>1, <1>2, <1>6, <1>13 DEF VfsInv

LEMMA NewTaskKeeps ==
  ASSUME VfsInv, NEW t \in Task, NewTask(t)
  PROVE  VfsInv'
<1>1. TableOK(<< >>, 0, devs)
  <2>1. << >> \in Seq(file_t) /\ Len(<< >>) = 0  BY EmptySeq
  <2> QED  BY <2>1 DEF TableOK
<1>2. 0 \in 0 .. MAX_OPEN  BY BoundAssumption
<1> QED  BY <1>1, <1>2 DEF VfsInv, NewTask

\* What kernel_main leaves is sound: the root and /dev are there.
LEMMA VfsStarts ==
  ASSUME VfsInit
  PROVE  VfsInv
<1>1. DevsOK(devs)
  <2>1. /\ devs = BootDevices /\ BootDevices \in Seq(Name)
    BY DeviceAssumption DEF VfsInit
  <2>2. BootDevices \in Seq(Name \cup {NoName})  BY <2>1, SeqMonotonic
  <2>3. /\ Len(BootDevices) \in Nat /\ Len(BootDevices) <= Len(Devices)
        /\ \A k \in 1 .. Len(BootDevices) : BootDevices[k] = Devices[k]
    BY Shapes
  <2> QED  BY <2>1, <2>2, <2>3 DEF DevsOK
<1>2. PICK root : root = [ino |-> Root, fs |-> "initrd", length |-> Image[Root].length]
  OBVIOUS
<1>3. PICK dev : dev = [ino |-> Dev, fs |-> "initrd", length |-> Image[Dev].length]
  OBVIOUS
<1>4. initrd_create_node(<< >>, Root) = <<root>>
  BY <1>2 DEF initrd_create_node, Cached
<1>5. initrd_create_node(<<root>>, Dev) = <<root, dev>>
  <2>1. DOMAIN <<root>> = {1} /\ <<root>>[1].ino = Root  BY <1>2
  <2>2. Root # Dev  BY Shapes
  <2>3. ~Cached(<<root>>, Dev)  BY <2>1, <2>2 DEF Cached
  <2>4. Append(<<root>>, dev) = <<root, dev>>
    <3>1. PICK S : S = {root, dev}  OBVIOUS
    <3>2. <<root>> \in Seq(S) /\ Len(<<root>>) = 1 /\ dev \in S  BY <3>1
    <3>3. PICK q : q = Append(<<root>>, dev)  OBVIOUS
    <3>4. Len(q) = 2 /\ q[1] = root /\ q[2] = dev /\ q \in Seq(S)
      BY <3>2, <3>3, AppendProperties
    <3>5. q = [k \in 1 .. 2 |-> q[k]] /\ DOMAIN q = 1 .. 2  BY <3>4, LenProperties
    <3>6. q = <<root, dev>>  BY <3>4, <3>5
    <3> QED  BY <3>3, <3>6
  <2> QED  BY <1>3, <2>3, <2>4 DEF initrd_create_node
<1>6. PICK mnt : mnt = [ino |-> Dev, fs |-> "devfs", length |-> Len(devs)]  OBVIOUS
<1>7. nodes = <<root, mnt>>
  <2>1. PICK two : two = <<root, dev>>  OBVIOUS
  <2>2. DOMAIN two = 1 .. 2 /\ two[1] = root /\ two[2] = dev  BY <2>1
  <2>3. nodes = [k \in 1 .. 2 |->
                   IF two[k].ino = Dev
                   THEN [two[k] EXCEPT !.fs = "devfs", !.length = Len(devs)]
                   ELSE two[k]]
    BY <1>4, <1>5, <2>1, <2>2 DEF VfsInit, devfs_mount
  <2>4. [dev EXCEPT !.fs = "devfs", !.length = Len(devs)] = mnt
    <3>1. PICK a, b, n : a = Dev /\ b = Image[Dev].length /\ n = Len(devs)  OBVIOUS
    <3>2. /\ dev = [ino |-> a, fs |-> "initrd", length |-> b]
          /\ mnt = [ino |-> a, fs |-> "devfs", length |-> n]
      BY <1>3, <1>6, <3>1
    <3>3. PICK half : half = [dev EXCEPT !.fs = "devfs"]  OBVIOUS
    <3>4. half = [ino |-> a, fs |-> "devfs", length |-> b]  BY <3>2, <3>3
    <3>5. [half EXCEPT !.length = n] = mnt  BY <3>2, <3>4
    <3> QED  BY <3>1, <3>3, <3>5
  <2>5. root.ino # Dev /\ dev.ino = Dev  BY <1>2, <1>3, Shapes
  <2>6. nodes[1] = root /\ nodes[2] = mnt
    <3>1. 1 \in 1 .. 2 /\ 2 \in 1 .. 2  OBVIOUS
    <3>2. nodes[1] = root  BY <2>2, <2>3, <2>5, <3>1
    <3>3. nodes[2] = mnt  BY <2>2, <2>3, <2>4, <2>5, <3>1
    <3> QED  BY <3>2, <3>3
  <2>7. DOMAIN nodes = 1 .. 2 /\ nodes = [k \in 1 .. 2 |-> nodes[k]]  BY <2>3
  <2> QED  BY <2>6, <2>7
<1>8. root \in fs_node_t /\ mnt \in fs_node_t
  <2>1. Len(devs) \in Nat /\ Image[Root].length \in Nat /\ Root \in Ino /\ Dev \in Ino
    BY <1>1, DevsShape, KidsShape, Shapes
  <2> QED  BY <1>2, <1>6, <2>1 DEF fs_node_t
<1>9. NodesOK(nodes, devs)
  <2>1. NodeFits(root, devs) /\ NodeFits(mnt, devs)
    BY <1>2, <1>6, Shapes DEF NodeFits, VfsInit
  <2>2. /\ nodes \in Seq(fs_node_t) /\ Len(nodes) = 2 /\ DOMAIN nodes = 1 .. 2
        /\ nodes[1] = root /\ nodes[2] = mnt
    BY <1>7, <1>8
  <2>3. nodes[1].ino = Root /\ Cached(nodes, Dev)
    BY <1>2, <1>6, <2>2 DEF Cached
  <2>4. \A k \in 1 .. Len(nodes) : NodeFits(nodes[k], devs)
    BY <2>1, <2>2
  <2> QED  BY <2>2, <2>3, <2>4 DEF NodesOK
<1>10. TableOK(<< >>, 0, devs)
  <2>1. << >> \in Seq(file_t) /\ Len(<< >>) = 0  BY EmptySeq
  <2> QED  BY <2>1 DEF TableOK
<1>11. 0 \in 0 .. MAX_OPEN  BY BoundAssumption
<1> QED  BY <1>1, <1>9, <1>10, <1>11 DEF VfsInv, VfsInit

LEMMA InvTypeOK ==
  ASSUME VfsInv
  PROVE  VfsTypeOK
BY DEF VfsInv, VfsTypeOK, DevsOK, NodesOK, TableOK

LEMMA InvDescriptors ==
  ASSUME VfsInv
  PROVE  DescriptorsSound
<1> SUFFICES ASSUME NEW t \in Task
             PROVE  /\ Len(fd_table[t]) = next_fd[t]
                    /\ \A k \in DOMAIN fd_table[t] :
                         LET file == fd_table[t][k]
                         IN  /\ file.fd = k - 1
                             /\ file.ino \in Inode => ~Image[file.ino].dir
                             /\ \/ file.ino = Named(devs, file.path)
                                \/ /\ AsksDevfsInVain(devs, file.path)
                                   /\ file.ino \in Mentioned(devs, file.path)
  BY DEF DescriptorsSound
<1>1. TableOK(fd_table[t], next_fd[t], devs) /\ DevsOK(devs)  BY DEF VfsInv
<1>2. DOMAIN fd_table[t] = 1 .. Len(fd_table[t])  BY <1>1, LenProperties DEF TableOK
<1>3. \A k \in DOMAIN fd_table[t] : fd_table[t][k].fd = k - 1 /\ FileOK(fd_table[t][k], devs)
  BY <1>1, <1>2 DEF TableOK
<1>4. ASSUME NEW file, FileOK(file, devs)
      PROVE  /\ file.ino \in Inode => ~Image[file.ino].dir
             /\ \/ file.ino = Named(devs, file.path)
                \/ /\ AsksDevfsInVain(devs, file.path)
                   /\ file.ino \in Mentioned(devs, file.path)
  <2>1. file.path \in Seq(Name)  BY <1>4, PathAssumption DEF FileOK, file_t
  <2> QED  BY <1>1, <1>4, <2>1, PassesInVain DEF FileOK
<1> QED  BY <1>1, <1>3, <1>4 DEF TableOK

----------------------------------------------------------------------------
(* What follows.                                                           *)

\* With at most one device registered behind the boot's, whatever was opened
\* before and while that device is being set up: every path leads to what it names
\* in the image and the devices, or nowhere, except that one which asks devfs for
\* what is not there may end at /dev or at a device it mentions (node.c:44-55).
\* The descriptors are those of the opens that succeeded, in their order
\* (file.c:24-32), and each keeps standing for the file or device its path named,
\* or for a device mentioned by a path that asked devfs in vain.
THEOREM VfsSound ==
  ASSUME OneLateDevice
  PROVE  VfsSpec => [](VfsTypeOK /\ ResolvesAsTree /\ DescriptorsSound)
<1>1. VfsInit => VfsInv
  BY VfsStarts
<1>2. VfsInv /\ [VfsNext]_vfsVars => VfsInv'
  <2> SUFFICES ASSUME VfsInv, [VfsNext]_vfsVars  PROVE VfsInv'
    OBVIOUS
  <2>1. ASSUME NEW t \in Task, NEW path \in Paths, file_open(t, path)  PROVE VfsInv'
    BY <2>1, OpenKeeps
  <2>2. ASSUME NEW t \in Task, NEW fd \in 0 .. MAX_OPEN, file_read(t, fd)  PROVE VfsInv'
    BY <2>2, ReadKeeps
  <2>3. ASSUME NEW t \in Task, NewTask(t)  PROVE VfsInv'
    BY <2>3, NewTaskKeeps
  <2>4. CASE dev_create
    BY <2>4, CreateKeeps
  <2>5. CASE NameDevice
    BY <2>5, NameKeeps
  <2>6. CASE UNCHANGED vfsVars
    BY <2>6 DEF vfsVars, VfsInv
  <2> QED  BY <2>1, <2>2, <2>3, <2>4, <2>5, <2>6 DEF VfsNext
<1>3. VfsInv => VfsTypeOK /\ ResolvesAsTree /\ DescriptorsSound
  BY InvTypeOK, InvResolves, InvDescriptors
<1> QED  BY <1>1, <1>2, <1>3, PTL DEF VfsSpec

\* The terminal, its input and the file system together, as they share no state
\* but the position of a descriptor and the echo, which each takes as it comes.
THEOREM FilesSafe ==
  ASSUME OneLateDevice, OneReader
  PROVE  FilesSpec => /\ [](FilesTypeOK /\ ReadInBounds /\ ResolvesAsTree /\ DescriptorsSound
                             /\ CursorOnScreen /\ StoresOnScreen)
                      /\ ReadOnce
<1>1. FilesInit => Init /\ VfsInit /\ VgaInit
  BY DEF FilesInit
<1>2. [FilesNext]_<<vars, vfsVars, vgaVars>>
        => [Next]_vars /\ [VfsNext]_vfsVars /\ [VgaNext]_vgaVars
  BY DEF FilesNext
<1>3. FilesSpec => Spec /\ VfsSpec /\ VgaSpec
  BY <1>1, <1>2, PTL DEF FilesSpec, Spec, VfsSpec, VgaSpec
<1>4. Spec => []TypeOK /\ []ReadInBounds /\ ReadOnce
  BY TtySafe, TtyReadsOnce, PTL
<1>5. VfsSpec => []VfsTypeOK /\ []ResolvesAsTree /\ []DescriptorsSound
  BY VfsSound, PTL
<1>6. VgaSpec => []CursorOnScreen /\ []StoresOnScreen /\ []VgaTypeOK
  BY CursorComesBack, PrintsOnScreen, PTL
<1>7. TypeOK /\ VfsTypeOK /\ VgaTypeOK => FilesTypeOK
  BY DEF FilesTypeOK
<1> QED  BY <1>3, <1>4, <1>5, <1>6, <1>7, PTL
=============================================================================
