-------------------------------- MODULE Vfs --------------------------------
(***************************************************************************)
(* The virtual file system: resolve_path (vfs/node.c) over the image of    *)
(* the initrd and over devfs, the list of nodes it fills, and the          *)
(* descriptors of tasks (vfs/file.c).  A node is made when a path first    *)
(* leads to it and kept for ever.  Programs come here by system calls,     *)
(* which disable the interrupts, so a call is one step; PCI_init_task adds *)
(* its device in between.  What is read and written is left out.           *)
(***************************************************************************)
EXTENDS Integers, Sequences

CONSTANTS
  Name,         \* the names of files, directories and devices
  Image,        \* the initrd: inode -> [dir, length, kids], kids being [name, ino]
  Root,         \* initrd_head_t.offset, the inode of its root directory
  Dev,          \* the inode of its directory "dev", where devfs is mounted
  BootDevices,  \* the devices registered before that: KB_LOW, TTY
  LateDevices,  \* and those a task registers later: PCI
  Paths,        \* what programs open: the sequences of a path's components
  MAX_PARTS,    \* the components resolve_path looks at: 8
  Task,
  MAX_OPEN,     \* bounds the descriptors of a task in the model
  MAX_POS       \* bounds the position a device leaves in a descriptor

NoName == "no name"
NULL   == -1

Inode == DOMAIN Image
Devices == BootDevices \o LateDevices

initrd_file_head_t ==
  [dir : BOOLEAN, length : Nat, kids : Seq([name : Name, ino : Inode])]

\* What tools/initrd_builder.py writes: distinct names, lengths that count the
\* entries; an inode is an offset behind the two headers, above every device's.
ASSUME ImageAssumption ==
  /\ Root \in Inode /\ Dev \in Inode /\ Image[Dev].dir /\ Dev # Root
  /\ \A i \in Inode :
        /\ i \in Nat /\ i >= Len(Devices)
        /\ Image[i] \in initrd_file_head_t
        /\ Image[i].dir => Image[i].length = Len(Image[i].kids)
        /\ ~Image[i].dir => Image[i].kids = <<>>
        /\ \A j, k \in DOMAIN Image[i].kids :
              Image[i].kids[j].name = Image[i].kids[k].name => j = k
ASSUME DeviceAssumption ==
  /\ BootDevices \in Seq(Name) /\ LateDevices \in Seq(Name) /\ Len(BootDevices) > 0
  /\ \A j, k \in DOMAIN Devices : Devices[j] = Devices[k] => j = k
  /\ NoName \notin Name
ASSUME PathAssumption == Paths \subseteq Seq(Name) /\ MAX_PARTS \in Nat
ASSUME BoundAssumption == MAX_OPEN \in Nat /\ MAX_POS \in Nat

VARIABLES
  nodes,     \* nodes_list: what is cached of each inode, [ino, fs, length]
  devs,      \* the names in dev_list; NoName while pci_init sets one up
  fd_table,  \* of each task: its open files, [fd, ino, pos, path]; path is history
  next_fd

vfsVars == <<nodes, devs, fd_table, next_fd>>

----------------------------------------------------------------------------
(* Directories.  A node's operations are those of its file system.         *)

(* Definitions with a suffix _M are slips the code could have had.         *)

\* fs_node_by_ino_finder finds the first node of the inode.
Cached(ns, i) == \E k \in DOMAIN ns : ns[k].ino = i
NodeOf(ns, i) == ns[CHOOSE k \in DOMAIN ns :
                      ns[k].ino = i /\ \A j \in 1 .. (k - 1) : ns[j].ino # i]

\* What readdir gives for 0, 1, ... before it gives 0.  A device is a directory
\* for devfs_readdir: FS_CHRDEVICE has the bit of FS_DIRECTORY.
devfs_readdir  == [i \in DOMAIN devs |-> [name |-> devs[i], ino |-> i - 1]]
initrd_readdir(node) == Image[node.ino].kids
readdir(node) == IF node.fs = "devfs" THEN devfs_readdir ELSE initrd_readdir(node)

\* A new node goes to the end of the list (get_new_node).
devfs_create_node(ns, i) ==
  IF Cached(ns, i) THEN ns ELSE Append(ns, [ino |-> i, fs |-> "devfs", length |-> 0])
initrd_create_node(ns, i) ==
  IF Cached(ns, i) THEN ns
  ELSE Append(ns, [ino |-> i, fs |-> "initrd", length |-> Image[i].length])

\* devfs_openddir, initrd_openddir.
opennode(ns, node, i) ==
  IF node.fs = "devfs" THEN devfs_create_node(ns, i) ELSE initrd_create_node(ns, i)

\* The loop stops at the length of the node.
Tried_M(node) == node.length

\* The entries the loop tries: one more than the node's length, so that readdir
\* says 0 when the name is not there.
Tried(node) == node.length + 1

\* One component: the nodes there are now, and the inode it leads to.  Without a
\* hit and without a 0 from readdir it stays where it is.
Part(found, name) ==
  IF found.at = NULL THEN found
  ELSE LET node == NodeOf(found.nodes, found.at)
           ents == readdir(node)
           hits == {i \in DOMAIN ents : i <= Tried(node) /\ ents[i].name = name}
       IN  IF hits # {}
           THEN LET i == ents[CHOOSE h \in hits : \A g \in hits : h <= g].ino
                IN  [nodes |-> opennode(found.nodes, node, i), at |-> i]
           ELSE IF Tried(node) > Len(ents) THEN [found EXCEPT !.at = NULL]
           ELSE found

\* One component after the other, from the first node, which is the root.
Parts(ns, path) ==
  LET found[k \in 0 .. Len(path)] ==
        IF k = 0 THEN [nodes |-> ns, at |-> ns[1].ino]
        ELSE Part(found[k - 1], path[k])
  IN  found

\* How many components it looks at.
Looked(path) == IF Len(path) < MAX_PARTS THEN Len(path) ELSE MAX_PARTS

resolve_path(ns, path) == Parts(ns, path)[Looked(path)]

\* devfs_mount takes over the node of the directory, for the devices there are.
devfs_mount(ns, i) ==
  [k \in DOMAIN ns |->
     IF ns[k].ino = i THEN [ns[k] EXCEPT !.fs = "devfs", !.length = Len(devs)]
     ELSE ns[k]]

\* What kernel_main leaves: initrd_init, then devfs_mount(resolve_path("/dev")).
VfsInit ==
  /\ devs = BootDevices
  /\ nodes = devfs_mount(initrd_create_node(initrd_create_node(<<>>, Root), Dev), Dev)
  /\ fd_table = [t \in Task |-> <<>>]
  /\ next_fd = [t \in Task |-> 0]

----------------------------------------------------------------------------
(* Descriptors.                                                            *)

devfs_open(node) == node.ino < Len(devs)

\* Only files.
initrd_open(node) == ~Image[node.ino].dir

Opens(node) == IF node.fs = "devfs" THEN devfs_open(node) ELSE initrd_open(node)

\* An entry of the table before it is opened: its data is what malloc gave.
NewEntry == [fd |-> 0, ino |-> 0, pos |-> 0, path |-> <<>>]

\* Behind the tail.
clist_insert_after(files) == Append(files, NewEntry)

\* The head is deleted in the place of the entry.
clist_delete_M(files, k) ==
  IF Len(files) = 1 THEN <<>>
  ELSE <<files[Len(files)]>> \o SubSeq(files, 2, Len(files) - 1)

\* The entry in front of a deleted head, which is the tail, becomes the head.
clist_delete(files, k) ==
  IF k = 1 /\ Len(files) > 1
  THEN <<files[Len(files)]>> \o SubSeq(files, 2, Len(files) - 1)
  ELSE SubSeq(files, 1, k - 1) \o SubSeq(files, k + 1, Len(files))

\* The entry is made first; then the file opens and gets its number, or it does
\* not and the entry is deleted.  A path that leads nowhere makes none.
file_open(t, path) ==
  LET found == resolve_path(nodes, path)
      made  == clist_insert_after(fd_table[t])
      file  == [fd |-> next_fd[t], ino |-> found.at, pos |-> 0, path |-> path]
  IN  /\ next_fd[t] < MAX_OPEN
      /\ nodes' = found.nodes
      /\ \/ /\ found.at = NULL
            /\ UNCHANGED <<fd_table, next_fd>>
         \/ /\ found.at # NULL /\ Opens(NodeOf(found.nodes, found.at))
            /\ fd_table' = [fd_table EXCEPT ![t] = [made EXCEPT ![Len(made)] = file]]
            /\ next_fd' = [next_fd EXCEPT ![t] = @ + 1]
         \/ /\ found.at # NULL /\ ~Opens(NodeOf(found.nodes, found.at))
            /\ fd_table' = [fd_table EXCEPT ![t] = clist_delete(made, Len(made))]
            /\ UNCHANGED next_fd
      /\ UNCHANGED devs

\* The places of the first file with this number: one or none.
find_file_by_fd(t, fd) ==
  {k \in DOMAIN fd_table[t] :
     fd_table[t][k].fd = fd /\ \A j \in 1 .. (k - 1) : fd_table[t][j].fd # fd}

\* Only tty_read moves the position (Tty says how); initrd_read does not.
file_read(t, fd) ==
  \E k \in find_file_by_fd(t, fd), pos \in 0 .. MAX_POS :
     /\ NodeOf(nodes, fd_table[t][k].ino).fs = "devfs"
     /\ fd_table' = [fd_table EXCEPT ![t][k].pos = pos]
     /\ UNCHANGED <<nodes, devs, next_fd>>

\* A task exits and task_create makes one in its place.
NewTask(t) ==
  /\ fd_table' = [fd_table EXCEPT ![t] = <<>>]
  /\ next_fd' = [next_fd EXCEPT ![t] = 0]
  /\ UNCHANGED <<nodes, devs>>

----------------------------------------------------------------------------
(* pci_init, with the interrupts enabled: the device is in the list before *)
(* it has a name.                                                          *)

dev_create ==
  /\ Len(devs) < Len(Devices) /\ devs[Len(devs)] # NoName
  /\ devs' = Append(devs, NoName)
  /\ UNCHANGED <<nodes, fd_table, next_fd>>

NameDevice ==
  /\ devs[Len(devs)] = NoName
  /\ devs' = [devs EXCEPT ![Len(devs)] = Devices[Len(devs)]]
  /\ UNCHANGED <<nodes, fd_table, next_fd>>

VfsNext ==
  \/ \E t \in Task, path \in Paths : file_open(t, path)
  \/ \E t \in Task, fd \in 0 .. MAX_OPEN : file_read(t, fd)
  \/ \E t \in Task : NewTask(t)
  \/ dev_create \/ NameDevice

VfsSpec == VfsInit /\ [][VfsNext]_vfsVars

----------------------------------------------------------------------------
(* Properties.                                                             *)

Ino == Inode \cup (0 .. (Len(Devices) - 1))

fs_node_t == [ino : Ino, fs : {"initrd", "devfs"}, length : Nat]
file_t    == [fd : Nat, ino : Ino, pos : 0 .. MAX_POS, path : Paths]

VfsTypeOK ==
  /\ nodes \in Seq(fs_node_t)
  /\ devs \in Seq(Name \cup {NoName})
  /\ fd_table \in [Task -> Seq(file_t)]
  /\ next_fd \in [Task -> 0 .. MAX_OPEN]

\* The tree the paths are about, without nodes: the image, with the devices d in
\* the place of /dev.
Child(d, i, name) ==
  LET kids == IF i = Dev THEN [k \in DOMAIN d |-> [name |-> d[k], ino |-> k - 1]]
              ELSE IF i \in Inode THEN Image[i].kids ELSE <<>>
  IN  IF \E k \in DOMAIN kids : kids[k].name = name
      THEN kids[CHOOSE k \in DOMAIN kids : kids[k].name = name].ino
      ELSE NULL

\* Where each beginning of the path leads in it, and what the path names: where
\* the components lead that resolve_path looks at, NULL if that is nowhere.
Branch(d, path) ==
  LET at[k \in 0 .. Len(path)] ==
        IF k = 0 THEN Root ELSE Child(d, at[k - 1], path[k])
  IN  at
Named(d, path) == Branch(d, path)[Looked(path)]

\* The path names nothing, and it asks devfs for it.
AsksDevfsInVain(d, path) ==
  /\ Named(d, path) = NULL
  /\ \E k \in 1 .. Looked(path) : Branch(d, path)[k - 1] = Dev

\* The devices whose names are among the components.
Mentioned(d, path) ==
  {j - 1 : j \in {i \in DOMAIN d : \E k \in 1 .. Looked(path) : path[k] = d[i]}}

\* Whatever was opened before, and however the length a node was made with
\* differs from what readdir finds now (node.c:44-55): a path leads to what it
\* names, a device registered after the mount included, and one that names
\* nothing leads nowhere, except that one which asks devfs for what is not there
\* may end at /dev or at a device that it mentions.
ResolvesAsTree ==
  \A path \in Paths :
     LET at == resolve_path(nodes, path).at
     IN  \/ at = Named(devs, path)
         \/ AsksDevfsInVain(devs, path) /\ at \in {Dev} \cup Mentioned(devs, path)

\* Opening makes an entry first, and numbers it or deletes it when it is known
\* whether the file opens (file.c:24-32).  Each open that succeeded has its entry,
\* in the order of the numbers, whatever failed in between, and it stands for the
\* file or device its path names: never for a directory, and for something else
\* only if the path asks devfs for what is not there, and then for a device that
\* it mentions.
DescriptorsSound ==
  \A t \in Task :
     /\ Len(fd_table[t]) = next_fd[t]
     /\ \A k \in DOMAIN fd_table[t] :
           LET file == fd_table[t][k]
           IN  /\ file.fd = k - 1
               /\ file.ino \in Inode => ~Image[file.ino].dir
               /\ \/ file.ino = Named(devs, file.path)
                  \/ /\ AsksDevfsInVain(devs, file.path)
                     /\ file.ino \in Mentioned(devs, file.path)
=============================================================================
