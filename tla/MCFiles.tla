------------------------------ MODULE MCFiles ------------------------------
(* The terminal's input, its cursor and the virtual file system for TLC.   *)
(* They meet only in the position of a descriptor and in the echo, which   *)
(* may come at any time, so each is explored while the others rest where   *)
(* they started.                                                           *)
EXTENDS Tty, Vfs

Kid(n, i)    == [name |-> n, ino |-> i]
Dir(kids)    == [dir |-> TRUE, length |-> Len(kids), kids |-> kids]
File(length) == [dir |-> FALSE, length |-> length, kids |-> <<>>]

\* /bin/shell, /bin/sub/shell and a directory for the devices, which hides what
\* the image has in it.
SmallImage ==
  [i \in 10 .. 15 |->
     CASE i = 10 -> Dir(<<Kid("bin", 11), Kid("dev", 12)>>)
       [] i = 11 -> Dir(<<Kid("shell", 13), Kid("sub", 14)>>)
       [] i = 12 -> Dir(<<Kid("shell", 13)>>)
       [] i = 13 -> File(1)
       [] i = 14 -> Dir(<<Kid("shell", 15)>>)
       [] i = 15 -> File(0)]

Names     == {"bin", "dev", "shell", "sub", "KB_LOW", "TTY", "PCI"}
TwoBoot   == <<"KB_LOW", "TTY">>
OneLate   == <<"PCI">>
TestPaths ==
  { <<>>, <<"bin">>, <<"bin", "shell">>, <<"bin", "TTY">>, <<"bin", "sub", "shell">>,
    <<"bin", "shell", "sub">>, <<"dev">>, <<"dev", "TTY">>, <<"dev", "PCI">>,
    <<"dev", "shell">>, <<"dev", "TTY", "KB_LOW">>, <<"dev", "shell", "TTY">>,
    <<"bin", "sub", "shell", "bin">> }

FilesInit == Init /\ VfsInit /\ VgaInit
FilesNext ==
  \/ Init /\ VgaInit /\ VfsNext /\ UNCHANGED <<vars, vgaVars>>
  \/ Init /\ VfsInit /\ VgaNext /\ UNCHANGED <<vars, vfsVars>>
  \/ VfsInit /\ VgaInit /\ Next /\ UNCHANGED <<vfsVars, vgaVars>>
FilesSpec ==
  /\ FilesInit /\ [][FilesNext]_<<vars, vfsVars, vgaVars>>
  /\ \A r \in Readers : WF_vars(ReadStep(r))

\* The type invariants of the three.
FilesTypeOK == TypeOK /\ VfsTypeOK /\ VgaTypeOK
=============================================================================
