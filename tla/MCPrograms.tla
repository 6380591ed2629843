----------------------------- MODULE MCPrograms -----------------------------
(* Small programs for TLC.                                                 *)
EXTENDS Programs

Bytes(page, file, mem) == [vaddr |-> page * PAGE_SIZE, filesz |-> file, memsz |-> mem]

\* Code that ends with its page, so that one page too many is counted and shared
\* with the data behind it; data with zeros up to the next page.
Shell == <<Bytes(1, 2, 2), Bytes(2, 1, 3)>>
\* Data with zeros up to the next page, and an empty segment, whose address is 0.
Tool  == <<Bytes(1, 1, 3), Bytes(0, 0, 0)>>
\* Zeros only.
Blank == <<Bytes(1, 0, 1)>>

\* Pages that are full but for the last: the counts add up to more than the table has.
Large == <<Bytes(1, 2, 2), Bytes(2, 2, 2), Bytes(3, 1, 1)>>

SmallImages == {Shell, Tool, Blank, Large}
ThreeSpaces == 1 .. 3
=============================================================================
