----------------------------- MODULE FileSystem -----------------------------
(***************************************************************************)
(* The read-only file system image (filesystem.c): the directory in the    *)
(* boot block, the index nodes and the data blocks.                        *)
(***************************************************************************)
EXTENDS Integers, Sequences

CONSTANTS
  BlockSize,  \* bytes of a data block (4096)
  Dentries,   \* the directory: a sequence of [name, ftype, inode]
  NInodes,    \* number of inodes (at most 256 here)
  Inodes,     \* inode number -> [length, dblock], dblock a function from 0
  Blocks,     \* block number -> function from 0 .. BlockSize - 1 to bytes
  Magic,      \* the bytes that start an executable (7f 'E' 'L' 'F')
  Huge        \* a count that is larger than every file

(* An image as createfs makes it: all entries refer to nodes and blocks    *)
(* that exist, the block numbers of a node count from 0, and there are at  *)
(* most 256 nodes.                                                         *)
ASSUME ImageAssumption ==
  /\ BlockSize \in Nat \ {0} /\ Huge \in Nat
  /\ Dentries \in Seq([name : STRING, ftype : {0, 1, 2}, inode : DOMAIN Inodes])
  /\ NInodes \in 0 .. 256 /\ DOMAIN Inodes = 0 .. NInodes - 1
  /\ \A n \in DOMAIN Inodes : Inodes[n].length \in 0 .. Huge
  /\ \A n \in DOMAIN Inodes : \A b \in 0 .. (Inodes[n].length - 1) \div BlockSize :
       b \in DOMAIN Inodes[n].dblock /\ Inodes[n].dblock[b] \in DOMAIN Blocks
  /\ \A n \in DOMAIN Inodes : \E m \in 0 .. 1023 : DOMAIN Inodes[n].dblock = 0 .. m - 1

None == [found |-> FALSE, name |-> "", ftype |-> 0, inode |-> 0]

(* The entry as both look-ups copy it: one byte of the type and one byte   *)
(* of the inode number.                                                    *)
Entry(i) == [found |-> TRUE, name |-> Dentries[i].name,
             ftype |-> Dentries[i].ftype % 256, inode |-> Dentries[i].inode % 256]

(* The first entry with the name.                                          *)
read_dentry_by_name(fname) ==
  LET hits == {i \in 1 .. Len(Dentries) : Dentries[i].name = fname}
  IN  IF hits = {} THEN None
      ELSE Entry(CHOOSE i \in hits : \A j \in hits : i <= j)

(* Entries count from 0.  The test at the top lets index = number of       *)
(* entries through, the loop then does not find it.                        *)
IndexInDirectory(index) == index <= Len(Dentries) /\ index \in 0 .. Len(Dentries) - 1
read_dentry_by_index(index) ==
  IF IndexInDirectory(index) THEN Entry(index + 1) ELSE None

(* The byte of a file at an offset.                                        *)
Byte(inode, off) ==
  Blocks[Inodes[inode].dblock[off \div BlockSize]][off % BlockSize]

BytesRead(inode, offset, length) ==
  IF Inodes[inode].length - offset < length THEN Inodes[inode].length - offset
  ELSE length

read_data(inode, offset, length) ==
  IF NInodes < inode THEN [val |-> -1, data |-> <<>>]
  ELSE IF offset >= Inodes[inode].length THEN [val |-> 0, data |-> <<>>]
  ELSE [val  |-> BytesRead(inode, offset, length),
        data |-> [i \in 1 .. BytesRead(inode, offset, length) |->
                    Byte(inode, offset + i - 1)]]

(* Counts are passed as int and used as uint32_t.                          *)
Unsigned(n) == IF n < 0 THEN Huge ELSE n
=============================================================================
