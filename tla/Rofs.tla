-------------------------------- MODULE Rofs --------------------------------
(***************************************************************************)
(* The read-only file system (student-distrib/rofs.c): the image, finding  *)
(* a directory entry, reading file data and directory entries.             *)
(***************************************************************************)
EXTENDS Integers, Sequences, SequencesExt

CONSTANTS
    FILE_NAME_LENGTH,
    BLOCK_SIZE,        \* 4096 in the code
    UINT,              \* 2^32 in the code: offsets and lengths are uint32_t
    dentries,          \* the directory: [file_name, file_type, inode_num]
    inodes,            \* inode number -> [length, data_block_num]
    data_blocks,       \* block number -> its bytes
    Visible            \* ' ' to '~', newline and tab

num_dir_entries == Len(dentries)

\* The image is one that the file system's tool makes: the entries of files name
\* inodes, and an inode has a block for each of its bytes.
ASSUME ImageAssumption ==
    /\ BLOCK_SIZE \in Nat \ {0} /\ UINT \in Nat \ {0}
    /\ num_dir_entries \in Nat
    /\ \A i \in 1..num_dir_entries :
          dentries[i].file_type = "file" => dentries[i].inode_num \in DOMAIN inodes
    /\ \A n \in DOMAIN inodes :
          /\ inodes[n].length \in 0..UINT - 1
          /\ \A i \in 0..inodes[n].length - 1 :
                i \div BLOCK_SIZE \in DOMAIN inodes[n].data_block_num

\* A C string compared or copied up to n characters.
Cut(s, n) == SubSeq(s, 1, IF Len(s) < n THEN Len(s) ELSE n)

\* read_dentry_by_name: the index of the first entry whose name strncmp finds
\* equal within FILE_NAME_LENGTH, or 0.
read_dentry_by_name(fname) ==
    SelectInSeq(dentries, LAMBDA d : Cut(fname, FILE_NAME_LENGTH) = d.file_name)

\* Mutant: the file's blocks are taken to be the first ones.
ByteInOrder(node, i) ==
    LET block == i \div BLOCK_SIZE IN
    IF block \in DOMAIN data_blocks THEN data_blocks[block][i % BLOCK_SIZE] ELSE "?"

\* The byte of an inode at a position, through the inode's block numbers; past
\* the file's last block it is whatever the memory holds.
ByteAt(node, i) ==
    LET block == i \div BLOCK_SIZE IN
    IF block \in DOMAIN node.data_block_num
    THEN data_blocks[node.data_block_num[block]][i % BLOCK_SIZE]
    ELSE "?"

\* How many bytes read_data copies, for an offset inside the file; length is
\* an int32_t argument converted to uint32_t.
read_length(inode, offset, length) ==
    LET node == inodes[inode]
        n == length % UINT
    IN IF (offset + n) % UINT > node.length THEN node.length - offset ELSE n

\* The bytes read_data copies.
read_data(inode, offset, length) ==
    [k \in 1..read_length(inode, offset, length) |->
        ByteAt(inodes[inode], offset + k - 1)]

\* file_read shows bytes that are not visible as spaces.
Show(byte) == IF byte \in Visible THEN byte ELSE " "
ShowAll(bytes) == [k \in DOMAIN bytes |-> Show(bytes[k])]

\* dir_read returns the length of the name, not of what it copied.
dir_count(index) == Len(dentries[index].file_name)
-----------------------------------------------------------------------------
\* Reference: a file is its blocks one after the other, cut to its length.
FileBytes(inode) ==
    LET node == inodes[inode]
        blocks == [j \in 1..(1 + (node.length \div BLOCK_SIZE)) |->
                      IF j - 1 \in DOMAIN node.data_block_num
                      THEN [k \in 1..BLOCK_SIZE |->
                               data_blocks[node.data_block_num[j - 1]][k - 1]]
                      ELSE <<>>]
    IN SubSeq(FlattenSeq(blocks), 1, node.length)
=============================================================================
