------------------------------ MODULE MCFiles ------------------------------
(***************************************************************************)
(* Files for TLC, on an image with a directory, the clock (a name of the   *)
(* full length, so without terminator), a file that ends inside a block,   *)
(* one that ends at a block boundary, and an entry of an unknown type.     *)
(***************************************************************************)
EXTENDS Files

Dentry(name, type, inode) ==
    [file_name |-> name, file_type |-> type, inode_num |-> inode]

MCdentries ==
    <<Dentry(<<"d">>, "dir", 0), Dentry(<<"r", "t">>, "rtc", 0),
      Dentry(<<"f">>, "file", 1), Dentry(<<"g">>, "file", 2),
      Dentry(<<"w">>, "socket", 0)>>

MCinodes ==
    0 :> [length |-> 0, data_block_num |-> <<>>]
    @@ 1 :> [length |-> 3, data_block_num |-> (0 :> 2 @@ 1 :> 0)]
    @@ 2 :> [length |-> 2, data_block_num |-> (0 :> 1)]

MCdata_blocks ==
    0 :> (0 :> "\n" @@ 1 :> "z") @@ 1 :> (0 :> "p" @@ 1 :> "q")
    @@ 2 :> (0 :> "a" @@ 1 :> "\t0")

MCVisible == {"\n", "p", "q", "a", "z"}

\* Two names that are found, one longer than the directory can hold but found
\* all the same, the unknown type and a name that is not there.
MCFileNames ==
    {<<"d">>, <<"f">>, <<"g">>, <<"r", "t", "x">>, <<"w">>, <<"n">>}

MCReadSizes == {-1, 0, 1, 2, 5}

\* What the properties and the future depend on: a closed descriptor is written
\* by open before it is used again, a dead process's table by create_pcb, and
\* the result of a call is only looked at in the step that makes it.
TableState ==
    <<stack, rtc_opens,
      [p \in Pids |-> [fd \in Fds |->
          IF p \in Live /\ IsOpen(p, fd) THEN files[p][fd] ELSE files[p][fd].flags]],
      [p \in Live |-> <<opened[p], seen[p]>>]>>
=============================================================================
