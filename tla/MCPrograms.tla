---------------------------- MODULE MCPrograms ----------------------------
(***************************************************************************)
(* Programs for TLC, on an image with the programs, the clock, a text that *)
(* grep's buffer cuts inside a line, and two frames of different shapes.   *)
(***************************************************************************)
EXTENDS Programs

Dentry(name, type, inode) ==
    [file_name |-> name, file_type |-> type, inode_num |-> inode]

MCdentries ==
    <<Dentry(<<".">>, "dir", 0), Dentry(<<"rtc">>, "rtc", 0),
      Dentry(<<"cat">>, "file", 1), Dentry(<<"ls">>, "file", 1),
      Dentry(<<"grep">>, "file", 1), Dentry(<<"fish">>, "file", 1),
      Dentry(<<"counter">>, "file", 1), Dentry(<<"hello">>, "file", 1),
      Dentry(<<"syserr">>, "file", 1), Dentry(<<"shell">>, "file", 1),
      Dentry(<<"text", "1">>, "file", 2), Dentry(<<"frame0">>, "file", 3),
      Dentry(<<"frame1">>, "file", 4)>>

\* Blocks of four characters.
Inode(length, first) ==
    [length |-> length, data_block_num |-> [k \in 0..(length \div 4) |-> first + k]]

MCinodes ==
    0 :> Inode(0, 0) @@ 1 :> Inode(1, 0) @@ 2 :> Inode(11, 1) @@ 3 :> Inode(5, 4)
    @@ 4 :> Inode(6, 6)

Blocks == <<
    <<"elf", "?", "?", "?">>,
    <<"a", "b", "\n", "b">>, <<"a", "\n", "b", "\n">>, <<"a", "a", "b", "?">>,
    <<"x", "\n", "x", "x">>, <<"x", "?", "?", "?">>,
    <<" ", "y", "\n", "\n">>, <<"y", "\n", "?", "?">> >>

MCdata_blocks == [k \in 0..Len(Blocks)-1 |-> [i \in 0..3 |-> Blocks[k + 1][i + 1]]]

MCVisible == {"a", "b", "x", "y", " ", "\n"}

MCCommands ==
    {<<>>, <<"exit">>, <<"exit", " ", "a">>, <<"none">>, <<"rtc">>, <<"shell">>,
     <<"cat">>, <<"cat", " ", "text", "1">>, <<"cat", " ", ".">>, <<"cat", " ", "rtc">>,
     <<"cat", " ", " ", "text">>, <<"ls">>, <<"grep">>, <<"grep", " ", "b">>,
     <<"grep", " ", "a", "b">>, <<"fish">>, <<"counter">>, <<"hello">>, <<"syserr">>}

MCReplies == {<<>>, <<"0">>, <<"2">>, <<"3">>, <<"5">>, <<"9">>, <<"1", "0">>}
MCCounterMax == "0" :> 1 @@ "1" :> 2 @@ "2" :> 5
MCGarbage == {NUL, NL}
MCBadNames == << <<"hello", "o">>, <<"text">>, <<>> >>
=============================================================================
