----------------------------- MODULE MCLoaders -----------------------------
(* Inputs of the Loaders run: every value of small sets, not samples.      *)
EXTENDS Loaders

BoundedSeqs(S, n) == UNION {[1 .. k -> S] : k \in 0 .. n}

MCPaths ==
    [cwd : {<<>>, <<"c">>, <<"c", "d">>},
     path : {p \in BoundedSeqs({"", ".", "..", "a", "b"}, 4) : p # <<>>}]

-----------------------------------------------------------------------------
(* FAT volumes: clusters 2 to 5, two units to a sector, one FAT in the     *)
(* sectors 1 to 3, the data behind it.                                     *)

Volume(spc) ==
    ParseBpb([signature |-> 43605, bytes_per_sector |-> 2, sectors_per_cluster |-> spc,
              num_fats |-> 1, reserved_sectors |-> 1, sectors_per_fat |-> 3,
              root_cluster |-> 2]).val

FatSectors(fat) ==
    [s \in 1 .. 3 |-> [k \in 1 .. 2 |->
        IF 2 * (s - 1) + k - 1 \in DOMAIN fat THEN fat[2 * (s - 1) + k - 1] ELSE 0]]

MCChains ==
    {[volume |-> Volume(1), disk |-> FatSectors(fat), fat |-> fat, start |-> start] :
        fat \in [2 .. 5 -> {0, 2, 3, 4, 5, EocMarker, BadCluster, FatMask + EocMarker, FatMask + 3}],
        start \in {0, 2}}

ChainSets == {c \in UNION {[1 .. n -> 2 .. 5] : n \in 1 .. 3} : IsInjective(c)}

\* The entries of a FAT that holds one chain.
FatOf(chain) ==
    [c \in 2 .. 5 |->
        IF \E i \in 1 .. Len(chain) - 1 : chain[i] = c
        THEN chain[1 + CHOOSE i \in 1 .. Len(chain) - 1 : chain[i] = c]
        ELSE IF c = Last(chain) THEN MaxCluster ELSE 0]

\* The units of the file are numbered; those of other clusters are zero.
DataSectors(chain, spc) ==
    [s \in 4 .. 3 + 4 * spc |-> [k \in 1 .. 2 |->
        LET c == 2 + (s - 4) \div spc
        IN  IF \E i \in DOMAIN chain : chain[i] = c
            THEN 2 * spc * ((CHOOSE i \in DOMAIN chain : chain[i] = c) - 1) + 2 * ((s - 4) % spc) + k
            ELSE 0]]

\* All sectors, or all but one.
Missing(disk) == {disk} \cup {[s \in DOMAIN disk \ {x} |-> disk[s]] : x \in {5, 6}}

MCFatReads ==
    UNION {
        {[volume |-> Volume(spc), disk |-> disk, start |-> chain[1], size |-> size, room |-> room,
          content |-> [i \in 1 .. 2 * spc * Len(chain) |-> i]] :
            disk \in Missing(FatSectors(FatOf(chain)) @@ DataSectors(chain, spc)),
            size \in 0 .. 2 * spc * Len(chain) + 1, room \in {1, 3, 4}} :
        chain \in ChainSets, spc \in {1, 2}}

Slot(kd, name) == [kind |-> kd, name |-> name, cluster |-> 4, size |-> 1]

SlotKinds == {Slot("lfn", <<"p">>), Slot("lfn", <<"q">>), Slot("file", <<"f">>), Slot("dir", <<"..">>),
              Slot("dir", <<"d">>), Slot("volume", <<"v">>), Slot("deleted", <<"x">>), Slot("end", <<>>)}

\* A directory of two clusters of two slots.
MCFatLists ==
    {[volume |-> Volume(1), slots |-> slots,
      disk |-> FatSectors(FatOf(<<2, 3>>)) @@ (4 :> SubSeq(slots, 1, 2)) @@ (5 :> SubSeq(slots, 3, 4))] :
        slots \in [1 .. 4 -> SlotKinds]}

\* Two directories below the root, a file in each directory.
TreeDisk ==
    FatSectors([c \in 2 .. 5 |-> EocMarker])
    @@ (4 :> <<[Slot("dir", <<"d">>) EXCEPT !.cluster = 3], [Slot("file", <<"a">>) EXCEPT !.cluster = 4]>>)
    @@ (5 :> <<[Slot("file", <<"b">>) EXCEPT !.cluster = 4], [Slot("dir", <<"e">>) EXCEPT !.cluster = 5]>>)
    @@ (6 :> <<Slot("end", <<>>), Slot("end", <<>>)>>)
    @@ (7 :> <<Slot("dir", <<".">>), Slot("end", <<>>)>>)

Tree ==
    LET at(dir, cluster) == [dir |-> dir, cluster |-> cluster]
    IN  (<<>> :> at(TRUE, 2)) @@ (<<<<"d">>>> :> at(TRUE, 3)) @@ (<<<<"a">>>> :> at(FALSE, 4))
        @@ (<<<<"d">>, <<"b">>>> :> at(FALSE, 4)) @@ (<<<<"d">>, <<"e">>>> :> at(TRUE, 5))

MCFatPaths ==
    {[volume |-> Volume(1), disk |-> TreeDisk, tree |-> Tree, path |-> path] :
        path \in BoundedSeqs({<<"a">>, <<"b">>, <<"d">>, <<"e">>}, 3)}

-----------------------------------------------------------------------------
MCDiskReads == {[bytes |-> [i \in 1 .. n |-> i], room |-> room] : n \in 0 .. 26, room \in 1 .. 9}

MCDiskLists ==
    {[entries |-> [i \in DOMAIN lens |-> [inode |-> i - 1, name |-> [k \in 1 .. lens[i] |-> 10 * i + k]]]] :
        lens \in BoundedSeqs(1 .. 5, 4)}

-----------------------------------------------------------------------------
MCArgs == BoundedSeqs({<<>>, <<7>>, <<7, 8, 9>>, <<8, 8, 9, 9>>}, 3)
MCEnvs == BoundedSeqs({<<5, 61>>, <<5, 61, 6>>, <<6>>}, 2)

MCStacks ==
    {[argv |-> argv, envp |-> envp, path |-> path, phdr |-> phdr,
      phnum |-> 2, entry |-> 4096, uid |-> 77, gid |-> 78] :
        argv \in MCArgs, envp \in MCEnvs, path \in {<<47>>, <<47, 9, 47, 9, 9>>}, phdr \in {0, 64}}

Segment(vaddr, offset, filesz, memsz) ==
    [load |-> TRUE, vaddr |-> vaddr, offset |-> offset, filesz |-> filesz, memsz |-> memsz]

ElfFile(phdrs, header) ==
    [header |-> header, phoff |-> 2, phnum |-> Len(phdrs), phdrs |-> phdrs, entry |-> 5,
     data |-> [i \in 1 .. 10 |-> 100 + i]]

MCLoads ==
    {[file |-> ElfFile(<<Segment(v, o, f, m)>> \o more, "ok")] :
        v \in 4 .. 7, o \in {0, 3, 7}, f \in 0 .. 6, m \in {0, 1, 4, 6, 9},
        more \in {<<>>, <<Segment(8, 2, 3, 5)>>, <<Segment(18, 1, 5, 6)>>,
                  <<[Segment(4, 0, 9, 1) EXCEPT !.load = FALSE], Segment(16, 4, 0, 2)>>}}

\* A directory, a script, a file without the x bit, a broken program and a
\* good one that is in both directories of PATH.
Programs ==
    LET good == ElfFile(<<Segment(4, 2, 3, 6)>>, "ok")
        node(dir, exec, file, sp) == [dir |-> dir, exec |-> exec, file |-> file, spelling |-> sp]
    IN  (<<"bin", "ok">> :> node(FALSE, TRUE, good, <<47, 1>>))
        @@ (<<"sbin", "ok">> :> node(FALSE, TRUE, ElfFile(<<Segment(8, 0, 1, 1)>>, "ok"), <<47, 2, 2>>))
        @@ (<<"sbin">> :> node(TRUE, TRUE, good, <<47>>))
        @@ (<<"sbin", "plain">> :> node(FALSE, FALSE, good, <<47>>))
        @@ (<<"sbin", "script">> :> node(FALSE, TRUE, ElfFile(<<>>, "InvalidMagic"), <<47>>))
        @@ (<<"sbin", "cut">> :> node(FALSE, TRUE, ElfFile(<<Segment(4, 8, 9, 9)>>, "ok"), <<47>>))

Caller ==
    [image |-> 4 :> [k \in 0 .. PageSize - 1 |-> 1], heap |-> 8, environ |-> <<3>> :> <<4>>,
     stack |-> "old", sp |-> 16, uid |-> 1, cwd |-> <<"bin">>, search |-> <<<<"bin">>, <<"sbin">>>>]

MCExecs ==
    {[p |-> Caller, files |-> Programs, memory |-> memory,
      call |-> [prog |-> prog, argv |-> argv, envp |-> envp]] :
        memory \in BOOLEAN, argv \in BoundedSeqs({<<7>>, <<7, 8, 9>>, <<7, 7, 7, 7>>}, 2), envp \in MCEnvs,
        prog \in {<<"ok">>, <<"plain">>, <<"script">>, <<"cut">>, <<"none">>, <<"..", "sbin", "ok">>,
                  <<"..", "sbin">>, <<"", "none">>}}

=============================================================================
