------------------------------ MODULE MCFiles ------------------------------
(***************************************************************************)
(* The sessions TLC explores.  Each fixes the calls, the paths and the     *)
(* flags its processes use and how many calls they make.                   *)
(***************************************************************************)
EXTENDS Files

MCNameOrder == <<"a", "b", "d">>

Tmp(names) == <<"", "tmp">> \o names

NoModes == {DefaultFileMode}

\* Two processes share files: descriptors, offsets, gaps, appends, removal.
Sharing ==
    [calls |-> {"open", "read", "write", "lseek", "dup2", "close", "unlink", "fork"},
     paths |-> {Tmp(<<"a">>), <<"", "etc", "motd">>}, modes |-> NoModes,
     flags |-> {{"RDWR", "CREAT"}, {"WRONLY", "CREAT", "APPEND"}, {"RDWR", "TRUNC"}},
     max |-> 5]

\* The tree of /tmp, with descriptors open in it.
Tree ==
    [calls |-> {"open", "mkdir", "rmdir", "unlink", "rename"},
     paths |-> {Tmp(<<"a">>), Tmp(<<"d">>), Tmp(<<"d", "a">>), Tmp(<<"d", "..", "b">>), Tmp(<<>>),
                <<"", "mnt", "f">>},
     modes |-> NoModes, flags |-> {{"CREAT"}}, max |-> 5]

\* Listing a directory while it changes.
Listing ==
    [calls |-> {"open", "getdents", "unlink", "mkdir"},
     paths |-> {Tmp(<<>>), Tmp(<<"a">>), Tmp(<<"b">>), Tmp(<<"d">>)},
     modes |-> NoModes, flags |-> {{}}, max |-> 6]

\* Permissions, ownership and the working directory.
Rights ==
    [calls |-> {"open", "write", "chmod", "chown", "setuid", "setgid", "chdir", "fork"},
     paths |-> {Tmp(<<"a">>), <<"", "etc", "motd">>, <<"a">>, <<"", "tmp">>, <<"", "mnt", "f">>},
     modes |-> {Mode({"r"}, {}, {"w"}), Mode({}, {}, {})},
     flags |-> {{"WRONLY", "CREAT"}, {"RDWR"}, {"WRONLY", "TRUNC"}}, max |-> 4]

MCSessions == {Sharing, Tree, Listing, Rights}

=============================================================================
