---------------------------- MODULE MCFileCalls ----------------------------
\* Instances of FileCalls for TLC.
EXTENDS FileCalls

\* Paths: files and a directory in the root directory and in the working one.
MCPaths == {[root |-> TRUE, names |-> <<"a">>], [root |-> FALSE, names |-> <<"d">>],
            [root |-> FALSE, names |-> <<"d", "a">>], [root |-> FALSE, names |-> <<"a", "b">>]}

MCTransfers == {<<4, 0, 9>>, <<6, 1, 1>>, <<30, 1, 9>>}

=============================================================================
