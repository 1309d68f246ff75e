---------------------------- MODULE MCArchiveUtil ----------------------------
EXTENDS ArchiveUtil

MCSources == [f |-> <<"f1", "f2">>, g |-> <<>>]
=============================================================================
