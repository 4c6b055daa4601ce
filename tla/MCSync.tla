------------------------------- MODULE MCSync -------------------------------
EXTENDS Sync

MCFiles == <<"a", "b">>

=============================================================================
