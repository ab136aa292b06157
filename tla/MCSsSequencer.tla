--------------------------- MODULE MCSsSequencer ---------------------------
EXTENDS SsSequencer

\* One server thread.
MCsrv_gid == [c \in Clients |-> CHOOSE s \in Servers : TRUE]
=============================================================================
