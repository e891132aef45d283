----------------------------- MODULE MCSshChannel ----------------------------
EXTENDS SshChannel

\* A pty-req with one dimension missing, a resize of one dimension, and one
\* beyond the largest a terminal can have.
MCWindows == {<<1, 0>>, <<0, 9>>}
MCDefaultSize == <<4, 5>>

=============================================================================
