----------------------------- MODULE RpcClientMC -----------------------------
\* Three messages, each of which may open a socket.
EXTENDS RpcClient

=============================================================================
