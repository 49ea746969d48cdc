--------------------------- MODULE MCPingMonitor ---------------------------
EXTENDS PingMonitor

CONSTANTS cloudflare, google

MCTarget == {cloudflare, google}

\* Both hubs at once, or one of them.
MCCommands == {<<google, cloudflare>>, <<google>>}
=============================================================================
