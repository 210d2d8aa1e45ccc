-------------------------- MODULE MCPeerDiscovery --------------------------
EXTENDS PeerDiscovery
=============================================================================
