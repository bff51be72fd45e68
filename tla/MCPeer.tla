------------------------------- MODULE MCPeer -------------------------------
(* TLC instance of PeerConnection: a peer that sends up to three bytes, and a*)
(* token bucket that lets two through at once and one per tick.              *)
EXTENDS PeerConnection

=============================================================================
