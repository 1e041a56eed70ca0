--------------------------- MODULE MCDownloader ---------------------------
(* A small downloader for TLC: two interchangeable peers and four          *)
(* interchangeable hashes.                                                 *)
EXTENDS Downloader, TLC

CONSTANTS p1, p2, h1, h2, h3, h4

MCPeers  == {p1, p2}
MCHashes == {h1, h2, h3, h4}

Symmetric == Permutations(MCPeers) \cup Permutations(MCHashes)
=============================================================================
