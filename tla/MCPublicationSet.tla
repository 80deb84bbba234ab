-------------------------- MODULE MCPublicationSet --------------------------
(* Five published albums by five artists, all connected; album 6 brings an  *)
(* artist, album 7 is a second one by the artist of 2.  The second corpus   *)
(* connects the new artist to the others.                                   *)
EXTENDS PublicationSet

MCArtistOf == <<11, 12, 13, 14, 15, 16, 12>>
MCBackbone == {1, 3}
MCPairs(artists) == {p \in SUBSET artists : Cardinality(p) = 2}
MCCorpora == <<MCPairs(11 .. 15) \cup {{11, 16}}, MCPairs(11 .. 16)>>
MCBridged == <<MCPairs({11, 12, 13}), MCPairs({11, 12, 13}) \cup {{14, 16}}>>
=============================================================================
