---------------------------- MODULE MCLiveUpdate ----------------------------
(* An instance of LiveUpdate for TLC: a core kind, a kind that may be        *)
(* installed late, one the server never watches and one it fails to watch.   *)
EXTENDS LiveUpdate

MCKinds == {"EndpointSlice", "HTTPRoute", "Bookmark", "Service"}
MCUnwatchable == {{"Service"}}
MCEmptyVersions == {1}

=============================================================================
