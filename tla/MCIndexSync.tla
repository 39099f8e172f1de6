---------------------------- MODULE MCIndexSync -----------------------------
EXTENDS IndexSync, TLC

MCPaths == {1, 2, 3}
MCBlobs == {1, 2, 3}
MCBinary == {3}
MCIgnoreSets == {{}, {2}}
MCCommits == {"none", "c1", "c2"}

\* c1 holds blob 1 at two paths; c2 replaces one of them and adds a binary.
MCTree == "none" :> <<0, 0, 0>> @@ "c1" :> <<1, 1, 0>> @@ "c2" :> <<2, 1, 3>>

MCSymmetry == Permutations(Procs)

\* For liveness: two commits of one path, nothing ignored.
MCLivePaths == {1}
MCLiveBlobs == {1, 2}
MCLiveCommits == MCCommits
MCLiveTree == "none" :> <<0>> @@ "c1" :> <<1>> @@ "c2" :> <<2>>
MCNone == {}
MCNoIgnore == {{}}

=============================================================================
