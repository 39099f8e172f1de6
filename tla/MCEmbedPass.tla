---------------------------- MODULE MCEmbedPass -----------------------------
EXTENDS EmbedPass, TLC

MCChunks == {1, 2}

\* Two models of different dimensions; or one model and a new text version.
MCTwoModels == "t1" :> "m1" @@ "t2" :> "m2"
MCOneModel == "t1" :> "m1" @@ "t2" :> "m1"
MCDim == "m1" :> 3 @@ "m2" :> 4

MCKinds == [hook : BOOLEAN, vec : BOOLEAN]
MCForeground == {[hook |-> FALSE, vec |-> TRUE]}

MCSymmetry == Permutations(Procs)

=============================================================================
