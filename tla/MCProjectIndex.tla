--------------------------- MODULE MCProjectIndex ---------------------------
EXTENDS ProjectIndex, TLC

\* Two files in one folder and a free path in the project folder itself.
ThreePaths == {"f/a", "f/b", "c"}
TwoFolders == {"f", "/"}
HomeOf == "f/a" :> "f" @@ "f/b" :> "f" @@ "c" :> "/"
HoldsOf == "f" :> {"f/a", "f/b"} @@ "/" :> ThreePaths
WalkedInOrder == <<"f/a", "f/b", "c">>
OneFile == "f/a" :> 1 @@ "f/b" :> 0 @@ "c" :> 0
=============================================================================
