----------------------------- MODULE MCDeletarr -----------------------------
\* Instances of Deletarr for TLC: a title with files of every class, one in a
\* category folder, one that waits for its import, and strays.
EXTENDS Deletarr

A == <<"lib", "A">>  B == <<"lib", "arch", "B">>  C == <<"lib", "C">>
AFiles == {Append(A, n) : n \in {"a.mkv", "a2.mkv", "x.mkv", "b.jpg", "a.jpg"}}
ADirs  == {A, Append(A, "Extras"), Append(A, "S1")}
Inside == {A \o <<"Extras", "a3.mkv">>, A \o <<"S1", "e1.mkv">>, A \o <<"S1", "a.jpg">>}
SomeDirs  == {<<"lib">>, <<"old">>, <<"lib", "arch">>, B, C, <<"lib", "X">>} \cup ADirs
SomePaths == SomeDirs \cup AFiles \cup Inside
             \cup {Append(B, "b.mkv"), Append(C, "c.mkv"), <<"lib", "X", "x.mkv">>, <<"lib", "x.mkv">>}
\* One link among a movie's files, one next to the folders.
Links == (Append(A, "a2.mkv") :> A \o <<"S1", "e1.mkv">>) @@ (<<"lib", "x.mkv">> :> Append(A, "x.mkv"))
Classes ==
    [n \in {"lib", "old", "arch", "A", "B", "C", "X"} |-> "plain"] @@ [n \in {"S1"} |-> "season"]
    @@ [n \in {"Extras"} |-> "junk"] @@ [n \in {"a.jpg", "b.jpg"} |-> "metadata"]
    @@ [n \in {"a.mkv", "a2.mkv", "a3.mkv", "e1.mkv", "b.mkv", "c.mkv", "x.mkv"} |-> "video"]
Companions == [n \in {"a.jpg", "b.jpg"} |-> IF n = "a.jpg" THEN {"a"} ELSE {"b"}]
VideoNames == {n \in DOMAIN Classes : Classes[n] = "video"}
Stems   == [n \in VideoNames |-> IF n = "a.mkv" THEN "a" ELSE IF n = "b.mkv" THEN "b" ELSE "other"]
Matches == [n \in VideoNames |-> CASE n \in {"a.mkv", "a2.mkv"} -> {"A"}
                                   [] n = "b.mkv" -> {"B"} [] OTHER -> {}]
Sizes == [p \in SomePaths \ SomeDirs |-> CASE Last(p) = "x.mkv" -> 3 [] Last(p) = "a.mkv" -> 2 [] OTHER -> 1]

Title(folder, files, root) == [folder |-> folder, files |-> files, root |-> root]
DataA(files) == Title(<<"data", "A">>, files, <<"data">>)
DataB == Title(<<"data", "arch", "B">>, {<<"data", "arch", "B", "b.mkv">>}, <<"data", "arch">>)
DataC(files) == Title(<<"data", "C">>, files, <<"data">>)
Roots == {<<"data">>, <<"data", "arch">>}
Inventories ==
    {[roots |-> Roots, titles |-> t] :
        t \in {{DataA({<<"data", "A", "a.mkv">>}), DataB, DataC({})},
               {DataA({<<"data", "A", "Extras", "a3.mkv">>, <<"data", "A", "S1", "e1.mkv">>}), DataB,
                DataC({<<"data", "C", "c.mkv">>})}}}
SomeDisks == {SomePaths \ {Append(C, "c.mkv"), <<"lib", "X", "x.mkv">>}}
TwoPaths == {<<"lib">>, <<"old">>}
DataMount == <<"data">>
Touched == {Append(C, "c.mkv"), Append(A, "a.mkv"), <<"lib", "X", "x.mkv">>}
Few == [setting |-> 1, arr |-> 1, disk |-> 1, fail |-> 1, delete |-> 1]

\* A category folder as the only root folder.
CategoryAlone == {[roots |-> {<<"data", "arch">>}, titles |-> {DataB}]}

\* Two root folders that share nothing.
TwoMounts == {[roots |-> {<<"disk1">>, <<"disk2">>},
               titles |-> {Title(<<"disk1", "A">>, {<<"disk1", "A", "a.mkv">>}, <<"disk1">>)}]}
=============================================================================
