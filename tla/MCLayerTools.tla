---------------------------- MODULE MCLayerTools ----------------------------
(***************************************************************************)
(* The trees, package specs, streams, containers, accounts and invocations *)
(* that the tools run with.                                                *)
(***************************************************************************)
EXTENDS LayerTools

\* Trees are given by their nodes: the inode and the node of each path.
TreeOf(nodes) ==
    [ok |-> TRUE, names |-> (Top :> 0) @@ [p \in DOMAIN nodes \ {Top} |-> nodes[p][1]],
     nodes |-> [i \in {nodes[p][1] : p \in DOMAIN nodes} \cup {0} |->
                   IF i = 0 THEN (IF Top \in DOMAIN nodes THEN nodes[Top][2] ELSE EmptyDir)
                   ELSE nodes[CHOOSE p \in DOMAIN nodes : nodes[p][1] = i][2]]]
A == <<"a">>
B == <<"b">>
D == <<"d">>
F == <<"d", "f">>
User == "u" :> "1"
User2 == "u" :> "2"
Cap == "cap" :> "1"
At(node, time) == [node EXCEPT !.mtime = time]

\* One entry in every variant, for the metadata.
Files == {Node("file", m, o, x, d) : m \in {"plain", "set"}, o \in {"root", "user"}, x \in {NoXattrs, User, User2, Cap}, d \in {"x", "y"}}
Symlinks == {Node("symlink", "plain", o, x, d) : o \in {"root", "user"}, x \in {NoXattrs, User}, d \in {"x", "y"}}
Dirs == {Node("dir", m, o, x, "") : m \in {"plain", "set"}, o \in {"root", "user"}, x \in {NoXattrs, User, User2}}
Fifos == {Node("fifo", m, o, NoXattrs, "") : m \in {"plain", "set"}, o \in {"root", "user"}} \cup {Node("fifo", "open", "root", User, "")}
Whiteout(mode) == Node("whiteout", mode, "root", NoXattrs, "")
Entries == Files \cup Symlinks \cup Dirs \cup Fifos
SingleTrees == {TreeOf(A :> <<1, n>>) : n \in Entries} \cup {EmptyTree}
SingleLater == {TreeOf(A :> <<1, At(n, "m2")>>) : n \in Entries}
\* A directory with an entry, or something else in its place; the top directory.
NestedTrees ==
    {TreeOf(D :> <<1, d>>) : d \in {EmptyDir, Node("dir", "set", "user", User, ""), Node("file", "plain", "root", NoXattrs, "x")}}
    \cup {TreeOf(D :> <<1, d>> @@ F :> <<2, f>>) :
            d \in {EmptyDir, Node("dir", "plain", "user", NoXattrs, "")},
            f \in {Node("file", "plain", "user", NoXattrs, "x"), Node("file", "set", "user", User, "y"), EmptyDir, Node("symlink", "plain", "root", NoXattrs, "x")}}
    \cup {TreeOf(Top :> <<0, Node("dir", "plain", "user", User, "")>>), EmptyTree}
\* Two names of one inode or of two.
X(d) == Node("file", "plain", "root", NoXattrs, d)
LinkedTrees ==
    {TreeOf(A :> <<i, X(d)>>) : i \in {1, 2}, d \in {"x", "y"}}
    \cup {TreeOf(B :> <<1, X("x")>>), TreeOf(A :> <<2, X("x")>> @@ B :> <<1, X("y")>>)}
    \cup {TreeOf(A :> <<1, X(d)>> @@ B :> <<2, X(e)>>) : d \in {"x", "y"}, e \in {"x", "y"}}
    \cup {TreeOf(A :> <<i, X(d)>> @@ B :> <<i, X(d)>>) : i \in {1, 2}, d \in {"x", "y"}}
    \cup {TreeOf(A :> <<1, Node("symlink", "plain", "root", NoXattrs, "x")>> @@ B :> <<1, Node("symlink", "plain", "root", NoXattrs, "x")>>)}
\* Entries of other types and lengths in the place of another, or beside their target.
Sym(d) == Node("symlink", "plain", "root", NoXattrs, d)
InA == <<"a", "f">>
RetypedTrees ==
    {TreeOf(A :> <<1, n>> @@ B :> <<2, f>>) :
        n \in {Sym("b"), Sym("xx"), X("x"), X("y"), X("xx"), EmptyDir, Node("fifo", "plain", "root", NoXattrs, "")},
        f \in {X("x"), X("y"), Node("file", "set", "user", Cap, "x")}}
    \cup {TreeOf(A :> <<1, EmptyDir>> @@ InA :> <<3, X("x")>> @@ B :> <<2, X("x")>>),
          TreeOf(A :> <<1, EmptyDir>> @@ InA :> <<2, X("x")>> @@ B :> <<2, X("x")>>)}
\* What only an overlayfs layer holds.
Uppers ==
    {TreeOf(D :> <<1, EmptyDir>> @@ F :> <<2, Whiteout("zero")>>), TreeOf(A :> <<1, Whiteout("plain")>>),
     TreeOf(A :> <<1, Node("socket", "plain", "root", NoXattrs, "")>>),
     TreeOf(A :> <<1, Node("device", "open", "user", User, "")>>), TreeOf(A :> <<1, Node("device", "plain", "root", NoXattrs, "")>>)}

Pairs == (SingleTrees \X (SingleTrees \cup SingleLater)) \cup (NestedTrees \X NestedTrees) \cup (LinkedTrees \X LinkedTrees)
         \cup (RetypedTrees \X RetypedTrees)
MCJobs ==
    {<<f, pair[1], pair[2]>> : f \in {"stream", "incremental"}, pair \in Pairs}
    \cup {<<f, EmptyTree, t>> : f \in {"sendstream", "cas_dir", "overlay"}, t \in SingleTrees \cup NestedTrees \cup LinkedTrees \cup RetypedTrees}
    \cup {<<"overlay", EmptyTree, t>> : t \in Uppers}
MCSpecs ==
    {[subvols |-> subvols, default |-> d, free |-> 0, seed |-> TRUE] :
        subvols \in {(<<"a">> :> [writable |-> w, size |-> z]) @@ (<<"a", "b">> :> [writable |-> FALSE, size |-> 2]) : w \in BOOLEAN, z \in {0, 7}}
                    \cup {<<"c", "d">> :> [writable |-> FALSE, size |-> 12]},
        d \in {NoDefault, << >>, <<"a", "b">>}}
    \cup {[subvols |-> <<"c", "d">> :> [writable |-> FALSE, size |-> z], default |-> NoDefault, free |-> 4, seed |-> TRUE] : z \in {0, 12}}
    \cup {[subvols |-> <<"c">> :> [writable |-> TRUE, size |-> 1], default |-> NoDefault, free |-> f, seed |-> FALSE] : f \in {0, 2}}
Everything == StreamOf(FoldSet(LAMBDA c, cs : Append(cs, c), << >>, UserspaceCommands))
MCInputs ==
    {SubSeq(s, 1, n) : s \in {Everything}, n \in 0 .. Len(Everything)} \cup {StreamOf(<< >>) \o SubSeq(StreamOf(<< >>), 1, n) : n \in 0 .. 4}
NoInputs == {}
NoSpecs == {}
DocJobs == {<<"overlay", o, n>> : o \in NestedTrees, n \in NestedTrees}

-----------------------------------------------------------------------------
AB == <<"a", "b">>
AS == <<"a", "s">>
C == <<"c">>
H == <<"h">>
L == <<"l">>

\* The host has /a with /a/b and another filesystem on /a/s, and /c; the layer has /a and /proc.
Plain ==
    [backend |-> "unshare", ephemeral |-> TRUE, readonly |-> FALSE, sealed |-> TRUE,
     inputs |-> << >>, platform |-> << >>, outputs |-> << >>,
     tmpfs |-> {}, devtmpfs |-> {}, overlays |-> {},
     present |-> {A, <<"proc">>}, link |-> << >>,
     host |-> {A, AB, AS, C}, submount |-> {AS}, canonical |-> << >>,
     cwd |-> <<>>, userKnown |-> TRUE, invocation |-> "Pid2Pipe", register |-> FALSE,
     orphans |-> 0, mayTerm |-> FALSE]

\* Every nesting of inputs, platform paths and outputs, over every kind of root.
Nested ==
    {[Plain EXCEPT !.backend = be, !.ephemeral = root.ephemeral, !.sealed = root.sealed,
                   !.inputs = IntoBinds(i), !.platform = IntoBinds(p), !.outputs = IntoBinds(o),
                   !.tmpfs = t] :
        be \in {"unshare", "nspawn"},
        root \in {r \in [ephemeral : BOOLEAN, sealed : BOOLEAN] : r.ephemeral => r.sealed},
        i \in SUBSET {A, AB}, p \in SUBSET {A, AB}, o \in SUBSET {A, AB, C},
        t \in {{}, {A}, {C}}}

\* Destinations other than their sources, symlinks on either side, overlays, a devtmpfs, and the
\* settings and errors that end the set-up.
Unusual ==
    {[Plain EXCEPT !.backend = be, !.ephemeral = e, !.readonly = ro, !.devtmpfs = {<<"dev">>},
                   !.outputs = [d \in {L} |-> C], !.inputs = [d \in {H} |-> A], !.link = l,
                   !.canonical = c, !.overlays = ov, !.cwd = w] :
        be \in {"unshare", "nspawn"}, e \in BOOLEAN, ro \in BOOLEAN,
        l \in {<< >>, [d \in {L} |-> AB]},
        c \in {<< >>, [d \in {A} |-> C], [d \in {C} |-> AB], [d \in {C} |-> H]},
        ov \in {{}, {A}, {H}}, w \in {<<>>, C}}
    \cup {[Plain EXCEPT !.userKnown = FALSE], [Plain EXCEPT !.register = TRUE],
          [Plain EXCEPT !.invocation = "BootReadOnly"], [Plain EXCEPT !.invocation = "Pid2Interactive"],
          [Plain EXCEPT !.backend = "nspawn", !.devtmpfs = {A, C}]}

\* A command that leaves two processes behind, and a caller that may terminate the container.
Supervised == {[Plain EXCEPT !.orphans = 2, !.mayTerm = t] : t \in BOOLEAN}

MCContainerJobs == Nested \cup Unusual \cup Supervised

Line(user, start, len) == [user |-> user, start |-> start, len |-> len]

MCAccounts ==
    {[uid |-> u, gid |-> 7, name |-> 1, subuid |-> su, subgid |-> sg] :
        u \in {0, 5},
        su \in {<<Line(ByName(1), 100, 4)>>,
                <<Line(ById(5), 20, 2), Line(ByName(2), 30, 4), Line(ByName(1), 40, 4)>>,
                <<Line(ByName(2), 30, 4)>>},
        sg \in {<<Line(ById(5), 60, 8), Line(ById(5), 70, 4)>>,
                <<Line(ByName(1), 60, 8)>>,
                <<Line(ByName(1), 80, 4)>>}}

Vm ==
    [entry |-> "run", flags |-> {}, cmd |-> << >>, expectFailure |-> FALSE, postmortem |-> FALSE,
     artifacts |-> TRUE, sidecars |-> FALSE, disks |-> 1, platform |-> {"repo"}, outputs |-> {},
     devicesFail |-> FALSE]

\* Every mode with and without a timeout, a first boot, sidecars and an expected failure.
Booted ==
    {[Vm EXCEPT !.flags = f \cup g, !.cmd = c, !.sidecars = s, !.expectFailure = x] :
        f \in SUBSET {"timeout-secs", "first-boot-command"},
        g \in {{}, {"console"}, {"container"}}, c \in {<< >>, <<"prog">>}, s \in BOOLEAN, x \in BOOLEAN}

AfterTheVm ==
    {[Vm EXCEPT !.entry = e, !.flags = f \cup {"timeout-secs"}, !.cmd = c, !.postmortem = TRUE,
                !.expectFailure = x] :
        e \in {"run", "isolate", "test"}, f \in SUBSET {"console-output-file"},
        c \in {<< >>, <<"rust", "prog">>}, x \in BOOLEAN}

Equipped ==
    {[Vm EXCEPT !.disks = d, !.platform = p, !.outputs = o, !.devicesFail = f] :
        d \in 0..7, p \in SUBSET {"repo", "fb"}, o \in SUBSET {"repo", "out"}, f \in BOOLEAN}

Respawned ==
    {[Vm EXCEPT !.entry = e, !.flags = f, !.cmd = c, !.artifacts = a] :
        e \in {"isolate", "test"}, a \in BOOLEAN,
        f \in SUBSET {"timeout-secs", "console", "output-dirs", "container"},
        c \in {<< >>, <<"prog">>, <<"rust", "prog">>, <<"rust", "--list">>, <<"custom", "console">>,
               <<"console">>, <<"-x", "console">>}}

MCVmJobs == Booted \cup AfterTheVm \cup Equipped \cup Respawned

=============================================================================
