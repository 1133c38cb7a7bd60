---------------------------- MODULE MCImageBuild ----------------------------
(***************************************************************************)
(* Layers for ImageBuild: a base, and on it every set of at most           *)
(* MaxFeatures features of a pool, followed by later phases.               *)
(***************************************************************************)
EXTENDS ImageBuild

CONSTANT MaxFeatures

D(dir, mode, user) == [type |-> "ensure_dir_exists", dir |-> dir, mode |-> mode, user |-> user, group |-> "root"]
L(link, target) == [type |-> "symlink", link |-> link, target |-> target, is_directory |-> TRUE,
                    unsafe_dangling_symlink |-> FALSE]
I(dst, data) == [type |-> "install", dst |-> dst, mode |-> "755", user |-> "root", group |-> "root",
                 by_id |-> FALSE, tree |-> << >>, data |-> data, binary |-> "no", buildid |-> Root,
                 debuglink |-> FALSE, debug |-> Root, dwp |-> "", lib_dir |-> Root, libs |-> << >>]
Rooted(type, mode) == IF type = "dir" THEN Dir(mode, "root", "root") ELSE File(mode, "root", "root", "t")
T(rel, type) == [rel |-> rel, entry |-> Rooted(type, "755"), under |-> TRUE]
Rm(path) == [type |-> "remove", path |-> path, must_exist |-> TRUE, must_be_empty |-> FALSE]

Etc == <<D(<<"etc">>, "755", "root"),
         [I(PasswdPath, "") EXCEPT !.data = {"root"}],
         [I(GroupPath, "") EXCEPT !.data = [g \in {"root"} |-> {}]]>>
User == [type |-> "user", username |-> "u", groups |-> {"g"}, home_dir |-> <<"d">>, shell |-> <<"d", "f">>]
Group == [type |-> "group", groupname |-> "g"]

Clone == [type |-> "clone", dst |-> <<"d", "c">>, pre_existing_dest |-> FALSE, omit_outer_dir |-> FALSE,
          name |-> "c", usergroup |-> FALSE, user |-> "root", group |-> "root",
          tree |-> <<T(<< >>, "dir"), T(<<"f">>, "file")>>,
          facts |-> <<T(<< >>, "dir"), [T(<< >>, "file") EXCEPT !.under = FALSE], T(<<"f">>, "file")>>]
Tar(dir, strip) == [type |-> "tarball", into_dir |-> dir, strip_components |-> strip,
                    tree |-> <<T(<<"p">>, "dir"), T(<<"p", "f">>, "file")>>]
Lib(data) == [dst |-> <<"k", "lib">>, data |-> data]
Extract(dst, real, lib) == [type |-> "extract", binaries |-> <<[dst |-> dst, real |-> real, data |-> "bin"]>>,
                            libs |-> <<Lib(lib)>>]
Genrule(mount, add, del) == [type |-> "genrule", mounts |-> {mount},
                             effects |-> {[add |-> add, del |-> {}, success |-> TRUE],
                                          [add |-> {}, del |-> del, success |-> TRUE],
                                          [add |-> {}, del |-> {}, success |-> FALSE]}]
DotMeta == [type |-> "dot_meta", target |-> "label", revision |-> "rev", package |-> "pkg"]

\* Directories, symlinks to them and files below.
Paths == <<D(<<"d">>, "755", "root"), D(<<"d">>, "700", "root"), D(<<"d", "s">>, "755", "root"),
          D(<<"l", "s">>, "755", "root"),
          L(<<"l">>, Abs(<<"d">>)), L(<<"m">>, Rel(<<"l">>)), L(<<"d", "r">>, Rel(<<"..", "l">>)),
          I(<<"d", "f">>, "a"), I(<<"d", "f">>, "b"), I(<<"l", "f">>, "a"), I(<<"l", "s", "f">>, "a"),
          [type |-> "requires", files |-> {<<"l">>}, users |-> {}, groups |-> {}]>>
\* Features that need what is in BaseD.
Others == <<User, Group, [I(<<"d", "w">>, "a") EXCEPT !.user = "u", !.group = "g"],
           [type |-> "usermod", username |-> "u", groups |-> {"root", "g"}],
           [type |-> "hardlink", link |-> <<"h">>, target |-> <<"d", "f">>],
           [type |-> "mount", mountpoint |-> <<"d", "m">>, is_directory |-> TRUE],
           [type |-> "mount", mountpoint |-> <<"n">>, is_directory |-> FALSE],
           [type |-> "requires", files |-> {<<"d", "c", "f">>}, users |-> {"u"}, groups |-> {"g"}],
           [I(<<"t">>, "") EXCEPT !.tree = <<T(<< >>, "dir"), T(<<"s">>, "dir"),
                [rel |-> <<"s", "l">>, entry |-> Link(Rel(<<"..">>))]>>],
           Clone, [Clone EXCEPT !.dst = <<"d">>, !.pre_existing_dest = TRUE],
           [Clone EXCEPT !.omit_outer_dir = TRUE, !.pre_existing_dest = TRUE, !.usergroup = TRUE],
           Tar(<<"d">>, 0), Tar(<<"k">>, 1),
           Extract(<<"d", "b">>, <<"d", "b">>, "v1"), Extract(<<"b">>, <<"b">>, "v2"),
           Extract(<<"d", "e">>, <<"d", "f">>, "v1"),
           [I(<<"d", "dev">>, "a") EXCEPT !.binary = "dev"],
           [I(Append(DebugDir, "dev"), "a") EXCEPT !.binary = "dev"],
           [I(<<"d", "x">>, "a") EXCEPT !.binary = "installed", !.buildid = <<"usr", "lib", "debug", "id", "x">>],
           [I(<<"d", "y">>, "a") EXCEPT !.binary = "installed", !.debuglink = TRUE, !.debug = <<"d", "y.debug">>, !.dwp = "y.debug.dwp",
                                        !.lib_dir = <<"d", "lib">>, !.libs = <<"so">>]>>

BaseD == <<D(<<"d">>, "755", "root"), I(<<"d", "f">>, "a")>>
After == {<<Rm(<<"d">>)>>, <<[Rm(<<"k">>) EXCEPT !.must_exist = FALSE]>>,
          <<[Rm(<<"d">>) EXCEPT !.must_be_empty = TRUE]>>,
          <<Genrule(<<"i", "j">>, {<<"i", "x">>}, {<<"d">>})>>,
          <<Genrule(<<"i", "j">>, {<<"l">>}, {<<"i">>})>>, <<DotMeta>>,
          <<[Genrule(<<"i", "j">>, {}, {}) EXCEPT !.effects = {e \in @ : e.success}]>>}
\* The subsequences of at most n elements.
AtMost(n, s) ==
    UNION {{[x \in 1 .. k |-> s[t[x]]] :
              t \in {t \in [1 .. k -> 1 .. Len(s)] : \A x \in 1 .. k - 1 : t[x] < t[x + 1]}} : k \in 1 .. n}

LayersMC == {<<Etc, S>> : S \in AtMost(MaxFeatures, Paths)}
            \cup {<<Etc \o BaseD, S>> : S \in AtMost(MaxFeatures - 1, Others)}
            \cup {<<Etc \o BaseD, A, S>> : A \in After, S \in AtMost(1, Paths \o Others \o <<D(<<"i", "x">>, "755", "root")>>)}
            \cup {<<<<D(<<"d">>, "755", "root")>>, A, S>> :
                    A \in {<<L(<<"l">>, Abs(<<"d">>)), I(<<"l", "f">>, "a")>>,
                          <<L(<<"l">>, Rel(<<"m">>)), L(<<"m">>, Rel(<<"l">>))>>},
                    S \in AtMost(1, Paths)}
            \cup {<<Etc, <<[Clone EXCEPT !.facts = << >>]>>>>}
=============================================================================
