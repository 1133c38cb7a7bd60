---------------------------- MODULE LayerFormats ----------------------------
(***************************************************************************)
(* Writing a layer in one of the formats and reading it back: the change   *)
(* stream and the OCI layer made of it, the userspace sendstream in full   *)
(* and against a parent, CasDir and an overlayfs layer.  A behaviour does  *)
(* one format for one pair of trees; directories are listed in any order.  *)
(***************************************************************************)
EXTENDS ChangeStream, UserspaceSendstream, LayerStorage

CONSTANT Jobs \* the formats and the pairs of trees, <<format, old, new>>

VARIABLES job,     \* the format, the old (or parent) and the new tree
          phase,   \* "write", "remove", "read" or "done"
          work,    \* the stack of the stack machine, or of the directory walk
          layer,   \* make_oci_layer: the entries and whiteouts
          inodes,  \* the first path of each inode met in the walk, or hydrated
          stored,  \* CasDir, overlayfs: the manifest and the files
          result,  \* the tree of the receiver
          outcome  \* "running", "ok" or "failed"
formatVars == <<job, phase, work, layer, inodes, stored, result, outcome>>

format == job[1]
old == job[2]
new == job[3]
NothingStored == [manifest |-> << >>, files |-> << >>]
FormatInit(jobs) ==
    /\ job \in jobs
    /\ phase = IF format = "none" THEN "done" ELSE "write"
    /\ work = IF format = "stream" THEN <<CompareTree(Top)>> ELSE <<Top>>
    /\ layer = EmptyLayer
    /\ inodes = << >>
    /\ stored = NothingStored
    /\ result = IF format \in {"stream", "incremental"} THEN old ELSE EmptyTree
    /\ outcome = "running"

Finish(how) == phase' = "done" /\ outcome' = how
Listings(tree, path) == IF IsDirAt(tree, path) THEN SetToSeqs(Below(tree, path)) ELSE {<< >>}

-----------------------------------------------------------------------------
\* The stack machine; each change it yields is taken by the consumer.
Yield ==
    /\ format = "stream" /\ phase = "write"
    /\ work # << >> /\ Last(work).do = "change"
    /\ work' = Front(work)
    /\ result' = Apply(result, Last(work).change)
    /\ layer' = Collect(layer, Last(work).change)
    /\ UNCHANGED <<job, phase, inodes, stored, outcome>>
PopInstruction ==
    /\ format = "stream" /\ phase = "write"
    /\ work # << >> /\ Last(work).do # "change"
    /\ IF Unsupported(new, Last(work))
       THEN Finish("failed") /\ UNCHANGED work
       ELSE /\ \E o \in Listings(old, Last(work).path), n \in Listings(new, Last(work).path) :
                   work' = Front(work) \o Expand(old, new, Last(work), o, n)
            /\ UNCHANGED <<phase, outcome>>
    /\ UNCHANGED <<job, layer, inodes, stored, result>>
\* make_oci_layer cannot send an entry with no contents that is no file, directory or symlink.
WriteOciLayer ==
    /\ format = "stream" /\ phase = "write" /\ work = << >>
    /\ Finish(IF \E p \in DOMAIN layer.entries : layer.entries[p].contents = "unset" /\ Stat(new, p).type \notin {"file", "dir", "symlink"}
              THEN "failed" ELSE "ok")
    /\ UNCHANGED <<job, work, layer, inodes, stored, result>>

-----------------------------------------------------------------------------
Sending == format \in {"sendstream", "incremental"}
Incremental == format = "incremental"
SendEntry ==
    /\ Sending /\ phase = "write" /\ work # << >>
    /\ LET p == Head(work)
           ino == new.names[p]
       IN  IF Incremental /\ CannotLookUp(old, p)
           THEN Finish("failed") /\ UNCHANGED <<work, inodes, result>>
           ELSE IF ino \in DOMAIN inodes
           THEN /\ result' = ApplyAll(result, LinkCommands(Incremental, old, new, p, inodes[ino]))
                /\ work' = Tail(work)
                /\ UNCHANGED <<phase, outcome, inodes>>
           ELSE IF CannotSend(Incremental, old, new, p)
           THEN Finish("failed") /\ UNCHANGED <<work, inodes, result>>
           ELSE /\ inodes' = (ino :> p) @@ inodes
                /\ result' = ApplyAll(result, EntryCommands(Incremental, old, new, p))
                /\ \E listing \in Listings(new, p) : work' = listing \o Tail(work)
                /\ UNCHANGED <<phase, outcome>>
    /\ UNCHANGED <<job, layer, stored>>
\* Paths of the parent that were not met in the walk, contents before their directory.
Stale == {p \in Paths(old) \ Paths(new) : Has(result, p)}
SendRemoval ==
    /\ Sending /\ phase = "write" /\ work = << >> /\ result.ok
    /\ Incremental /\ Stale # {}
    /\ \E p \in Stale :
           /\ ~\E q \in Stale : ParentOf(q) = p
           /\ result' = Apply(result, RemovalCommand(old, p))
    /\ UNCHANGED <<job, phase, work, layer, inodes, stored, outcome>>
SendEnd ==
    /\ Sending /\ phase = "write" /\ work = << >>
    /\ (Incremental /\ result.ok) => Stale = {}
    /\ Finish("ok")
    /\ UNCHANGED <<job, work, layer, inodes, stored, result>>

-----------------------------------------------------------------------------
Remember(path, entry, isFile) ==
    stored' = [manifest |-> (path :> entry) @@ stored.manifest,
               files |-> IF isFile THEN (path :> Stat(new, path).data) @@ stored.files ELSE stored.files]
\* CasDir::dehydrate leaves the top directory out.
Dehydrate ==
    /\ format = "cas_dir" /\ phase = "write" /\ work # << >>
    /\ LET p == Head(work)
       IN  IF CannotDehydrate(new, p)
           THEN Finish("failed") /\ UNCHANGED <<work, stored>>
           ELSE /\ \E listing \in Listings(new, p) : work' = listing \o Tail(work)
                /\ IF p = Top THEN UNCHANGED stored ELSE Remember(p, PathEntry(new, p), TRUE)
                /\ UNCHANGED <<phase, outcome>>
    /\ UNCHANGED <<job, layer, inodes, result>>
\* Manifest::from_directory and data_dir::mangle, of one entry.
DehydrateUpper ==
    /\ format = "overlay" /\ phase = "write" /\ work # << >>
    /\ IF Stat(new, Head(work)).type = "socket"
       THEN Finish("failed") /\ UNCHANGED <<work, stored>>
       ELSE /\ \E listing \in Listings(new, Head(work)) : work' = listing \o Tail(work)
            /\ Remember(Head(work), DirEntry(new, Head(work)), Stat(new, Head(work)).type = "file")
            /\ UNCHANGED <<phase, outcome>>
    /\ UNCHANGED <<job, layer, inodes, result>>
\* The manifest of a CasDir is sorted by path; any order with parents first does.
StartReading ==
    /\ format \in {"cas_dir", "overlay"} /\ phase = "write" /\ work = << >>
    /\ phase' = IF format = "overlay" THEN "unmangle" ELSE "read"
    /\ UNCHANGED <<job, work, layer, inodes, stored, result, outcome>>
UnmangleFile ==
    /\ phase = "unmangle"
    /\ IF stored.files = << >> THEN phase' = "read" /\ UNCHANGED <<stored, result>>
       ELSE \E p \in DOMAIN stored.files :
                /\ result' = Unmangle(result, p, stored.files[p])
                /\ stored' = [stored EXCEPT !.files = Restrict(@, DOMAIN @ \ {p})]
                /\ UNCHANGED phase
    /\ UNCHANGED <<job, work, layer, inodes, outcome>>
Readable == {p \in DOMAIN stored.manifest : p = Top \/ ParentOf(p) \notin DOMAIN stored.manifest}
ReadEntry ==
    /\ phase = "read" /\ Readable # {}
    /\ \E p \in Readable :
           LET entry == stored.manifest[p]
           IN  /\ stored' = [stored EXCEPT !.manifest = Restrict(@, DOMAIN @ \ {p})]
               /\ IF format = "overlay"
                  THEN result' = FixEntry(result, p, entry) /\ UNCHANGED inodes
                  ELSE /\ result' = ApplyAll(result, HydrateCommands(entry, stored.files[p], p, inodes))
                       /\ inodes' = IF AlreadyHydrated(entry, inodes) THEN inodes ELSE (entry.ino :> p) @@ inodes
    /\ UNCHANGED <<job, phase, work, layer, outcome>>
ReadEnd ==
    /\ phase = "read" /\ Readable = {}
    /\ Finish("ok")
    /\ UNCHANGED <<job, work, layer, inodes, stored, result>>

FormatNext ==
    \/ Yield \/ PopInstruction \/ WriteOciLayer
    \/ SendEntry \/ SendRemoval \/ SendEnd
    \/ Dehydrate \/ DehydrateUpper \/ StartReading \/ UnmangleFile \/ ReadEntry \/ ReadEnd

-----------------------------------------------------------------------------
Completed(f) == format = f /\ outcome = "ok"
Both(p) == Has(old, p) /\ Has(new, p)
Kept(p) == Both(p) /\ Stat(old, p).type = Stat(new, p).type
Same(p, attribute) == Both(p) /\ Stat(old, p)[attribute] = Stat(new, p)[attribute]
Linked(tree, p) == Has(tree, p) /\ Cardinality(LinksOf(tree, p)) > 1
TypeIn(p, types) == Has(new, p) /\ Stat(new, p).type \in types
CapIn(tree, p) == Has(tree, p) /\ "cap" \in DOMAIN Stat(tree, p).xattrs
LosesCapability(p) == Kept(p) /\ CapIn(old, p) /\ ~CapIn(new, p)
Retargeted(p) == TypeIn(p, {"symlink"}) /\ Kept(p) /\ ~Same(p, "data")
SharedXattrs(p) == {x \in DOMAIN Stat(old, p).xattrs \cap DOMAIN Stat(new, p).xattrs : Stat(old, p).xattrs[x] = Stat(new, p).xattrs[x]}
LostXattrs(p) == DOMAIN Stat(old, p).xattrs \ DOMAIN Stat(new, p).xattrs
\* The attributes of the new tree for which a statement says whether they are lost.
Of(attributes, paths) == attributes \X paths
Unlinked == {p \in Paths(old) \cup Paths(new) : ~Linked(old, p) /\ ~Linked(new, p)}
Among(differences, paths) == {d \in differences : d[2] \in paths}

(* Applying the change stream to the old tree gives the new one, as Iter::diff says it does
   ("can be used to convert `old` to `new`", iter.rs:22), except exactly for: an mtime that
   is the same in both of what is written or gets other entries; the xattrs of new
   directories; owner and xattrs of a retargeted symlink where they stayed the same;
   set-user-ID bits and capabilities that the chown after them drops, and capabilities that
   new contents drop.  A consumer fails exactly when it is to remove an xattr that is gone
   by then.  Names that share an inode are left out: no change is ever a hard link.
   run_to_completion, with contents that are whole (Vec<u8>). *)
StreamLoses(attribute, p) ==
    LET n == Stat(new, p)
    IN  CASE attribute = "mtime" ->
               /\ Kept(p) /\ Same(p, "mtime")
               /\ \/ ~Same(p, "data")
                  \/ \E q \in Below(old, p) \cup Below(new, p) : ~Kept(q) \/ Retargeted(q)
          [] attribute = "xattrs" ->
               \/ n.type = "dir" /\ ~Kept(p) /\ n.xattrs # NoXattrs
               \/ CapIn(new, p) /\ (~Kept(p) \/ ~Same(p, "owner") \/ (CapIn(old, p) /\ ~Same(p, "data")))
               \/ Retargeted(p) /\ SharedXattrs(p) # {}
          [] attribute = "owner" -> Retargeted(p) /\ Same(p, "owner") /\ n.owner # "root"
          [] attribute = "mode" -> n.type # "dir" /\ n.mode = "set" /\ ~(Kept(p) /\ Same(p, "owner"))
          [] OTHER -> FALSE
RemovesWhatIsGone(p) == Kept(p) /\ ~Same(p, "data") /\ (LosesCapability(p) \/ (Retargeted(p) /\ LostXattrs(p) # {}))
StreamConverts ==
    Completed("stream") =>
        /\ result.ok <=> ~\E p \in Paths(new) : RemovesWhatIsGone(p)
        /\ result.ok => Among(Differences(result, new), Unlinked)
                          = {d \in Of(Attributes, Paths(new) \cap Unlinked) : StreamLoses(d[1], d[2])}

(* Extracting the OCI layer over the old tree gives the new one but for mtimes, the top
   directory, and names that share an inode.  A changed entry should be sent whole ("any
   change must send the entire contents", make_oci_layer main.rs:194, and :138), but exactly
   this of it is lost: the xattrs that stayed the same, the mode of a directory and the
   owner of a directory or symlink where they stayed the same, the xattrs of a new directory,
   and, if append_file does not rewind, the contents of a file that was compared with one of
   the same length.  make_oci_layer, main. *)
Touched(p) == Kept(p) /\ \E a \in {"mode", "owner", "xattrs", "data"} : ~Same(p, a)
OciLoses(attribute, p, rewinds) ==
    LET n == Stat(new, p)
    IN  CASE attribute = "xattrs" -> \/ n.type = "dir" /\ ~Kept(p) /\ n.xattrs # NoXattrs
                                     \/ Touched(p) /\ SharedXattrs(p) # {}
          [] attribute = "mode" -> n.type = "dir" /\ Touched(p) /\ Same(p, "mode")
          [] attribute = "owner" -> n.type \in {"dir", "symlink"} /\ Touched(p) /\ Same(p, "owner") /\ n.owner # "root"
          [] attribute = "data" -> /\ n.type = "file" /\ Kept(p) /\ ~Same(p, "data")
                                   /\ Len(Stat(old, p).data) = Len(n.data) /\ ~rewinds
          [] OTHER -> FALSE
OciExtracts ==
    Completed("stream") => \A rewinds \in BOOLEAN :
        {d \in Among(Differences(Extract(old, new, layer, rewinds), new), Unlinked \ {Top}) : d[1] # "mtime"}
          = {d \in Of(Attributes, (Paths(new) \cap Unlinked) \ {Top}) : OciLoses(d[1], d[2], rewinds)}

(* Receiving a full userspace sendstream gives the layer in every attribute, hard links
   included, but the mtime of directories that got entries after it was set.
   sendstream/userspace/mod.rs, build. *)
SendstreamFaithful ==
    Completed("sendstream") =>
        result.ok /\ Differences(result, new) = {<<"mtime", p>> : p \in {p \in Paths(new) : Below(new, p) # {}}}

(* Receiving an incremental userspace sendstream over its parent gives the layer, except
   exactly for: xattrs that are new on an existing directory; set-user-ID bits and
   capabilities that the parent has too and that a chown or a write drops; xattrs that a
   retargeted symlink keeps; the type of an entry with one name that was of another type in
   the parent.
   Nothing more is said of an entry that changed its type, of what the file that took the
   place of a symlink is written to (the target of that symlink), of hard links that were
   rearranged, and of the mtimes of what the parent has.  A temporary link is left behind
   exactly when two names of one inode are names of one other inode in the parent, as
   renaming it over a name of its inode does nothing.  sendstream/userspace/mod.rs, build. *)
Retyped(p) == \E k \in 0 .. Len(p) : LET q == SubSeq(p, 1, k) IN Both(q) /\ ~Kept(q)
WrittenThrough(p) == \E q \in Paths(old) : Both(q) /\ ~Kept(q) /\ Stat(old, q).type = "symlink" /\ Through(old, q) = p
Group(tree, p) == IF Has(tree, p) THEN LinksOf(tree, p) ELSE {}
Rearranged(p) ==
    \/ Cardinality(Group(new, p)) > 1 /\ \E q \in Group(new, p) : Has(old, q) /\ (LinksOf(old, q) # Group(new, p) \/ old.names[q] # new.names[q])
    \/ \E q \in Group(old, p) \cap Paths(new) : p # q /\ Has(new, p) /\ ~SameInode(new, p, q)
IncrementalLoses(attribute, p) ==
    LET n == Stat(new, p)
    IN  CASE attribute = "xattrs" ->
               \/ n.type = "dir" /\ Both(p) /\ ~(DOMAIN n.xattrs \subseteq DOMAIN Stat(old, p).xattrs)
               \/ CapIn(old, p) /\ CapIn(new, p) /\ ~(Same(p, "owner") /\ Same(p, "data"))
               \/ Retargeted(p) /\ SharedXattrs(p) # {}
          [] attribute = "mode" -> n.type # "dir" /\ n.mode = "set" /\ Same(p, "mode") /\ ~Same(p, "owner")
          [] OTHER -> FALSE
LeavesLink ==
    \E p, q \in Paths(new) : /\ p # q /\ SameInode(new, p, q) /\ Has(old, p) /\ Has(old, q)
                             /\ SameInode(old, p, q) /\ old.names[p] # new.names[p]
IncrementalFaithful ==
    Completed("incremental") /\ result.ok =>
        LET judged == {p \in Paths(old) \cup Paths(new) : ~Retyped(p) /\ ~WrittenThrough(p) /\ ~Rearranged(p)}
            lost == Differences(result, new)
        IN  /\ {d \in Among(lost, judged) : d[1] # "mtime"}
                 = {d \in Of(Attributes, Paths(new) \cap judged) : IncrementalLoses(d[1], d[2])}
            /\ \A p \in Paths(new) : Both(p) /\ ~Kept(p) /\ ~Linked(new, p) => <<"type", p>> \in lost
            /\ \A p \in judged : <<"mtime", p>> \in lost => Has(old, p) \/ Below(new, p) # {}
            /\ Has(result, Tmp) <=> LeavesLink

(* A receiver refuses an incremental sendstream, or the packager gives up, only when an
   entry is neither file, directory nor symlink, it or a directory above it changed its
   type, or an xattr to remove was lost to an earlier command of the stream.
   sendstream/userspace/mod.rs, build. *)
SendsOrSaysWhy ==
    Sending /\ (outcome = "failed" \/ ~result.ok) =>
        \E p \in Paths(new) :
            \/ Retyped(p) \/ Stat(new, p).type \notin {"file", "dir", "symlink"}
            \/ LosesCapability(p) /\ ~(Same(p, "owner") /\ Same(p, "data"))
            \/ Retargeted(p) /\ LostXattrs(p) # {}

(* Hydrating a CasDir gives back paths, types, owners, file contents, link targets and hard
   links.  It should reproduce "all the filesystem metadata" (antlir2_cas_dir lib.rs:209),
   but loses exactly the xattrs and the set-user-ID bits of files, which the lchown after
   set_permissions drops; of mtimes and the top directory nothing is said.
   CasDir::dehydrate, CasDir::hydrate_into. *)
CasDirFaithful ==
    Completed("cas_dir") =>
        /\ result.ok
        /\ {d \in Among(Differences(result, new), Paths(new) \ {Top}) : d[1] # "mtime"}
             = {<<"xattrs", p>> : p \in {p \in Paths(new) \ {Top} : Stat(new, p).xattrs # NoXattrs}}
               \cup {<<"mode", p>> : p \in {p \in Paths(new) : Stat(new, p).type = "file" /\ Stat(new, p).mode = "set"}}

(* Mounting a finalized overlayfs layer gives back every entry with its type, contents and
   link target, and files and directories with their mode, xattrs and owner.  The manifest
   should transform a layer "losslessly" (antlir2_overlayfs manifest.rs:11), but exactly
   this is lost, but for mtimes: hard links, the owners and xattrs of what is neither file nor
   directory, what the umask takes from the mode of fifos and devices, and the mode of
   whiteouts.  OverlayFs::finalize and mount. *)
OverlayLoses(attribute, p) ==
    LET n == Stat(new, p)
    IN  CASE attribute = "links" -> Linked(new, p)
          [] attribute = "owner" -> n.type \notin {"dir", "file"} /\ n.owner # "root"
          [] attribute = "xattrs" -> n.type \notin {"dir", "file"} /\ n.xattrs # NoXattrs
          [] attribute = "mode" -> (n.type \in {"fifo", "device"} /\ n.mode = "open") \/ (n.type = "whiteout" /\ n.mode # "zero")
          [] OTHER -> FALSE
OverlayFaithful ==
    Completed("overlay") =>
        /\ result.ok
        /\ {d \in Differences(result, new) : d[1] # "mtime"}
             = {d \in Of(Attributes \cup {"links"}, Paths(new)) : OverlayLoses(d[1], d[2])}

(* What a chain of layers shows is what its newest layer says of each path: "left-to-right
   lowest-to-highest" (overlayfs.bzl:15).  OverlayFs::mount. *)
LayersStack == Completed("overlay") => Mounted(<<old, result>>, EmptyTree) = Stacked(<<old, result>>, EmptyTree)

(* The two consumers of a change stream: the operations of run_to_completion make the old
   tree the new one, and so does the layer that make_oci_layer folds them into, but for
   exactly the losses that StreamLoses and OciLoses list. *)
ChangeStreamFaithful == StreamConverts /\ OciExtracts

(* A userspace sendstream, full or incremental, gives its receiver the layer but for exactly
   the losses listed, or there is a reason for which it cannot be sent.
   sendstream/userspace/mod.rs, build. *)
SendstreamsFaithful == SendstreamFaithful /\ IncrementalFaithful /\ SendsOrSaysWhy

(* A layer that is stored as plain files and read back is the layer but for exactly the
   losses listed.  CasDir::dehydrate and hydrate_into, OverlayFs::finalize and mount. *)
StorageFaithful == CasDirFaithful /\ OverlayFaithful
=============================================================================
