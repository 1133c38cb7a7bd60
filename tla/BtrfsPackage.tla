---------------------------- MODULE BtrfsPackage ----------------------------
(***************************************************************************)
(* btrfs_packager: an image file with a btrfs filesystem that holds the    *)
(* received subvolumes, made through a loop device and a mount, shrunk and *)
(* truncated.  Sizes are in units of about 27 MiB.                         *)
(***************************************************************************)
EXTENDS Naturals, Sequences, FiniteSets, SequencesExt, FiniteSetsExt, Functions, TLC

CONSTANTS PackageSpecs,    \* the BtrfsSpecs: subvols, default, free, seed
          PackageFaults,   \* how many calls may fail
          AttachAttempts   \* how often attaching is tried again (10 in the code)

VARIABLES
    bspec,   \* the BtrfsSpec
    bstage,  \* where make_btrfs_package is; "ok" or "failed" at the end
    image,   \* the image file and the filesystem in it: file, fs, used, default, seed
    held,    \* what the process holds: the loop device, the mount, the temporary directory
    tree,    \* the subvolumes at their paths and whether they are read-only, and plain directories
    todo,    \* the subvolumes still to receive, or to set the flag of, in order
    shrink,  \* shrink_fs: the size of the last iteration and what btrfs reported
    tries,   \* attempts to attach a loop device
    faults   \* calls that failed, and whether an unmount or a detach was among them
packageVars == <<bspec, bstage, image, held, tree, todo, shrink, tries, faults>>

MIN_CREATE_BYTES == 4
MIN_FREE_BYTES == 3
MIN_SHRINK_BYTES == 9
NoSize == 0
NoDefault == <<"none">>
Up(path) == SubSeq(path, 1, Len(path) - 1)

PackageInit(specs) ==
    /\ bspec \in specs
    /\ bstage = "estimate"
    /\ image = [file |-> 0, fs |-> 0, used |-> 0, default |-> << >>, seed |-> FALSE]
    /\ held = [loop |-> FALSE, mount |-> FALSE, dir |-> FALSE]
    /\ tree = [subs |-> << >>, dirs |-> {<< >>}]
    /\ todo = << >>
    /\ shrink = [prev |-> NoSize, reported |-> NoSize]
    /\ tries = 0
    /\ faults = [count |-> 0, release |-> FALSE, reason |-> "none"]

Go(stage) == bstage' = stage /\ UNCHANGED faults

\* Faulty variant of FirstDropped: the loop device goes before the mount.
LoopFirst == "unwind_loop"

FirstDropped == "unwind_mount"
\* An error returns from make_btrfs_package: what is held is dropped, last first.
ErrorReturn(why) ==
    /\ bstage' = FirstDropped
    /\ faults' = [faults EXCEPT !.count = @ + (IF why = "call" THEN 1 ELSE 0), !.reason = why]
\* Whether the stage makes a call that may fail; that of umount and detach is their own.
MakesCall ==
    CASE bstage \in {"receive", "seal"} -> todo # << >>
      [] bstage = "attach" -> tries = 0
      [] bstage = "default" -> bspec.default # NoDefault
      [] bstage = "seed" -> bspec.seed
      [] bstage = "truncate" -> shrink.prev # NoSize
      [] OTHER -> bstage \in {"estimate", "mkfs", "mount", "place", "shrink", "resize"}
CallFails ==
    /\ faults.count < PackageFaults /\ MakesCall
    /\ ErrorReturn("call")
    /\ UNCHANGED <<bspec, image, held, tree, todo, shrink, tries>>

\* estimate_subvol_size and estimate_loopback_device_size; the sums are rounded down.
Subvols == DOMAIN bspec.subvols
SubvolEstimate == MapThenSumSet(LAMBDA p : bspec.subvols[p].size + (bspec.subvols[p].size \div 5), Subvols)
DeviceSize == LET desired == SubvolEstimate + MIN_FREE_BYTES + bspec.free IN Max({MIN_CREATE_BYTES, desired + (desired \div 5)})
\* The paths in the order of their names; what has a common start is in its order of length.
InPathOrder(s) == \A i, j \in DOMAIN s : (s[i] # s[j] /\ IsPrefix(s[i], s[j])) => i < j
CreateEmptyFile ==
    /\ bstage = "estimate"
    /\ image' = [image EXCEPT !.file = DeviceSize]
    /\ todo' \in {s \in SetToSeqs(Subvols) : InPathOrder(s)}
    /\ Go("mkfs")
    /\ UNCHANGED <<bspec, held, tree, shrink, tries>>
CreateBtrfs ==
    /\ bstage = "mkfs"
    /\ image' = [image EXCEPT !.fs = image.file]
    /\ Go("attach")
    /\ UNCHANGED <<bspec, held, tree, todo, shrink, tries>>
\* LdHandle::attach_next_free: another process may take the free device first.
AttachNextFree ==
    /\ bstage = "attach"
    /\ \/ /\ held' = [held EXCEPT !.loop = TRUE] /\ UNCHANGED tries
          /\ Go("mount")
       \/ /\ tries < AttachAttempts /\ tries' = tries + 1
          /\ UNCHANGED <<held, bstage, faults>>
       \/ /\ tries = AttachAttempts /\ UNCHANGED <<held, tries>>
          /\ ErrorReturn("no_device")
    /\ UNCHANGED <<bspec, image, tree, todo, shrink>>
MountOutput ==
    /\ bstage = "mount"
    /\ held' = [held EXCEPT !.mount = TRUE, !.dir = TRUE]
    /\ Go("receive")
    /\ UNCHANGED <<bspec, image, tree, todo, shrink, tries>>

\* Writing below a path needs the subvolume it is in to be writable.
Writable(path) ==
    LET above == {k \in 0 .. Len(path) - 1 : SubSeq(path, 1, k) \in DOMAIN tree.subs}
    IN  above = {} \/ ~tree.subs[SubSeq(path, 1, Max(above))].ro
\* receive_subvol: btrfs receive into a temporary directory.  What the subvolume needs on
\* disk is little, half of the device or more than there is.
ReceiveSubvol ==
    /\ bstage = "receive" /\ todo # << >>
    /\ \E need \in {1, image.fs \div 2, image.fs + 1} :
           IF image.used + need > image.fs
           THEN ErrorReturn("no_room") /\ UNCHANGED image
           ELSE image' = [image EXCEPT !.used = @ + need] /\ Go("place")
    /\ UNCHANGED <<bspec, held, tree, todo, shrink, tries>>
\* The rest of receive_subvol: the parents are made, the subvolume is made writable and
\* moved to its path.
ReceivedAs(path) == FALSE
PlaceSubvol ==
    /\ bstage = "place"
    /\ LET p == Head(todo)
           parents == {SubSeq(p, 1, k) : k \in 1 .. Len(p) - 1} \ (DOMAIN tree.subs)
       IN  IF Writable(p) /\ p \notin tree.dirs
           THEN /\ tree' = [subs |-> (p :> [ro |-> ReceivedAs(p)]) @@ tree.subs, dirs |-> tree.dirs \cup parents]
                /\ todo' = Tail(todo)
                /\ Go("receive")
           ELSE ErrorReturn("no_place") /\ UNCHANGED <<tree, todo>>
    /\ UNCHANGED <<bspec, image, held, shrink, tries>>
AllReceived ==
    /\ bstage = "receive" /\ todo = << >>
    /\ todo' \in {s \in SetToSeqs(Subvols) : InPathOrder(s)}
    /\ Go("seal")
    /\ UNCHANGED <<bspec, image, held, tree, shrink, tries>>
SealedAs(path) == ~bspec.subvols[path].writable
SetReadonly ==
    /\ bstage = "seal"
    /\ IF todo = << >> THEN Go("default") /\ UNCHANGED <<tree, todo>>
       ELSE /\ tree' = [tree EXCEPT !.subs[Head(todo)].ro = SealedAs(Head(todo))]
            /\ todo' = Tail(todo)
            /\ UNCHANGED <<bstage, faults>>
    /\ UNCHANGED <<bspec, image, held, shrink, tries>>
SetDefault ==
    /\ bstage = "default"
    /\ IF bspec.default = NoDefault THEN Go("shrink") /\ UNCHANGED image
       ELSE IF bspec.default # << >> /\ bspec.default \notin DOMAIN tree.subs THEN ErrorReturn("no_default") /\ UNCHANGED image
       ELSE image' = [image EXCEPT !.default = bspec.default] /\ Go("shrink")
    /\ UNCHANGED <<bspec, held, tree, todo, shrink, tries>>

\* btrfs reports any minimum that holds what is used, and may report more than the size it
\* was shrunk to.
Reports == Max({1, image.used}) .. image.fs + (IF shrink.prev = NoSize THEN 0 ELSE 1)
ShrinkOnce ==
    /\ bstage = "shrink"
    /\ \E r \in Reports :
           LET new == r + bspec.free
           IN  IF (shrink.prev # NoSize /\ r > shrink.prev) \/ new < MIN_SHRINK_BYTES
               THEN Go("umount") /\ UNCHANGED shrink
               ELSE shrink' = [shrink EXCEPT !.reported = r] /\ Go("resize")
    /\ UNCHANGED <<bspec, image, held, tree, todo, tries>>
\* With free space to add, the filesystem may grow again, but not past its device.
StopShrinkingAt(new) == new = shrink.prev
Resize ==
    /\ bstage = "resize"
    /\ LET new == shrink.reported + bspec.free
       IN  IF new > image.file THEN ErrorReturn("no_fit") /\ UNCHANGED <<image, shrink>>
           ELSE /\ image' = [image EXCEPT !.fs = new]
                /\ shrink' = [shrink EXCEPT !.prev = new]
                /\ Go(IF StopShrinkingAt(new) THEN "umount" ELSE "shrink")
    /\ UNCHANGED <<bspec, held, tree, todo, tries>>

\* An unmount or detach that fails.
ReleaseFails(next) ==
    /\ faults.count < PackageFaults
    /\ bstage' = next
    /\ faults' = [faults EXCEPT !.count = @ + 1, !.release = TRUE, !.reason = IF @ = "none" THEN "call" ELSE @]
    /\ UNCHANGED held
Umount ==
    /\ bstage = "umount"
    /\ \/ held' = [held EXCEPT !.mount = FALSE] /\ Go("seed")
       \/ ReleaseFails("unwind_mount")
    /\ UNCHANGED <<bspec, image, tree, todo, shrink, tries>>
SetSeed ==
    /\ bstage = "seed"
    /\ image' = [image EXCEPT !.seed = bspec.seed]
    /\ Go("detach")
    /\ UNCHANGED <<bspec, held, tree, todo, shrink, tries>>
Detach ==
    /\ bstage = "detach"
    /\ \/ held' = [held EXCEPT !.loop = FALSE] /\ Go("truncate")
       \/ ReleaseFails("unwind_dir")
    /\ UNCHANGED <<bspec, image, tree, todo, shrink, tries>>
TruncatedSize == IF shrink.prev = NoSize THEN image.file ELSE shrink.prev
Truncate ==
    /\ bstage = "truncate"
    /\ image' = [image EXCEPT !.file = TruncatedSize]
    /\ held' = [held EXCEPT !.dir = FALSE]
    /\ Go("ok")
    /\ UNCHANGED <<bspec, tree, todo, shrink, tries>>

\* Drop of MountHandle, of the TempDir of the mountpoint and of LdHandle.  Removing the
\* directory of a filesystem that is still mounted removes what is in it.
UnwindMount ==
    /\ bstage = "unwind_mount"
    /\ \/ held' = [held EXCEPT !.mount = FALSE] /\ Go("unwind_dir")
       \/ held.mount /\ ReleaseFails("unwind_dir")
    /\ UNCHANGED <<bspec, image, tree, todo, shrink, tries>>
UnwindDir ==
    /\ bstage = "unwind_dir"
    /\ held' = [held EXCEPT !.dir = held.mount]
    /\ tree' = IF held.mount THEN [subs |-> << >>, dirs |-> {<< >>}] ELSE tree
    /\ Go("unwind_loop")
    /\ UNCHANGED <<bspec, image, todo, shrink, tries>>
UnwindLoop ==
    /\ bstage = "unwind_loop"
    /\ \/ ~held.mount /\ held' = [held EXCEPT !.loop = FALSE] /\ Go("failed")
       \/ held.loop /\ ReleaseFails("failed")
       \/ held.mount /\ UNCHANGED held /\ Go("failed")
    /\ UNCHANGED <<bspec, image, tree, todo, shrink, tries>>

PackageNext ==
    \/ CallFails \/ CreateEmptyFile \/ CreateBtrfs \/ AttachNextFree \/ MountOutput
    \/ ReceiveSubvol \/ PlaceSubvol \/ AllReceived \/ SetReadonly \/ SetDefault
    \/ ShrinkOnce \/ Resize \/ Umount \/ SetSeed \/ Detach \/ Truncate
    \/ UnwindMount \/ UnwindDir \/ UnwindLoop

-----------------------------------------------------------------------------
(* The image file is never shorter than the filesystem in it, whatever sizes btrfs
   reports in the shrink loop, and the finished one has room for what is used and the
   free space asked for unless btrfs would not shrink.  shrink_fs, make_btrfs_package. *)
ImageHoldsFs ==
    /\ image.fs <= image.file
    /\ bstage = "ok" => image.used <= image.fs /\ (shrink.prev # NoSize => image.file >= image.used + bspec.free)

(* A finished image has every subvolume of the spec at its path, with the read-only flag
   the spec asks for, also those nested in read-only ones, a default subvolume that
   exists, and is a seed device if the spec says so.  receive_subvols sets the flags when
   all are in place. *)
SubvolsPlaced ==
    bstage = "ok" =>
        /\ DOMAIN tree.subs = Subvols
        /\ \A p \in Subvols : tree.subs[p].ro = ~bspec.subvols[p].writable
        /\ image.default = << >> \/ image.default \in Subvols
        /\ image.seed = bspec.seed

(* When the packager ends, on any path, nothing is mounted and no loop device is attached
   unless an unmount or a detach itself failed, and the contents of the image are never
   deleted through the mount unless the unmount failed.  Drop of MountHandle, TempDir and
   LdHandle, in that order. *)
ResourcesReleased ==
    /\ bstage \in {"ok", "failed"} => faults.release \/ held = [loop |-> FALSE, mount |-> FALSE, dir |-> FALSE]
    /\ (held.loop = FALSE) => ~held.mount

(* Packaging fails only when a call fails, no loop device is free, there is no room, the
   default subvolume does not exist or the free space does not fit the device; never
   because of how subvolumes nest.  make_btrfs_package. *)
PackagingFailsOnlyFor ==
    bstage = "failed" =>
        /\ faults.reason \in {"call", "no_device", "no_room", "no_default", "no_fit"}
        /\ faults.reason = "no_default" => bspec.default \notin {NoDefault, << >>} \cup Subvols
        /\ faults.reason = "no_fit" => bspec.free > 0

(* A package that make_btrfs_package finishes holds what its spec asks for, and one it gives
   up has a reason and leaves nothing behind. *)
PackageIsWhole == ImageHoldsFs /\ SubvolsPlaced /\ ResourcesReleased /\ PackagingFailsOnlyFor
=============================================================================
