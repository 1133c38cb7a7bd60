# Verification of antlir

antlir builds operating-system images.  Features are analysed and ordered
(depgraph), compiled into a btrfs subvolume, and published as the output of a
build target.  Finished layers are packaged, transported, run in containers and
booted in VMs.  `btrfs_send_stream_upgrade` rewrites a btrfs send stream from
version 1 to version 2 with a pipeline of threads.  This directory holds TLA+
models of the parts whose correctness depends on state and on the order of
steps, the TLC runs that check them on small instances, and TLAPS proofs of the
properties that matter most.

Run a model with `tlc -config X.cfg MODULE` and the proofs with
`tlapm MODULE.tla`.  `PROJECT.json` lists components, runs, theorems, hazards
and, for each definition, the source lines it stands for.  Paths below are
relative to `src/antlir/`; `upgrade/` stands for `btrfs_send_stream_upgrade/src/`.

## The system

Three groups of programs share nothing but files:

- **The upgrade** is the only part in which threads share memory.  A prefetcher
  fills the read-once cache, a reader takes command headers from it,
  constructors read the payloads and upgrade the commands, the batcher puts
  neighbouring writes together, compressors make one command of each batch, the
  writer persists.  Two kinds of blocking queue connect them.  A coordinator
  polls the threads, halts the primitives and tears the threads down.  With one
  thread a single loop does all of this.
- **The build of an image** goes phase by phase: `antlir2 depgraph` makes a
  graph of the features and of the facts of earlier phases, `antlir2 compile`
  applies the features in a topological order, `new_facts_db` records the
  image.  The subvolume is published in the working volume, where builds of
  other targets and the garbage collector are at work.
- **The tools on finished layers** each work alone: change stream and OCI layer,
  userspace sendstream, CAS directory, overlayfs, btrfs packager, sendstream
  parser, containers, user namespaces, VMs.

## Modules

Upgrade:

| module | models | source |
|---|---|---|
| `BlockingSyncPrimitive` | life-cycle state and condition variable of the three primitives; a condition variable is its wait set | `upgrade/mp/sync/` |
| `BlockingQueue` | abstract: what a caller of the `BlockingQueue` trait relies on | `upgrade/mp/sync/blocking_queue.rs` |
| `OrderedElementQueue`, `UnorderedElementQueue` | the two queues, one action per critical section | `upgrade/mp/sync/` |
| `ReadOnceBufferCache` | the cache with its prefetcher and readers, one action per critical section of either lock | `upgrade/mp/sync/read_once_buffer_cache.rs` |
| `SendCommand`, `CommandBatchInfo` | commands as pieces of the stream and their meaning; batches with `can_append`, `try_append`, the split and shared ids | `upgrade/mp/send_elements/` |
| `InOrderUpgrade` | abstract: what `SendStream::upgrade` promises | `upgrade/upgrade/send_stream.rs` |
| `SingleThreadedUpgrade` | the loop for one thread, statement by statement | `upgrade/upgrade/send_stream.rs` |
| `Coordinator` | `Coordinator::run`: polling, `halt_all`, teardown | `upgrade/mp/threads/coordinator.rs` |
| `UpgradePipeline` | all workers under the coordinator | `upgrade/mp/threads/` |
| `CommandBytes` | a command as its encoding, cached fields and dirty flag through parse, upgrade, append, truncate, copy, flush, compress, verify and persist | `upgrade/send_elements/` |
| `PadCommand` | `persist` with padding and `generate_pad_command` | `upgrade/send_elements/send_command.rs` |
| `ThreadCounts` | `Coordinator::get_thread_counts` | `upgrade/mp/threads/coordinator.rs` |
| `UpgradeParts` | unordered queue, cache, bytes, padding and counts side by side, one of them per behaviour | |

Build:

| module | models | source |
|---|---|---|
| `ImageFs` | the image being built: symlinks inside the root, `resolve_dst_path`, the file operations | `antlir2/antlir2_compile` |
| `Items` | items, requirements, validators, facts, `resolve` | `antlir2/antlir2_depgraph*`, `antlir2_facts` |
| `Features` | `provides`, `requires`, `compile` of every feature but rpm | `antlir2/features` |
| `ImageBuild` | graph builder, its checks, topological order, compile, next phase | `antlir2/antlir2_depgraph/src/lib.rs`, `antlir2/antlir2/src/cmd` |
| `LayerPublication` | compile, receive, send and materialize publishing subvolumes, with garbage collection | `antlir2/antlir2/src/cmd`, `antlir2_working_volume`, `antlir2_receive` |

Tools:

| module | models | source |
|---|---|---|
| `FileTree` | a file system as the tools see it, with the kernel's side effects on modes, capabilities and times | external |
| `ChangeStream` | the comparison of two trees as a stack machine, and `make_oci_layer` | `antlir2/antlir2_change_stream`, `antlir2_packager` |
| `UserspaceSendstream` | full and incremental sendstreams | `antlir2/antlir2_packager/src/sendstream/userspace` |
| `LayerStorage` | `CasDir`, the overlayfs manifest, the stack of layers | `antlir2/antlir2_cas_dir`, `antlir2_overlayfs` |
| `LayerFormats` | the four of them, written and read back | |
| `BtrfsPackage` | the btrfs packager with the failure of any call it makes on its way, and the drops that follow | `antlir2/antlir2_packager/btrfs_packager` |
| `SendstreamParser` | the wire format of the userspace commands, and the asynchronous parser | `antlir2/sendstream_parser` |
| `Container` | mounts of both back ends, pid1, exit status | `antlir2/antlir2_isolate` |
| `Userns` | choice of subordinate ids, the three processes of `unshare_new_userns` | `antlir2/antlir2_rootless`, `antlir2_userns` |
| `VirtualMachine` | one or two boots, notify socket, ssh thread, timeout, sidecars, respawn, disks and shares | `antlir2/antlir2_vm` |
| `LayerTools` | all of these, one per behaviour | |

`MC...` modules hold the instances.  `OrderedElementQueueProofs`,
`UpgradePartsProofs`, `UpgradePipelineProofs`, `ReadOnceBufferCacheProofs`,
`LayerPublicationSteps`, `LayerPublicationSubvolumes` and
`LayerPublicationProofs` hold the theorems.

How they fit together.  The queues are shown to implement `BlockingQueue`, and
`UpgradePipeline` uses a queue the way `BlockingQueue` describes it, with
dequeue as one step that waits for its item.  It reduces the cache to the number
of buffers put; `ReadOnceBufferCache` shows that every read is served once its
buffer is there.  `UpgradePipeline` and `SingleThreadedUpgrade` both implement
`InOrderUpgrade`, so they write the same thing.  What they do to a command in
one step is done to its bytes in `CommandBytes`.  `Features` is evaluated by
`ImageBuild` on the image of `ImageFs`.  `UpgradeParts` and `LayerTools` put
machines that share no variable into one specification whose `Init` gives work
to one of them; the others have no step to take.

Definitions keep the names of the source (`oeqi_map`, `robcm_bytes_remaining`,
`sc_data_attribute_dirty`).  Payload bytes are not modelled: a byte is known by
the command and the position it comes from, so "written once and in order" is an
equation between sequences.  Paths are sequences of names; modes, owners and
contents are members of small sets.  Definitions whose comment begins with
"Faulty variant" are plausible mistakes; `PROJECT.json` names the property that
rejects each.

## Runs

| run | instance | shows |
|---|---|---|
| `ordered_queue` | 4 batches, two of them sharing an id, 2 consumers, halts, spurious wake-ups | delivery in order and complete if no two items begin with the same id, no lost wake-up, everybody served or ended, implements `BlockingQueue` with its fairness |
| `single_threaded` | all streams of 3 commands (continuing, gap, other file, metadata; sizes 1 to 3), maximum 0, 2 or 3, a failure at any step | nothing lost, maximal batches (none for 0; a write above the maximum is a batch of its own), implements `InOrderUpgrade` |
| `pipeline` | a write split between two batches, another command, END, with 2 constructors and 2 compressors; a shorter stream in which any worker may crash at any step; a write larger than the maximum | every interleaving implements `InOrderUpgrade`; no check of the code fails but the batcher's, and that only for a write larger than the maximum; a planned halt only when all is written; no failure forgotten |
| `upgrade_parts` | the unordered queue with 3 elements, 3 consumers, halts and spurious wake-ups; the cache with room for 1 or 2 buffers and a short last one; commands as bytes in both modes, with and without checks, compression and damaged input; pads at every offset of a block; up to 70 threads and 130 CPUs | see "Merged properties" |
| `image_build` | sets of up to 4 features in 1 to 3 phases on images with symlinks, in every order the graph allows | what is required is there before, what is provided is there after, the order does not matter, accepted features fail only for listed reasons, a genrule leaves no mountpoint but `/dev` and `/proc` |
| `publication` | 2 builds at a time of received, compiled, sent and materialized layers, under sudo, as root, rootless and as a plain user; 14 days may pass; one failing call, kills at any step | outputs name whole subvolumes, each fault leaks at most one subvolume, only own or old ones are deleted, failures have a listed cause |
| `layer_tools` | pairs of small trees in every format; package specs with two failing calls; every cut of a stream; every nesting of binds; accounts; VM invocations | see "Merged properties" |
| `ordered_queue_documented`, `buffer_cache_done`, `pipeline_no_batching`, `image_build_documented`, `layer_tools_documented` | | findings 1 to 5 |

Sizes: `single_threaded` 46,000 states, `upgrade_parts` 97,000, `pipeline`
235,000, `image_build` 182,000, `publication` 513,000, `layer_tools` 234,000;
each takes one to three minutes with two workers.

Merged properties.  Some invariants are conjunctions, each conjunct a property
with its own comment:

- `CacheIsSound`: the byte counters are exact, and buffers and counters agree
  although they are under two locks.  `NeverFails`: no read finds its buffer
  gone.  `EverythingIsRead`: no deadlock, also with room for one buffer.
  `HaltEndsThreads`: an abort ends the prefetcher and every reader that is
  inside a read.  It speaks of aborts only; what a planned halt may meet is
  finding 2.
- `FifoOrder`, `AwakeForEachElement`, `ImplementsFairPromise`: the unordered
  queue is first in first out, has an awake consumer per element, and implements
  `BlockingQueue`.
- `CommandsDecode`: what is written can be received and has the right sizes and
  CRC; no check of the code fails for a sound stream.
- `PadsAreGood`: data aligned, by the shortest pad, which is filled exactly.
- `ItemsAreThere`: the items of the graph are in the image.  The converse, that
  all of the image is listed, is not claimed: genrules make what no item tells of.
- `RequiredBeforeBuilt`: the canonical path of every ordered requirement is there
  when the feature is compiled.  So is the path as declared, unless a symlink on
  the way is itself still to be made (`Hidden`): `fixup_symlinks` drops that edge.
- `ChangeStreamFaithful`, `SendstreamsFaithful`, `StorageFaithful`: applying what
  was written gives the tree but for the losses that the property lists, and
  those are lost exactly: the set of differences is equal to the set of
  predicted ones.  Each comment says what is left out of the comparison (names
  that share an inode for the change stream, mtimes for `make_oci_layer`, CAS
  directory and overlayfs, entries that changed their type for the incremental
  sendstream).
- `PackageIsWhole`: the image holds the file system and all subvolumes where the
  spec puts them; mounts, directories and loop devices are released on every
  path; failures have a cause.
- `IsolatedAsAsked`: destinations lead to their sources, the host is protected,
  the status is the command's, ids map both ways.
- `VmAsAsked`: success means the command succeeded in the right guest; failures
  have a cause; one QEMU at a time; disks, shares and arguments as asked.
- `ToolsEnd`: packaging ends if no free space is asked for, and otherwise unless
  btrfs makes the shrink loop grow the file system for ever; the parser returns
  unless the source ends inside the stream header; the container ends with its
  command, the processes of `Userns` end, a VM with a timeout ends.

Bounds.  Two consumers are the least that make a notification go to the wrong
one; three consumers and three elements let two notifications meet.  Two
constructors and two compressors let each pass the other.  Maxima of 2 and 3 with
writes of 1 to 3 bytes cover "fits", "fills exactly", "is split" and "is larger
than the maximum".  Two
buffers are the least that make a read cross a boundary while another buffer is
being read.  Two builds and one fault (`MaxBuilds`, `MaxFaults`) are the least
for a build to meet what a failed one left; `MaxJobs` ends a behaviour.  Two
package faults let a release fail after a failure.  `MaxLinks` stands for the
kernel's 40, `AttachAttempts` for 10, `FullRange` for 65536, `DEVICE_PER_BRIDGE`
for 32: small values reach the boundary with few objects.  `MaxOffset` covers
two blocks, after which the arithmetic repeats.  Deadlock is not checked where a
system ends; liveness properties take its place.

Fairness.  A thread that can take a step (can take a mutex, or has been woken)
eventually does: weak fairness per thread in the queues and the cache, which is
what a scheduler and `std::sync::Mutex` give when critical sections are finite.
In the pipeline no worker takes steps for ever, so weak fairness of the
coordinator and of "some worker" is enough.  The tools are processes that run
when they can, and time passes (`ClockStep`).  Nothing makes a halt, a crash, a
failing call, a signal, the end of a guest or the end of a command happen.

## Findings

1. The comment of the ordered queue calls a set of items good in which two items
   begin with the same id.  The map is keyed by that id, so the second displaces
   the first if it comes while the first is still there.  `NothingLost` and
   `AllDelivered` therefore have distinct first ids as their premise; the batches
   of the pipeline meet it.
2. `put_buffer` says the cache is never done when a buffer is put.  A planned
   halt can come while the prefetcher fills one, at the latest the empty one
   that tells it the end of the file, and a finished upgrade reports an error.
3. `maximum_batched_extent_size` = 0 is documented to disable batching.  It does
   with one thread; with several the batcher fails at the first write.
4. `verify_no_conflicts` compares all providers of a key with one arbitrary row
   of the group, so two features that ensure a directory with different modes
   are accepted, and `ensure_dir_exists` keeps the first one's mode because "the
   depgraph will already have validated".
5. `OverlayFs::mount` passes layers lowest first to `lowerdir=`, whose first
   entry is the top; the rule documents "left-to-right lowest-to-highest".

Where a comment promises more than the code keeps, and a passing property says
exactly what is kept:

| comment | the code | property |
|---|---|---|
| `read_once_buffer_cache.rs:116`: a cache not larger than a copy request "can end up deadlocking" | a request is read piece by piece; one buffer is enough | `EverythingIsRead` |
| `antlir2_change_stream/src/iter.rs:22`: the stream "can be used to convert `old` to `new`" | set-uid bits, capabilities, some xattrs, owners and mtimes are lost | `ChangeStreamFaithful` |
| `make_oci_layer/src/main.rs:194`: "any change must send the entire contents" | what stayed the same of a changed entry is not sent: xattrs; mode and owner of a directory; owner of a symlink | `ChangeStreamFaithful` |
| `antlir2_cas_dir/src/lib.rs:209`: "all the filesystem metadata being reproduced" | xattrs and set-uid bits are lost | `StorageFaithful` |
| `antlir2_overlayfs/src/manifest.rs:11`: "losslessly transform" | hard links, and owners and xattrs of what is neither file nor directory, are lost | `StorageFaithful` |
| `antlir2_depgraph/src/lib.rs:219`: requirements "get duplicated" | those that pass through a symlink are moved, so nothing orders the feature after the symlink | `RequiredBeforeBuilt` |
| `genrule.rs:90`: "all the mountpoints (and their ancestors)" are removed | those of inputs and platform are; `/dev` and `/proc` stay | `MountpointsCleaned` |

Seen while modelling, with the models following the code.  Upgrade:
- `thread_count` is documented as a total, but 2 to 5 start six threads.
- A write larger than the maximum is a batch of its own with one thread and fails
  the batcher's check with several.
- `pad_with_dummy_commands` leaves writes alone that are not whole blocks.
- The destination's `BufWriter` is not flushed after the last command, so an
  error of the last write is lost when it is dropped.
- A write without data is dropped with one thread and kept with several.
- With `avoid_crcing_input`, a wrong CRC of a copied command is written on.

Build:
- `resolve` recurses without bound on a loop of symlinks.
- `clone` stops listing at a path that only shares the bytes of the prefix.
- A path that is joined with an empty one ends in a slash and is another key than
  the path itself, since keys are compared as text (`Slashed`, `Named`).
- The old subvolume is deleted before the new one is sealed and linked, and
  garbage collection deletes old subvolumes that are still referenced.

Tools:
- Outside of `ephemeral`, `MS_RDONLY` together with `MS_BIND` is ignored, so
  `readonly()` ("Start the container with a readonly root") has no effect in
  isolate_unshare.
- After its first SIGCHLD pid1 blocks in `waitpid` and does not see SIGTERM until
  the command ends, though the handlers are there "so that this can be killed as
  necessary".
- `expect_failure` documents a timeout as expected, but the timeout is an error.
- The parser repeats its loop for ever when the source ends inside a stream
  header.
- With free space to add, the packager's shrink loop may make the file system
  larger than before, and nothing bounds how often.

## Proofs

For all values of the constants, under the named assumptions:

- `OrderedElementQueueProofs` (`ConsumersAssumption`: there is a consumer;
  `ItemsAssumption`: ids obey the documented contract).  `InOrder` is inductive
  together with the type.  `NothingLost` needs distinct first ids, which the
  property states as its premise; the key lemma `NextIdBounds` says that an item
  that starts later starts no earlier than the id that follows the delivered
  one.  `NoLostWakeup` needs that a waiting consumer is ready, since only a
  ready one can be awake.  `QueueImplementsPromise` maps the map's items to
  entries with their first id as ticket.
- `UpgradePartsProofs`, on three of the five parts.  The unordered queue
  (`PoolAssumption`: a finite, nonempty set of consumers): `AwakeForEachElement`
  compares the length of the deque with the number of awake consumers, and the
  proof counts with the library's theorems on cardinalities;
  `QueueImplementsPromise` uses the order of arrival as ticket.  Padding
  (`CommandsAssumption`: sizes are natural numbers): the inductive invariant is
  `Padding`, and `PadMovesToBlock` is the arithmetic on which it rests.  Thread
  counts: `CountsAreGood` for all natural numbers of threads and CPUs, from
  `ThirdOfThreads`, the arithmetic of the rounded division.
- `UpgradePipelineProofs` (`ConstantsAssumption`: at least one constructor and
  one compressor).  `NoFailureForgotten` speaks of the state in which `run`
  returns; the inductive `CInv` says at every step that a worker is on the list
  of active ones, or has finished, or has failed and `crashed` is set.  `run`
  keeps it (`RunKeepsInv`), for a removal because it takes out one element only
  (`RemoveKeepsOthers`) although the index skips the next one, and a worker keeps
  it which moves itself and not after its end.  All steps of all workers are of
  that kind (`WorkerMovesItself`).
- `ReadOnceBufferCacheProofs` (`SizesAssumption`: buffers are not empty;
  `RequestsAssumption`: requests lie in the stream and do not overlap, as the
  commands of a stream do; `ReadersAssumption`: finitely many readers).
  `NeverFails` and `CacheIsSound` need more than themselves: `CacheInv(f)` names
  the first buffer `f` that has not been put and says that exactly the buffers
  before it with bytes to be read have a counter, which is the number of bytes
  nobody has accounted for, and that a reader past the wait is at one of them.
  A reader's own bytes are among those, so its buffer cannot have been collected.
- `LayerPublicationSteps`, `LayerPublicationSubvolumes`, `LayerPublicationProofs`
  (`TargetsAssumption`: finitely many targets, none built from itself, a package
  is made of a layer).  `PublicationInv` says of each build how complete its
  subvolume is at each stage, that the one it will delete is its own, that the
  layer it builds from is built and not being built again, and that it is root
  where it must be.  For `OnlyFailuresLeak` it says that what no build works on
  and no output names can be charged to faults, one each; a step leaves something
  behind only if it is itself a fault.  The steps of one build are shown to keep
  this (`...IsGood`), and the other builds not to notice (`OthersDoNotNotice`).
  `DeletesOwnOrOld` and `FailsOnlyFor` are action properties from the same
  invariant.

Only model-checked: liveness and refinement with fairness, which are out of the
prover's reach (of the queues' refinement the safety part is proved); the
batches, the bytes of commands, the single-threaded upgrade and the refinement of
the pipeline; the build of images; the tools.  `Container`, `ImageBuild`,
`ImageFs` and `Items` follow symlinks and trees with recursive operators, which
the prover does not support.  What `PayloadSize` and `MeaningOf` compute for all
sequences needs induction over data and stays with TLC.

## Not modelled

- Rpm features and package managers: dnf resolves and installs; the code here
  makes its input and reads its output.
- The other packagers (tar, squashfs, ext, rpm, ...): one command line of an
  external tool each.
- Starlark rules and generated code; labels, modes, paths and errors as values;
  the test harnesses; logging and statistics.
- In the upgrade: zstd (a choice of sizes stands for it), contents of payloads,
  the creation of threads (if it fails at `coordinator.rs:87`, the workers
  started before are left alone), the buffers of `std::io`.
- In the build: SQL as such, text formats of the user databases, rpm and systemd
  facts.
- In the tools: network and environment of containers, QEMU's other arguments,
  ioctl structures.  The trees have no empty files and no symlink that stands for
  a directory on the way to another entry.  Whether `append_file` of the tar
  library reads from the start or from the cursor is not visible in this
  repository; both are checked.  In the packager the failures of calls the code
  ignores are ignored too, and the sizes that btrfs reports are at most one above
  the size of the file system.
