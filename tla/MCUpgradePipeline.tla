------------------------- MODULE MCUpgradePipeline -------------------------
EXTENDS UpgradePipeline

Write(path, offset, size) ==
  [type |-> "WRITE", path |-> path, offset |-> offset, size |-> size]
Other == [type |-> "OTHER", path |-> "", offset |-> 0, size |-> 0]
End == [type |-> "END", path |-> "", offset |-> 0, size |-> 0]

\* Two batches that share the second write (with a maximum of 3), then another
\* command.
SplitStream == <<Write("a", 0, 2), Write("a", 2, 2), Other, End>>
ShortStream == <<Write("a", 0, 2), End>>
\* A write larger than the maximum, which can_append rejects.
LargeStream == <<Write("a", 0, 4), Write("a", 4, 1), End>>

\* All bytes of a stream are in one buffer.
Upgrade(s, constructors, compressors, limit) ==
  [stream |-> s, buffer_of |-> [i \in DOMAIN s |-> 1],
   num_command_constructors |-> constructors, num_compressors |-> compressors,
   crashes |-> limit]

\* Two of each kind of pooled worker that all work, one of each of which one
\* may crash, and one of each that meet a write they reject.
SmallUpgrades == {Upgrade(SplitStream, 2, 2, 0), Upgrade(ShortStream, 1, 1, 1),
                  Upgrade(LargeStream, 1, 1, 0)}
ShortUpgrade == {Upgrade(ShortStream, 1, 1, 0)}
=============================================================================
