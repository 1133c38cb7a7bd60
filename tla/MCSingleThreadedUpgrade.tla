---------------------- MODULE MCSingleThreadedUpgrade ----------------------
EXTENDS SingleThreadedUpgrade

CONSTANT StreamLength

\* What one command may be: a write that continues the one before, one that
\* leaves a gap, one to another file, or another command.
Shapes ==
  [type : {"WRITE"}, path : {"a"}, gap : {0}, size : 1 .. 3]
    \union {[type |-> "WRITE", path |-> "a", gap |-> 1, size |-> 2],
            [type |-> "WRITE", path |-> "b", gap |-> 0, size |-> 2],
            [type |-> "OTHER", path |-> "", gap |-> 0, size |-> 0]}

End == [type |-> "END", path |-> "", offset |-> 0, size |-> 0]

\* The stream of these shapes: all writes follow each other in their files.
StreamOfShapes(shapes) ==
  LET end[n \in 0 .. Len(shapes)] ==
        IF n = 0 THEN 0 ELSE end[n - 1] + shapes[n].gap + shapes[n].size
  IN  [n \in DOMAIN shapes |->
         [type |-> shapes[n].type, path |-> shapes[n].path, size |-> shapes[n].size,
          offset |-> IF shapes[n].type = "WRITE" THEN end[n] - shapes[n].size ELSE 0]]
        \o <<End>>

SmallStreams == {StreamOfShapes(shapes) : shapes \in [1 .. StreamLength -> Shapes]}
=============================================================================
