---------------------- MODULE MCOrderedElementQueue ----------------------
(***************************************************************************)
(* Small sets of items for OrderedElementQueue.                            *)
(***************************************************************************)
EXTENDS OrderedElementQueue

Item(f, l, s) == [first |-> f, last |-> l, shared |-> s]

\* A single command, a batch that ends with the first half of command 2, the
\* batch with its second half, a single command.
BatchedItems ==
  {Item(0, 0, FALSE), Item(1, 2, TRUE), Item(2, 3, FALSE), Item(4, 4, FALSE)}

\* The "good set of items" of the documentation (ordered_element_queue.rs:42)
\* with smaller ranges: 0 - 1, then 2 - 2 shared, then 2 - 3.
DocumentedItems ==
  {Item(0, 1, FALSE), Item(2, 2, TRUE), Item(2, 3, FALSE)}
=============================================================================
