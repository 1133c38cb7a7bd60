----------------------------- MODULE PadCommand -----------------------------
(***************************************************************************)
(* SendCommand::persist with pad_with_dummy_commands.  Before a write whose *)
(* file offset and data size are multiples of the block size, a command    *)
(* that changes nothing is written, as long as it takes for the data of    *)
(* the write to begin at a block of the destination.  Only sizes and       *)
(* offsets are modelled.                                                   *)
(***************************************************************************)
EXTENDS Integers

CONSTANTS
  Commands,    \* the commands persisted, as the sizes persist looks at
  MaxOffset    \* bound: no command is persisted from this offset on

\* "pre" counts the bytes before the data attribute, "header" the header of the
\* data attribute, "data" its payload; an unpadded command is all "pre".
ASSUME CommandsAssumption ==
  /\ Commands \subseteq [paddable : BOOLEAN, start_offset : Nat,
                         pre : Nat, header : Nat, data : Nat]
  /\ MaxOffset \in Nat

BLOCK_SIZE == 4096
COMMAND_HEADER_SIZE == 4 + 2 + 4
ATTRIBUTE_HEADER_SIZE == 2 + 2
SEND_HEADER_SIZE == 13 + 4

\* The attributes PATH (empty), FILE_OFFSET and SIZE, and the command header.
minimum_command_size ==
  COMMAND_HEADER_SIZE + ATTRIBUTE_HEADER_SIZE + 2 * (ATTRIBUTE_HEADER_SIZE + 8)

\* generate_pad_command; data_offset is where the data would begin unpadded.
PadSize(data_offset) ==
  LET pad_size == BLOCK_SIZE - (data_offset % BLOCK_SIZE)
  IN  IF pad_size < minimum_command_size THEN pad_size + BLOCK_SIZE ELSE pad_size

\* The size that the header of the path attribute of the pad holds, a u16.
PathAttributeSize(pad_size) == (pad_size - minimum_command_size) % 2^16

-----------------------------------------------------------------------------
VARIABLES
  ssud_offset,  \* the offset of the destination
  pad,          \* the size of the pad written before the last command
  payload       \* where the data of the last command begins, if it is a write
padVars == <<ssud_offset, pad, payload>>

NoPad == 0

\* The header of the stream has been written.
PadInit ==
  /\ ssud_offset = SEND_HEADER_SIZE
  /\ pad = NoPad
  /\ payload = 0

Size(command) == command.pre + command.header + command.data

IsPadded(command) ==
  /\ command.paddable
  /\ command.start_offset % BLOCK_SIZE = 0
  /\ command.data % BLOCK_SIZE = 0

PersistUnpadded(command) ==
  /\ ~IsPadded(command)
  /\ ssud_offset' = ssud_offset + Size(command)
  /\ pad' = NoPad
  /\ payload' = IF command.paddable THEN ssud_offset + command.pre + command.header ELSE 0

\* Faulty variant of PersistPadded: the header of the attribute is forgotten.
PersistPaddedNoHeader(command) ==
  /\ IsPadded(command)
  /\ pad' = PadSize(ssud_offset + command.pre)
  /\ payload' = ssud_offset + pad' + command.pre + command.header
  /\ ssud_offset' = ssud_offset + pad' + Size(command)

PersistPadded(command) ==
  /\ IsPadded(command)
  /\ pad' = PadSize(ssud_offset + command.pre + command.header)
  /\ payload' = ssud_offset + pad' + command.pre + command.header
  /\ ssud_offset' = ssud_offset + pad' + Size(command)

Persist(command) ==
  /\ ssud_offset < MaxOffset
  /\ PersistUnpadded(command) \/ PersistPadded(command)

PadNext == \E command \in Commands : Persist(command)
PadSpec == PadInit /\ [][PadNext]_padVars

-----------------------------------------------------------------------------
\* The offsets and sizes are numbers.
PadTypeOK ==
  /\ ssud_offset \in Nat
  /\ pad \in Nat
  /\ payload \in Nat

\* The data of every padded write begins at a block, wherever the destination
\* was: the check of persist after the pad is written never fails.
PayloadAligned == pad # NoPad => payload % BLOCK_SIZE = 0

\* A pad holds a whole command, and it is the shortest that does: a block less
\* would not hold the three attributes.
PadIsShortest ==
  pad # NoPad => /\ minimum_command_size <= pad
                 /\ pad - BLOCK_SIZE < minimum_command_size

\* The path of the pad fills it: the size its header holds, a u16, is not cut.
PadIsFilled ==
  pad # NoPad => minimum_command_size + PathAttributeSize(pad) = pad

\* What persist relies on when it pads a write: the data is aligned, and the pad
\* is a command that can be decoded and no longer than it has to be.
PadsAreGood == PayloadAligned /\ PadIsShortest /\ PadIsFilled
=============================================================================
