---------------------------- MODULE MCFileTransfer ----------------------------
(* Instances of FileTransfer for TLC. *)
EXTENDS FileTransfer

Ranged(suffix, first, last) ==
    [range |-> [suffix |-> suffix, first |-> first, last |-> last],
     offset |-> 0, length |-> 0]
Part(offset, length) == [range |-> None, offset |-> offset, length |-> length]

\* The whole file, and ranges of each form, on a page or within one chunk.
MCRequests ==
    {Part(0, 0), Part(2, 9), Ranged(FALSE, 0, 2), Ranged(FALSE, 2, None), Ranged(TRUE, 2, None),
     Ranged(FALSE, 9, None)}

\* A range that starts within a page and is longer than a chunk.
MCUnaligned == {Ranged(FALSE, 1, None)}

MCSizes == {0, 1, 5, 9}
MCLongSizes == {6}
MCFaults == FaultKinds
MCNoFaults == {}

=============================================================================
