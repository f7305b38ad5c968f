----------------------------- MODULE MCUserApi -----------------------------
(***************************************************************************)
(* Instances of UserApi for TLC: function tables and what comes with them. *)
(***************************************************************************)
EXTENDS UserApi, TLC

\* The example provider of src/examples/providers: the required functions.
Minimal == Required

\* Half a group: not accepted.
HalfFile == Required \cup {"file_open", "file_close"}

\* No free: not accepted.
NoFree == (Required \ {"free"}) \cup File

MCTables == {Minimal, Slots, HalfFile, NoFree}
OneTable == {Slots}

\* A provider that does gzip 1 (and ZSTD 22 one way), fletcher 2 in native
\* order, and RAID 1, and claims some bits that mean nothing yet.
RaidOne ==
  [compress |-> {0, 31}, decompress |-> {0}, checksum |-> {0, 6},
   byteorder |-> {0, 2}, raid |-> {1, 4, 7}]

MCClaims == {RaidOne}

Clean == [optional |-> {}, io |-> {}]
NoJunk == {Clean}
SomeJunk == {Clean, [optional |-> {5}, io |-> {1}]}

Symmetry ==
  Permutations(Users) \cup Permutations(Handles) \cup Permutations(Objects)

=============================================================================
