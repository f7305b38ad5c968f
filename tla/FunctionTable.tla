--------------------------- MODULE FunctionTable ---------------------------
(***************************************************************************)
(* What a provider brings to dpusm_provider_register (src/src/provider.c)  *)
(* and what the registry makes of it: the check of the function table and  *)
(* the capabilities recorded in the dpusm_ph_t.                            *)
(*                                                                         *)
(* A function table (dpusm_pf_t) is the set of its slots that are not      *)
(* NULL.  A bitmask is the set of the positions of its bits: DPUSM_RAID_   *)
(* 1_GEN is 1 in a "raid" mask, as in 1 << 1.                              *)
(***************************************************************************)
EXTENDS Integers, FiniteSets

Required ==
  {"algorithms", "alloc", "alloc_ref", "get_size", "free",
   "copy_from_generic", "copy_to_generic"}

RaidGen == {"raid_can_compute", "raid_alloc", "raid_set_column", "raid_free", "raid_gen"}
RaidRec == {"raid_cmp", "raid_rec"}
File == {"file_open", "file_write", "file_close"}
Disk == {"disk_open", "disk_invalidate", "disk_write", "disk_flush", "disk_close"}

\* The functions with a bit of their own in capabilities.optional.
OptionalBit ==
  [copy_from_ptr |-> 0, copy_to_ptr |-> 1, copy_from_scatterlist |-> 2,
   copy_to_scatterlist |-> 3, associate_handle |-> 4, mem_stats |-> 5,
   zero_fill |-> 6, all_zeros |-> 7]

Slots ==
  Required \cup RaidGen \cup RaidRec \cup File \cup Disk \cup DOMAIN OptionalBit
    \cup {"compress", "decompress", "checksum", "at_connect", "at_disconnect"}

\* DPUSM_RAID_GEN and DPUSM_RAID_REC.
RaidGenBits == 1..3
RaidRecBits == 4..6

IoFile == 0
IoDisk == 1

-----------------------------------------------------------------------------
All(group, funcs) == group \subseteq funcs
None(group, funcs) == group \cap funcs = {}

\* Mutant: the required functions are not asked for.
BadGroupsLax(funcs) ==
  (IF None(File, funcs) \/ All(File, funcs) THEN {} ELSE {"FILE"})
    \cup (IF None(Disk, funcs) \/ All(Disk, funcs) THEN {} ELSE {"DISK"})

\* dpusm_provider_sane_at_load: the groups that are neither whole nor absent.
\* Reconstruction also needs the whole of generation.
BadGroups(funcs) ==
  (IF All(Required, funcs) THEN {} ELSE {"REQUIRED"})
    \cup (IF None(RaidGen, funcs) \/ All(RaidGen, funcs) THEN {} ELSE {"RAID_GEN"})
    \cup (IF None(RaidRec, funcs) \/ All(RaidGen \cup RaidRec, funcs)
          THEN {} ELSE {"RAID_REC"})
    \cup (IF None(File, funcs) \/ All(File, funcs) THEN {} ELSE {"FILE"})
    \cup (IF None(Disk, funcs) \/ All(Disk, funcs) THEN {} ELSE {"DISK"})

SaneAtLoad(funcs) == BadGroups(funcs) = {}

\* A capability mask whose function is missing is cleared.
Backed(slot, funcs, bits) == IF slot \in funcs THEN bits ELSE {}

\* The capabilities dpusmph_init records.  claim is what the provider's
\* algorithms() reports; junk is what the freshly allocated, unzeroed memory
\* held in the two masks that are built bit by bit (|=).
Capabilities(funcs, claim, junk) ==
  [optional |-> {OptionalBit[s] : s \in funcs \cap DOMAIN OptionalBit} \cup junk.optional,
   compress |-> Backed("compress", funcs, claim.compress),
   decompress |-> Backed("decompress", funcs, claim.decompress),
   checksum |-> Backed("checksum", funcs, claim.checksum),
   byteorder |-> Backed("checksum", funcs, claim.byteorder),
   raid |-> Backed("raid_gen", funcs, claim.raid),
   io |-> (junk.io \ {IoFile, IoDisk})
            \cup Backed("file_open", funcs, {IoFile})
            \cup Backed("disk_open", funcs, {IoDisk})]

\* What the memset of dpusm_provider_invalidate leaves.
NoCapabilities ==
  [optional |-> {}, compress |-> {}, decompress |-> {}, checksum |-> {},
   byteorder |-> {}, raid |-> {}, io |-> {}]

-----------------------------------------------------------------------------
(* The names of what a provider supports, printed while it is registered   *)
(* (src/src/common.c).                                                     *)

\* int mask >>= 1, n times: copies of the sign bit come in from the left.
ShiftRight(mask, n) ==
  {b - n : b \in {c \in mask : c >= n}} \cup (IF 31 \in mask THEN (31 - n)..31 ELSE {})

\* enum2index: shifts until the lowest bit is set.
EnumIndex(mask) ==
  IF mask = {} THEN -1
  ELSE CHOOSE n \in 0..31 :
         0 \in ShiftRight(mask, n) /\ \A k \in 0..(n - 1) : 0 \notin ShiftRight(mask, k)

IndexOf == [b \in 0..31 |-> EnumIndex({b})]

\* How many strings there are in DPUSM_*_STR.
NameCount ==
  [optional |-> 8, compress |-> 32, decompress |-> 32, checksum |-> 6,
   byteorder |-> 2, raid |-> 7, io |-> 2]

\* The bit of DPUSM_*_MAX, where the loops over the masks end.
MaxBit == [compress |-> 32, decompress |-> 32, checksum |-> 6, byteorder |-> 2, raid |-> 7]

\* Mutant: the loops over the masks take in the bit of DPUSM_*_MAX.
PrintedPast(funcs, caps) ==
  {<<"optional", OptionalBit[s]>> : s \in funcs \cap DOMAIN OptionalBit}
    \cup {<<"io", b>> : b \in caps.io \cap {IoFile, IoDisk}}
    \cup UNION {{<<mask, b>> : b \in {c \in caps[mask] : c <= MaxBit[mask]}} :
                 mask \in DOMAIN MaxBit}

\* The bits of each kind that dpusmph_init prints a name for.
Printed(funcs, caps) ==
  {<<"optional", OptionalBit[s]>> : s \in funcs \cap DOMAIN OptionalBit}
    \cup {<<"io", b>> : b \in caps.io \cap {IoFile, IoDisk}}
    \cup UNION {{<<mask, b>> : b \in {c \in caps[mask] : c < MaxBit[mask]}} :
                 mask \in DOMAIN MaxBit}

=============================================================================
