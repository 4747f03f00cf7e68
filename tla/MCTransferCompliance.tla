----------------------- MODULE MCTransferCompliance -----------------------
(***************************************************************************)
(* Small instances of TransferCompliance for TLC.                          *)
(***************************************************************************)
EXTENDS TransferCompliance, TLC

CONSTANTS g1, g2, c1, m1, m2, k1, w1, w2

MCCodes == Generators \union Carriers \union Manifests \union Checks
WorkerSymmetry == Permutations(Workers)

\* A record changes once after its creation; requests that race for the
\* change start from the same version.
UpTo2 == [c \in Codes |-> 2]
UpTo3 == [c \in Codes |-> 3]
DispatchOne == [c \in Codes |-> IF c = m1 THEN 3 ELSE 2]

SeedRow(status, data) == [deleted |-> FALSE, status |-> status, version |-> 1, data |-> data]
Link(g, c) == [generator |-> g, carrier |-> c]

\* An active generator and a restricted one, and a carrier that has yet to be
\* verified; the manifest is still to be made.
LinkingSeed ==
  [c \in Codes |->
     CASE c = g1 -> SeedRow("active", 1)
       [] c = g2 -> SeedRow("restricted", 1)
       [] c = c1 -> SeedRow("pending", 1)
       [] OTHER  -> Absent]

\* One manifest in transit, which its history does not show submitted, and
\* one draft; the permit of the generator ends first; the check is still to
\* be made.
DecidingSeed ==
  [c \in Codes |->
     CASE c = g1 -> SeedRow("active", 1)
       [] c = c1 -> SeedRow("verified", 2)
       [] c = m1 -> SeedRow("draft", Link(g1, c1))
       [] c = m2 -> SeedRow("in_transit", Link(g1, c1))
       [] OTHER  -> Absent]
=============================================================================
