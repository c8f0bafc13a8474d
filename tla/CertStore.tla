----------------------------- MODULE CertStore -----------------------------
(***************************************************************************)
(* The certificate store and its two readers: extractChipPublicKey of the  *)
(* driver, which takes the chip's public key from it, and the example      *)
(* program's runFullChainVerification, which splits it into files.  Places *)
(* in the store are counted from 0, as in the source; a piece of it is     *)
(* where it begins and where it ends.                                      *)
(***************************************************************************)
EXTENDS Asn1Der

CONSTANTS
  Stores,      \* what the chip may hold
  BlockLen,    \* bytes of a block, 128 in the source
  Blocks,      \* blocks that are read, 30 in the source
  MaxCerts     \* entries that a table may have, 8 in the source

ASSUME CertStoreAssumption ==
  /\ Stores \subseteq Seq(0..(Radix - 1))
  /\ BlockLen \in Nat \ {0} /\ Blocks \in Nat /\ MaxCerts \in Nat

VARIABLES
  chip,     \* the store in the chip
  pc,       \* place in runFullChainVerification and extractDERCerts
  store,    \* what was read of it
  i,        \* index of the current loop
  certs,    \* pieces found
  written   \* files written

vars == <<chip, pc, store, i, certs, written>>

LONG2 == LongForm + 2  \* 0x82, a length of two bytes follows
Byte(data, k) == data[k + 1]
LittleEndian(data, k) == Byte(data, k) + Radix * Byte(data, k + 1)
BigEndian(data, k) == Radix * Byte(data, k) + Byte(data, k + 1)
Piece(from, len) == [from |-> from, to |-> from + len]
BytesOf(data, piece) == SubSeq(data, piece.from + 1, piece.to)

\* Reads the key where the table of four lengths begins.
extractChipPublicKeyShort(data) ==
  LET certLen == BigEndian(data, 2)
  IN  IF Len(data) < 10 \/ Byte(data, 0) # 1 \/ Byte(data, 1) # 4 \/ Len(data) < 2 + certLen
      THEN Error
      ELSE ExtractSubjectPublicKey(BytesOf(data, Piece(2, certLen)))

extractChipPublicKey(data) ==
  IF Len(data) < 10 THEN Error
  ELSE LET certLen == BigEndian(data, 2)
       IN  IF Byte(data, 0) # 1 \/ Byte(data, 1) # 4 \/ Len(data) < 10 + certLen THEN Error
           ELSE ExtractSubjectPublicKey(BytesOf(data, Piece(10, certLen)))

Init ==
  /\ chip \in Stores
  /\ pc = "read" /\ store = <<>> /\ i = 0 /\ certs = <<>> /\ written = 0

Block == SubSeq(chip, i * BlockLen + 1, Min({Len(chip), (i + 1) * BlockLen}))

\* A loop that asks for one block too many.
ReadBlockOnceMore ==
  /\ pc = "read" /\ i <= Blocks
  /\ store' = store \o Block
  /\ i' = i + 1
  /\ UNCHANGED <<chip, pc, certs, written>>

ReadBlock ==
  /\ pc = "read" /\ i < Blocks
  /\ store' = store \o Block
  /\ i' = i + 1
  /\ UNCHANGED <<chip, pc, certs, written>>

\* Startup or a GET_INFO request returns an error.
RequestFails ==
  /\ pc = "read"
  /\ pc' = "failed"
  /\ UNCHANGED <<chip, store, i, certs, written>>

HasTable ==
  LET numCerts == LittleEndian(store, 6)
  IN  numCerts > 0 /\ numCerts <= MaxCerts /\ 8 + 4 * numCerts <= Len(store)

\* All is read: the table is tried if there can be one.
ReadAll ==
  /\ pc = "read" /\ i = Blocks
  /\ pc' = IF Len(store) < 16 THEN "failed" ELSE IF HasTable THEN "table" ELSE "scan"
  /\ i' = 0
  /\ UNCHANGED <<chip, store, certs, written>>

-----------------------------------------------------------------------------
\* extractDERCerts

Entry == Piece(LittleEndian(store, 8 + 4 * i), LittleEndian(store, 10 + 4 * i))

TakeEntry ==
  /\ pc = "table" /\ i < LittleEndian(store, 6)
  /\ Entry.to <= Len(store) /\ Entry.from # Entry.to
  /\ certs' = Append(certs, Entry)
  /\ i' = i + 1
  /\ UNCHANGED <<chip, pc, store, written>>

LeaveTable ==
  /\ pc = "table" /\ i < LittleEndian(store, 6)
  /\ Entry.to > Len(store) \/ Entry.from = Entry.to
  /\ pc' = "scan" /\ i' = 0 /\ certs' = <<>>
  /\ UNCHANGED <<chip, store, written>>

EndTable ==
  /\ pc = "table" /\ i = LittleEndian(store, 6)
  /\ pc' = "write"
  /\ UNCHANGED <<chip, store, i, certs, written>>

Found == Piece(i, 4 + BigEndian(store, i + 2))
IsHeader ==
  /\ Byte(store, i) = SEQUENCE /\ Byte(store, i + 1) = LONG2
  /\ Found.to <= Len(store)

\* Scans on in what was taken.
TakeCertInside ==
  /\ pc = "scan" /\ i < Len(store) - 4 /\ IsHeader
  /\ certs' = Append(certs, Found)
  /\ i' = i + 4
  /\ UNCHANGED <<chip, pc, store, written>>

\* Forgets to go on.
TakeCertStaying ==
  /\ pc = "scan" /\ i < Len(store) - 4 /\ IsHeader
  /\ UNCHANGED vars

TakeCert ==
  /\ pc = "scan" /\ i < Len(store) - 4 /\ IsHeader
  /\ certs' = Append(certs, Found)
  /\ i' = Found.to
  /\ UNCHANGED <<chip, pc, store, written>>

SkipByte ==
  /\ pc = "scan" /\ i < Len(store) - 4 /\ ~IsHeader
  /\ i' = i + 1
  /\ UNCHANGED <<chip, pc, store, certs, written>>

EndScan ==
  /\ pc = "scan" /\ i >= Len(store) - 4
  /\ pc' = "write"
  /\ UNCHANGED <<chip, store, i, certs, written>>

\* One file for each certificate, or one for the whole store when none was found.
Files == IF certs = <<>> THEN <<Piece(0, Len(store))>> ELSE certs

WriteFile ==
  /\ pc = "write" /\ written < Len(Files)
  /\ written' = written + 1
  /\ UNCHANGED <<chip, pc, store, i, certs>>

WriteFails ==
  /\ pc = "write" /\ written < Len(Files)
  /\ pc' = "failed"
  /\ UNCHANGED <<chip, store, i, certs, written>>

Finish ==
  /\ pc = "write" /\ written = Len(Files)
  /\ pc' = "done"
  /\ UNCHANGED <<chip, store, i, certs, written>>

Step ==
  \/ ReadBlock \/ RequestFails \/ ReadAll
  \/ TakeEntry \/ LeaveTable \/ EndTable
  \/ TakeCert \/ SkipByte \/ EndScan
  \/ WriteFile \/ WriteFails \/ Finish

Ended == pc \in {"done", "failed"} /\ UNCHANGED vars
Next == Step \/ Ended

Spec == Init /\ [][Next]_vars
FairSpec == Spec /\ WF_vars(Step)

-----------------------------------------------------------------------------

TypeOK ==
  /\ chip \in Seq(0..(Radix - 1))
  /\ pc \in {"read", "table", "scan", "write", "done", "failed"}
  /\ Len(store) <= Len(chip) /\ store = SubSeq(chip, 1, Len(store))
  /\ i \in 0..(Len(store) + Blocks)
  /\ written \in 0..Len(Files)

\* Whatever the store holds, no piece reaches out of it (the slice expressions of
\* extractDERCerts would panic), and those that were found by scanning follow
\* each other without overlap.
PiecesInside ==
  /\ \A k \in DOMAIN certs : certs[k].from < certs[k].to /\ certs[k].to <= Len(store)
  /\ pc = "scan" =>
       \A k \in DOMAIN certs : certs[k].to <= IF k = Len(certs) THEN i ELSE certs[k + 1].from

\* The four certificates of a store that is laid out as api.go:740 describes it:
\* their lengths, where they begin, and the first bytes of each.
CertLen(data, k) == BigEndian(data, 2 + 2 * k)
CertFrom(data, k) ==
  LET before(j) == IF j < k THEN CertLen(data, j) ELSE 0
  IN  10 + before(0) + before(1) + before(2)
Certificate(data, k) == Piece(CertFrom(data, k), CertLen(data, k))

WellFormed(data) ==
  /\ Len(data) >= 10 /\ Byte(data, 0) = 1 /\ Byte(data, 1) = 4
  /\ \A k \in 0..3 :
       LET from == CertFrom(data, k)
       IN  /\ CertLen(data, k) > 4 /\ from + CertLen(data, k) <= Len(data)
           /\ Byte(data, from) = SEQUENCE /\ Byte(data, from + 1) = LONG2
           /\ BigEndian(data, from + 2) = CertLen(data, k) - 4

\* Both readers see the same device certificate in a well-formed store, although
\* one follows the lengths in its header and the other takes it for a table in
\* another format first and searches for certificates after: the files are the four
\* certificates, and the key that sessions trust is the key in the first of them.
ReadersAgree ==
  pc = "done" /\ WellFormed(chip) =>
    /\ certs = [k \in 1..4 |-> Certificate(chip, k - 1)]
    /\ LET key == FirstWithContent(BytesOf(store, certs[1]))
       IN  key.kind = "bytes" /\ extractChipPublicKey(store) = key

\* Reading, splitting and writing ends, for every store.
Ends == <>(pc \in {"done", "failed"})
=============================================================================
