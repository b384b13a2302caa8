--------------------------- MODULE RequestJournal ---------------------------
(***************************************************************************)
(* The journal of one observed request: an acceptance, its events and one  *)
(* seal, each a file of its own that names its predecessor                 *)
(* (velociraptor_observation_journal.py), and the reader that verifies     *)
(* such a chain (ArchiveCodec.verify).  Operators on values only: a        *)
(* journal is what its writer believes, a chain is what lies on disk.      *)
(* Contents, digests and JSON are left out; a reference to an original is  *)
(* its position.                                                           *)
(***************************************************************************)
EXTENDS Integers, Sequences, FiniteSets, SequencesExt

CONSTANTS
    MaxRecords,      \* request_codec.max_records
    MaxRecordBytes,  \* request_codec.max_record_bytes
    MaxTotalBytes,   \* request_codec.max_total_bytes
    Sizes,           \* sizes the records of a request may have
    None

(* _budgets refuses any other request codec: it must hold an acceptance    *)
(* and a seal of the largest size.                                         *)
ASSUME RequestBudgets ==
    /\ MaxRecords \in Nat /\ MaxRecords >= 2
    /\ MaxRecordBytes \in Nat /\ MaxRecordBytes >= 1
    /\ MaxTotalBytes \in Nat /\ MaxTotalBytes >= 2 * MaxRecordBytes

(* encode refuses a larger record before anything is written.              *)
ASSUME SizesEncode == Sizes \subseteq 1..MaxRecordBytes

(* "scopeFailed" belongs to the ObservationScope that owns the journal, the *)
(* others to the journal itself.                                           *)
Flags == {"claimed", "failed", "scopeFailed", "poisoned", "sealed", "closed", "closeFailed"}

Journal == [count : Nat, bytes : Nat, events : Nat, flags : SUBSET Flags]

ASSUME NoneIsNoJournal == None \notin Journal

NewJournal == [count |-> 0, bytes |-> 0, events |-> 0, flags |-> {}]

(* A record as it is written behind journal j.                             *)
Original(j, kind, size, status, outcome) ==
    [kind |-> kind, seq |-> IF kind = "accept" THEN 0 ELSE j.events + 1, prev |-> j.count,
     size |-> size, status |-> status, outcome |-> outcome, events |-> j.events]

(* Mutant: the room for the seal is forgotten.                             *)
ReservedNothing(j, size) ==
    /\ j.count + 1 <= MaxRecords
    /\ j.bytes + size <= MaxTotalBytes

(* Every record but the seal leaves room for one more of the largest size. *)
Reserved(j, size) ==
    /\ j.count + 2 <= MaxRecords
    /\ j.bytes + size + MaxRecordBytes <= MaxTotalBytes

SealFits(j, size) ==
    /\ j.count + 1 <= MaxRecords
    /\ j.bytes + size <= MaxTotalBytes

Available(j) == j.flags \cap {"poisoned", "closed", "sealed"} = {}

Marked(j, fs) == [count |-> j.count, bytes |-> j.bytes, events |-> j.events, flags |-> j.flags \cup fs]

Confirmed(j, size, event, fs) ==
    [count |-> j.count + 1, bytes |-> j.bytes + size,
     events |-> j.events + (IF event THEN 1 ELSE 0), flags |-> j.flags \cup fs]

(* The scope counts events against max_records - 2 before the journal does. *)
MayEmit(j) == /\ j.flags \cap {"failed", "scopeFailed"} = {}
              /\ j.events < MaxRecords - 2

(* A failed observation may only be sealed as failed.                      *)
SealStatus(j) == IF "scopeFailed" \in j.flags THEN "FAILED" ELSE "COMPLETE"

MaySeal(j) == "failed" \in j.flags => SealStatus(j) = "FAILED"

Bytes(chain) == SumFunction([i \in DOMAIN chain |-> chain[i].size])

(* ArchiveCodec.verify accepts the chain.                                  *)
Verifies(chain) ==
    /\ Len(chain) \in 1..MaxRecords
    /\ Bytes(chain) <= MaxTotalBytes
    /\ \A i \in DOMAIN chain :
          /\ chain[i].seq = i - 1 /\ chain[i].prev = i - 1
          /\ (chain[i].kind = "accept") = (i = 1)
          /\ chain[i].kind = "seal" => /\ i = Len(chain)
                                       /\ chain[i].events = i - 2

(* What verify reports of a chain that ends in a seal.                     *)
Status(chain) == IF Last(chain).kind = "seal" THEN Last(chain).status ELSE "INCOMPLETE"
=============================================================================
