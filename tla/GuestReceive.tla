---------------------------- MODULE GuestReceive ----------------------------
(***************************************************************************)
(* The receiving side of a push in guest_service.py: transfer_chunk and    *)
(* transfer_chunks append to received.part and chunks.jsonl, a repeated    *)
(* transfer_begin runs the verify_partial worker, and the saved state is   *)
(* the only record of what has been acknowledged.  One call writes two     *)
(* files and saves the state twice; it may stop after any of these steps   *)
(* (crash, full disk, exhausted budget, cancellation), also in the middle  *)
(* of a write.                                                             *)
(*                                                                         *)
(* Abstraction.  A file is a sequence of bytes, the ledger a sequence of   *)
(* records (Torn for a line without its end).  A SHA-256 is the data it  *)
(* digests.  partial_identity (inode, size and times of both files) is     *)
(* st.registered, with `synced` true as long as neither file has changed   *)
(* since the identity in st was observed.  The names say whether they are  *)
(* of the call or of the verify_partial worker, apart from those of the    *)
(* workers of GuestWorkers: both modules are extended by the proofs.       *)
(***************************************************************************)
EXTENDS Naturals, Sequences, SequencesExt

CONSTANTS
    Bytes,       \* contents a byte may have
    Size,        \* package size, in bytes
    MaxChunk,    \* max_chunk_bytes
    MaxBatch,    \* max_batch_chunks
    ShortLimit,  \* prefix a chunk call may verify by itself
    MaxWorkers,  \* bound: verify_partial workers launched
    Null         \* absent value: no file, no call, JSON null

(* The policy and the request refuse limits that are not positive; a       *)
(* package may be empty.                                                   *)
ASSUME BoundsAssumption == /\ {MaxChunk, MaxBatch} \subseteq Nat \ {0}
                           /\ {Size, ShortLimit, MaxWorkers} \subseteq Nat

Chunks == UNION {[1..n -> Bytes] : n \in 1..MaxChunk}
Batches == UNION {[1..n -> Chunks] : n \in 1..MaxBatch}

VARIABLES
    st,         \* the saved task state
    partial,    \* received.part
    ledger,     \* chunks.jsonl
    synced,     \* the files are as the identity in st recorded them
    chunkCall,  \* the chunk call in progress
    worker,     \* the verify_partial process
    acked       \* history: bytes acknowledged to the host

receiveVars == <<st, partial, ledger, synced, chunkCall, worker, acked>>

Torn    == [offset |-> 0, data |-> <<>>]   \* a line without its end
Records == [offset : 0..Size, data : Chunks]
Proofs  == [nonce : 1..MaxWorkers, offset : 0..Size, records : Seq(Records)]
CallPcs == {"create_partial", "create_ledger", "register", "write", "record", "save"}
ChunkCalls == [pc : CallPcs, chunks : Batches]

(* The absent value is none of the values it stands in for.                *)
ASSUME NullAssumption == /\ Null \notin Seq(Bytes) /\ Null \notin Seq(Records \cup {Torn})
                         /\ Null \notin Proofs /\ Null \notin ChunkCalls

ReceiveTypeOK ==
    /\ st \in [phase : {"RECEIVING", "RECEIVED"}, offset : 0..Size, count : 0..Size,
               registered : BOOLEAN, proof : Proofs \cup {Null},
               owner : 0..MaxWorkers, stopped : BOOLEAN,
               error : {Null, "worker_failed", "worker_result_unknown"}]
    /\ partial \in Seq(Bytes) \cup {Null}
    /\ ledger \in Seq(Records \cup {Torn}) \cup {Null}
    /\ synced \in BOOLEAN
    /\ chunkCall \in ChunkCalls \cup {Null}
    /\ worker \in [pc : {"dead", "verifying", "trimming", "trimmed", "verified", "failed", "exiting"},
                  offset : 0..Size, count : 0..Size]
    /\ acked \in Seq(Bytes)

(* transfer_begin of a new push task.                                      *)
ReceiveInit ==
    /\ st = [phase |-> "RECEIVING", offset |-> 0, count |-> 0, registered |-> FALSE,
             proof |-> Null, owner |-> 0, stopped |-> TRUE, error |-> Null]
    /\ partial = Null
    /\ ledger = Null
    /\ synced = TRUE
    /\ chunkCall = Null
    /\ worker = [pc |-> "dead", offset |-> 0, count |-> 0]
    /\ acked = <<>>

-----------------------------------------------------------------------------
(* _verified_partial *)

Absent == partial = Null /\ ledger = Null /\ ~st.registered /\ st.offset = 0

(* The saved count of records, checked against the bytes they name.        *)
PrefixHolds ==
    /\ Len(partial) >= st.offset
    /\ Len(ledger) >= st.count
    /\ \A i \in 1..st.count :
          /\ ledger[i] # Torn
          /\ ledger[i].offset = IF i = 1 THEN 0 ELSE ledger[i-1].offset + Len(ledger[i-1].data)
          /\ ledger[i].offset + Len(ledger[i].data) <= Len(partial)
          /\ SubSeq(partial, ledger[i].offset + 1, ledger[i].offset + Len(ledger[i].data))
                = ledger[i].data
    /\ st.offset = IF st.count = 0 THEN 0
                   ELSE ledger[st.count].offset + Len(ledger[st.count].data)

Verifies == \/ Absent
            \/ st.registered /\ partial # Null /\ ledger # Null /\ PrefixHolds

Trimmed(file, length) ==
    IF file = Null THEN Null ELSE IF Len(file) <= length THEN file ELSE SubSeq(file, 1, length)

(* A chunk call rereads the prefix only when the identity has changed, and *)
(* then only a short one.                                                  *)
ShortVerifies ==
    \/ Absent
    \/ /\ st.registered /\ partial # Null /\ ledger # Null
       /\ Len(partial) >= st.offset
       /\ synced \/ (st.offset <= ShortLimit /\ PrefixHolds)

(* Files after a short verification that passed.                           *)
TrimUnlessSynced ==
    IF synced \/ Absent THEN UNCHANGED <<partial, ledger>>
    ELSE /\ partial' = Trimmed(partial, st.offset)
         /\ ledger' = Trimmed(ledger, st.count)

(* Mutant: chunks are accepted while the verification worker runs.         *)
VerifierUnchecked == TRUE

(* _check_idle: no worker process runs.                                    *)
VerifierGone == worker.pc = "dead"

Total(chunks) == Len(FlattenSeq(chunks))

-----------------------------------------------------------------------------
(* transfer_chunk / transfer_chunks up to the first write.                 *)
Accept(chunks) ==
    /\ chunkCall = Null
    /\ VerifierGone
    /\ st.phase = "RECEIVING"
    /\ st.offset + Total(chunks) <= Size
    /\ ShortVerifies
    /\ TrimUnlessSynced
    /\ chunkCall' = [pc |-> IF partial = Null THEN "create_partial" ELSE "register",
                     chunks |-> chunks]
    /\ UNCHANGED <<st, synced, worker, acked>>

(* transfer_chunk for bytes already held: answered from the file.          *)
Replay(offset, data) ==
    /\ chunkCall = Null
    /\ VerifierGone
    /\ offset + Len(data) <= st.offset
    /\ ShortVerifies
    /\ SubSeq(partial, offset + 1, offset + Len(data)) = data
    /\ TrimUnlessSynced
    /\ acked' = Trimmed(partial, st.offset)
    /\ UNCHANGED <<st, synced, chunkCall, worker>>

CallAt(pc) == chunkCall # Null /\ chunkCall.pc = pc
CallGoes(pc) == chunkCall' = [chunkCall EXCEPT !.pc = pc]

CreatePartial ==
    /\ CallAt("create_partial")
    /\ partial' = <<>>
    /\ synced' = FALSE
    /\ CallGoes("create_ledger")
    /\ UNCHANGED <<st, ledger, worker, acked>>

CreateLedger ==
    /\ CallAt("create_ledger")
    /\ ledger' = <<>>
    /\ synced' = FALSE
    /\ CallGoes("register")
    /\ UNCHANGED <<st, partial, worker, acked>>

(* Mutant: the old proof stays in the state while the files grow.          *)
RegisterKeepsProof ==
    /\ CallAt("register")
    /\ st' = [st EXCEPT !.registered = TRUE]
    /\ synced' = TRUE
    /\ CallGoes("write")
    /\ UNCHANGED <<partial, ledger, worker, acked>>

(* The first save: this identity is ours, no proof covers what follows.    *)
Register ==
    /\ CallAt("register")
    /\ st' = [st EXCEPT !.registered = TRUE, !.proof = Null]
    /\ synced' = TRUE
    /\ CallGoes("write")
    /\ UNCHANGED <<partial, ledger, worker, acked>>

Data == FlattenSeq(chunkCall.chunks)
NewRecords ==
    [i \in 1..Len(chunkCall.chunks) |->
        [offset |-> st.offset + Total(SubSeq(chunkCall.chunks, 1, i - 1)),
         data |-> chunkCall.chunks[i]]]

(* Write and fsync the payload; a write that fails leaves a part of it.    *)
Write(n) ==
    /\ CallAt("write")
    /\ n \in 0..Len(Data)
    /\ partial' = Trimmed(partial, st.offset) \o SubSeq(Data, 1, n)
    /\ synced' = (synced /\ n = 0)
    /\ \/ n = Len(Data) /\ CallGoes("record")
       \/ n < Len(Data) /\ chunkCall' = Null
    /\ UNCHANGED <<st, ledger, worker, acked>>

(* Append and fsync the records; a failure leaves some, the last one torn. *)
Record(n, torn) ==
    /\ CallAt("record")
    /\ n \in 0..Len(NewRecords)
    /\ \/ n = Len(NewRecords) /\ torn = <<>> /\ CallGoes("save")
       \/ n < Len(NewRecords) /\ torn \in {<<>>, <<Torn>>} /\ chunkCall' = Null
    /\ ledger' = ledger \o SubSeq(NewRecords, 1, n) \o torn
    /\ synced' = FALSE
    /\ UNCHANGED <<st, partial, worker, acked>>

(* The second save acknowledges; a lost answer leaves acked as it was.     *)
Saved == [st EXCEPT !.offset = @ + Len(Data), !.count = @ + Len(NewRecords),
                    !.phase = IF st.offset + Len(Data) = Size THEN "RECEIVED" ELSE @]

Save ==
    /\ CallAt("save")
    /\ st' = Saved
    /\ synced' = TRUE
    /\ acked' \in {acked, Trimmed(partial, Saved.offset)}
    /\ chunkCall' = Null
    /\ UNCHANGED <<partial, ledger, worker>>

(* Crash of the service, or an error between two steps: the call is gone.  *)
Interrupt ==
    /\ chunkCall # Null
    /\ chunkCall' = Null
    /\ UNCHANGED <<st, partial, ledger, synced, worker, acked>>

-----------------------------------------------------------------------------
(* transfer_begin repeated: resume verifies the whole prefix in a worker.  *)
Resume ==
    /\ chunkCall = Null
    /\ VerifierGone
    /\ st.owner < MaxWorkers
    /\ st' = [st EXCEPT !.owner = @ + 1, !.stopped = FALSE, !.error = Null, !.proof = Null]
    /\ worker' = [worker EXCEPT !.pc = "verifying"]
    /\ UNCHANGED <<partial, ledger, synced, chunkCall, acked>>

(* The worker loads the state, checks every record and byte of the prefix  *)
(* (_verified_partial with force), then cuts off what follows it.  Nothing *)
(* here is under the writer lock.                                          *)
Verify ==
    /\ worker.pc = "verifying"
    /\ worker' = [pc |-> IF Verifies THEN "trimming" ELSE "failed",
                  offset |-> st.offset, count |-> st.count]
    /\ UNCHANGED <<st, partial, ledger, synced, chunkCall, acked>>

Trim ==
    /\ worker.pc \in {"trimming", "trimmed"}
    /\ IF worker.pc = "trimming"
       THEN /\ partial' = Trimmed(partial, worker.offset)
            /\ worker' = [worker EXCEPT !.pc = "trimmed"]
            /\ UNCHANGED ledger
       ELSE /\ ledger' = Trimmed(ledger, worker.count)
            /\ worker' = [worker EXCEPT !.pc = "verified"]
            /\ UNCHANGED partial
    /\ synced' = (synced /\ partial' = partial /\ ledger' = ledger)
    /\ UNCHANGED <<st, chunkCall, acked>>

(* The worker's transaction: progress and files must be what it verified.  *)
Unmoved == /\ st.offset = worker.offset /\ st.count = worker.count
           /\ \/ Absent
              \/ /\ partial # Null /\ ledger # Null
                 /\ Len(partial) = st.offset /\ Len(ledger) = st.count

Proof == [nonce |-> st.owner, offset |-> st.offset,
          records |-> IF ledger = Null THEN <<>> ELSE Trimmed(ledger, st.count)]

Prove ==
    /\ worker.pc = "verified"
    /\ IF Unmoved
       THEN /\ st' = [st EXCEPT !.proof = Proof]
            /\ synced' = TRUE
            /\ worker' = [worker EXCEPT !.pc = "exiting"]
       ELSE /\ worker' = [worker EXCEPT !.pc = "failed"]
            /\ UNCHANGED <<st, synced>>
    /\ UNCHANGED <<partial, ledger, chunkCall, acked>>

(* The except branch of _child.                                            *)
RecordVerifierError ==
    /\ worker.pc = "failed"
    /\ st' = [st EXCEPT !.error = "worker_failed"]
    /\ worker' = [worker EXCEPT !.pc = "exiting"]
    /\ UNCHANGED <<partial, ledger, synced, chunkCall, acked>>

(* The process ends: normally, by its deadline guard, or killed.           *)
VerifierDies ==
    /\ ~VerifierGone
    /\ worker' = [worker EXCEPT !.pc = "dead"]
    /\ UNCHANGED <<st, partial, ledger, synced, chunkCall, acked>>

(* transfer_status: _reconcile_exit records the exit.                      *)
ReconcileVerifier ==
    /\ chunkCall = Null
    /\ VerifierGone
    /\ ~st.stopped
    /\ st' = [st EXCEPT !.stopped = TRUE,
                        !.error = IF @ = Null /\ st.proof = Null
                                  THEN "worker_result_unknown" ELSE @]
    /\ UNCHANGED <<partial, ledger, synced, chunkCall, worker, acked>>

ReceiveNext ==
    \/ \E chunks \in Batches : Accept(chunks)
    \/ \E offset \in 0..Size, data \in Chunks : Replay(offset, data)
    \/ CreatePartial \/ CreateLedger \/ Register
    \/ \E n \in 0..Size : Write(n)
    \/ \E n \in 0..MaxBatch, torn \in {<<>>, <<Torn>>} : Record(n, torn)
    \/ Save \/ Interrupt
    \/ Resume \/ Verify \/ Trim \/ Prove \/ RecordVerifierError \/ VerifierDies \/ ReconcileVerifier

ReceiveSpec == ReceiveInit /\ [][ReceiveNext]_receiveVars

-----------------------------------------------------------------------------
(* What the host was told stays true: every acknowledged byte is still in  *)
(* received.part below the saved offset, through torn writes, crashes and  *)
(* the truncations of chunk calls and workers.                             *)
AckedBytesHeld ==
    acked # <<>> => /\ Len(acked) <= st.offset
                    /\ Len(acked) <= Len(partial)
                    /\ SubSeq(partial, 1, Len(acked)) = acked

(* The saved prefix is the recovery boundary: once the files are           *)
(* registered, no interruption leaves a state whose prefix the resume      *)
(* worker would refuse.                                                    *)
RegisteredPrefixVerifies == st.registered => Verifies

(* A proof of the resume worker is about the files as they are: the host   *)
(* continues from proof.offset, and transfer_status raises partial_changed *)
(* when a proof outlives a change of the files.                            *)
ProofIsCurrent ==
    st.proof # Null /\ st.registered =>
        /\ synced
        /\ Len(partial) = st.proof.offset
        /\ ledger = st.proof.records

(* What a host was told is held, and what is registered can be verified    *)
(* again: the next chunk is never refused for bytes the service took.      *)
ReceivedIsHeld == AckedBytesHeld /\ RegisteredPrefixVerifies
=============================================================================
