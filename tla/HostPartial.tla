---------------------------- MODULE HostPartial ----------------------------
(***************************************************************************)
(* Reception of a pulled package on the host (velo_transfer/               *)
(* host_partial.py), inside the journal of HostJournal.tla.  A chunk is    *)
(* three writes: its bytes into received.part, its line into chunks.jsonl, *)
(* and the journal's receive_partial.  A process may be killed, or fail,   *)
(* between any two of them; resume() brings the files back to what the     *)
(* journal registers.                                                      *)
(*                                                                         *)
(* A file's identity (device, inode, size, mtime, ctime) is its content:   *)
(* every write here changes the content.  A digest is the digested bytes.  *)
(***************************************************************************)
EXTENDS HostJournal, Sequences

CONSTANTS
    Package,    \* the bytes the guest announced
    Noise,      \* a byte of no package
    MaxChunk,   \* max_chunk_bytes
    MaxLines    \* lines max_metadata_bytes has room for

ASSUME ChunkAssumption == MaxChunk \in Nat \ {0} /\ MaxLines \in Nat

Bytes == {Package[k] : k \in DOMAIN Package} \cup {Noise}
Lines == [offset : Nat, bytes : Seq(Bytes), torn : BOOLEAN]

(* What the journal registers of the reception: a chunk only once it is READY. *)
Receives ==
    {r \in [phase : {"DIRECTORY", "PARTIAL", "READY"}, verified : Nat, count : Nat] :
        r.phase # "READY" => r.verified = 0 /\ r.count = 0}

(* None is no byte sequence, no lines and no record, and Noise is no byte  *)
(* of the package.                                                         *)
ASSUME BytesAssumption ==
    /\ Package \in Seq(Bytes)
    /\ \A k \in DOMAIN Package : Package[k] # Noise
ASSUME AbsentAssumption ==
    /\ None # "partial_corrupt" /\ None \notin Seq(Bytes) /\ None \notin Seq(Lines) /\ None \notin Receives
    /\ None \notin [rev : Nat, boot : {0, 1}, data : [facts : FactFields, rp : Receives \cup {None}]]
    /\ None \notin [name : {"initialize", "resume", "verify", "append"}, offset : Nat, bytes : Seq(Bytes)]
    /\ None \notin Nat \X Nat \X Seq(Bytes) \X Seq(Lines)

VARIABLES
    receiveDir, \* the directory receive/ exists
    part,       \* received.part, or None
    ledger,     \* chunks.jsonl as a sequence of lines, or None
    op,         \* the operation each process is in: [name, offset, bytes]
    cont,       \* _continuity of each process, or None
    verified,   \* history: verify() succeeded
    taken,      \* history: the bytes of the chunks the journal registered
    acked,      \* history: the largest verified_offset any caller was told
    tampered    \* history: somebody else changed received.part

files == <<receiveDir, part, ledger>>
partialVars == <<files, op, cont, verified, taken, acked, tampered>>
vars == <<journalVars, partialVars>>

Torn == [offset |-> 0, bytes |-> <<>>, torn |-> TRUE]
Line(offset, bytes) == [offset |-> offset, bytes |-> bytes, torn |-> FALSE]
Receive(phase, offset, count) == [phase |-> phase, verified |-> offset, count |-> count]
Size == Len(Package)

-----------------------------------------------------------------------------
Init ==
    /\ JournalInit
    /\ receiveDir = FALSE /\ part = None /\ ledger = None
    /\ op = [h \in Hosts |-> None] /\ cont = [h \in Hosts |-> None]
    /\ verified = FALSE /\ taken = <<>> /\ acked = 0 /\ tampered = FALSE

rp(h) == env[h].data.rp
Ready(h) == rp(h) # None /\ rp(h).phase = "READY"
Fingerprint(r) == <<r.verified, r.count, part, ledger>>

(* _save of receive_partial: the facts stay as they are.                   *)
SavePartial(h, r, next) ==
    /\ Save(h, [env[h].data EXCEPT !.rp = r], next)
    /\ UNCHANGED <<stores, lock, env, resume, created, bounds, op>>

(* An error of the reception that wrote nothing to the journal.            *)
Refuse(h, error) ==
    /\ Raise(h, error)
    /\ op' = [op EXCEPT ![h] = None]
    /\ UNCHANGED <<stores, lock, then, env, want, resume, created, bounds>>

(* A write of the files fails.                                             *)
Breaks(h) ==
    /\ Fault
    /\ Raise(h, "partial_io_failed")
    /\ op' = [op EXCEPT ![h] = None]
    /\ UNCHANGED <<stores, lock, then, env, want, resume, created, starts>>

(* The operation goes on, or returns.                                      *)
Step(h, place) ==
    /\ Goto(h, place)
    /\ op' = IF place = "idle" THEN [op EXCEPT ![h] = None] ELSE op
    /\ UNCHANGED <<stores, lock, then, env, want, resume, created, code, bounds>>

(* A call of the reception begins: the journal is loaded for it.           *)
Call(h, o, place) ==
    /\ pc[h] \in {"idle", "failed"} /\ LoadError(h) = None
    /\ env' = [env EXCEPT ![h] = disk]
    /\ op' = [op EXCEPT ![h] = o]
    /\ Goto(h, place)
    /\ code' = [code EXCEPT ![h] = None]
    /\ UNCHANGED <<stores, lock, then, want, resume, created, bounds, files, cont, verified, taken, acked, tampered>>

Operation(name, offset, bytes) == [name |-> name, offset |-> offset, bytes |-> bytes]
CallInitialize(h) == Call(h, Operation("initialize", 0, <<>>), "initialize")
CallResume(h) == Call(h, Operation("resume", 0, <<>>), "resume")
CallVerify(h) == Call(h, Operation("verify", 0, <<>>), "resume")
CallAppend(h, offset, bytes) == Call(h, Operation("append", offset, bytes), "append")

-----------------------------------------------------------------------------
(* initialize: each object is created, then registered; one found before   *)
(* it is registered belongs to a killed process and is not adopted.        *)
InitializeDirectory(h) ==
    /\ At(h, "initialize") /\ rp(h) = None
    /\ IF receiveDir
       THEN Refuse(h, "partial_reconcile_required") /\ UNCHANGED receiveDir
       ELSE receiveDir' = TRUE /\ SavePartial(h, Receive("DIRECTORY", 0, 0), "initialize")
    /\ UNCHANGED <<part, ledger, cont, verified, taken, acked, tampered>>

InitializePart(h) ==
    /\ At(h, "initialize") /\ rp(h) # None
    /\ rp(h).phase = "DIRECTORY"
    /\ IF part # None
       THEN Refuse(h, "partial_reconcile_required") /\ UNCHANGED part
       ELSE part' = <<>> /\ SavePartial(h, Receive("PARTIAL", 0, 0), "initialize")
    /\ UNCHANGED <<receiveDir, ledger, cont, verified, taken, acked, tampered>>

InitializeLedger(h) ==
    /\ At(h, "initialize") /\ rp(h) # None
    /\ rp(h).phase = "PARTIAL"
    /\ IF ledger # None
       THEN Refuse(h, "partial_reconcile_required") /\ UNCHANGED ledger
       ELSE ledger' = <<>> /\ SavePartial(h, Receive("READY", 0, 0), "initialize")
    /\ UNCHANGED <<receiveDir, part, cont, verified, taken, acked, tampered>>

Initialized(h) ==
    /\ At(h, "initialize") /\ rp(h) # None
    /\ rp(h).phase = "READY"
    /\ Step(h, "resume")
    /\ UNCHANGED <<files, cont, verified, taken, acked, tampered>>

-----------------------------------------------------------------------------
(* resume: the registered lines follow each other from offset 0 and each   *)
(* one digests the bytes that received.part holds at its place.            *)
LineEnd(k) == IF k = 0 THEN 0 ELSE ledger[k].offset + Len(ledger[k].bytes)

LinesHold(r) ==
    /\ Len(part) >= r.verified /\ Len(ledger) >= r.count
    /\ \A k \in 1..r.count :
          /\ ~ledger[k].torn /\ ledger[k].bytes # <<>>
          /\ ledger[k].offset = LineEnd(k - 1)
          /\ LineEnd(k) <= Len(part)
          /\ SubSeq(part, ledger[k].offset + 1, LineEnd(k)) = ledger[k].bytes
    /\ LineEnd(r.count) = r.verified

ResumeCheck(h) ==
    /\ At(h, "resume")
    /\ IF ~Ready(h)
       THEN Refuse(h, "partial_not_initialized")
       ELSE IF ~LinesHold(rp(h))
       THEN Refuse(h, "partial_corrupt")
       ELSE Step(h, "truncate")
    /\ UNCHANGED <<files, cont, verified, taken, acked, tampered>>

(* The unregistered tails are cut: first the bytes, then the lines.        *)
TruncatePart(h) ==
    /\ At(h, "truncate") /\ Len(part) > rp(h).verified
    /\ part' = SubSeq(part, 1, rp(h).verified)
    /\ UNCHANGED <<journalVars, receiveDir, ledger, op, cont, verified, taken, acked, tampered>>

TruncateLedgerNot(h) ==
    /\ At(h, "truncate") /\ Len(part) <= rp(h).verified
    /\ SavePartial(h, rp(h), "resumed")
    /\ UNCHANGED <<receiveDir, part, ledger, cont, verified, taken, acked, tampered>>

TruncateLedger(h) ==
    /\ At(h, "truncate") /\ Len(part) <= rp(h).verified
    /\ ledger' = SubSeq(ledger, 1, rp(h).count)
    /\ SavePartial(h, rp(h), "resumed")
    /\ UNCHANGED <<receiveDir, part, cont, verified, taken, acked, tampered>>

(* ... and once that is saved, the files are known to match the journal.   *)
Resumed(h) ==
    /\ At(h, "resumed")
    /\ cont' = [cont EXCEPT ![h] = Fingerprint(rp(h))]
    /\ \/ op[h].name = "append" /\ Step(h, "append") /\ UNCHANGED acked
       \/ op[h].name = "verify" /\ Step(h, "hash") /\ UNCHANGED acked
       \/ /\ op[h].name \in {"initialize", "resume"}
          /\ Step(h, "idle")
          /\ acked' = IF acked < rp(h).verified THEN rp(h).verified ELSE acked
    /\ UNCHANGED <<files, taken, tampered, verified>>

-----------------------------------------------------------------------------
(* append: after its checks, files that are not as this process left them  *)
(* are resumed first.                                                      *)
AppendTrusts(h) == cont[h] # None

AppendContinues(h) == cont[h] = Fingerprint(rp(h))

AppendCheck(h) ==
    /\ At(h, "append")
    /\ IF ~Ready(h) THEN Refuse(h, "partial_not_initialized")
       ELSE IF ~AppendContinues(h) THEN Step(h, "resume")
       ELSE IF op[h].offset < rp(h).verified THEN Step(h, "replay")
       ELSE IF op[h].offset > rp(h).verified THEN Refuse(h, "chunk_offset_conflict")
       ELSE IF rp(h).count >= MaxLines THEN Refuse(h, "metadata_budget_exceeded")
       ELSE Step(h, "bytes")
    /\ UNCHANGED <<files, cont, verified, taken, acked, tampered>>

(* The bytes are written; a failing or a cut write leaves a part of them.  *)
WriteBytes(h, n) ==
    /\ At(h, "bytes") /\ n <= Len(op[h].bytes)
    /\ part' = part \o SubSeq(op[h].bytes, 1, n)
    /\ IF n = Len(op[h].bytes)
       THEN Step(h, "line")
       ELSE Breaks(h)
    /\ UNCHANGED <<receiveDir, ledger, cont, verified, taken, acked, tampered>>

(* The line is written and the chunk is registered.                        *)
WriteLine(h) ==
    /\ At(h, "line")
    /\ \/ /\ ledger' = Append(ledger, Line(op[h].offset, op[h].bytes))
          /\ SavePartial(h, Receive("READY", rp(h).verified + Len(op[h].bytes), rp(h).count + 1), "appended")
       \/ ledger' = Append(ledger, Torn) /\ Breaks(h)
    /\ UNCHANGED <<receiveDir, part, cont, verified, taken, acked, tampered>>

Appended(h) ==
    /\ At(h, "appended")
    /\ cont' = [cont EXCEPT ![h] = Fingerprint(rp(h))]
    /\ acked' = IF acked < rp(h).verified THEN rp(h).verified ELSE acked
    /\ Step(h, "idle")
    /\ UNCHANGED <<files, taken, tampered, verified>>

(* _replay: a chunk the caller was not told of is offered again.           *)
Replay(h) ==
    /\ At(h, "replay")
    /\ LET same == {k \in 1..rp(h).count : ledger[k].offset = op[h].offset} IN
       IF same = {}
       THEN Refuse(h, "chunk_offset_conflict") /\ UNCHANGED acked
       ELSE IF \E k \in same : ledger[k].bytes # op[h].bytes
       THEN Refuse(h, "chunk_replay_conflict") /\ UNCHANGED acked
       ELSE /\ Step(h, "idle")
            /\ acked' = IF acked < rp(h).verified THEN rp(h).verified ELSE acked
    /\ UNCHANGED <<files, cont, taken, tampered, verified>>

(* verify, after its resume: the whole file against the announced digest.  *)
Hash(h) ==
    /\ At(h, "hash")
    /\ IF rp(h).verified # Size THEN Refuse(h, "package_incomplete") /\ UNCHANGED verified
       ELSE IF Len(part) # Size THEN Refuse(h, "package_size_mismatch") /\ UNCHANGED verified
       ELSE IF part # Package THEN Refuse(h, "package_hash_mismatch") /\ UNCHANGED verified
       ELSE Step(h, "idle") /\ verified' = TRUE
    /\ UNCHANGED <<files, cont, taken, acked, tampered>>

-----------------------------------------------------------------------------
(* A step of the journal: a rename that registers a chunk is where the     *)
(* bytes are taken, and a process that ends forgets what it knew.          *)
RenameTakes(h) ==
    /\ Rename(h)
    /\ taken' = IF then[h] = "appended" THEN taken \o op[h].bytes ELSE taken
    /\ UNCHANGED <<files, op, cont, verified, acked, tampered>>

LeaveForgets(h) ==
    /\ Leave(h)
    /\ op' = [op EXCEPT ![h] = None]
    /\ cont' = [cont EXCEPT ![h] = None]
    /\ UNCHANGED <<files, verified, taken, acked, tampered>>

PowerLossForgets ==
    /\ PowerLoss
    /\ op' = [h \in Hosts |-> None] /\ cont' = [h \in Hosts |-> None] 
    /\ UNCHANGED <<files, verified, taken, acked, tampered>>

(* Another program of the same user changes a byte of received.part.       *)
Tamper(k) ==
    /\ part # None /\ Fault
    /\ k \in DOMAIN part
    /\ part' = [part EXCEPT ![k] = Noise]
    /\ tampered' = TRUE
    /\ UNCHANGED <<stores, lock, procs, starts, receiveDir, ledger, op, cont, verified, taken, acked>>

(* The chunks the guest may send from an offset: the package's bytes, or   *)
(* others that their digest matches all the same.                          *)
Chunks(offset) ==
    {SubSeq(Package, offset + 1, offset + n) : n \in {m \in 1..MaxChunk : offset + m <= Size}}
       \cup {<<Noise>>}

JournalStep(h) ==
    /\ \/ \E r \in BOOLEAN : Start(h, r)
       \/ Load(h) \/ Create(h) \/ Sync(h) \/ PlaceEvidence(h)
       \/ \E seen \in BOOLEAN : CommitFails(h, seen)
       \/ \E f \in Facts : SaveFacts(h, f)
       \/ \E v \in {"v1", "v2"} : WriteEvidence(h, v)
    /\ UNCHANGED partialVars

Next ==
    \/ PowerLossForgets
    \/ \E k \in 1..Size : Tamper(k)
    \/ \E h \in Hosts :
         \/ JournalStep(h) \/ RenameTakes(h) \/ LeaveForgets(h)
         \/ CallInitialize(h) \/ CallResume(h) \/ CallVerify(h)
         \/ \E offset \in 0..(Size - 1) : \E bytes \in Chunks(offset) : CallAppend(h, offset, bytes)
         \/ InitializeDirectory(h) \/ InitializePart(h) \/ InitializeLedger(h) \/ Initialized(h)
         \/ ResumeCheck(h) \/ TruncatePart(h) \/ TruncateLedger(h) \/ Resumed(h)
         \/ AppendCheck(h) \/ WriteLine(h) \/ Appended(h) \/ Replay(h) \/ Hash(h)
         \/ \E n \in 0..MaxChunk : WriteBytes(h, n)

Spec == Init /\ [][Next]_vars

-----------------------------------------------------------------------------
Registered == IF disk = None THEN None ELSE disk.data.rp

(* What a caller was told it need not send again is registered in a state  *)
(* that survives a power loss (append, _replay, resume).                   *)
AckedIsDurable ==
    acked > 0 => durable # None /\ durable.data.rp # None /\ durable.data.rp.verified >= acked

(* Whatever the process that wrote it went through, the registered prefix  *)
(* of received.part is the bytes of the accepted chunks in order: none is  *)
(* missing, doubled or cut (append, resume).                               *)
TakenIsHeld ==
    Registered # None /\ Registered.phase = "READY" =>
        /\ Registered.verified <= Len(taken) /\ (boot = 0 => Registered.verified = Len(taken))
        /\ ~tampered => SubSeq(part, 1, Registered.verified) = SubSeq(taken, 1, Registered.verified)
        /\ verified => taken = Package

(* No kill, failed write or second process makes the files look corrupt or *)
(* the journal look changed to the process that holds it, and what a       *)
(* failed save tells its caller is what happened (resume, _save, _commit). *)
NoFalseAlarm ==
    /\ ~tampered => \A h \in Hosts : code[h] \notin {"partial_corrupt", "stale_revision"}
    /\ VerdictIsTrue

(* What was acknowledged is registered in a durable state, and what is     *)
(* registered is in the file: nobody has to send a chunk again.            *)
AckedIsHeld == AckedIsDurable /\ TakenIsHeld
=============================================================================
