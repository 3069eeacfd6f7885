------------------------- MODULE ProvisionalSession -------------------------
(***************************************************************************)
(* Provisional exports of one idempotency key: crates/kvpack/src/store/    *)
(* provisional and crates/kvpack/src/export/provisional.  Several sessions *)
(* may be open on the key at once; each adopts the upload with a fencing   *)
(* token, stages one chunk after another into a private directory, and     *)
(* seals: promotes the chunks by hard links, seals the ledger, publishes.  *)
(* Sessions, the reaper of lapsed leases and the restart interleave between*)
(* critical sections of the catalog mutex and file operations.             *)
(*                                                                         *)
(* Every state of the export has one chunk, so an ordinal is a state and a *)
(* content.  A file is named by who wrote it; its object key is the same   *)
(* for every writer unless the export is Encrypted.  Quota and the rest of *)
(* the catalog are in ObjectStore.                                         *)
(***************************************************************************)
EXTENDS Naturals

CONSTANTS
    Sessions, NoSession,
    NoFile,
    ChunkCount,    \* chunks of the export
    Encrypted,     \* encodings carry fresh salt and nonce
    MaxCrashes     \* bound: crashes of one behaviour

ASSUME SessionsAssumption == NoSession \notin Sessions
ASSUME CountAssumption == ChunkCount \in Nat /\ MaxCrashes \in Nat /\ Encrypted \in BOOLEAN

VARIABLES
    up,        \* uploads.state
    token,     \* uploads.session_token
    lease,     \* uploads.lease_expires_ns: 0, in the future, or past
    cursor,    \* uploads.next_chunk_ordinal
    ledger,    \* upload_chunks: ordinal -> object key
    row,       \* chunks: the canonical object key of each content
    pub,       \* object keys with a refcount
    cut,       \* history: keys unlinked by a cleanup that a crash kept from deleting the row
    lost,      \* history: keys unlinked outside a transaction that deletes the row
    dir,       \* the upload's private directory exists
    staged,    \* its files
    cas,       \* files under chunks/: object key -> the file linked there
    pc,        \* where each session is
    next,      \* the ordinal it is at
    seen,      \* the cursor its staging batch began from, or Replay
    refs,      \* the references it staged
    canon,     \* the references its promotion returned
    own,       \* ordinals with a staged_path
    made,      \* ordinals whose promotion created the target
    reaper, mode, crashes

catalog == <<up, token, lease, cursor, ledger>>
chunkRows == <<row, pub, cut, lost>>
files   == <<dir, staged, cas>>
work    == <<next, seen, refs, canon, own, made>>
env     == <<reaper, mode, crashes>>
vars    == <<catalog, chunkRows, files, pc, work, env>>

Ord   == {n \in 0 .. ChunkCount : n < ChunkCount}
Files == (Sessions \cup {NoSession}) \X Ord

ASSUME NoFileAssumption == NoFile \notin Files

Replay == ChunkCount + 1      \* ProvisionalStageMode::PublishedReplay
InFlight == {"RESERVED", "RECEIVING", "VERIFIED"}
Nothing == [i \in Ord |-> NoFile]

(* The object key of a file: fresh for each encryption. *)
Key(f) == IF Encrypted THEN f ELSE <<NoSession, f[2]>>

Labels ==
    {"start", "wipe", "forget", "reserve", "mark", "giveUp", "adopt", "resume", "mkdir",
     "unbegin", "unbeginAbort", "unbeginClear", "stage", "file", "commit",
     "link", "put", "insert", "insertNew", "tidy", "seal", "publish", "finishDir", "finishLedger",
     "undo", "cancel", "cancelDir", "cancelAbort", "cancelClear", "ended"}

TypeOK ==
    /\ up \in InFlight \cup {"NONE", "PUBLISHED", "ABORTED"}
    /\ token \in Sessions \cup {NoSession}
    /\ lease \in {"none", "live", "expired"}
    /\ cursor \in 0 .. ChunkCount
    /\ ledger \in [Ord -> Files \cup {NoFile}]
    /\ row \in [Ord -> Files \cup {NoFile}]
    /\ pub \subseteq Files /\ cut \subseteq Files /\ lost \subseteq Files
    /\ dir \in BOOLEAN
    /\ staged \in [Ord -> Files \cup {NoFile}]
    /\ cas \in [Files -> Files \cup {NoFile}]
    /\ pc \in [Sessions -> Labels]
    /\ next \in [Sessions -> 0 .. ChunkCount]
    /\ seen \in [Sessions -> 0 .. Replay]
    /\ refs \in [Sessions -> [Ord -> Files \cup {NoFile}]]
    /\ canon \in [Sessions -> [Ord -> Files \cup {NoFile}]]
    /\ own \in [Sessions -> SUBSET Ord]
    /\ made \in [Sessions -> SUBSET Ord]
    /\ reaper \in {"idle", "dir", "abort", "clear"}
    /\ mode \in {"open", "down", "sweep", "abort", "clear"}
    /\ crashes \in 0 .. MaxCrashes

Init ==
    /\ up = "NONE" /\ token = NoSession /\ lease = "none"
    /\ cursor = 0
    /\ ledger = Nothing /\ row = Nothing /\ pub = {} /\ cut = {} /\ lost = {}
    /\ dir = FALSE /\ staged = Nothing /\ cas = [f \in Files |-> NoFile]
    /\ pc = [s \in Sessions |-> "start"]
    /\ next = [s \in Sessions |-> 0] /\ seen = [s \in Sessions |-> 0]
    /\ refs = [s \in Sessions |-> Nothing] /\ canon = [s \in Sessions |-> Nothing]
    /\ own = [s \in Sessions |-> {}] /\ made = [s \in Sessions |-> {}]
    /\ reaper = "idle" /\ mode = "open" /\ crashes = 0

Goto(s, l) == pc' = [pc EXCEPT ![s] = l]

At(s, l) == mode = "open" /\ pc[s] = l

-----------------------------------------------------------------------------
(* The pieces every path is made of. *)

(* abort_upload: any upload in flight, whoever owns it. *)
AbortUpload ==
    /\ up' = IF up \in InFlight THEN "ABORTED" ELSE up
    /\ UNCHANGED <<token, lease, cursor, ledger>>

(* abort_upload answers Busy: the audit outbox is full. *)
AbortRefused == up # "PUBLISHED" /\ UNCHANGED catalog

(* clear_provisional_ledger, which insists on the terminal state. *)
ClearLedger(expected) ==
    /\ ledger' = IF up = expected THEN Nothing ELSE ledger
    /\ cursor' = IF up = expected THEN 0 ELSE cursor
    /\ UNCHANGED <<up, token, lease>>

(* finish_provisional_upload_dir: no look at the catalog. *)
RemoveDir == dir' = FALSE /\ staged' = Nothing /\ UNCHANGED cas

(* The token check of cancel_provisional_upload and abort_provisional_session. *)
MayAbort(s) == up \in InFlight => token = s

(* Mutant: the refcount is not looked at. *)
RemovableAnyway(i, k) == staged[i] # NoFile /\ cas[k] = staged[i]

(* cleanup_one_provisional_promotion: same inode, and nothing refers to the key. *)
Removable(i, k) == staged[i] # NoFile /\ cas[k] = staged[i] /\ k \notin pub

(* Mutant: the link goes and the chunks row stays. *)
UnlinkOnly(i, k) ==
    /\ cas' = IF Removable(i, k) THEN [cas EXCEPT ![k] = NoFile] ELSE cas
    /\ UNCHANGED <<chunkRows, dir, staged>>

(* The file is unlinked and the transaction that deletes its row commits, under one hold
   of the catalog mutex. *)
CleanupOne(i, k) ==
    /\ cas' = IF Removable(i, k) THEN [cas EXCEPT ![k] = NoFile] ELSE cas
    /\ row' = IF Removable(i, k) /\ row[i] = k THEN [row EXCEPT ![i] = NoFile] ELSE row
    /\ UNCHANGED <<pub, cut, lost, dir, staged>>

(* The file is unlinked and its row still there. *)
Unlinked(i, k) ==
    /\ Removable(i, k) /\ row[i] = k
    /\ cas' = [cas EXCEPT ![k] = NoFile]
    /\ UNCHANGED <<row, pub, dir, staged>>

(* It answers with an error: nothing is done, or undone (the unlink failed, or the commit
   did and the file was linked back); all is done (the directory was not synced); or the
   commit failed and the link back too, which the code ignores. *)
CleanupFails(i, k) ==
    \/ UNCHANGED <<chunkRows, files>>
    \/ CleanupOne(i, k)
    \/ Unlinked(i, k) /\ lost' = lost \cup {k} /\ UNCHANGED cut

(* Session s is in the cleanup of chunk i: of a put it lost, or of a failed seal, last
   chunk first. *)
CleaningUp(s, i) ==
    \/ pc[s] = "tidy" /\ i = next[s]
    \/ pc[s] = "undo" /\ i \in made[s] /\ \A j \in made[s] : j <= i

-----------------------------------------------------------------------------
(* begin_provisional_upload. *)

(* What a begin does next, by the upload's state. *)
Resume ==
    CASE up = "RESERVED"  -> "mark"
      [] up = "RECEIVING" -> "resume"
      [] up = "PUBLISHED" -> "finishDir"   \* a replay only reads until it finishes
      [] OTHER            -> "ended"

(* reserve_upload's first look. *)
ReserveLook(s) ==
    /\ At(s, "start")
    /\ Goto(s, CASE up = "NONE" -> "reserve" [] up = "ABORTED" -> "wipe" [] OTHER -> Resume)
    /\ UNCHANGED <<catalog, chunkRows, files, work, env>>

(* RE_INIT discards the leftovers of the aborted attempt, directory first ... *)
ReinitDir(s) ==
    /\ At(s, "wipe")
    /\ RemoveDir
    /\ Goto(s, "forget")
    /\ UNCHANGED <<catalog, chunkRows, work, env>>

(* ... then the ledger, which fails unless the row is still ABORTED. *)
ReinitLedger(s) ==
    /\ At(s, "forget")
    /\ ClearLedger("ABORTED")
    /\ Goto(s, IF up = "ABORTED" THEN "reserve" ELSE "ended")
    /\ UNCHANGED <<chunkRows, files, work, env>>

(* The reserving transaction looks again; quota, endurance and the audit outbox may
   refuse a new reservation. *)
Reserve(s) ==
    /\ At(s, "reserve")
    /\ \/ /\ up \in {"NONE", "ABORTED"}
          /\ up' = "RESERVED" /\ token' = NoSession /\ lease' = "none"
          /\ cursor' = 0
          /\ UNCHANGED ledger
          /\ Goto(s, "mark")
       \/ /\ Goto(s, IF up \in {"NONE", "ABORTED"} THEN "ended" ELSE Resume)
          /\ UNCHANGED catalog
    /\ UNCHANGED <<chunkRows, files, work, env>>

(* mark_receiving; its failure (also Busy) is followed by a plain abort. *)
MarkReceiving(s) ==
    /\ At(s, "mark")
    /\ \/ /\ up \in {"RESERVED", "RECEIVING"}
          /\ up' = "RECEIVING" /\ Goto(s, "adopt")
       \/ UNCHANGED up /\ Goto(s, "giveUp")
    /\ UNCHANGED <<token, lease, cursor, ledger, chunkRows, files, work, env>>

BeginGivesUp(s) ==
    /\ At(s, "giveUp")
    /\ AbortUpload \/ AbortRefused
    /\ Goto(s, "ended")
    /\ UNCHANGED <<chunkRows, files, work, env>>

(* adopt_provisional_session, on a fresh reservation and on a resume. *)
Adopt(s) ==
    /\ At(s, "adopt") \/ At(s, "resume")
    /\ \/ /\ up = "RECEIVING"
          /\ token' = s /\ lease' = "live"
          /\ Goto(s, "mkdir")
       \/ /\ up # "RECEIVING"
          /\ Goto(s, IF pc[s] = "adopt" THEN "unbegin" ELSE "ended")
          /\ UNCHANGED <<token, lease>>
    /\ UNCHANGED <<up, cursor, ledger, chunkRows, files, work, env>>

MakeDir(s) ==
    /\ At(s, "mkdir")
    /\ \/ dir' = TRUE /\ Goto(s, "stage")
       \/ dir' \in {dir, TRUE} /\ Goto(s, "unbegin")    \* an I/O error
    /\ UNCHANGED <<catalog, chunkRows, staged, cas, work, env>>

(* fail_provisional_begin: the check, the abort and the ledger apart. *)
Unbegin(s) ==
    \/ /\ At(s, "unbegin")
       /\ Goto(s, IF MayAbort(s) THEN "unbeginAbort" ELSE "unbeginClear")
       /\ UNCHANGED <<catalog, chunkRows, files, work, env>>
    \/ /\ At(s, "unbeginAbort")
       /\ AbortUpload \/ AbortRefused
       /\ Goto(s, "unbeginClear")
       /\ UNCHANGED <<chunkRows, files, work, env>>
    \/ /\ At(s, "unbeginClear")
       /\ ClearLedger("ABORTED")
       /\ Goto(s, "ended")
       /\ UNCHANGED <<chunkRows, files, work, env>>

-----------------------------------------------------------------------------
(* stage_state. *)

Accepts(s) == token = s /\ lease # "expired" /\ up = "RECEIVING"

(* What begin_provisional_stage_batch resolves. *)
StageMode == IF up = "PUBLISHED" THEN Replay ELSE cursor

(* A state begins, unless the batch is refused; an error poisons the session, which its owner
   then drops. *)
StageBegin(s) ==
    /\ At(s, "stage") /\ next[s] < ChunkCount
    /\ seen' = [seen EXCEPT ![s] = StageMode]
    /\ Goto(s, IF up = "PUBLISHED" \/ Accepts(s) THEN "file" ELSE "cancel")
    /\ UNCHANGED <<catalog, chunkRows, files, next, refs, canon, own, made, env>>

(* A state ends: its directory is synced, which fails if there is none. *)
StateStaged(s) ==
    /\ next' = [next EXCEPT ![s] = @ + 1]
    /\ Goto(s, IF dir THEN "stage" ELSE "cancel")

(* The chunk is in the catalog and, below the cursor, the ledger agrees. *)
Replayed(s, i) == row[i] # NoFile /\ (seen[s] # Replay => ledger[i] = row[i])

(* write_or_verify_private: a new file, or one with the same bytes. *)
Writable(f) == dir /\ (staged[f[2]] # NoFile => Key(staged[f[2]]) = Key(f))

(* stage_provisional_chunk_file: below the cursor the chunk is replayed, which
   leaves nothing to commit; from the cursor on it is deduplicated or staged. *)
StageFile(s) ==
    LET i == next[s]
        f == <<s, i>>
    IN
    /\ At(s, "file")
    /\ \/ /\ i < seen[s] /\ Replayed(s, i)
          /\ refs' = [refs EXCEPT ![s][i] = row[i]]
          /\ StateStaged(s)
          /\ UNCHANGED <<own, staged>>
       \/ /\ i >= seen[s] /\ row[i] # NoFile
          /\ refs' = [refs EXCEPT ![s][i] = row[i]]
          /\ Goto(s, "commit")
          /\ UNCHANGED <<next, own, staged>>
       \/ /\ i >= seen[s] /\ row[i] = NoFile /\ Writable(f)
          /\ staged' = [staged EXCEPT ![i] = IF @ = NoFile THEN f ELSE @]
          /\ refs' = [refs EXCEPT ![s][i] = Key(f)]
          /\ own' = [own EXCEPT ![s] = @ \cup {i}]
          /\ Goto(s, "commit")
          /\ UNCHANGED next
       \/ /\ IF i < seen[s] THEN ~Replayed(s, i) ELSE row[i] = NoFile /\ ~Writable(f)
          /\ Goto(s, "cancel")
          /\ UNCHANGED <<next, refs, own, staged>>
    /\ UNCHANGED <<catalog, chunkRows, dir, cas, seen, canon, made, env>>

(* Mutant: the ledger row is left to a later call. *)
CommitCursorOnly(s) ==
    LET i == next[s] IN
    /\ At(s, "commit")
    /\ Accepts(s) /\ cursor = i /\ ledger[i] = NoFile
    /\ cursor' = i + 1 /\ lease' = "live"
    /\ StateStaged(s)
    /\ UNCHANGED <<up, token, ledger, chunkRows, files, seen, refs, canon, own, made, env>>

(* commit_provisional_stage_batch re-checks everything, inserts the row under
   its primary key, advances the cursor and renews the lease; the directory is
   synced afterwards. *)
StageCommit(s) ==
    LET i == next[s] IN
    /\ At(s, "commit")
    /\ \/ /\ Accepts(s) /\ cursor = i /\ ledger[i] = NoFile
          /\ ledger' = [ledger EXCEPT ![i] = refs[s][i]]
          /\ cursor' = i + 1 /\ lease' = "live"
          /\ StateStaged(s)
       \/ /\ ~(Accepts(s) /\ cursor = i /\ ledger[i] = NoFile)
          /\ Goto(s, "cancel")
          /\ UNCHANGED <<ledger, cursor, lease, next>>
    /\ UNCHANGED <<up, token, chunkRows, files, seen, refs, canon, own, made, env>>

-----------------------------------------------------------------------------
(* seal_and_publish. *)

(* verify_provisional_ledger. *)
VerifyLedger(s) ==
    LET good == up = "PUBLISHED" \/ (/\ up \in {"RECEIVING", "VERIFIED"}
                                     /\ cursor = ChunkCount /\ ledger = refs[s])
    IN
    /\ At(s, "stage") /\ next[s] = ChunkCount
    /\ Goto(s, IF good THEN "link" ELSE "undo")
    /\ next' = [next EXCEPT ![s] = 0]
    /\ UNCHANGED <<catalog, chunkRows, files, seen, refs, canon, own, made, env>>

(* What promotion reads has the length and digest of the reference. *)
Intact(s, i) ==
    IF i \in own[s] THEN staged[i] # NoFile /\ Key(staged[i]) = refs[s][i]
                    ELSE cas[refs[s][i]] # NoFile

(* promote_provisional_chunk links a staged file, unless the target exists. *)
PromoteLink(s) ==
    LET i == next[s]
        k == refs[s][i]
    IN
    /\ At(s, "link") /\ i < ChunkCount
    /\ \/ /\ Intact(s, i) /\ cas[k] = NoFile
          /\ cas' = [cas EXCEPT ![k] = staged[i]]
          /\ made' = [made EXCEPT ![s] = @ \cup {i}]
          /\ Goto(s, "put")
       \/ Intact(s, i) /\ cas[k] # NoFile /\ Goto(s, "put") /\ UNCHANGED <<cas, made>>
       \/ ~Intact(s, i) /\ Goto(s, "undo") /\ UNCHANGED <<cas, made>>
    /\ UNCHANGED <<catalog, chunkRows, dir, staged, next, seen, refs, canon, own, env>>

(* The put returned c: a loser's link is tidied, and the next chunk follows. *)
Settle(s, c) ==
    LET i == next[s]
        loses == c # refs[s][i]
    IN
    /\ canon' = [canon EXCEPT ![s][i] = c]
    /\ made' = [made EXCEPT ![s] = IF loses THEN @ \ {i} ELSE @]
    /\ IF loses /\ i \in own[s]
         THEN Goto(s, "tidy") /\ UNCHANGED next
         ELSE Goto(s, "link") /\ next' = [next EXCEPT ![s] = i + 1]

(* put_export_chunk_with_retention: the row that is there, or a file whose row
   comes next.  An error, Busy say, ends the seal. *)
PromotePut(s) ==
    LET i == next[s]
        k == refs[s][i]
    IN
    /\ At(s, "put")
    /\ \/ row[i] # NoFile /\ Settle(s, row[i]) /\ UNCHANGED cas
       \/ /\ row[i] = NoFile
          /\ cas' = [cas EXCEPT ![k] = IF @ = NoFile THEN <<NoSession, i>> ELSE @]
          /\ Goto(s, IF cas[k] = NoFile THEN "insertNew" ELSE "insert")
          /\ UNCHANGED <<canon, made, next>>
       \/ Goto(s, "undo") /\ UNCHANGED <<cas, canon, made, next>>
    /\ UNCHANGED <<catalog, chunkRows, dir, staged, seen, refs, own, env>>

(* catalog_chunks.  A put that wrote the file itself and lost quarantines it before it
   lets go of the mutex; another session may be about to insert the same key. *)
PromoteInsert(s) ==
    LET i == next[s]
        k == refs[s][i]
        c == IF row[i] = NoFile THEN k ELSE row[i]
        quarantined == IF pc[s] = "insertNew" /\ c # k THEN {k} ELSE {}
    IN
    /\ At(s, "insert") \/ At(s, "insertNew")
    /\ \/ /\ row' = [row EXCEPT ![i] = c]
          /\ cas' = [f \in Files |-> IF f \in quarantined THEN NoFile ELSE cas[f]]
          /\ lost' = lost \cup quarantined
          /\ Settle(s, c)
       \/ Goto(s, "undo") /\ UNCHANGED <<row, cas, lost, canon, made, next>>
    /\ UNCHANGED <<catalog, pub, cut, dir, staged, seen, refs, own, env>>

(* An error of this cleanup ends the seal. *)
PromoteTidy(s) ==
    LET i == next[s] IN
    /\ At(s, "tidy")
    /\ \/ /\ CleanupOne(i, refs[s][i])
          /\ next' = [next EXCEPT ![s] = i + 1]
          /\ Goto(s, "link")
       \/ CleanupFails(i, refs[s][i]) /\ Goto(s, "undo") /\ UNCHANGED next
    /\ UNCHANGED <<catalog, seen, refs, canon, own, made, env>>

(* seal_provisional_upload, once every chunk is promoted. *)
Seal(s) ==
    /\ At(s, "link") /\ next[s] = ChunkCount
    /\ \/ /\ Accepts(s) /\ cursor = ChunkCount
          /\ up' = "VERIFIED"
          /\ Goto(s, "publish")
       \/ /\ ~(Accepts(s) /\ cursor = ChunkCount)
          /\ Goto(s, "undo")
          /\ UNCHANGED up
    /\ UNCHANGED <<token, lease, cursor, ledger, chunkRows, files, work, env>>

(* Every reference of the manifest has an AVAILABLE row. *)
Cataloged(s) == \A i \in Ord : row[i] = canon[s][i]

(* publish_manifest_batch: no token; any upload in flight will do.  An error,
   also an injected or I/O one, ends the seal. *)
Publish(s) ==
    /\ At(s, "publish")
    /\ \/ /\ up \in InFlight /\ Cataloged(s)
          /\ up' = "PUBLISHED"
          /\ pub' = {canon[s][i] : i \in Ord}
          /\ Goto(s, "finishDir")
       \/ /\ up = "PUBLISHED" /\ pub = {canon[s][i] : i \in Ord}
          /\ Goto(s, "finishDir")
          /\ UNCHANGED <<up, pub>>
       \/ Goto(s, "undo") /\ UNCHANGED <<up, pub>>
    /\ UNCHANGED <<token, lease, cursor, ledger, row, cut, lost, files, work, env>>

(* The final manifest is read back, then the directory and the ledger go. *)
Finish(s) ==
    \/ /\ At(s, "finishDir")
       /\ Goto(s, "undo")                    \* the read failed
       /\ UNCHANGED <<catalog, chunkRows, files, work, env>>
    \/ /\ At(s, "finishDir")
       /\ RemoveDir
       /\ Goto(s, "finishLedger")
       /\ UNCHANGED <<catalog, chunkRows, work, env>>
    \/ /\ At(s, "finishLedger")
       /\ ClearLedger("PUBLISHED")
       /\ Goto(s, "ended")
       /\ UNCHANGED <<chunkRows, files, work, env>>

(* After a failed seal: the put's own cleanup of the chunk it is at, whose error changes
   nothing, then cleanup_provisional_promotion, which stops at the first error. *)
Undo(s) ==
    /\ At(s, "undo")
    /\ \/ \E i \in Ord :
            /\ CleaningUp(s, i)
            /\ \/ /\ CleanupOne(i, refs[s][i])
                  /\ made' = [made EXCEPT ![s] = @ \ {i}]
                  /\ UNCHANGED pc
               \/ /\ CleanupFails(i, refs[s][i])
                  /\ made' = [made EXCEPT ![s] = IF i = next[s] THEN @ \ {i} ELSE {}]
                  /\ Goto(s, IF i = next[s] THEN "undo" ELSE "cancel")
       \/ made[s] = {} /\ Goto(s, "cancel") /\ UNCHANGED <<made, chunkRows, files>>
    /\ UNCHANGED <<catalog, next, seen, refs, canon, own, env>>

-----------------------------------------------------------------------------
(* cancel_provisional_upload, by the owner, by Drop or after a failed seal.  If a
   cancel by the owner fails, Drop tries again. *)

DropSession(s) ==
    /\ At(s, "stage")
    /\ Goto(s, "cancel")
    /\ UNCHANGED <<catalog, chunkRows, files, work, env>>

Cancel(s) ==
    \/ /\ At(s, "cancel")
       /\ Goto(s, IF MayAbort(s) THEN "cancelDir" ELSE "ended")
       /\ UNCHANGED <<catalog, chunkRows, files, work, env>>
    \/ /\ At(s, "cancelDir")
       /\ \/ RemoveDir /\ Goto(s, "cancelAbort")
          \/ UNCHANGED files /\ (Goto(s, "ended") \/ Goto(s, "cancel"))
       /\ UNCHANGED <<catalog, chunkRows, work, env>>
    \/ /\ At(s, "cancelAbort")
       /\ \/ AbortUpload /\ Goto(s, "cancelClear")
          \/ AbortRefused /\ (Goto(s, "ended") \/ Goto(s, "cancel"))
       /\ UNCHANGED <<chunkRows, files, work, env>>
    \/ /\ At(s, "cancelClear")
       /\ ClearLedger("ABORTED")
       /\ Goto(s, "ended")
       /\ UNCHANGED <<chunkRows, files, work, env>>

-----------------------------------------------------------------------------
(* Time, the reaper, crash and restart. *)

LeaseLapses ==
    /\ lease = "live"
    /\ lease' = "expired"
    /\ UNCHANGED <<up, token, cursor, ledger, chunkRows, files, pc, work, env>>

(* Mutant: a sealed upload is taken for finished. *)
ReapLookUnsealed ==
    /\ mode = "open" /\ reaper = "idle"
    /\ up \in {"RESERVED", "RECEIVING"} /\ lease = "expired"
    /\ reaper' = "dir"
    /\ UNCHANGED <<catalog, chunkRows, files, pc, work, mode, crashes>>

(* reap_expired_provisional_uploads, from any stat or reserve: the look, ... *)
ReapLook ==
    /\ mode = "open" /\ reaper = "idle"
    /\ up \in InFlight /\ lease = "expired"
    /\ reaper' = "dir"
    /\ UNCHANGED <<catalog, chunkRows, files, pc, work, mode, crashes>>

(* ... the directory, ... *)
ReapDir ==
    /\ mode = "open" /\ reaper = "dir"
    /\ RemoveDir
    /\ reaper' = "abort"
    /\ UNCHANGED <<catalog, chunkRows, pc, work, mode, crashes>>

(* ... the abort, ... *)
ReapAbort ==
    /\ mode = "open" /\ reaper = "abort"
    /\ AbortUpload
    /\ reaper' = "clear"
    /\ UNCHANGED <<chunkRows, files, pc, work, mode, crashes>>

(* ... and the ledger. *)
ReapLedger ==
    /\ mode = "open" /\ reaper = "clear"
    /\ ClearLedger("ABORTED")
    /\ reaper' = "idle"
    /\ UNCHANGED <<chunkRows, files, pc, work, mode, crashes>>

(* An I/O error, or an abort that is refused, ends the round. *)
ReapFails ==
    /\ mode = "open" /\ reaper \in {"dir", "abort"}
    /\ reaper' = "idle"
    /\ UNCHANGED <<catalog, chunkRows, files, pc, work, mode, crashes>>

(* A crash, also one between a cleanup's unlink and its commit. *)
Crash ==
    /\ mode # "down" /\ crashes < MaxCrashes
    /\ mode' = "down" /\ crashes' = crashes + 1
    /\ reaper' = "idle"
    /\ pc' = [s \in Sessions |-> IF pc[s] = "start" THEN "start" ELSE "ended"]
    /\ \/ UNCHANGED <<chunkRows, files>>
       \/ \E s \in Sessions, i \in Ord :
            /\ CleaningUp(s, i) /\ Unlinked(i, refs[s][i])
            /\ cut' = cut \cup {refs[s][i]} /\ UNCHANGED lost
    /\ UNCHANGED <<catalog, work>>

(* reconcile_provisional_uploads: a directory is removed, its upload aborted and
   its ledger cleared; that fails, and with it LocalStore::open, if the upload
   was published. *)
Restart ==
    /\ \/ /\ mode = "down"
          /\ mode' = IF dir THEN "sweep" ELSE "open"
          /\ UNCHANGED <<catalog, files>>
       \/ mode = "sweep" /\ RemoveDir /\ mode' = "abort" /\ UNCHANGED catalog
       \/ mode = "abort" /\ AbortUpload /\ mode' = "clear" /\ UNCHANGED files
       \/ mode = "abort" /\ AbortRefused /\ mode' = "down" /\ UNCHANGED files
       \/ /\ mode = "clear"
          /\ ClearLedger("ABORTED")
          /\ mode' = IF up = "ABORTED" THEN "open" ELSE "down"
          /\ UNCHANGED files
    /\ UNCHANGED <<chunkRows, pc, work, reaper, crashes>>

-----------------------------------------------------------------------------
Next ==
    \/ \E s \in Sessions :
         \/ ReserveLook(s) \/ ReinitDir(s) \/ ReinitLedger(s) \/ Reserve(s)
         \/ MarkReceiving(s) \/ BeginGivesUp(s) \/ Adopt(s) \/ MakeDir(s) \/ Unbegin(s)
         \/ StageBegin(s) \/ StageFile(s) \/ StageCommit(s)
         \/ VerifyLedger(s) \/ PromoteLink(s) \/ PromotePut(s) \/ PromoteInsert(s)
         \/ PromoteTidy(s) \/ Seal(s) \/ Publish(s) \/ Finish(s) \/ Undo(s)
         \/ DropSession(s) \/ Cancel(s)
    \/ LeaseLapses \/ ReapLook \/ ReapDir \/ ReapAbort \/ ReapLedger \/ ReapFails \/ Crash \/ Restart

Spec == Init /\ [][Next]_vars

(* No producer is assumed to run on.  Time passes, stat or reserve is called again,
   I/O errors and a full audit outbox do not last, a stopped process is started. *)
FairSpec ==
    /\ Spec
    /\ WF_vars(LeaseLapses) /\ WF_vars(ReapLook) /\ WF_vars(ReapLedger)
    /\ SF_vars(ReapDir) /\ SF_vars(ReapAbort)
    /\ WF_vars(Restart)

-----------------------------------------------------------------------------
(* While the upload is in flight every ordinal below the durable cursor has its
   ledger row, whichever sessions wrote it and whatever was aborted before. *)
CursorCovered ==
    up \in InFlight => \A i \in Ord : i < cursor => ledger[i] # NoFile

(* A chunks row has its file: promotion links before it inserts, and no cleanup of a
   failed or stale session's promotion parts the two.  What can part them is a crash
   between the unlink and the commit, a commit and a link back that both fail, and the
   quarantine of a put that lost. *)
RowsHaveFiles ==
    \A i \in Ord : row[i] # NoFile => cas[row[i]] # NoFile \/ row[i] \in cut \cup lost

(* A published export is whole: the cleanup of another session of the same upload
   never takes a chunk it refers to, and no session publishes a row that a crash left
   without its file.  Publication does not look at the files, so a file lost under a
   session that has promoted the chunk is missed. *)
PublishedWhole ==
    up = "PUBLISHED" => /\ pub = {row[i] : i \in Ord}
                        /\ \A k \in pub : cas[k] # NoFile \/ k \in lost

(* An upload that a session adopted leaves flight, published or aborted, even if
   every producer stops where it is: lease and reaper, or the restart, see to it. *)
AdoptedUploadEnds == (up \in InFlight /\ lease # "none") ~> up \notin InFlight

-----------------------------------------------------------------------------
(* What the repository says and the code does not keep. *)

(* tests/store_model.rs:310 asserts of every AVAILABLE local location that its file is
   there.  A crash inside a cleanup leaves one without. *)
RowsBacked == \A i \in Ord : row[i] # NoFile => cas[row[i]] # NoFile

(* provisional/session.rs:164, "Abort only when the presented token still owns the
   reservation": the token is the session's own when its abort takes effect. *)
StaleSessionsFenced ==
    [][\A s \in Sessions :
         (pc[s] \in {"unbeginAbort", "cancelAbort"} /\ pc'[s] # pc[s]
             /\ up \in InFlight /\ up' = "ABORTED") => token = s]_vars
=============================================================================
