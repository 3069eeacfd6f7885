---------------------- MODULE ProvisionalSession_proofs ----------------------
(***************************************************************************)
(* Proofs about ProvisionalSession for any number of sessions and chunks.  *)
(***************************************************************************)
EXTENDS ProvisionalSession, TLAPS

USE DEF catalog, chunkRows, files, work, env

-----------------------------------------------------------------------------
(* Types. *)

(* Where a session stands.  One that stages or promotes a chunk is at an ordinal of the
   export; one that stages has a reference to every chunk before its ordinal; one that
   promotes has all of them, and the canonical key of every chunk it is done with. *)
Promoting == {"link", "put", "insert", "insertNew", "tidy"}

Inserting == {"insert", "insertNew"}

Beginning == {"start", "wipe", "forget", "reserve", "mark", "giveUp", "adopt", "resume", "mkdir",
              "unbegin", "unbeginAbort", "unbeginClear"}

Progress(s) ==
    /\ pc[s] \in Beginning => next[s] = 0
    /\ pc[s] \in Beginning \cup {"stage", "file"} => \A j \in own[s] : j < next[s]
    /\ pc[s] = "commit" => \A j \in own[s] : j <= next[s]
    /\ pc[s] \in {"file", "commit", "put", "insert", "insertNew", "tidy"} => next[s] \in Ord
    /\ pc[s] = "commit" => refs[s][next[s]] # NoFile
    /\ pc[s] \in {"stage", "file", "commit"} =>
         \A j \in Ord : j < next[s] => refs[s][j] # NoFile
    /\ pc[s] \in Promoting => \A j \in Ord : refs[s][j] # NoFile
    /\ pc[s] \in Promoting => \A j \in Ord : j < next[s] => canon[s][j] # NoFile
    /\ pc[s] = "tidy" => next[s] \in own[s] /\ canon[s][next[s]] # NoFile
    /\ pc[s] = "publish" => \A j \in Ord : canon[s][j] # NoFile

AllProgress == \A s \in Sessions : Progress(s)

(* What a session promoted it has a reference to. *)
MadeKnown == \A s \in Sessions : \A j \in made[s] : refs[s][j] # NoFile

(* Ordinals are the naturals below the chunk count. *)
LEMMA OrdFact == Ord = {n \in Nat : n < ChunkCount} /\ ChunkCount \in Nat /\ Replay \in Nat
  BY CountAssumption DEF Ord, Replay

(* An object key is a file name of its ordinal. *)
LEMMA KeyFact ==
  ASSUME NEW f \in Files
  PROVE  Key(f) \in Files /\ Key(f)[2] = f[2]
  BY DEF Key, Files

(* The catalog's part and the files' part of the type invariant. *)
CatalogOK ==
    /\ up \in InFlight \cup {"NONE", "PUBLISHED", "ABORTED"}
    /\ token \in Sessions \cup {NoSession}
    /\ lease \in {"none", "live", "expired"}
    /\ cursor \in 0 .. ChunkCount
    /\ ledger \in [Ord -> Files \cup {NoFile}]

FilesOK ==
    /\ dir \in BOOLEAN
    /\ staged \in [Ord -> Files \cup {NoFile}]
    /\ cas \in [Files -> Files \cup {NoFile}]

(* An abort, a cleared ledger and a removed directory keep them. *)
LEMMA PiecesTyped ==
  ASSUME TypeOK
  PROVE  /\ AbortUpload \/ AbortRefused \/ UNCHANGED catalog => CatalogOK'
         /\ \A expected : ClearLedger(expected) => CatalogOK'
         /\ RemoveDir => FilesOK'
<1>1. AbortUpload \/ AbortRefused \/ UNCHANGED catalog => CatalogOK'
  BY DEF TypeOK, CatalogOK, AbortUpload, AbortRefused, InFlight
<1>2. ASSUME NEW expected, ClearLedger(expected) PROVE CatalogOK'
  BY <1>2, CountAssumption DEF TypeOK, CatalogOK, ClearLedger, Nothing
<1>3. RemoveDir => FilesOK'
  BY DEF TypeOK, FilesOK, RemoveDir, Nothing
<1> QED
  BY <1>1, <1>2, <1>3

(* Steps of a begin keep the types. *)
LEMMA BeginTyped ==
  ASSUME TypeOK, NEW s \in Sessions
  PROVE  (\/ ReserveLook(s) \/ ReinitDir(s) \/ ReinitLedger(s) \/ Reserve(s)
         \/ MarkReceiving(s) \/ BeginGivesUp(s) \/ Adopt(s) \/ MakeDir(s) \/ Unbegin(s))
         => TypeOK'
<1> USE DEF TypeOK, Goto, At
<1>1. ASSUME ReserveLook(s) PROVE TypeOK'
  BY <1>1 DEF ReserveLook, Resume, Labels
<1>2. ASSUME ReinitDir(s) PROVE TypeOK'
  BY <1>2 DEF Labels, ReinitDir, RemoveDir, Nothing
<1>3. ASSUME ReinitLedger(s) PROVE TypeOK'
  BY <1>3, CountAssumption DEF Labels, ReinitLedger, ClearLedger, Nothing
<1>4. ASSUME Reserve(s) PROVE TypeOK'
  <2>1. pc' \in [Sessions -> Labels]
    BY <1>4 DEF Reserve, Resume, Labels
  <2>2. CatalogOK'
    BY <1>4, CountAssumption DEF Reserve, CatalogOK, InFlight
  <2> QED
    BY <1>4, <2>1, <2>2 DEF Reserve, CatalogOK
<1>5. ASSUME MarkReceiving(s) PROVE TypeOK'
  BY <1>5, SMTT(40) DEF MarkReceiving, Labels, InFlight
<1>6. ASSUME BeginGivesUp(s) PROVE TypeOK'
  BY <1>6 DEF BeginGivesUp, Labels, InFlight, AbortUpload, AbortRefused
<1>7. ASSUME Adopt(s) PROVE TypeOK'
  BY <1>7 DEF Adopt, Labels
<1>8. ASSUME MakeDir(s) PROVE TypeOK'
  BY <1>8, ZenonT(60) DEF MakeDir, Labels
<1>9. ASSUME Unbegin(s) PROVE TypeOK'
  <2>1. CatalogOK'
    BY <1>9, PiecesTyped DEF Unbegin
  <2>2. pc' \in [Sessions -> Labels]
    BY <1>9 DEF Unbegin, Labels
  <2> QED
    BY <1>9, <2>1, <2>2 DEF Unbegin, CatalogOK
<1> QED
  BY <1>1, <1>2, <1>3, <1>4, <1>5, <1>6, <1>7, <1>8, <1>9

(* Steps of staging keep the types. *)
LEMMA StageTyped ==
  ASSUME TypeOK, AllProgress, NEW s \in Sessions
  PROVE  (StageBegin(s) \/ StageFile(s) \/ StageCommit(s) \/ VerifyLedger(s))
         => TypeOK'
<1> USE DEF Goto, At
<1>0. /\ refs \in [Sessions -> [Ord -> Files \cup {NoFile}]]
      /\ own \in [Sessions -> SUBSET Ord] /\ staged \in [Ord -> Files \cup {NoFile}]
  BY DEF TypeOK
<1>1. ASSUME StageBegin(s) PROVE TypeOK'
  <2>1. StageMode \in 0 .. Replay
    BY CountAssumption DEF TypeOK, StageMode, Replay
  <2> QED
    BY <1>1, <2>1 DEF TypeOK, StageBegin, Labels
<1>2. ASSUME StageFile(s) PROVE TypeOK'
  <2>1. next[s] \in Ord
    BY <1>2 DEF TypeOK, StageFile, AllProgress, Progress
  <2>2. Key(<<s, next[s]>>) \in Files /\ <<s, next[s]>> \in Files
    BY <2>1, KeyFact DEF TypeOK, Files
  <2>3. next[s] + 1 \in 0 .. ChunkCount
    BY <2>1, OrdFact DEF TypeOK
  <2>4. row[next[s]] \in Files \cup {NoFile}
    BY <2>1 DEF TypeOK
  <2> QED
    <3>1. pc' \in [Sessions -> Labels]
      BY <1>2, ZenonT(60) DEF TypeOK, StageFile, StateStaged, Labels
    <3>2. next' \in [Sessions -> 0 .. ChunkCount]
      BY <1>2, <2>3 DEF TypeOK, StageFile, StateStaged
    <3>3. refs' \in [Sessions -> [Ord -> Files \cup {NoFile}]]
      <4>1. \/ UNCHANGED refs
            \/ refs' = [refs EXCEPT ![s][next[s]] = row[next[s]]]
            \/ refs' = [refs EXCEPT ![s][next[s]] = Key(<<s, next[s]>>)]
        BY <1>2 DEF TypeOK, StageFile
      <4>2. ASSUME NEW v \in Files \cup {NoFile}, refs' = [refs EXCEPT ![s][next[s]] = v]
            PROVE  refs' \in [Sessions -> [Ord -> Files \cup {NoFile}]]
        BY <1>0, <2>1, <4>2
      <4> QED
        BY <1>0, <2>2, <2>4, <4>1, <4>2
    <3>4. /\ own' \in [Sessions -> SUBSET Ord]
          /\ staged' \in [Ord -> Files \cup {NoFile}]
      <4>1. \/ UNCHANGED <<own, staged>>
            \/ /\ own' = [own EXCEPT ![s] = @ \cup {next[s]}]
               /\ staged' = [staged EXCEPT ![next[s]] =
                               IF @ = NoFile THEN <<s, next[s]>> ELSE @]
        BY <1>2 DEF TypeOK, StageFile
      <4> QED
        BY <1>0, <2>1, <2>2, <4>1
    <3> QED
      BY <1>2, <3>1, <3>2, <3>3, <3>4 DEF TypeOK, StageFile
<1>3. ASSUME StageCommit(s) PROVE TypeOK'
  <2>1. next[s] \in Ord
    BY <1>3 DEF TypeOK, StageCommit, AllProgress, Progress
  <2>2. next[s] + 1 \in 0 .. ChunkCount
    BY <2>1, OrdFact DEF TypeOK
  <2>3. refs[s][next[s]] \in Files \cup {NoFile}
    BY <2>1 DEF TypeOK
  <2> QED
    <3>1. pc' \in [Sessions -> Labels]
      BY <1>3, ZenonT(60) DEF TypeOK, StageCommit, StateStaged, Labels
    <3>2. /\ next' \in [Sessions -> 0 .. ChunkCount]
          /\ cursor' \in 0 .. ChunkCount
          /\ lease' \in {"none", "live", "expired"}
      <4>1. \/ UNCHANGED <<next, cursor, lease>>
            \/ /\ next' = [next EXCEPT ![s] = @ + 1]
               /\ cursor' = next[s] + 1 /\ lease' = "live"
        BY <1>3 DEF TypeOK, StageCommit, StateStaged
      <4> QED
        BY <2>2, <4>1 DEF TypeOK
    <3>3. ledger' \in [Ord -> Files \cup {NoFile}]
      BY <1>3, <2>1, <2>3 DEF TypeOK, StageCommit
    <3> QED
      BY <1>3, <3>1, <3>2, <3>3 DEF TypeOK, StageCommit
<1>4. ASSUME VerifyLedger(s) PROVE TypeOK'
  <2>1. 0 \in 0 .. ChunkCount
    BY CountAssumption DEF TypeOK
  <2> QED
    BY <1>4, <2>1 DEF TypeOK, VerifyLedger, Labels
<1> QED
  BY <1>1, <1>2, <1>3, <1>4

(* A cleanup, however it ends, keeps the types. *)
LEMMA CleanupTyped ==
  ASSUME TypeOK, NEW i \in Ord, NEW k \in Files, CleanupOne(i, k) \/ CleanupFails(i, k)
  PROVE  /\ row' \in [Ord -> Files \cup {NoFile}]
         /\ cas' \in [Files -> Files \cup {NoFile}]
         /\ cut' \subseteq Files /\ lost' \subseteq Files
         /\ UNCHANGED <<pub, dir, staged>>
  BY DEF TypeOK, CleanupOne, CleanupFails, Unlinked

(* Steps of a seal keep the types. *)
LEMMA SealTyped ==
  ASSUME TypeOK, AllProgress, MadeKnown, NEW s \in Sessions
  PROVE  (\/ PromoteLink(s) \/ PromotePut(s) \/ PromoteInsert(s) \/ PromoteTidy(s)
         \/ Seal(s) \/ Publish(s) \/ Finish(s) \/ Undo(s))
         => TypeOK'
<1> USE DEF Goto, At
<1>0. cas \in [Files -> Files \cup {NoFile}] /\ made \in [Sessions -> SUBSET Ord]
  BY DEF TypeOK
<1>1. ASSUME PromoteLink(s) PROVE TypeOK'
  <2>1. CASE next[s] < ChunkCount
    <3>1. next[s] \in Ord
      BY <2>1, OrdFact DEF TypeOK
    <3>2. staged[next[s]] \in Files \cup {NoFile}
      BY <3>1 DEF TypeOK
    <3> QED
      <4>1. pc' \in [Sessions -> Labels]
        BY <1>1, ZenonT(60) DEF TypeOK, PromoteLink, Labels
      <4>2. /\ cas' \in [Files -> Files \cup {NoFile}]
            /\ made' \in [Sessions -> SUBSET Ord]
        <5>1. \/ UNCHANGED <<cas, made>>
              \/ /\ cas' = [cas EXCEPT ![refs[s][next[s]]] = staged[next[s]]]
                 /\ made' = [made EXCEPT ![s] = @ \cup {next[s]}]
          BY <1>1 DEF TypeOK, PromoteLink
        <5> QED
          BY <1>0, <3>1, <3>2, <5>1
      <4> QED
        BY <1>1, <4>1, <4>2 DEF TypeOK, PromoteLink
  <2> QED
    BY <1>1, <2>1 DEF TypeOK, PromoteLink
<1>2. ASSUME PromotePut(s) \/ PromoteInsert(s) \/ PromoteTidy(s) PROVE TypeOK'
  <2>1. next[s] \in Ord
    BY <1>2 DEF TypeOK, PromotePut, PromoteInsert, PromoteTidy, AllProgress, Progress
  <2>2. next[s] + 1 \in 0 .. ChunkCount
    BY <2>1, OrdFact DEF TypeOK
  <2>3. /\ row[next[s]] \in Files \cup {NoFile}
        /\ refs[s][next[s]] \in Files \cup {NoFile}
        /\ <<NoSession, next[s]>> \in Files
    BY <2>1 DEF TypeOK, Files
  <2>4. ASSUME NEW c \in Files \cup {NoFile}, Settle(s, c)
        PROVE  /\ canon' \in [Sessions -> [Ord -> Files \cup {NoFile}]]
               /\ made' \in [Sessions -> SUBSET Ord]
               /\ pc' \in [Sessions -> Labels]
               /\ next' \in [Sessions -> 0 .. ChunkCount]
    BY <2>1, <2>2, <2>4 DEF TypeOK, Settle, Labels
  <2>5. CASE PromotePut(s)
    <3>1. /\ canon' \in [Sessions -> [Ord -> Files \cup {NoFile}]]
          /\ made' \in [Sessions -> SUBSET Ord]
          /\ pc' \in [Sessions -> Labels]
          /\ next' \in [Sessions -> 0 .. ChunkCount]
      BY <2>3, <2>4, <2>5 DEF TypeOK, PromotePut, Labels
    <3>2. cas' \in [Files -> Files \cup {NoFile}]
      BY <2>3, <2>5 DEF TypeOK, PromotePut
    <3> QED
      BY <2>5, <3>1, <3>2 DEF TypeOK, PromotePut
  <2>6. CASE PromoteInsert(s)
    <3> DEFINE k == refs[s][next[s]]
               c == IF row[next[s]] = NoFile THEN k ELSE row[next[s]]
               Q == IF pc[s] = "insertNew" /\ c # k THEN {k} ELSE {}
    <3>1. c \in Files \cup {NoFile} /\ Q \subseteq Files
      <4>1. k # NoFile
        BY <2>1, <2>6 DEF PromoteInsert, AllProgress, Progress, Promoting
      <4> QED
        BY <2>3, <4>1
    <3>2. \/ /\ row' = [row EXCEPT ![next[s]] = c]
             /\ cas' = [f \in Files |-> IF f \in Q THEN NoFile ELSE cas[f]]
             /\ lost' = lost \cup Q
             /\ Settle(s, c)
          \/ Goto(s, "undo") /\ UNCHANGED <<row, cas, lost, canon, made, next>>
      BY <2>6 DEF PromoteInsert
    <3> HIDE DEF c, Q
    <3>3. /\ canon' \in [Sessions -> [Ord -> Files \cup {NoFile}]]
          /\ made' \in [Sessions -> SUBSET Ord]
          /\ pc' \in [Sessions -> Labels]
          /\ next' \in [Sessions -> 0 .. ChunkCount]
      BY <2>4, <3>1, <3>2 DEF TypeOK, Labels
    <3>4. cas' \in [Files -> Files \cup {NoFile}]
      BY <1>0, <3>2
    <3>5. row' \in [Ord -> Files \cup {NoFile}] /\ lost' \subseteq Files
      BY <2>1, <3>1, <3>2 DEF TypeOK
    <3> QED
      BY <2>6, <3>3, <3>4, <3>5 DEF TypeOK, PromoteInsert
  <2>7. CASE PromoteTidy(s)
    <3>0. refs[s][next[s]] \in Files
      BY <2>1, <2>3, <2>7 DEF PromoteTidy, AllProgress, Progress, Promoting
    <3>1. /\ row' \in [Ord -> Files \cup {NoFile}]
          /\ cas' \in [Files -> Files \cup {NoFile}]
          /\ cut' \subseteq Files /\ lost' \subseteq Files
          /\ UNCHANGED <<pub, dir, staged>>
      BY <2>1, <2>7, <3>0, CleanupTyped DEF PromoteTidy
    <3>2. pc' \in [Sessions -> Labels] /\ next' \in [Sessions -> 0 .. ChunkCount]
      BY <2>1, <2>2, <2>7 DEF TypeOK, PromoteTidy, Labels
    <3> QED
      BY <2>7, <3>1, <3>2 DEF TypeOK, PromoteTidy
  <2> QED
    BY <1>2, <2>5, <2>6, <2>7 DEF TypeOK
<1>3. ASSUME Seal(s) PROVE TypeOK'
  BY <1>3, SMTT(40) DEF TypeOK, Seal, Labels, InFlight
<1>4. ASSUME Publish(s) PROVE TypeOK'
  <2>1. /\ up' \in InFlight \cup {"NONE", "PUBLISHED", "ABORTED"}
        /\ pc' \in [Sessions -> Labels]
    BY <1>4 DEF TypeOK, Publish, Labels
  <2>2. pub' \subseteq Files
    BY <1>4 DEF TypeOK, Publish, AllProgress, Progress
  <2> QED
    BY <1>4, <2>1, <2>2 DEF TypeOK, Publish
<1>5. ASSUME Finish(s) PROVE TypeOK'
  <2>1. pc' \in [Sessions -> Labels]
    BY <1>5, ZenonT(60) DEF TypeOK, Finish, Labels
  <2>2. CatalogOK' /\ FilesOK'
    BY <1>5, PiecesTyped DEF TypeOK, Finish, CatalogOK, FilesOK
  <2> QED
    BY <1>5, <2>1, <2>2 DEF TypeOK, Finish, CatalogOK, FilesOK
<1>6. ASSUME Undo(s) PROVE TypeOK'
  <2>0. /\ \E l \in {"undo", "cancel"} : Goto(s, l) \/ UNCHANGED pc
        /\ \E M \in SUBSET Ord : made' = [made EXCEPT ![s] = M] \/ UNCHANGED made
    BY <1>0, <1>6 DEF Undo
  <2>1. /\ pc' \in [Sessions -> Labels]
        /\ made' \in [Sessions -> SUBSET Ord]
    BY <1>0, <2>0 DEF TypeOK, Labels
  <2>2. /\ row' \in [Ord -> Files \cup {NoFile}]
        /\ cas' \in [Files -> Files \cup {NoFile}]
        /\ cut' \subseteq Files /\ lost' \subseteq Files
        /\ UNCHANGED <<pub, dir, staged>>
    <3>1. ASSUME NEW i \in Ord, CleaningUp(s, i) PROVE refs[s][i] \in Files
      BY <1>6, <3>1 DEF Undo, CleaningUp, TypeOK, MadeKnown
    <3> QED
      BY <1>6, <3>1, CleanupTyped DEF TypeOK, Undo
  <2> QED
    BY <1>6, <2>1, <2>2 DEF TypeOK, Undo
<1> QED
  BY <1>1, <1>2, <1>3, <1>4, <1>5, <1>6

(* Cancels, the reaper, a crash and the restart keep the types. *)
LEMMA EndTyped ==
  ASSUME TypeOK, AllProgress, MadeKnown
  PROVE  (\/ \E s \in Sessions : DropSession(s) \/ Cancel(s)
         \/ LeaseLapses \/ ReapLook \/ ReapDir \/ ReapAbort \/ ReapLedger \/ ReapFails
         \/ Crash \/ Restart)
         => TypeOK'
<1> USE CountAssumption DEF TypeOK, Goto, At
<1>1. ASSUME NEW s \in Sessions, DropSession(s) PROVE TypeOK'
  BY <1>1 DEF DropSession, Labels
<1>2. ASSUME NEW s \in Sessions, Cancel(s) PROVE TypeOK'
  <2>1. pc' \in [Sessions -> Labels]
    BY <1>2, ZenonT(60) DEF Cancel, Labels
  <2>2. CatalogOK' /\ FilesOK'
    BY <1>2, PiecesTyped DEF Cancel, CatalogOK, FilesOK
  <2> QED
    BY <1>2, <2>1, <2>2 DEF Cancel, CatalogOK, FilesOK
<1>3. ASSUME LeaseLapses \/ ReapLook \/ ReapFails PROVE TypeOK'
  BY <1>3 DEF LeaseLapses, ReapLook, ReapFails
<1>4. ASSUME ReapDir \/ ReapAbort \/ ReapLedger PROVE TypeOK'
  <2>1. CatalogOK' /\ FilesOK'
    BY <1>4, PiecesTyped DEF ReapDir, ReapAbort, ReapLedger, CatalogOK, FilesOK
  <2> QED
    BY <1>4, <2>1 DEF ReapDir, ReapAbort, ReapLedger, CatalogOK, FilesOK
<1>5. ASSUME Crash PROVE TypeOK'
  <2>1. ASSUME NEW s \in Sessions, NEW i \in Ord, CleaningUp(s, i) PROVE refs[s][i] \in Files
    BY <2>1 DEF CleaningUp, MadeKnown, AllProgress, Progress, Promoting
  <2>2. /\ cas' \in [Files -> Files \cup {NoFile}]
        /\ cut' \subseteq Files /\ UNCHANGED <<row, pub, lost, dir, staged>>
    <3>1. CASE UNCHANGED <<chunkRows, files>>
      BY <3>1
    <3>2. ASSUME NEW s \in Sessions, NEW i \in Ord, CleaningUp(s, i), Unlinked(i, refs[s][i]),
                 cut' = cut \cup {refs[s][i]}, UNCHANGED lost
          PROVE  /\ cas' \in [Files -> Files \cup {NoFile}]
                 /\ cut' \subseteq Files /\ UNCHANGED <<row, pub, lost, dir, staged>>
      BY <2>1, <3>2 DEF Unlinked
    <3> QED
      BY <1>5, <3>1, <3>2 DEF Crash
  <2>3. pc' \in [Sessions -> Labels]
    BY <1>5 DEF Crash, Labels
  <2> QED
    BY <1>5, <2>2, <2>3 DEF Crash
<1>6. ASSUME Restart PROVE TypeOK'
  <2>1. CatalogOK' /\ FilesOK'
    BY <1>6, PiecesTyped DEF Restart, CatalogOK, FilesOK
  <2> QED
    BY <1>6, <2>1 DEF Restart, CatalogOK, FilesOK
<1> QED
  BY <1>1, <1>2, <1>3, <1>4, <1>5, <1>6
-----------------------------------------------------------------------------
(* Sessions. *)

BeginStep(s) ==
    \/ ReserveLook(s) \/ ReinitDir(s) \/ ReinitLedger(s) \/ Reserve(s)
    \/ MarkReceiving(s) \/ BeginGivesUp(s) \/ Adopt(s) \/ MakeDir(s) \/ Unbegin(s)

StageStep(s) == StageBegin(s) \/ StageFile(s) \/ StageCommit(s) \/ VerifyLedger(s)

SealStep(s) ==
    \/ PromoteLink(s) \/ PromotePut(s) \/ PromoteInsert(s) \/ PromoteTidy(s)
    \/ Seal(s) \/ Publish(s) \/ Finish(s) \/ Undo(s)

EndStep(s) == DropSession(s) \/ Cancel(s)

SessionStep(s) == BeginStep(s) \/ StageStep(s) \/ SealStep(s) \/ EndStep(s)

(* The reaper, time, crash and restart. *)
SystemStep ==
    LeaseLapses \/ ReapLook \/ ReapDir \/ ReapAbort \/ ReapLedger \/ ReapFails \/ Crash \/ Restart

(* Every step is one of a session or of the system around it. *)
LEMMA NextSteps == Next => (\E s \in Sessions : SessionStep(s)) \/ SystemStep
  BY Zenon DEF Next, SessionStep, BeginStep, StageStep, SealStep, EndStep, SystemStep

(* What session t has of its own does not change. *)
Kept(t) ==
    /\ pc'[t] = pc[t] /\ next'[t] = next[t] /\ refs'[t] = refs[t] /\ canon'[t] = canon[t]
    /\ own'[t] = own[t] /\ made'[t] = made[t]

(* A step of one session leaves the others where they are. *)
LEMMA OthersKept ==
  ASSUME TypeOK, NEW s \in Sessions, NEW t \in Sessions, s # t
  PROVE  SessionStep(s) => Kept(t)
<1>0. /\ pc \in [Sessions -> Labels] /\ next \in [Sessions -> 0 .. ChunkCount]
      /\ refs \in [Sessions -> [Ord -> Files \cup {NoFile}]]
      /\ canon \in [Sessions -> [Ord -> Files \cup {NoFile}]]
      /\ own \in [Sessions -> SUBSET Ord] /\ made \in [Sessions -> SUBSET Ord]
  BY DEF TypeOK
<1> USE <1>0 DEF Kept, Goto
<1>1. BeginStep(s) => Kept(t)
  BY DEF BeginStep, ReserveLook, ReinitDir, ReinitLedger, Reserve, MarkReceiving, BeginGivesUp,
         Adopt, MakeDir, Unbegin
<1>2. StageStep(s) => Kept(t)
  BY DEF StageStep, StageBegin, StageFile, StageCommit, VerifyLedger, StateStaged
<1>3. SealStep(s) => Kept(t)
  BY DEF SealStep, PromoteLink, PromotePut, PromoteInsert, PromoteTidy, Settle, Seal, Publish,
         Finish, Undo
<1>4. EndStep(s) => Kept(t)
  BY DEF EndStep, DropSession, Cancel
<1> QED
  BY <1>1, <1>2, <1>3, <1>4 DEF SessionStep

(* Sessions keep the order of their steps. *)
LEMMA ProgressKept ==
  ASSUME TypeOK, AllProgress, NEW s \in Sessions
  PROVE  SessionStep(s) => Progress(s)'
<1>0. /\ pc \in [Sessions -> Labels] /\ next \in [Sessions -> 0 .. ChunkCount]
      /\ refs \in [Sessions -> [Ord -> Files \cup {NoFile}]]
      /\ canon \in [Sessions -> [Ord -> Files \cup {NoFile}]]
      /\ own \in [Sessions -> SUBSET Ord]
  BY DEF TypeOK
<1>p. Progress(s)
  BY DEF AllProgress
<1> USE <1>0 DEF Goto, At
<1>1. BeginStep(s) => Progress(s)'
  <2>1. ASSUME BeginStep(s)
        PROVE  /\ UNCHANGED <<next, refs, canon, own>>
               /\ pc[s] \in Beginning
               /\ pc'[s] \notin {"file", "commit", "publish"} \cup Promoting
    BY <2>1 DEF BeginStep, ReserveLook, ReinitDir, ReinitLedger, Reserve, MarkReceiving,
       BeginGivesUp, Adopt, MakeDir, Unbegin, Resume, Beginning, Promoting
  <2> QED
    BY <1>p, <2>1, OrdFact DEF Progress, Promoting
<1>2. StageBegin(s) => Progress(s)'
  BY <1>p, OrdFact DEF StageBegin, Progress, Beginning, Promoting
<1>3. ASSUME StageFile(s) PROVE Progress(s)'
  <2>1. next[s] \in Ord /\ pc[s] = "file"
    BY <1>3, <1>p DEF StageFile, Progress
  <2> DEFINE i == next[s]
  <2>2. ASSUME refs' = [refs EXCEPT ![s][i] = row[i]], row[i] # NoFile,
               UNCHANGED own, StateStaged(s) \/ (Goto(s, "commit") /\ UNCHANGED next)
        PROVE  Progress(s)'
    <3>1. refs'[s][i] # NoFile /\ \A j \in Ord : j # i => refs'[s][j] = refs[s][j]
      BY <2>1, <2>2
    <3>2. \A j \in Ord : j < i => refs[s][j] # NoFile
      BY <1>p, <2>1 DEF Progress
    <3>p. \A j \in own'[s] : j < i
      BY <1>p, <2>1, <2>2 DEF Progress
    <3>o. own[s] \subseteq Ord
      OBVIOUS
    <3>3. CASE StateStaged(s)
      <4>1. next'[s] = i + 1 /\ pc'[s] \in {"stage", "cancel"}
        BY <2>1, <3>3 DEF StateStaged
      <4>2. \A j \in Ord : j < i + 1 => refs'[s][j] # NoFile
        BY <2>1, <3>1, <3>2, OrdFact
      <4> QED
        BY <2>1, <3>p, <3>o, <2>2, <4>1, <4>2, OrdFact DEF Progress, Beginning, Promoting
    <3>4. CASE Goto(s, "commit") /\ UNCHANGED next
      <4>1. next'[s] = i /\ pc'[s] = "commit"
        BY <3>4
      <4> QED
        BY <2>1, <2>2, <3>p, <3>o, <3>1, <3>2, <4>1, OrdFact DEF Progress, Beginning, Promoting
    <3> QED
      BY <2>2, <3>3, <3>4
  <2>3. ASSUME refs' = [refs EXCEPT ![s][i] = Key(<<s, i>>)],
               own' = [own EXCEPT ![s] = @ \cup {i}],
               UNCHANGED next, Goto(s, "commit")
        PROVE  Progress(s)'
    <3>1. Key(<<s, i>>) # NoFile
      BY <2>1, KeyFact, NoFileAssumption DEF Files
    <3> QED
      <4>1. refs'[s][i] # NoFile /\ \A j \in Ord : j # i => refs'[s][j] = refs[s][j]
        BY <2>1, <2>3, <3>1
      <4>2. /\ \A j \in Ord : j < i => refs[s][j] # NoFile
            /\ \A j \in own'[s] : j <= i
        BY <1>p, <2>1, <2>3, OrdFact DEF Progress
      <4>3. pc'[s] = "commit" /\ next'[s] = i
        BY <2>3
      <4> QED
        BY <2>1, <4>1, <4>2, <4>3, OrdFact DEF Progress, Beginning, Promoting
  <2>4. ASSUME Goto(s, "cancel")
        PROVE  Progress(s)'
    BY <2>4 DEF Progress, Beginning, Promoting
  <2> QED
    BY <1>3, <2>2, <2>3, <2>4 DEF StageFile, Replayed
<1>4. StageCommit(s) => Progress(s)'
  BY <1>p, OrdFact DEF StageCommit, StateStaged, Progress, Beginning, Promoting
<1>5. VerifyLedger(s) => Progress(s)'
  BY <1>p, OrdFact DEF VerifyLedger, Progress, Beginning, Promoting
<1>6. PromoteLink(s) => Progress(s)'
  BY <1>p, OrdFact DEF PromoteLink, Progress, Beginning, Promoting
<1>7. ASSUME NEW c, c # NoFile, Settle(s, c), UNCHANGED <<refs, own>>,
             pc[s] \in {"put", "insert", "insertNew"}
      PROVE  Progress(s)'
  <2>1. next[s] \in Ord
    BY <1>p, <1>7 DEF Progress
  <2>2. CASE c # refs[s][next[s]] /\ next[s] \in own[s]
    BY <1>p, <1>7, <2>1, <2>2, OrdFact DEF Settle, Progress, Beginning, Promoting
  <2>3. CASE ~(c # refs[s][next[s]] /\ next[s] \in own[s])
    <3>1. /\ canon' = [canon EXCEPT ![s][next[s]] = c]
          /\ pc'[s] = "link" /\ next'[s] = next[s] + 1
      BY <1>7, <2>3 DEF Settle
    <3>2. \A j \in Ord : j < next[s] + 1 => canon'[s][j] # NoFile
      <4>1. canon'[s][next[s]] = c /\ \A j \in Ord : j # next[s] => canon'[s][j] = canon[s][j]
        BY <2>1, <3>1
      <4>2. \A j \in Ord : j < next[s] => canon[s][j] # NoFile
        BY <1>p, <1>7 DEF Progress, Promoting
      <4> QED
        BY <1>7, <2>1, <4>1, <4>2, OrdFact
    <3>3. \A j \in Ord : refs'[s][j] # NoFile
      BY <1>p, <1>7 DEF Progress, Promoting
    <3> QED
      BY <3>1, <3>2, <3>3 DEF Progress, Beginning, Promoting
  <2> QED
    BY <2>2, <2>3
<1>8. ASSUME PromotePut(s) PROVE Progress(s)'
  <2>1. ASSUME pc'[s] \in {"insert", "insertNew", "undo"}, UNCHANGED <<canon, next, refs, own>>,
               pc[s] = "put"
        PROVE  Progress(s)'
    BY <1>p, <2>1 DEF Progress, Beginning, Promoting
  <2> QED
    BY <1>7, <1>8, <2>1 DEF PromotePut
<1>9. ASSUME PromoteInsert(s) PROVE Progress(s)'
  <2>1. next[s] \in Ord /\ refs[s][next[s]] # NoFile
    BY <1>9, <1>p DEF PromoteInsert, Progress, Promoting
  <2>2. CASE Goto(s, "undo")
    BY <2>2 DEF Progress, Beginning, Promoting
  <2> QED
    BY <1>7, <1>9, <2>1, <2>2 DEF PromoteInsert
<1>10. PromoteTidy(s) => Progress(s)'
  BY <1>p, OrdFact DEF PromoteTidy, Progress, Beginning, Promoting
<1>11. Seal(s) => Progress(s)'
  BY <1>p, OrdFact DEF Seal, Progress, Beginning, Promoting
<1>12. ASSUME Publish(s) \/ Finish(s) \/ Undo(s) \/ EndStep(s) PROVE Progress(s)'
  <2>1. pc'[s] \notin Beginning \cup {"stage", "file", "commit", "publish"} \cup Promoting
    BY <1>12 DEF Publish, Finish, Undo, EndStep, DropSession, Cancel, Beginning, Promoting
  <2> QED
    BY <2>1 DEF Progress, Promoting
<1> QED
  BY <1>1, <1>2, <1>3, <1>4, <1>5, <1>6, <1>8, <1>9, <1>10, <1>11, <1>12
     DEF SessionStep, StageStep, SealStep

(* A session's step keeps what it promoted among what it refers to. *)
LEMMA MadeKept ==
  ASSUME TypeOK, AllProgress, MadeKnown, NEW s \in Sessions, SessionStep(s)
  PROVE  MadeKnown'
<1>0. /\ next \in [Sessions -> 0 .. ChunkCount] /\ Progress(s)
      /\ refs \in [Sessions -> [Ord -> Files \cup {NoFile}]]
      /\ row \in [Ord -> Files \cup {NoFile}] /\ made \in [Sessions -> SUBSET Ord]
  BY DEF TypeOK, AllProgress
<1>1. ASSUME refs' = refs, made'[s] \subseteq made[s] PROVE MadeKnown'
  <2>1. \A u \in Sessions : made'[u] \subseteq made[u]
    BY <1>1, OthersKept DEF Kept
  <2> QED
    BY <1>1, <2>1 DEF MadeKnown
<1>2. ASSUME StageFile(s) PROVE MadeKnown'
  <2>1. next[s] \in Ord /\ UNCHANGED made
    BY <1>0, <1>2 DEF StageFile, At, Progress
  <2>2. Key(<<s, next[s]>>) # NoFile
    BY <2>1, KeyFact, NoFileAssumption DEF Files
  <2>3. \A u \in Sessions, j \in Ord : refs'[u][j] # NoFile \/ refs'[u][j] = refs[u][j]
    <3>1. \/ UNCHANGED refs
          \/ refs' = [refs EXCEPT ![s][next[s]] = row[next[s]]] /\ row[next[s]] # NoFile
          \/ refs' = [refs EXCEPT ![s][next[s]] = Key(<<s, next[s]>>)]
      BY <1>2 DEF StageFile, Replayed
    <3> QED
      BY <1>0, <2>1, <2>2, <3>1
  <2> QED
    BY <1>0, <2>1, <2>3 DEF MadeKnown
<1>3. ASSUME PromoteLink(s) PROVE MadeKnown'
  <2>1. /\ next[s] \in Ord /\ refs[s][next[s]] # NoFile /\ refs' = refs
        /\ \A u \in Sessions : made'[u] \subseteq made[u] \cup (IF u = s THEN {next[s]} ELSE {})
    BY <1>0, <1>3, OrdFact DEF PromoteLink, At, Progress, Promoting
  <2> QED
    BY <2>1 DEF MadeKnown
<1>4. BeginStep(s) => refs' = refs /\ made'[s] \subseteq made[s]
  BY DEF BeginStep, ReserveLook, ReinitDir, ReinitLedger, Reserve, MarkReceiving, BeginGivesUp,
         Adopt, MakeDir, Unbegin
<1>5. StageBegin(s) \/ StageCommit(s) \/ VerifyLedger(s)
        => refs' = refs /\ made'[s] \subseteq made[s]
  BY DEF StageBegin, StageCommit, VerifyLedger
<1>6. PromotePut(s) \/ PromoteInsert(s) \/ PromoteTidy(s)
        => refs' = refs /\ made'[s] \subseteq made[s]
  BY <1>0 DEF PromotePut, PromoteInsert, PromoteTidy, Settle
<1>7. Undo(s) => refs' = refs /\ made'[s] \subseteq made[s]
  BY <1>0 DEF Undo
<1>8. Seal(s) \/ Publish(s) \/ Finish(s) \/ EndStep(s) => refs' = refs /\ made'[s] \subseteq made[s]
  BY DEF Seal, Publish, Finish, EndStep, DropSession, Cancel
<1> QED
  BY <1>1, <1>2, <1>3, <1>4, <1>5, <1>6, <1>7, <1>8 DEF SessionStep, StageStep, SealStep

(* Types and positions together are inductive. *)
Inv == TypeOK /\ AllProgress /\ MadeKnown

(* The initial state has the types, and every session is at its start. *)
LEMMA InvInit == Init => Inv
<1> SUFFICES ASSUME Init PROVE Inv
  OBVIOUS
<1>1. TypeOK
  <2>1. CatalogOK /\ FilesOK
    <3>1. Nothing \in [Ord -> Files \cup {NoFile}] /\ 0 \in 0 .. ChunkCount
      BY CountAssumption DEF Nothing
    <3>2. cas \in [Files -> Files \cup {NoFile}]
      BY DEF Init
    <3> QED
      BY <3>1, <3>2 DEF Init, CatalogOK, FilesOK
  <2>2. /\ row \in [Ord -> Files \cup {NoFile}]
        /\ pub \subseteq Files /\ cut \subseteq Files /\ lost \subseteq Files
        /\ refs \in [Sessions -> [Ord -> Files \cup {NoFile}]]
        /\ canon \in [Sessions -> [Ord -> Files \cup {NoFile}]]
    BY DEF Init, Nothing
  <2>3. /\ pc \in [Sessions -> Labels] /\ next \in [Sessions -> 0 .. ChunkCount]
        /\ seen \in [Sessions -> 0 .. Replay] /\ own \in [Sessions -> SUBSET Ord]
        /\ made \in [Sessions -> SUBSET Ord]
    BY CountAssumption DEF Init, Labels, Replay
  <2>4. /\ reaper \in {"idle", "dir", "abort", "clear"}
        /\ mode \in {"open", "down", "sweep", "abort", "clear"}
        /\ crashes \in 0 .. MaxCrashes
    BY CountAssumption DEF Init
  <2> QED
    BY <2>1, <2>2, <2>3, <2>4 DEF TypeOK, CatalogOK, FilesOK
<1>2. \A s \in Sessions : pc[s] = "start" /\ next[s] = 0 /\ own[s] = {} /\ made[s] = {}
  BY DEF Init
<1>3. AllProgress /\ MadeKnown
  BY <1>2 DEF AllProgress, Progress, Promoting, MadeKnown
<1> QED
  BY <1>1, <1>3 DEF Inv

(* Every step keeps types and positions. *)
LEMMA InvNext == Inv /\ [Next]_vars => Inv'
<1> SUFFICES ASSUME Inv, [Next]_vars PROVE Inv'
  OBVIOUS
<1> USE DEF Inv
<1>1. ASSUME NEW s \in Sessions, SessionStep(s) PROVE Inv'
  <2>1. TypeOK'
    BY <1>1, BeginTyped, StageTyped, SealTyped, EndTyped
       DEF SessionStep, BeginStep, StageStep, SealStep, EndStep
  <2>2. ASSUME NEW t \in Sessions, t # s PROVE Progress(t)'
    BY <1>1, <2>2, OthersKept DEF Kept, AllProgress, Progress
  <2>3. Progress(s)'
    BY <1>1, ProgressKept
  <2>4. MadeKnown'
    BY <1>1, MadeKept
  <2> QED
    BY <2>1, <2>2, <2>3, <2>4 DEF AllProgress
<1>2. ASSUME SystemStep PROVE Inv'
  <2>1. TypeOK'
    BY <1>2, EndTyped DEF SystemStep
  <2>0. MadeKnown'
    <3>1. UNCHANGED <<refs, made>>
      BY <1>2 DEF SystemStep, LeaseLapses, ReapLook, ReapDir, ReapAbort, ReapLedger, ReapFails,
         Crash, Restart
    <3> QED
      BY <3>1 DEF MadeKnown
  <2>2. CASE UNCHANGED <<pc, next, refs, canon, own>>
    BY <2>0, <2>1, <2>2 DEF AllProgress, Progress
  <2>3. CASE Crash
    <3>1. /\ \A t \in Sessions : pc'[t] = pc[t] \/ pc'[t] = "ended"
          /\ UNCHANGED <<next, refs, canon, own>>
      BY <2>3 DEF Crash
    <3>2. ASSUME NEW t \in Sessions PROVE Progress(t)'
      <4>1. CASE pc'[t] = pc[t]
        BY <3>1, <4>1 DEF AllProgress, Progress
      <4>2. CASE pc'[t] = "ended"
        BY <4>2 DEF Progress, Beginning, Promoting
      <4> QED
        BY <3>1, <4>1, <4>2
    <3> QED
      BY <2>0, <2>1, <3>2 DEF AllProgress
  <2>4. SystemStep => Crash \/ UNCHANGED <<pc, next, refs, canon, own>>
    BY DEF SystemStep, LeaseLapses, ReapLook, ReapDir, ReapAbort, ReapLedger, ReapFails, Restart
  <2> QED
    BY <1>2, <2>2, <2>3, <2>4
<1>3. CASE UNCHANGED vars
  BY <1>3 DEF vars, TypeOK, AllProgress, Progress, MadeKnown
<1> QED
  BY <1>1, <1>2, <1>3, NextSteps

(* Every variable keeps its type, in every interleaving of sessions, reaper and restart. *)
THEOREM TypeCorrect == Spec => []TypeOK
  BY InvInit, InvNext, PTL DEF Spec, Inv

-----------------------------------------------------------------------------
(* The cursor. *)

(* A step that leaves the cursor alone, or starts over with it. *)
CursorStep ==
    \/ up' \notin InFlight
    \/ cursor' = 0
    \/ UNCHANGED <<cursor, ledger>> /\ up \in InFlight
    \/ UNCHANGED <<up, cursor, ledger>>

(* Only the commit of a staged batch advances the cursor. *)
LEMMA CursorSteps ==
  ASSUME NEW s \in Sessions
  PROVE  SessionStep(s) => CursorStep \/ StageCommit(s)
<1>1. BeginStep(s) => CursorStep
  BY DEF BeginStep, ReserveLook, ReinitDir, ReinitLedger, Reserve, MarkReceiving, BeginGivesUp,
         Adopt, MakeDir, Unbegin, AbortUpload, AbortRefused, ClearLedger, CursorStep, InFlight
<1>2. StageStep(s) => CursorStep \/ StageCommit(s)
  BY DEF StageStep, StageBegin, StageFile, VerifyLedger, CursorStep
<1>3. SealStep(s) => CursorStep
  BY DEF SealStep, PromoteLink, PromotePut, PromoteInsert, PromoteTidy, Seal, Publish, Finish,
         Undo, Accepts, ClearLedger, CursorStep, InFlight
<1>4. EndStep(s) => CursorStep
  BY DEF EndStep, DropSession, Cancel, AbortUpload, AbortRefused, ClearLedger, CursorStep, InFlight
<1> QED
  BY <1>1, <1>2, <1>3, <1>4 DEF SessionStep

(* The steps outside the sessions. *)
LEMMA SystemCursor == SystemStep => CursorStep
  BY DEF SystemStep, LeaseLapses, ReapLook, ReapDir, ReapAbort, ReapLedger, ReapFails, Crash,
     Restart, AbortUpload, AbortRefused, ClearLedger, CursorStep, InFlight

(* While the upload is in flight, every ordinal below the cursor has its ledger row. *)
THEOREM CursorIsCovered == Spec => []CursorCovered
<1>1. Init => CursorCovered
  BY OrdFact DEF Init, CursorCovered, InFlight
<1>2. Inv /\ CursorCovered /\ [Next]_vars => CursorCovered'
  <2> SUFFICES ASSUME Inv, CursorCovered, [Next]_vars PROVE CursorCovered'
    OBVIOUS
  <2>1. ASSUME CursorStep PROVE CursorCovered'
    BY <2>1, OrdFact DEF CursorStep, CursorCovered
  <2>2. ASSUME NEW s \in Sessions, StageCommit(s) PROVE CursorCovered'
    <3>0. /\ pc[s] = "commit" /\ Progress(s)
          /\ next[s] \in Ord /\ refs[s][next[s]] # NoFile
          /\ ledger \in [Ord -> Files \cup {NoFile}]
      BY <2>2 DEF StageCommit, At, Inv, TypeOK, AllProgress, Progress
    <3>1. CASE UNCHANGED <<up, cursor, ledger>>
      BY <3>1 DEF CursorCovered
    <3>2. CASE /\ Accepts(s) /\ cursor = next[s] /\ cursor' = next[s] + 1
               /\ ledger' = [ledger EXCEPT ![next[s]] = refs[s][next[s]]]
      <4>1. up \in InFlight
        BY <3>2 DEF Accepts, InFlight
      <4> QED
        BY <3>0, <3>2, <4>1, OrdFact DEF CursorCovered
    <3> QED
      BY <2>2, <3>1, <3>2 DEF StageCommit
  <2>3. CASE UNCHANGED vars
    BY <2>3 DEF vars, CursorCovered
  <2> QED
    BY <2>1, <2>2, <2>3, NextSteps, CursorSteps, SystemCursor
<1> QED
  BY <1>1, <1>2, InvInit, InvNext, PTL DEF Spec

-----------------------------------------------------------------------------
(* Rows and files, when every encoding is fresh. *)

(* What a step of session s does to rows, links, references and what it owns.  Most do
   nothing to them. *)
Quiet(s) == UNCHANGED <<row, cas, lost, refs, own, made>> /\ pc'[s] \notin Inserting

(* It takes the reference of a row, ... *)
TakesRow(s) ==
    /\ pc[s] = "file" /\ row[next[s]] # NoFile /\ pc'[s] \notin Inserting
    /\ refs' = [refs EXCEPT ![s][next[s]] = row[next[s]]]
    /\ UNCHANGED <<row, cas, lost, own, made>>

(* ... stages a file of its own, ... *)
StagesOwn(s) ==
    /\ pc[s] = "file" /\ row[next[s]] = NoFile /\ pc'[s] \notin Inserting
    /\ refs' = [refs EXCEPT ![s][next[s]] = Key(<<s, next[s]>>)]
    /\ own' = [own EXCEPT ![s] = @ \cup {next[s]}]
    /\ UNCHANGED <<row, cas, lost, made>>

(* ... links it, ... *)
Links(s) ==
    /\ pc[s] = "link" /\ next[s] \in own[s] /\ pc'[s] \notin Inserting
    /\ staged[next[s]] # NoFile
    /\ cas' = [cas EXCEPT ![refs[s][next[s]]] = staged[next[s]]]
    /\ made' = [made EXCEPT ![s] = @ \cup {next[s]}]
    /\ UNCHANGED <<row, lost, refs, own>>

(* ... sees that there is a file for a row it will insert, ... *)
Puts(s) ==
    /\ pc[s] = "put" /\ row[next[s]] = NoFile /\ pc'[s] \in Inserting /\ next'[s] = next[s]
    /\ cas' = [cas EXCEPT ![refs[s][next[s]]] = IF @ = NoFile THEN <<NoSession, next[s]>> ELSE @]
    /\ UNCHANGED <<row, lost, refs, own, made>>

(* ... is done with a chunk that has its row now, and has put a file of its own that lost
   into quarantine, ... *)
Settles(s) ==
    LET c == IF row[next[s]] = NoFile THEN refs[s][next[s]] ELSE row[next[s]] IN
    /\ pc[s] \in {"put"} \cup Inserting /\ pc'[s] \in {"link", "tidy"}
    /\ row[next[s]] = NoFile => pc[s] \in Inserting
    /\ c = refs[s][next[s]] => pc'[s] = "link" /\ next'[s] = next[s] + 1
    /\ row' = [row EXCEPT ![next[s]] = c]
    /\ \A f \in Files : cas'[f] = cas[f] \/ (f \in lost' /\ cas'[f] = NoFile)
    /\ lost \subseteq lost'
    /\ made'[s] \subseteq made[s]
    /\ UNCHANGED <<refs, own>>

(* ... or takes back a link, or tries to. *)
TakesBack(s, i) ==
    /\ \/ pc[s] = "tidy" /\ i = next[s]
       \/ pc[s] = "undo" /\ i \in made[s] /\ i \notin made'[s]
    /\ CleanupFails(i, refs[s][i])
    /\ pc'[s] \notin Inserting /\ made'[s] \subseteq made[s]
    /\ UNCHANGED <<refs, own>>

(* These are all the effects there are. *)
LEMMA Effects ==
  ASSUME Inv, NEW s \in Sessions
  PROVE  SessionStep(s) =>
           \/ Quiet(s) \/ TakesRow(s) \/ StagesOwn(s) \/ Links(s) \/ Puts(s) \/ Settles(s)
           \/ \E i \in Ord : TakesBack(s, i)
<1>0. /\ pc \in [Sessions -> Labels] /\ next \in [Sessions -> 0 .. ChunkCount]
      /\ made \in [Sessions -> SUBSET Ord] /\ Progress(s)
      /\ row \in [Ord -> Files \cup {NoFile}]
  BY DEF Inv, TypeOK, AllProgress
<1> USE <1>0 DEF Goto, At
<1>1. BeginStep(s) => Quiet(s)
  BY DEF BeginStep, ReserveLook, ReinitDir, ReinitLedger, Reserve, MarkReceiving, BeginGivesUp,
         Adopt, MakeDir, Unbegin, RemoveDir, Resume, Quiet, Inserting
<1>2. StageBegin(s) \/ StageCommit(s) \/ VerifyLedger(s) => Quiet(s)
  BY DEF StageBegin, StageCommit, StateStaged, VerifyLedger, Quiet, Inserting
<1>3. StageFile(s) => Quiet(s) \/ TakesRow(s) \/ StagesOwn(s)
  BY DEF StageFile, Replayed, StateStaged, Quiet, TakesRow, StagesOwn, Inserting
<1>4. ASSUME PromoteLink(s) PROVE Quiet(s) \/ Links(s)
  <2>1. CASE Intact(s, next[s]) /\ cas[refs[s][next[s]]] = NoFile
    <3>1. next[s] \in own[s] /\ staged[next[s]] # NoFile
      BY <2>1 DEF Intact
    <3> QED
      BY <1>4, <2>1, <3>1 DEF PromoteLink, Links, Inserting
  <2> QED
    BY <1>4, <2>1 DEF PromoteLink, Quiet, Inserting
<1>5. ASSUME NEW c, Settle(s, c), pc[s] \in {"put"} \cup Inserting, UNCHANGED <<refs, own>>,
             \A f \in Files : cas'[f] = cas[f] \/ (f \in lost' /\ cas'[f] = NoFile),
             lost \subseteq lost',
             c = IF row[next[s]] = NoFile THEN refs[s][next[s]] ELSE row[next[s]],
             row[next[s]] = NoFile => pc[s] \in Inserting,
             row' = [row EXCEPT ![next[s]] = c]
      PROVE  Settles(s)
  BY <1>5 DEF Settle, Settles
<1>6. ASSUME PromotePut(s) PROVE Quiet(s) \/ Puts(s) \/ Settles(s)
  <2>1. CASE row[next[s]] # NoFile /\ Settle(s, row[next[s]]) /\ UNCHANGED cas
    <3>1. row' = [row EXCEPT ![next[s]] = row[next[s]]] /\ UNCHANGED lost
      BY <1>6 DEF PromotePut
    <3> QED
      BY <1>5, <1>6, <2>1, <3>1 DEF PromotePut
  <2> QED
    BY <1>6, <2>1 DEF PromotePut, Puts, Quiet, Inserting
<1>7. ASSUME PromoteInsert(s) PROVE Quiet(s) \/ Settles(s)
  <2> DEFINE k == refs[s][next[s]]
             c == IF row[next[s]] = NoFile THEN k ELSE row[next[s]]
             Q == IF pc[s] = "insertNew" /\ c # k THEN {k} ELSE {}
  <2>1. CASE /\ row' = [row EXCEPT ![next[s]] = c]
             /\ cas' = [f \in Files |-> IF f \in Q THEN NoFile ELSE cas[f]]
             /\ lost' = lost \cup Q
             /\ Settle(s, c)
    <3>1. \A f \in Files : cas'[f] = cas[f] \/ (f \in lost' /\ cas'[f] = NoFile)
      <4> HIDE DEF Q
      <4> QED
        BY <2>1
    <3>2. pc[s] \in Inserting /\ UNCHANGED <<refs, own>> /\ lost \subseteq lost'
      BY <1>7, <2>1 DEF PromoteInsert, Inserting
    <3> QED
      BY <1>5, <2>1, <3>1, <3>2
  <2>2. CASE Goto(s, "undo") /\ UNCHANGED <<row, cas, lost, canon, made, next>>
    BY <1>7, <2>2 DEF PromoteInsert, Quiet, Inserting
  <2> QED
    BY <1>7, <2>1, <2>2 DEF PromoteInsert
<1>8. PromoteTidy(s) => TakesBack(s, next[s]) /\ next[s] \in Ord
  BY DEF PromoteTidy, CleanupFails, TakesBack, Progress, Inserting
<1>9. ASSUME Undo(s) PROVE Quiet(s) \/ \E i \in Ord : TakesBack(s, i)
  <2>1. ASSUME NEW i \in Ord, CleaningUp(s, i), CleanupOne(i, refs[s][i]),
               made' = [made EXCEPT ![s] = @ \ {i}], UNCHANGED pc
        PROVE  TakesBack(s, i)
    BY <1>9, <2>1 DEF Undo, CleaningUp, CleanupFails, TakesBack, Inserting
  <2>2. ASSUME NEW i \in Ord, CleaningUp(s, i), CleanupFails(i, refs[s][i]),
               made' = [made EXCEPT ![s] = IF i = next[s] THEN @ \ {i} ELSE {}],
               Goto(s, IF i = next[s] THEN "undo" ELSE "cancel")
        PROVE  TakesBack(s, i)
    BY <1>9, <2>2 DEF Undo, CleaningUp, TakesBack, Inserting
  <2>3. CASE made[s] = {} /\ Goto(s, "cancel") /\ UNCHANGED <<made, chunkRows, files>>
    BY <1>9, <2>3 DEF Undo, Quiet, Inserting
  <2> QED
    BY <1>9, <2>1, <2>2, <2>3 DEF Undo
<1>10. Seal(s) \/ Publish(s) \/ Finish(s) \/ EndStep(s) => Quiet(s)
  BY DEF Seal, Publish, Finish, EndStep, DropSession, Cancel, RemoveDir, Quiet, Inserting
<1> QED
  BY <1>1, <1>2, <1>3, <1>4, <1>6, <1>7, <1>8, <1>9, <1>10 DEF SessionStep, StageStep, SealStep

(* Session t has passed chunk i: no later step of t promotes it. *)
Past(t, i) ==
    /\ pc[t] \notin Beginning \cup {"stage", "file", "commit"}
    /\ pc[t] \in Promoting => next[t] > i

(* No session promotes a chunk twice. *)
LEMMA PastKept ==
  ASSUME Inv, NEW s \in Sessions, NEW i \in Ord, Past(s, i)
  PROVE  SessionStep(s) => Past(s, i)'
<1>0. /\ pc \in [Sessions -> Labels] /\ next \in [Sessions -> 0 .. ChunkCount]
      /\ i \in Nat /\ next[s] \in Nat
  BY CountAssumption, OrdFact DEF Inv, TypeOK
<1> USE <1>0 DEF Goto, At
<1>1. ~BeginStep(s) /\ ~StageStep(s)
  BY DEF Past, BeginStep, ReserveLook, ReinitDir, ReinitLedger, Reserve, MarkReceiving,
     BeginGivesUp, Adopt, MakeDir, Unbegin, StageStep, StageBegin, StageFile, StageCommit,
     VerifyLedger, Beginning
<1>2. ASSUME PromoteLink(s) \/ PromotePut(s) \/ PromoteInsert(s) \/ PromoteTidy(s)
      PROVE  Past(s, i)'
  <2>1. pc[s] \in Promoting /\ next[s] > i
    BY <1>2 DEF PromoteLink, PromotePut, PromoteInsert, PromoteTidy, Past, Promoting
  <2>2. /\ next'[s] = next[s] \/ next'[s] = next[s] + 1
        /\ pc'[s] \in Promoting \cup {"undo"}
    BY <1>2 DEF PromoteLink, PromotePut, PromoteInsert, PromoteTidy, Settle, Promoting
  <2> QED
    BY <2>1, <2>2 DEF Past, Promoting, Beginning
<1>3. ASSUME Seal(s) \/ Publish(s) \/ Finish(s) \/ Undo(s) \/ EndStep(s)
      PROVE  Past(s, i)'
  <2>1. pc'[s] \notin Beginning \cup {"stage", "file", "commit"} \cup Promoting
    BY <1>3 DEF Seal, Publish, Finish, Undo, EndStep, DropSession, Cancel, Beginning, Promoting
  <2> QED
    BY <2>1 DEF Past
<1> QED
  BY <1>1, <1>2, <1>3 DEF SessionStep, SealStep

(* The file a session writes for a chunk, and the keys a chunk may have. *)
KeysOf(i) == (Sessions \X {i}) \cup {NoFile}

(* A key names its writer and its chunk, and what a session owns it wrote itself. *)
KeysShaped ==
    /\ \A i \in Ord : row[i] \in KeysOf(i)
    /\ \A s \in Sessions, i \in Ord : refs[s][i] \in KeysOf(i)
    /\ \A s \in Sessions : \A i \in own[s] : refs[s][i] = <<s, i>>
    /\ \A s \in Sessions : made[s] \subseteq own[s]

(* A key others know of is one its writer is done with, and a link its writer might
   still take back is the row's. *)
KeysPast ==
    /\ \A t \in Sessions, i \in Ord : row[i] = <<t, i>> => Past(t, i)
    /\ \A s, t \in Sessions, i \in Ord :
         (s # t /\ refs[s][i] = <<t, i>>) =>
           Past(t, i) /\ (i \in made[t] => row[i] = <<t, i>>)

(* Between the file and the row nobody takes the file back, but for another session's
   quarantine of it. *)
InsertsBacked ==
    \A s \in Sessions : pc[s] \in Inserting =>
      /\ cas[refs[s][next[s]]] # NoFile \/ refs[s][next[s]] \in lost
      /\ \A t \in Sessions : (s # t /\ refs[s][next[s]] = <<t, next[s]>>) => next[s] \notin made[t]

KeyInv == KeysShaped /\ KeysPast /\ InsertsBacked /\ RowsHaveFiles

(* Keys keep their shape. *)
LEMMA ShapeKept ==
  ASSUME Inv, KeysShaped, Encrypted, NEW s \in Sessions, SessionStep(s)
  PROVE  KeysShaped'
<1>0. /\ next[s] \in 0 .. ChunkCount /\ Progress(s)
      /\ row \in [Ord -> Files \cup {NoFile}]
      /\ refs \in [Sessions -> [Ord -> Files \cup {NoFile}]]
      /\ own \in [Sessions -> SUBSET Ord] /\ made \in [Sessions -> SUBSET Ord]
  BY DEF Inv, TypeOK, AllProgress
<1>1. \A t \in Sessions : t # s => refs'[t] = refs[t] /\ own'[t] = own[t] /\ made'[t] = made[t]
  BY OthersKept DEF Inv, Kept
<1>2. CASE Quiet(s)
  BY <1>2 DEF Quiet, KeysShaped
<1>3. CASE TakesRow(s)
  <2>1. next[s] \in Ord /\ next[s] \notin own[s]
    BY <1>0, <1>3, OrdFact DEF TakesRow, Progress
  <2> QED
    BY <1>0, <1>3, <2>1 DEF TakesRow, KeysShaped
<1>4. CASE StagesOwn(s)
  <2>1. next[s] \in Ord /\ Key(<<s, next[s]>>) = <<s, next[s]>>
    BY <1>0, <1>4 DEF StagesOwn, Progress, Key
  <2>2. <<s, next[s]>> \in KeysOf(next[s])
    BY DEF KeysOf
  <2>3. \A t \in Sessions, i \in Ord :
          refs'[t][i] = IF t = s /\ i = next[s] THEN <<s, next[s]>> ELSE refs[t][i]
    BY <1>0, <1>4, <2>1 DEF StagesOwn
  <2>4. \A t \in Sessions : own'[t] = IF t = s THEN own[s] \cup {next[s]} ELSE own[t]
    BY <1>0, <1>4 DEF StagesOwn
  <2>5. UNCHANGED <<row, made>>
    BY <1>4 DEF StagesOwn
  <2>6. \A t \in Sessions, i \in Ord : refs'[t][i] \in KeysOf(i)
    BY <2>2, <2>3 DEF KeysShaped
  <2>7. ASSUME NEW t \in Sessions, NEW i \in own'[t] PROVE refs'[t][i] = <<t, i>>
    <3>1. CASE t = s /\ i = next[s]
      BY <2>1, <2>3, <3>1
    <3>2. CASE ~(t = s /\ i = next[s])
      <4>1. i \in own[t] /\ i \in Ord
        BY <1>0, <2>4, <2>7, <3>2
      <4> QED
        BY <2>3, <3>2, <4>1 DEF KeysShaped
    <3> QED
      BY <3>1, <3>2
  <2> QED
    BY <2>4, <2>5, <2>6, <2>7 DEF KeysShaped
<1>5. CASE Links(s)
  BY <1>0, <1>5 DEF Links, KeysShaped
<1>6. CASE Puts(s)
  BY <1>6 DEF Puts, KeysShaped
<1>7. CASE Settles(s)
  <2>1. next[s] \in Ord
    BY <1>0, <1>7 DEF Settles, Progress, Inserting
  <2> QED
    BY <1>0, <1>1, <1>7, <2>1 DEF Settles, KeysShaped
<1>8. ASSUME NEW i \in Ord, TakesBack(s, i) PROVE KeysShaped'
  <2>1. \A j \in Ord : row'[j] \in {row[j], NoFile}
    BY <1>0, <1>8 DEF TakesBack, CleanupFails, CleanupOne, Unlinked
  <2>2. \A j \in Ord : row'[j] \in KeysOf(j)
    BY <2>1 DEF KeysShaped, KeysOf
  <2> QED
    BY <1>0, <1>1, <1>8, <2>2 DEF TakesBack, KeysShaped
<1> QED
  BY <1>2, <1>3, <1>4, <1>5, <1>6, <1>7, <1>8, Effects

(* A session that has not reached chunk i is not done with it. *)
LEMMA NotPast ==
  ASSUME Inv, NEW s \in Sessions
  PROVE  pc[s] \in {"file", "link", "put", "tidy"} \cup Inserting => ~Past(s, next[s])
  BY CountAssumption DEF Inv, TypeOK, Past, Promoting, Inserting

(* Keys that others know of stay those their writers are done with. *)
LEMMA OwnersKept ==
  ASSUME Inv, KeysShaped, KeysPast, Encrypted, NEW s \in Sessions, SessionStep(s)
  PROVE  KeysPast'
<1>0. /\ next[s] \in 0 .. ChunkCount /\ Progress(s)
      /\ row \in [Ord -> Files \cup {NoFile}]
      /\ refs \in [Sessions -> [Ord -> Files \cup {NoFile}]]
      /\ own \in [Sessions -> SUBSET Ord] /\ made \in [Sessions -> SUBSET Ord]
  BY DEF Inv, TypeOK, AllProgress
<1>1. \A t \in Sessions : t # s => refs'[t] = refs[t] /\ made'[t] = made[t]
  BY OthersKept DEF Inv, Kept
<1>2. ASSUME NEW t \in Sessions, NEW i \in Ord, Past(t, i) PROVE Past(t, i)'
  <2>1. CASE t = s
    BY <1>2, <2>1, PastKept
  <2>2. CASE t # s
    BY <1>2, <2>2, OthersKept DEF Inv, Kept, Past
  <2> QED
    BY <2>1, <2>2
<1>3. \A i \in Ord, t \in Sessions : NoFile # <<t, i>>
  BY NoFileAssumption DEF Files
<1>4. CASE Quiet(s) \/ Puts(s)
  BY <1>2, <1>4 DEF Quiet, Puts, KeysPast
<1>5. CASE TakesRow(s)
  <2>1. next[s] \in Ord /\ UNCHANGED <<row, made>>
    BY <1>0, <1>5 DEF TakesRow, Progress
  <2>2. \A u \in Sessions, i \in Ord : refs'[u][i] # refs[u][i] => refs'[u][i] = row[i]
    BY <1>0, <1>5, <2>1 DEF TakesRow
  <2> QED
    BY <1>2, <2>1, <2>2 DEF KeysPast
<1>6. CASE StagesOwn(s)
  <2>1. next[s] \in Ord /\ UNCHANGED <<row, made>> /\ Key(<<s, next[s]>>) = <<s, next[s]>>
    BY <1>0, <1>6 DEF StagesOwn, Progress, Key
  <2>2. \A u, t \in Sessions, i \in Ord : u # t /\ refs'[u][i] = <<t, i>> => refs[u][i] = <<t, i>>
    BY <1>0, <1>6, <2>1 DEF StagesOwn
  <2> QED
    BY <1>2, <2>1, <2>2 DEF KeysPast
<1>7. CASE Links(s)
  <2>1. next[s] \in Ord /\ ~Past(s, next[s]) /\ UNCHANGED <<row, refs>>
    BY <1>0, <1>7, NotPast DEF Links
  <2>2. \A t \in Sessions : made'[t] = IF t = s THEN made[s] \cup {next[s]} ELSE made[t]
    BY <1>0, <1>7 DEF Links
  <2> QED
    BY <1>2, <2>1, <2>2 DEF KeysPast
<1>8. CASE Settles(s)
  <2>1. /\ next[s] \in Ord /\ ~Past(s, next[s]) /\ UNCHANGED refs
        /\ \A t \in Sessions : made'[t] \subseteq made[t]
    BY <1>0, <1>1, <1>8, NotPast DEF Settles, Progress, Inserting
  <2>2. \A i \in Ord : \/ row'[i] = row[i]
                       \/ i = next[s] /\ row[i] = NoFile /\ row'[i] = refs[s][i]
    BY <1>0, <1>8, <2>1 DEF Settles
  <2>3. ASSUME NEW i \in Ord, row'[i] # row[i], row'[i] = <<s, i>> PROVE Past(s, i)'
    <3>1. i = next[s] /\ pc'[s] = "link" /\ next'[s] = next[s] + 1
      BY <1>8, <2>2, <2>3 DEF Settles
    <3> QED
      BY <3>1, OrdFact DEF Past, Promoting, Beginning
  <2>4. ASSUME NEW t \in Sessions, NEW i \in Ord, row'[i] = <<t, i>> PROVE Past(t, i)'
    <3>1. CASE row'[i] = row[i]
      BY <1>2, <2>4, <3>1 DEF KeysPast
    <3>2. CASE row'[i] # row[i] /\ t = s
      BY <2>3, <2>4, <3>2
    <3>3. CASE row'[i] # row[i] /\ t # s
      BY <1>2, <2>2, <2>4, <3>3 DEF KeysPast
    <3> QED
      BY <3>1, <3>2, <3>3
  <2>5. ASSUME NEW u \in Sessions, NEW t \in Sessions, NEW i \in Ord, u # t,
               refs'[u][i] = <<t, i>>
        PROVE  Past(t, i)' /\ (i \in made'[t] => row'[i] = <<t, i>>)
    <3>1. Past(t, i) /\ (i \in made[t] => row[i] = <<t, i>>)
      BY <2>1, <2>5 DEF KeysPast
    <3> QED
      BY <1>2, <1>3, <2>1, <2>2, <3>1
  <2> QED
    BY <2>4, <2>5 DEF KeysPast
<1>9. ASSUME NEW j \in Ord, TakesBack(s, j) PROVE KeysPast'
  <2>1. /\ UNCHANGED refs /\ \A t \in Sessions : made'[t] \subseteq made[t]
        /\ refs[s][j] = <<s, j>>
    BY <1>0, <1>1, <1>9 DEF TakesBack, KeysShaped, Progress
  <2>2. \A i \in Ord : row'[i] = row[i] \/ (i = j /\ row[i] = <<s, j>> /\ row'[i] = NoFile)
    BY <1>0, <1>9, <2>1 DEF TakesBack, CleanupFails, CleanupOne, Unlinked
  <2>3. j \notin made'[s] \/ ~Past(s, j)
    BY <1>9, NotPast DEF TakesBack
  <2> QED
    <3>1. \A t \in Sessions, i \in Ord : row'[i] = <<t, i>> => Past(t, i)'
      BY <1>2, <1>3, <2>2 DEF KeysPast
    <3>2. ASSUME NEW u \in Sessions, NEW t \in Sessions, NEW i \in Ord, u # t,
                 refs'[u][i] = <<t, i>>
          PROVE  Past(t, i)' /\ (i \in made'[t] => row'[i] = <<t, i>>)
      <4>1. Past(t, i) /\ (i \in made[t] => row[i] = <<t, i>>)
        BY <2>1, <3>2 DEF KeysPast
      <4>2. i \in made'[t] => row'[i] = row[i]
        <5>1. CASE row[i] = <<s, j>> /\ i = j
          BY <2>1, <2>2, <2>3, <4>1, <5>1
        <5> QED
          BY <2>2, <5>1
      <4> QED
        BY <1>2, <2>1, <4>1, <4>2
    <3> QED
      BY <3>1, <3>2 DEF KeysPast
<1> QED
  BY <1>4, <1>5, <1>6, <1>7, <1>8, <1>9, Effects

(* The file a row is about to be inserted for stays. *)
LEMMA InsertsKept ==
  ASSUME Inv, KeysShaped, KeysPast, InsertsBacked, Encrypted, NEW s \in Sessions, SessionStep(s)
  PROVE  InsertsBacked'
<1>0. /\ next \in [Sessions -> 0 .. ChunkCount] /\ Progress(s)
      /\ cas \in [Files -> Files \cup {NoFile}]
      /\ refs \in [Sessions -> [Ord -> Files \cup {NoFile}]]
      /\ own \in [Sessions -> SUBSET Ord] /\ made \in [Sessions -> SUBSET Ord]
  BY DEF Inv, TypeOK, AllProgress
<1>1. \A t \in Sessions : t # s => Kept(t)
  BY OthersKept DEF Inv
<1>2. \A i \in Ord, t \in Sessions : NoFile # <<t, i>> /\ NoFile # <<NoSession, i>>
  BY NoFileAssumption DEF Files
<1>3. ASSUME NEW u \in Sessions, pc'[u] \in Inserting, u # s
      PROVE  /\ pc[u] \in Inserting /\ next'[u] = next[u] /\ next[u] \in Ord
             /\ refs'[u] = refs[u] /\ refs[u][next[u]] \in Files
             /\ cas[refs[u][next[u]]] # NoFile \/ refs[u][next[u]] \in lost
             /\ \A t \in Sessions :
                  (u # t /\ refs[u][next[u]] = <<t, next[u]>>) => next[u] \notin made[t]
  <2>1. pc[u] \in Inserting /\ Progress(u)
    BY <1>1, <1>3 DEF Kept, Inv, AllProgress
  <2> QED
    BY <1>0, <1>1, <1>3, <2>1 DEF Kept, Progress, Promoting, Inserting, InsertsBacked
<1>4. CASE /\ pc'[s] \notin Inserting /\ lost \subseteq lost'
           /\ \A f \in Files : cas'[f] = cas[f] \/ f \in lost'
           /\ \A t \in Sessions : made'[t] \subseteq made[t]
  BY <1>3, <1>4 DEF InsertsBacked
<1>5. CASE Links(s)
  <2>1. next[s] \in Ord /\ ~Past(s, next[s]) /\ pc'[s] \notin Inserting /\ staged[next[s]] # NoFile
    BY <1>0, <1>5, NotPast DEF Links
  <2>x. UNCHANGED lost
    BY <1>5 DEF Links
  <2>2. \A t \in Sessions : made'[t] = IF t = s THEN made[s] \cup {next[s]} ELSE made[t]
    BY <1>0, <1>5 DEF Links
  <2>3. \A k \in Files : cas[k] # NoFile => cas'[k] # NoFile
    BY <1>0, <1>5, <2>1 DEF Links
  <2>4. ASSUME NEW u \in Sessions, pc'[u] \in Inserting, NEW t \in Sessions,
               u # t, refs[u][next[u]] = <<t, next[u]>>, next[u] \in made'[t]
        PROVE  FALSE
    <3>1. u # s
      BY <2>1, <2>4
    <3>2. next[u] \in Ord /\ next[u] \notin made[t]
      BY <1>3, <2>4, <3>1
    <3>3. t = s /\ next[u] = next[s]
      BY <2>2, <2>4, <3>2
    <3> QED
      BY <2>1, <2>4, <3>2, <3>3 DEF KeysPast
  <2> QED
    BY <1>3, <2>1, <2>x, <2>3, <2>4 DEF InsertsBacked
<1>6. CASE Puts(s)
  <2>1. next[s] \in Ord /\ refs[s][next[s]] \in Files /\ UNCHANGED <<made, refs, lost>>
    BY <1>0, <1>6 DEF Puts, Progress, Promoting
  <2>2. /\ \A k \in Files : cas[k] # NoFile => cas'[k] # NoFile
        /\ cas'[refs[s][next[s]]] # NoFile
    BY <1>0, <1>2, <1>6, <2>1 DEF Puts
  <2>3. \A t \in Sessions : (s # t /\ refs[s][next[s]] = <<t, next[s]>>) => next[s] \notin made[t]
    BY <1>2, <1>6, <2>1 DEF Puts, KeysPast
  <2>4. next'[s] = next[s]
    BY <1>6 DEF Puts
  <2> QED
    BY <1>3, <2>1, <2>2, <2>3, <2>4 DEF InsertsBacked
<1>7. ASSUME NEW j \in Ord, TakesBack(s, j) PROVE InsertsBacked'
  <2>1. /\ refs[s][j] = <<s, j>> /\ pc'[s] \notin Inserting
        /\ \A t \in Sessions : made'[t] \subseteq made[t]
        /\ lost \subseteq lost'
    BY <1>0, <1>1, <1>7
       DEF TakesBack, CleanupFails, CleanupOne, KeysShaped, Progress, Kept
  <2>2. j \in made[s] \/ ~Past(s, j)
    BY <1>7, NotPast DEF TakesBack
  <2>3. \A k \in Files : k # <<s, j>> => cas'[k] = cas[k]
    BY <1>0, <1>7, <2>1 DEF TakesBack, CleanupFails, CleanupOne, Unlinked
  <2>4. ASSUME NEW u \in Sessions, pc'[u] \in Inserting PROVE refs[u][next[u]] # <<s, j>>
    <3>1. u # s /\ next[u] \in Ord
      BY <1>3, <2>1, <2>4
    <3>2. refs[u][next[u]] \in KeysOf(next[u])
      BY <3>1 DEF KeysShaped
    <3>3. CASE refs[u][next[u]] = <<s, j>>
      <4>1. next[u] = j
        BY <1>2, <3>2, <3>3 DEF KeysOf
      <4> QED
        BY <1>3, <2>2, <2>4, <3>1, <3>3, <4>1 DEF KeysPast
    <3> QED
      BY <3>3
  <2> QED
    BY <1>3, <2>1, <2>3, <2>4 DEF InsertsBacked
<1>8. Quiet(s) \/ TakesRow(s) \/ StagesOwn(s) \/ Settles(s)
        => /\ pc'[s] \notin Inserting /\ lost \subseteq lost'
           /\ \A f \in Files : cas'[f] = cas[f] \/ f \in lost'
           /\ \A t \in Sessions : made'[t] \subseteq made[t]
  BY <1>1 DEF Quiet, TakesRow, StagesOwn, Settles, Kept, Inserting
<1> QED
  BY <1>4, <1>5, <1>6, <1>7, <1>8, Effects

(* Only a crash cuts a cleanup short. *)
LEMMA CutKept ==
  ASSUME NEW s \in Sessions, SessionStep(s)
  PROVE  UNCHANGED cut
<1>1. BeginStep(s) \/ EndStep(s) => UNCHANGED cut
  BY DEF BeginStep, ReserveLook, ReinitDir, ReinitLedger, Reserve, MarkReceiving, BeginGivesUp,
         Adopt, MakeDir, Unbegin, EndStep, DropSession, Cancel
<1>2. StageStep(s) => UNCHANGED cut
  BY DEF StageStep, StageBegin, StageFile, StageCommit, VerifyLedger
<1>3. SealStep(s) => UNCHANGED cut
  BY DEF SealStep, PromoteLink, PromotePut, PromoteInsert, PromoteTidy, Seal, Publish, Finish,
         Undo, CleanupFails, CleanupOne
<1> QED
  BY <1>1, <1>2, <1>3 DEF SessionStep

(* Rows keep their files. *)
LEMMA RowsKept ==
  ASSUME Inv, KeyInv, Encrypted, NEW s \in Sessions, SessionStep(s)
  PROVE  RowsHaveFiles'
<1>0. /\ next \in [Sessions -> 0 .. ChunkCount] /\ Progress(s)
      /\ row \in [Ord -> Files \cup {NoFile}] /\ cas \in [Files -> Files \cup {NoFile}]
      /\ own \in [Sessions -> SUBSET Ord] /\ made \in [Sessions -> SUBSET Ord]
  BY DEF Inv, TypeOK, AllProgress
<1>1. UNCHANGED cut
  BY CutKept
<1>2. \A i \in Ord, t \in Sessions : NoFile # <<t, i>> /\ NoFile # <<NoSession, i>>
  BY NoFileAssumption DEF Files
<1>3. CASE UNCHANGED <<row, lost, cut>> /\ \A k \in Files : cas[k] # NoFile => cas'[k] # NoFile
  BY <1>0, <1>3 DEF KeyInv, RowsHaveFiles
<1>4. Quiet(s) \/ TakesRow(s) \/ StagesOwn(s) \/ Links(s) \/ Puts(s)
        => UNCHANGED <<row, lost>> /\ \A k \in Files : cas[k] # NoFile => cas'[k] # NoFile
  <2>1. Puts(s) => next[s] \in Ord
    BY <1>0 DEF Puts, Progress
  <2> QED
    BY <1>0, <1>2, <2>1 DEF Quiet, TakesRow, StagesOwn, Links, Puts
<1>5. CASE Settles(s)
  <2>1. /\ next[s] \in Ord /\ lost \subseteq lost'
        /\ \A f \in Files : cas'[f] = cas[f] \/ f \in lost'
    BY <1>0, <1>5 DEF Settles, Progress, Inserting
  <2>2. \A i \in Ord : \/ row'[i] = row[i]
                       \/ i = next[s] /\ row'[i] = refs[s][i] /\ pc[s] \in Inserting
    BY <1>0, <1>5, <2>1 DEF Settles
  <2> QED
    <3>1. ASSUME NEW i \in Ord, row'[i] # NoFile
          PROVE  row'[i] \in Files /\ (cas[row'[i]] # NoFile \/ row'[i] \in cut \cup lost)
      <4>1. CASE row'[i] = row[i]
        BY <1>0, <3>1, <4>1 DEF KeyInv, RowsHaveFiles
      <4>2. CASE i = next[s] /\ row'[i] = refs[s][i] /\ pc[s] \in Inserting
        <5>1. refs[s][i] \in Files \cup {NoFile}
          BY DEF Inv, TypeOK
        <5> QED
          BY <3>1, <4>2, <5>1 DEF KeyInv, InsertsBacked
      <4> QED
        BY <2>2, <4>1, <4>2
    <3> QED
      BY <1>1, <2>1, <3>1 DEF RowsHaveFiles
<1>6. ASSUME NEW j \in Ord, TakesBack(s, j) PROVE RowsHaveFiles'
  <2>1. refs[s][j] = <<s, j>>
    BY <1>0, <1>6 DEF TakesBack, KeyInv, KeysShaped, Progress
  <2>x. lost \subseteq lost'
    BY <1>6 DEF TakesBack, CleanupFails, CleanupOne
  <2>2. \/ UNCHANGED <<row, cas>>
        \/ /\ cas' = [cas EXCEPT ![<<s, j>>] = NoFile]
           /\ \A i \in Ord : row'[i] = row[i] \/ row'[i] = NoFile
           /\ row'[j] # <<s, j>> \/ <<s, j>> \in lost'
    BY <1>0, <1>2, <1>6, <2>1 DEF TakesBack, CleanupFails, CleanupOne, Unlinked
  <2>3. CASE UNCHANGED <<row, cas>>
    BY <1>1, <2>x, <2>3 DEF KeyInv, RowsHaveFiles
  <2>4. CASE /\ cas' = [cas EXCEPT ![<<s, j>>] = NoFile]
             /\ \A i \in Ord : row'[i] = row[i] \/ row'[i] = NoFile
             /\ row'[j] # <<s, j>> \/ <<s, j>> \in lost'
    <3>1. ASSUME NEW i \in Ord, row'[i] # NoFile
          PROVE  cas'[row'[i]] # NoFile \/ row'[i] \in cut' \cup lost'
      <4>1. row'[i] = row[i] /\ row[i] \in Files /\ row[i] \in KeysOf(i)
        BY <1>0, <2>4, <3>1 DEF KeyInv, KeysShaped
      <4>2. row[i] # <<s, j>> \/ row[i] \in lost'
        BY <1>2, <2>4, <4>1 DEF KeysOf
      <4>3. cas[row[i]] # NoFile \/ row[i] \in cut \cup lost
        BY <3>1, <4>1 DEF KeyInv, RowsHaveFiles
      <4> QED
        BY <1>0, <1>1, <2>x, <2>4, <4>1, <4>2, <4>3
    <3> QED
      BY <3>1 DEF RowsHaveFiles
  <2> QED
    BY <2>2, <2>3, <2>4
<1> QED
  BY <1>1, <1>3, <1>4, <1>5, <1>6, Effects

(* The steps outside the sessions. *)
LEMMA SystemKeys ==
  ASSUME Inv, KeyInv, SystemStep
  PROVE  KeyInv'
<1>1. UNCHANGED <<row, lost, next, refs, own, made>>
  BY DEF SystemStep, LeaseLapses, ReapLook, ReapDir, ReapAbort, ReapLedger, ReapFails, Crash,
     Restart, Unlinked
<1>2. \A t \in Sessions : pc'[t] = pc[t] \/ (pc'[t] = "ended" /\ pc[t] # "start")
  BY DEF SystemStep, LeaseLapses, ReapLook, ReapDir, ReapAbort, ReapLedger, ReapFails, Crash,
     Restart
<1>3. /\ cut \subseteq cut' /\ \A f \in Files : cas'[f] = cas[f] \/ f \in cut'
      /\ cas' = cas \/ \A t \in Sessions : pc'[t] \in {"start", "ended"}
  <2>1. CASE Crash
    <3>1. cas \in [Files -> Files \cup {NoFile}]
      BY DEF Inv, TypeOK
    <3>2. CASE UNCHANGED <<chunkRows, files>>
      BY <3>2
    <3>3. ASSUME NEW s \in Sessions, NEW i \in Ord, Unlinked(i, refs[s][i]),
                 cut' = cut \cup {refs[s][i]}
          PROVE  cut \subseteq cut' /\ \A f \in Files : cas'[f] = cas[f] \/ f \in cut'
      BY <3>1, <3>3 DEF Unlinked
    <3>4. \A t \in Sessions : pc'[t] \in {"start", "ended"}
      BY <2>1 DEF Crash
    <3> QED
      BY <2>1, <3>2, <3>3, <3>4 DEF Crash
  <2>2. SystemStep => Crash \/ UNCHANGED <<cas, cut>>
    BY DEF SystemStep, LeaseLapses, ReapLook, ReapDir, ReapAbort, ReapLedger, ReapFails, Restart,
       RemoveDir
  <2> QED
    BY <2>1, <2>2
<1>4. KeysShaped'
  BY <1>1 DEF KeyInv, KeysShaped
<1>5. \A t \in Sessions, i \in Ord : Past(t, i) => Past(t, i)'
  BY <1>1, <1>2 DEF Past, Beginning, Promoting
<1>6. KeysPast'
  BY <1>1, <1>5 DEF KeyInv, KeysPast
<1>7. InsertsBacked'
  BY <1>1, <1>2, <1>3 DEF KeyInv, InsertsBacked, Inserting
<1>8. RowsHaveFiles'
  <2>1. row \in [Ord -> Files \cup {NoFile}]
    BY DEF Inv, TypeOK
  <2> QED
    BY <1>1, <1>3, <2>1 DEF KeyInv, RowsHaveFiles
<1> QED
  BY <1>4, <1>6, <1>7, <1>8 DEF KeyInv

(* The key invariant is inductive for an encrypted export. *)
LEMMA KeyInvKept == Encrypted /\ Inv /\ KeyInv /\ [Next]_vars => KeyInv'
<1> SUFFICES ASSUME Encrypted, Inv, KeyInv, [Next]_vars PROVE KeyInv'
  OBVIOUS
<1>1. ASSUME NEW s \in Sessions, SessionStep(s) PROVE KeyInv'
  BY <1>1, ShapeKept, OwnersKept, InsertsKept, RowsKept DEF KeyInv
<1>2. CASE UNCHANGED vars
  BY <1>2 DEF vars, KeyInv, KeysShaped, KeysPast, Past, InsertsBacked, RowsHaveFiles
<1> QED
  BY <1>1, <1>2, SystemKeys, NextSteps

(* Initially there are no keys. *)
LEMMA KeyInvInit == Init => KeyInv
<1> SUFFICES ASSUME Init PROVE KeyInv
  OBVIOUS
<1>1. /\ \A i \in Ord : row[i] = NoFile
      /\ \A s \in Sessions, i \in Ord : refs[s][i] = NoFile
      /\ \A s \in Sessions : own[s] = {} /\ made[s] = {} /\ pc[s] = "start"
  BY DEF Init, Nothing
<1>2. \A i \in Ord, t \in Sessions : NoFile # <<t, i>>
  BY NoFileAssumption DEF Files
<1> QED
  BY <1>1, <1>2 DEF KeyInv, KeysShaped, KeysOf, KeysPast, InsertsBacked, RowsHaveFiles, Inserting

(* In an encrypted export a chunks row has its file, but for the keys that a crash, a failed
   commit with a failed link back, or a losing put's quarantine left without: promotion
   links before it inserts, and no other step of any session parts the two. *)
THEOREM EncryptedRowsHaveFiles == ASSUME Encrypted PROVE Spec => []RowsHaveFiles
<1>1. KeyInv => RowsHaveFiles
  BY DEF KeyInv
<1> QED
  BY <1>1, KeyInvInit, KeyInvKept, InvInit, InvNext, PTL DEF Spec

-----------------------------------------------------------------------------
(* The published export. *)

(* What is published is what the rows say, for every chunk. *)
PublishedRows ==
    up = "PUBLISHED" => pub = {row[i] : i \in Ord} /\ \A i \in Ord : row[i] # NoFile

(* A step that touches neither the rows nor what is published, nor publishes. *)
LeavesRows == UNCHANGED <<row, pub>> /\ (up' = "PUBLISHED" => up = "PUBLISHED")

(* Few steps do more. *)
LEMMA RowSteps ==
  ASSUME Inv, NEW s \in Sessions
  PROVE  SessionStep(s) =>
           \/ LeavesRows \/ Publish(s)
           \/ UNCHANGED <<up, pub>> /\ Settles(s)
           \/ UNCHANGED <<up, pub>> /\ \E i \in Ord : TakesBack(s, i)
<1>1. BeginStep(s) => LeavesRows
  BY DEF BeginStep, ReserveLook, ReinitDir, ReinitLedger, Reserve, MarkReceiving, BeginGivesUp,
         Adopt, MakeDir, Unbegin, AbortUpload, AbortRefused, ClearLedger, LeavesRows
<1>2. StageStep(s) => LeavesRows
  BY DEF StageStep, StageBegin, StageFile, StageCommit, VerifyLedger, LeavesRows
<1>3. EndStep(s) => LeavesRows
  BY DEF EndStep, DropSession, Cancel, AbortUpload, AbortRefused, ClearLedger, LeavesRows
<1>4. Seal(s) \/ Finish(s) \/ PromoteLink(s) \/ PromotePut(s) => LeavesRows
  BY DEF Seal, Finish, ClearLedger, PromoteLink, PromotePut, LeavesRows
<1>5. PromoteInsert(s) \/ PromoteTidy(s) \/ Undo(s) => UNCHANGED <<up, pub>>
  BY DEF PromoteInsert, PromoteTidy, Undo, CleanupFails, CleanupOne, Unlinked
<1>6. PromoteInsert(s) \/ PromoteTidy(s) \/ Undo(s) =>
        (LeavesRows \/ Settles(s) \/ \E i \in Ord : TakesBack(s, i))
  <2>1. Quiet(s) \/ TakesRow(s) \/ StagesOwn(s) \/ Links(s) \/ Puts(s) => UNCHANGED row
    BY DEF Quiet, TakesRow, StagesOwn, Links, Puts
  <2> QED
    BY <1>5, <2>1, Effects DEF SessionStep, SealStep, LeavesRows
<1> QED
  BY <1>1, <1>2, <1>3, <1>4, <1>5, <1>6 DEF SessionStep, SealStep

(* Only the publication makes an export published, and no cleanup takes a published row. *)
LEMMA PublishedRowsKept == Inv /\ PublishedRows /\ [Next]_vars => PublishedRows'
<1> SUFFICES ASSUME Inv, PublishedRows, [Next]_vars PROVE PublishedRows'
  OBVIOUS
<1>0. row \in [Ord -> Files \cup {NoFile}] /\ canon \in [Sessions -> [Ord -> Files \cup {NoFile}]]
  BY DEF Inv, TypeOK
<1>1. CASE LeavesRows
  BY <1>1 DEF LeavesRows, PublishedRows
<1>2. ASSUME NEW s \in Sessions, Publish(s) PROVE PublishedRows'
  <2>1. CASE LeavesRows
    BY <1>1, <2>1
  <2>2. CASE Cataloged(s) /\ pub' = {canon[s][i] : i \in Ord}
    <3>1. \A i \in Ord : canon[s][i] # NoFile
      BY <1>2 DEF Publish, At, Inv, AllProgress, Progress
    <3>2. \A i \in Ord : row'[i] = canon[s][i]
      BY <1>2, <2>2 DEF Publish, Cataloged
    <3> QED
      BY <2>2, <3>1, <3>2 DEF PublishedRows
  <2> QED
    BY <1>2, <2>1, <2>2 DEF Publish, LeavesRows
<1>3. ASSUME NEW s \in Sessions, Settles(s), UNCHANGED <<up, pub>> PROVE PublishedRows'
  <2>1. next[s] \in Ord
    BY <1>3 DEF Settles, Inv, AllProgress, Progress, Inserting
  <2>2. (\A i \in Ord : row[i] # NoFile) => row' = row
    BY <1>0, <1>3, <2>1 DEF Settles
  <2> QED
    BY <1>3, <2>2 DEF PublishedRows
<1>4. ASSUME NEW s \in Sessions, NEW j \in Ord, TakesBack(s, j), UNCHANGED <<up, pub>>
      PROVE  PublishedRows'
  <2>1. row' = row \/ row[j] \notin pub
    BY <1>4 DEF TakesBack, CleanupFails, CleanupOne, Unlinked, Removable
  <2> QED
    BY <1>4, <2>1 DEF PublishedRows
<1>5. SystemStep => LeavesRows
  BY DEF SystemStep, LeaseLapses, ReapLook, ReapDir, ReapAbort, ReapLedger, ReapFails, Crash,
     Unlinked, Restart, AbortUpload, AbortRefused, ClearLedger, LeavesRows
<1>6. CASE UNCHANGED vars
  BY <1>6 DEF vars, PublishedRows
<1> QED
  BY <1>1, <1>2, <1>3, <1>4, <1>5, <1>6, RowSteps, NextSteps

(* What a crash cut short. *)

(* A key that a crash cut is no longer anyone's to promote: it has no file, its writer
   is gone, and a session that meets its row can only have taken the key from it.  Such a
   session fails before it puts the chunk, so neither a canonical reference nor a
   published one is cut. *)
CutFilesGone == \A k \in cut : k \in Sessions \X Ord /\ cas[k] = NoFile

CutWritersGone == \A s \in Sessions, i \in Ord : <<s, i>> \in cut => pc[s] = "ended"

CutRowsTaken ==
    \A s \in Sessions, i \in Ord :
      (pc[s] # "ended" /\ row[i] \in cut /\ refs[s][i] # NoFile) => refs[s][i] = row[i]

StartsEmpty == \A s \in Sessions : pc[s] \in Beginning => \A i \in Ord : refs[s][i] = NoFile

CutNotPut(s) == pc[s] \in {"put"} \cup Inserting => refs[s][next[s]] \notin cut

CutNotCanon(s) ==
    /\ pc[s] \in Promoting => \A j \in Ord : j < next[s] => canon[s][j] \notin cut
    /\ pc[s] = "tidy" => canon[s][next[s]] \notin cut
    /\ pc[s] = "publish" => \A j \in Ord : canon[s][j] \notin cut

CutInv ==
    /\ CutFilesGone /\ CutWritersGone /\ CutRowsTaken /\ StartsEmpty
    /\ \A s \in Sessions : CutNotPut(s) /\ CutNotCanon(s)
    /\ pub \cap cut = {}

(* A crash cuts a key that is its session's own and not published, and leaves no session
   between its start and its end. *)
LEMMA CrashCuts ==
  ASSUME Inv, KeyInv, CutInv, Crash
  PROVE  CutInv'
<1>0. /\ cas \in [Files -> Files \cup {NoFile}]
      /\ refs \in [Sessions -> [Ord -> Files \cup {NoFile}]]
  BY DEF Inv, TypeOK
<1>1. /\ UNCHANGED <<row, pub, refs, next>>
      /\ \A s \in Sessions : pc'[s] = IF pc[s] = "start" THEN "start" ELSE "ended"
  BY DEF Crash, Unlinked
<1>2. StartsEmpty' /\ CutRowsTaken'
  BY <1>1 DEF StartsEmpty, CutRowsTaken, CutInv, Beginning
<1>3. \A s \in Sessions : CutNotPut(s)' /\ CutNotCanon(s)'
  BY <1>1 DEF CutNotPut, CutNotCanon, Inserting, Promoting
<1>4. CASE UNCHANGED <<cut, cas>>
  BY <1>1, <1>2, <1>3, <1>4 DEF CutInv, CutFilesGone, CutWritersGone
<1>5. ASSUME NEW s \in Sessions, NEW i \in Ord, CleaningUp(s, i), Unlinked(i, refs[s][i]),
             cut' = cut \cup {refs[s][i]}
      PROVE  CutInv'
  <2>1. refs[s][i] = <<s, i>>
    BY <1>5 DEF CleaningUp, KeyInv, KeysShaped, Inv, AllProgress, Progress
  <2>2. <<s, i>> \in Files
    BY DEF Files
  <2>3. CutFilesGone'
    BY <1>0, <1>5, <2>1, <2>2 DEF Unlinked, CutInv, CutFilesGone
  <2>4. pc'[s] = "ended"
    BY <1>1, <1>5 DEF CleaningUp
  <2>5. CutWritersGone'
    BY <1>1, <1>5, <2>1, <2>4 DEF CutInv, CutWritersGone
  <2>6. (pub \cap cut)' = {}
    BY <1>1, <1>5 DEF Unlinked, Removable, CutInv
  <2> QED
    BY <1>2, <1>3, <2>3, <2>5, <2>6 DEF CutInv
<1> QED
  BY <1>4, <1>5 DEF Crash

(* Nobody puts a chunk under a key that was cut, nor gets one back as canonical. *)
LEMMA CutPositions ==
  ASSUME Inv, KeyInv, CutInv, NEW s \in Sessions, SessionStep(s)
  PROVE  CutNotPut(s)' /\ CutNotCanon(s)'
<1>0. /\ pc \in [Sessions -> Labels] /\ next \in [Sessions -> 0 .. ChunkCount]
      /\ canon \in [Sessions -> [Ord -> Files \cup {NoFile}]] /\ Progress(s)
  BY DEF Inv, TypeOK, AllProgress
<1>1. UNCHANGED cut
  BY CutKept
<1>2. CutNotPut(s) /\ CutNotCanon(s)
  BY DEF CutInv
<1> USE <1>0 DEF Goto, At
<1>3. ASSUME pc'[s] \notin Promoting \cup {"publish"} PROVE CutNotPut(s)' /\ CutNotCanon(s)'
  BY <1>3 DEF CutNotPut, CutNotCanon, Promoting, Inserting
<1>4. BeginStep(s) => pc'[s] \notin Promoting \cup {"publish"}
  BY DEF BeginStep, ReserveLook, ReinitDir, ReinitLedger, Reserve, MarkReceiving, BeginGivesUp,
     Adopt, MakeDir, Unbegin, Resume, Promoting
<1>5. StageBegin(s) \/ StageFile(s) \/ StageCommit(s) => pc'[s] \notin Promoting \cup {"publish"}
  BY DEF StageBegin, StageFile, StageCommit, StateStaged, Promoting
<1>6. ASSUME VerifyLedger(s) PROVE CutNotPut(s)' /\ CutNotCanon(s)'
  BY <1>6, OrdFact DEF VerifyLedger, CutNotPut, CutNotCanon, Promoting, Inserting
<1>7. ASSUME PromoteLink(s) PROVE CutNotPut(s)' /\ CutNotCanon(s)'
  <2>1. next[s] \in Ord /\ UNCHANGED <<next, refs, canon>> /\ pc[s] = "link"
    BY <1>7, OrdFact DEF PromoteLink
  <2>2. CASE pc'[s] = "undo"
    BY <1>3, <2>2 DEF Promoting
  <2>3. CASE pc'[s] = "put" /\ Intact(s, next[s])
    <3>1. refs[s][next[s]] \notin cut
      <4>1. CASE next[s] \in own[s]
        BY <2>1, <4>1 DEF KeyInv, KeysShaped, CutInv, CutWritersGone
      <4>2. CASE next[s] \notin own[s]
        BY <2>3, <4>2 DEF Intact, CutInv, CutFilesGone
      <4> QED
        BY <4>1, <4>2
    <3> QED
      BY <1>1, <1>2, <2>1, <2>3, <3>1 DEF CutNotPut, CutNotCanon, Promoting
  <2> QED
    BY <1>7, <2>2, <2>3 DEF PromoteLink
<1>8. ASSUME NEW c, Settle(s, c), c \notin cut, pc[s] \in {"put"} \cup Inserting
      PROVE  CutNotPut(s)' /\ CutNotCanon(s)'
  <2>1. next[s] \in Ord /\ pc[s] \in Promoting
    BY <1>8 DEF Progress, Inserting, Promoting
  <2>2. /\ canon'[s][next[s]] = c /\ \A j \in Ord : j # next[s] => canon'[s][j] = canon[s][j]
        /\ \/ pc'[s] = "tidy" /\ next'[s] = next[s]
           \/ pc'[s] = "link" /\ next'[s] = next[s] + 1
    BY <1>8, <2>1 DEF Settle
  <2> QED
    BY <1>1, <1>2, <1>8, <2>1, <2>2, OrdFact DEF CutNotPut, CutNotCanon, Promoting, Inserting
<1>9. ASSUME pc[s] \in {"put"} \cup Inserting
      PROVE  refs[s][next[s]] \notin cut /\ row[next[s]] \notin cut
  <2>1. next[s] \in Ord /\ refs[s][next[s]] # NoFile /\ pc[s] # "ended"
    BY <1>9 DEF Progress, Inserting, Promoting
  <2> QED
    BY <1>2, <1>9, <2>1 DEF CutNotPut, CutInv, CutRowsTaken
<1>10. ASSUME PromotePut(s) PROVE CutNotPut(s)' /\ CutNotCanon(s)'
  <2>1. CASE pc'[s] \in Inserting /\ UNCHANGED <<next, refs, canon>>
    BY <1>1, <1>2, <1>9, <1>10, <2>1
       DEF PromotePut, CutNotPut, CutNotCanon, Promoting, Inserting
  <2>2. CASE pc'[s] = "undo"
    BY <1>3, <2>2 DEF Promoting
  <2> QED
    BY <1>8, <1>9, <1>10, <2>1, <2>2 DEF PromotePut, Inserting
<1>11. ASSUME PromoteInsert(s) PROVE CutNotPut(s)' /\ CutNotCanon(s)'
  <2>1. CASE pc'[s] = "undo"
    BY <1>3, <2>1 DEF Promoting
  <2> QED
    BY <1>8, <1>9, <1>11, <2>1 DEF PromoteInsert, Inserting
<1>12. ASSUME PromoteTidy(s) PROVE CutNotPut(s)' /\ CutNotCanon(s)'
  <2>1. CASE pc'[s] = "undo"
    BY <1>3, <2>1 DEF Promoting
  <2>2. CASE next' = [next EXCEPT ![s] = next[s] + 1] /\ pc'[s] = "link"
    BY <1>1, <1>2, <1>12, <2>2, OrdFact
       DEF PromoteTidy, CutNotPut, CutNotCanon, Promoting, Inserting
  <2> QED
    BY <1>12, <2>1, <2>2 DEF PromoteTidy
<1>13. ASSUME Seal(s) PROVE CutNotPut(s)' /\ CutNotCanon(s)'
  BY <1>1, <1>2, <1>13, OrdFact DEF Seal, CutNotPut, CutNotCanon, Promoting, Inserting
<1>14. Publish(s) \/ Finish(s) \/ Undo(s) \/ EndStep(s) => pc'[s] \notin Promoting \cup {"publish"}
  BY DEF Publish, Finish, Undo, EndStep, DropSession, Cancel, Promoting
<1> QED
  BY <1>3, <1>4, <1>5, <1>6, <1>7, <1>10, <1>11, <1>12, <1>13, <1>14
     DEF SessionStep, StageStep, SealStep

(* A session that ended takes no step, and no session goes back to its beginning. *)
LEMMA NoReturn ==
  ASSUME Inv, NEW s \in Sessions, SessionStep(s)
  PROVE  /\ pc[s] # "ended"
         /\ pc'[s] \in Beginning => pc[s] \in Beginning /\ refs' = refs
<1>0. pc \in [Sessions -> Labels]
  BY DEF Inv, TypeOK
<1> USE <1>0 DEF Goto, At
<1>1. BeginStep(s) => pc[s] \in Beginning /\ refs' = refs
  BY DEF BeginStep, ReserveLook, ReinitDir, ReinitLedger, Reserve, MarkReceiving, BeginGivesUp,
     Adopt, MakeDir, Unbegin, Beginning
<1>2. StageStep(s) => pc[s] # "ended" /\ pc'[s] \notin Beginning
  BY DEF StageStep, StageBegin, StageFile, StageCommit, StateStaged, VerifyLedger, Beginning
<1>3. SealStep(s) => pc[s] # "ended" /\ pc'[s] \notin Beginning
  BY DEF SealStep, PromoteLink, PromotePut, PromoteInsert, PromoteTidy, Settle, Seal, Publish,
     Finish, Undo, Beginning
<1>4. EndStep(s) => pc[s] # "ended" /\ pc'[s] \notin Beginning
  BY DEF EndStep, DropSession, Cancel, Beginning
<1> QED
  BY <1>1, <1>2, <1>3, <1>4 DEF SessionStep, Beginning

(* A session's step leaves cut keys without a file, and their rows where they were taken. *)
LEMMA CutFilesAndRows ==
  ASSUME Inv, KeyInv, CutInv, Encrypted, NEW s \in Sessions, SessionStep(s)
  PROVE  CutFilesGone' /\ CutRowsTaken'
<1>0. /\ next \in [Sessions -> 0 .. ChunkCount] /\ Progress(s)
      /\ cas \in [Files -> Files \cup {NoFile}] /\ row \in [Ord -> Files \cup {NoFile}]
      /\ refs \in [Sessions -> [Ord -> Files \cup {NoFile}]]
      /\ own \in [Sessions -> SUBSET Ord] /\ cut \subseteq Files
  BY DEF Inv, TypeOK, AllProgress
<1>1. UNCHANGED cut /\ pc[s] # "ended" /\ NoFile \notin cut
  BY <1>0, CutKept, NoReturn, NoFileAssumption
<1>2. \A u \in Sessions : u # s => pc'[u] = pc[u] /\ refs'[u] = refs[u]
  BY OthersKept DEF Inv, Kept
<1>3. \A u \in Sessions : pc'[u] # "ended" => pc[u] # "ended"
  BY <1>1, <1>2
<1>4. ASSUME \A k \in cut : cas'[k] = cas[k] \/ cas'[k] = NoFile PROVE CutFilesGone'
  BY <1>1, <1>4 DEF CutInv, CutFilesGone
<1>5. ASSUME refs' = refs, \A i \in Ord : row'[i] = row[i] \/ row'[i] \notin cut
      PROVE  CutRowsTaken'
  BY <1>1, <1>3, <1>5 DEF CutInv, CutRowsTaken
<1>6. CASE Quiet(s)
  BY <1>4, <1>5, <1>6 DEF Quiet
<1>7. CASE TakesRow(s)
  <2>1. next[s] \in Ord /\ UNCHANGED <<row, cas>>
    BY <1>0, <1>7 DEF TakesRow, Progress
  <2>2. \A u \in Sessions, i \in Ord : refs'[u][i] = refs[u][i] \/ refs'[u][i] = row[i]
    BY <1>0, <1>7, <2>1 DEF TakesRow
  <2> QED
    BY <1>1, <1>3, <1>4, <2>1, <2>2 DEF CutInv, CutRowsTaken
<1>8. CASE StagesOwn(s)
  <2>1. next[s] \in Ord /\ UNCHANGED <<row, cas>> /\ row[next[s]] \notin cut
    BY <1>0, <1>1, <1>8 DEF StagesOwn, Progress
  <2>2. \A u \in Sessions, i \in Ord : refs'[u][i] = refs[u][i] \/ i = next[s]
    BY <1>0, <1>8, <2>1 DEF StagesOwn
  <2> QED
    BY <1>1, <1>3, <1>4, <2>1, <2>2 DEF CutInv, CutRowsTaken
<1>9. CASE Links(s)
  <2>1. refs[s][next[s]] \notin cut /\ next[s] \in Ord
    <3>1. next[s] \in own[s] /\ next[s] \in Ord
      BY <1>0, <1>9 DEF Links
    <3>2. refs[s][next[s]] = <<s, next[s]>>
      BY <3>1 DEF KeyInv, KeysShaped
    <3> QED
      BY <1>1, <3>1, <3>2 DEF CutInv, CutWritersGone
  <2> QED
    BY <1>0, <1>4, <1>5, <1>9, <2>1 DEF Links
<1>10. CASE Puts(s)
  <2>1. refs[s][next[s]] \notin cut
    BY <1>10 DEF Puts, CutInv, CutNotPut
  <2> QED
    BY <1>0, <1>4, <1>5, <1>10, <2>1 DEF Puts
<1>11. CASE Settles(s)
  <2>1. /\ next[s] \in Ord /\ refs' = refs
        /\ refs[s][next[s]] \notin cut
    BY <1>0, <1>11 DEF Settles, Progress, Inserting, CutInv, CutNotPut
  <2>2. \A i \in Ord : row'[i] = row[i] \/ row'[i] = refs[s][next[s]]
    BY <1>0, <1>11, <2>1 DEF Settles
  <2>3. \A k \in cut : cas'[k] = cas[k] \/ cas'[k] = NoFile
    BY <1>0, <1>11 DEF Settles
  <2> QED
    BY <1>4, <1>5, <2>1, <2>2, <2>3
<1>12. ASSUME NEW i \in Ord, TakesBack(s, i) PROVE CutFilesGone' /\ CutRowsTaken'
  <2>1. \A k \in cut : cas'[k] = cas[k] \/ cas'[k] = NoFile
    BY <1>0, <1>12 DEF TakesBack, CleanupFails, CleanupOne, Unlinked
  <2>2. refs' = refs /\ \A j \in Ord : row'[j] = row[j] \/ row'[j] = NoFile
    BY <1>0, <1>12 DEF TakesBack, CleanupFails, CleanupOne, Unlinked
  <2> QED
    BY <1>1, <1>4, <1>5, <2>1, <2>2
<1> QED
  BY <1>6, <1>7, <1>8, <1>9, <1>10, <1>11, <1>12, Effects

(* What is known of cut keys is inductive for an encrypted export. *)
LEMMA CutInvKept == Encrypted /\ Inv /\ KeyInv /\ CutInv /\ [Next]_vars => CutInv'
<1> SUFFICES ASSUME Encrypted, Inv, KeyInv, CutInv, [Next]_vars PROVE CutInv'
  OBVIOUS
<1>1. ASSUME NEW s \in Sessions, SessionStep(s) PROVE CutInv'
  <2>1. UNCHANGED cut /\ \A u \in Sessions : u # s => Kept(u)
    BY <1>1, CutKept, OthersKept DEF Inv
  <2>2. CutWritersGone' /\ StartsEmpty'
    BY <1>1, <2>1, NoReturn DEF CutInv, CutWritersGone, StartsEmpty, Kept
  <2>3. ASSUME NEW u \in Sessions PROVE CutNotPut(u)' /\ CutNotCanon(u)'
    <3>1. CASE u = s
      BY <1>1, <3>1, CutPositions
    <3>2. CASE u # s
      BY <2>1, <3>2 DEF Kept, CutInv, CutNotPut, CutNotCanon
    <3> QED
      BY <3>1, <3>2
  <2>4. (pub \cap cut)' = {}
    <3>1. CASE UNCHANGED pub
      BY <2>1, <3>1 DEF CutInv
    <3>2. CASE Publish(s) /\ pub' = {canon[s][i] : i \in Ord}
      BY <2>1, <3>2 DEF Publish, At, CutInv, CutNotCanon
    <3>3. Publish(s) => UNCHANGED pub \/ pub' = {canon[s][i] : i \in Ord}
      BY DEF Publish
    <3> QED
      BY <1>1, <3>1, <3>2, <3>3, RowSteps DEF LeavesRows
  <2> QED
    BY <1>1, <2>2, <2>3, <2>4, CutFilesAndRows DEF CutInv
<1>2. CASE UNCHANGED <<row, pub, cut, cas, pc, next, refs, canon>>
  BY <1>2 DEF CutInv, CutFilesGone, CutWritersGone, CutRowsTaken, StartsEmpty, CutNotPut,
     CutNotCanon
<1>3. SystemStep => Crash \/ UNCHANGED <<row, pub, cut, cas, pc, next, refs, canon>>
  BY DEF SystemStep, LeaseLapses, ReapLook, ReapDir, ReapAbort, ReapLedger, ReapFails, Restart,
     RemoveDir
<1>4. UNCHANGED vars => UNCHANGED <<row, pub, cut, cas, pc, next, refs, canon>>
  BY DEF vars
<1> QED
  BY <1>1, <1>2, <1>3, <1>4, CrashCuts, NextSteps

(* Initially nothing is cut. *)
LEMMA CutInvInit == Init => CutInv
<1> SUFFICES ASSUME Init PROVE CutInv
  OBVIOUS
<1>1. cut = {} /\ \A s \in Sessions, i \in Ord : refs[s][i] = NoFile
  BY DEF Init, Nothing
<1> QED
  BY <1>1 DEF CutInv, CutFilesGone, CutWritersGone, CutRowsTaken, StartsEmpty, CutNotPut,
     CutNotCanon

(* A published encrypted export is whole: no cleanup of another session of the same
   upload takes a chunk it refers to, and no row that a crash left without its file is
   published.  Excused is a file lost under a session that had promoted the chunk. *)
THEOREM EncryptedPublishedWhole == ASSUME Encrypted PROVE Spec => []PublishedWhole
<1>1. Init => PublishedRows
  BY DEF Init, PublishedRows
<1>2. KeyInv /\ CutInv /\ PublishedRows => PublishedWhole
  BY DEF KeyInv, CutInv, PublishedRows, PublishedWhole, RowsHaveFiles
<1> QED
  BY <1>1, <1>2, PublishedRowsKept, KeyInvInit, KeyInvKept, CutInvInit, CutInvKept, InvInit,
     InvNext, PTL DEF Spec
=============================================================================
