------------------------------- MODULE AuditLog -------------------------------
(***************************************************************************)
(* AuditLog of src/core/audit-log.ts: several processes append entries to  *)
(* one hash-chained file under an O_EXCL lock file, rotating it as it      *)
(* grows.  The hash of an entry is its number; an entry's size is one      *)
(* unit.  Everything between two system calls that another process can     *)
(* tell apart is one action; a process appends one entry at a time.        *)
(***************************************************************************)
EXTENDS Naturals, Sequences, FiniteSets

CONSTANTS
    Writers,      \* processes that append
    RotateAt,     \* rotateBytes, in entries
    Keep,         \* rotateKeep
    MaxEntries,   \* bound on appends
    MaxCrashes    \* bound on crashes

ASSUME AuditBounds == /\ "nobody" \notin Writers
                      /\ RotateAt \in Nat \ {0} /\ Keep \in Nat \ {0}
                      /\ MaxEntries \in Nat /\ MaxCrashes \in Nat

VARIABLES
    active,      \* audit.log, << >> when it does not exist
    rotated,     \* audit.log.1 .. audit.log.Keep
    lock,        \* what audit.log.lock holds
    keyFile,     \* whose key audit.key holds
    pc,          \* where each process is
    tail,        \* lastHash and seq
    sizeSeen,    \* lastObservedSize
    key,         \* the key each process uses; "nobody" until initialized
    lives,       \* crashes of each process so far: it and them name its pid
    begun,       \* appends begun
    written,     \* entries written so far
    acknowledged,\* history: entries whose append() resolved
    dropped,     \* history: entries deleted with the oldest generation
    excuses      \* history: what has happened that can break the chain

auditFiles == <<active, rotated, lock, keyFile>>
auditMemory == <<pc, tail, sizeSeen, key, lives, begun>>
auditHistory == <<written, acknowledged, dropped, excuses>>
auditVars == <<auditFiles, auditMemory, auditHistory>>

NoEntry == 0                                       \* the hash ""
TornLine == [hash |-> NoEntry, seq |-> 0, prev |-> NoEntry, key |-> "nobody"]
NoLock == << >>                                    \* there is no lock file
Unnamed == <<"nobody", 0>>                         \* it is still empty
Pid(w) == <<w, lives[w]>>
Dead(pid) == pid[2] < lives[pid[1]]
Entered == {"pid", "refresh", "rotate", "rename", "append", "release"}
Generations == 1..Keep

AuditTypeOK ==
    /\ \A i \in DOMAIN active : active[i].hash \in 0..MaxEntries
    /\ DOMAIN rotated = Generations
    /\ lock \in {NoLock, Unnamed} \/ lock[1] \in Writers
    /\ keyFile \in Writers \cup {"nobody"} /\ key \in [Writers -> Writers \cup {"nobody"}]
    /\ pc \in [Writers -> {"idle", "init", "generate", "tail", "stat", "lock", "held", "reclaim"}
                           \cup Entered]
    /\ tail \in [Writers -> [hash : 0..MaxEntries, seq : 0..MaxEntries]]
    /\ sizeSeen \in [Writers -> 0..MaxEntries + MaxCrashes]
    /\ lives \in [Writers -> 0..MaxCrashes] /\ begun \in 0..MaxEntries
    /\ written \in 0..MaxEntries /\ acknowledged \cup dropped \subseteq 1..MaxEntries
    /\ excuses \subseteq {"two writers", "two keys", "same size", "cut short", "torn"}

AuditInit ==
    /\ active = << >> /\ rotated = [g \in Generations |-> << >>]
    /\ lock = NoLock /\ keyFile = "nobody"
    /\ pc = [w \in Writers |-> "idle"]
    /\ tail = [w \in Writers |-> [hash |-> NoEntry, seq |-> 0]]
    /\ sizeSeen = [w \in Writers |-> 0] /\ key = [w \in Writers |-> "nobody"]
    /\ lives = [w \in Writers |-> 0] /\ begun = 0
    /\ written = 0 /\ acknowledged = {} /\ dropped = {} /\ excuses = {}

-----------------------------------------------------------------------------
Moves(w, from, to) == pc[w] = from /\ pc' = [pc EXCEPT ![w] = to]
Excused(x, happened) == excuses' = IF happened THEN excuses \cup {x} ELSE excuses

(* The tail as the last line tells it; a torn line leaves what is known.   *)
TailOf(file, known) ==
    IF file = << >> THEN [hash |-> NoEntry, seq |-> 0]
    ELSE IF file[Len(file)] = TornLine THEN known
    ELSE [hash |-> file[Len(file)].hash, seq |-> file[Len(file)].seq]

(* append(), up to its first system call.                                  *)
BeginAppend(w) ==
    /\ begun < MaxEntries /\ begun' = begun + 1
    /\ Moves(w, "idle", IF key[w] = "nobody" THEN "init" ELSE "lock")
    /\ UNCHANGED <<auditFiles, tail, sizeSeen, key, lives, auditHistory>>

(* ensureInitialized(), outside of the lock: the key ...                   *)
LoadKey(w) ==
    /\ Moves(w, "init", IF keyFile = "nobody" THEN "generate" ELSE "tail")
    /\ key' = [key EXCEPT ![w] = keyFile]
    /\ UNCHANGED <<auditFiles, tail, sizeSeen, lives, begun, auditHistory>>

GenerateKey(w) ==
    /\ Moves(w, "generate", "tail")
    /\ keyFile' = w /\ key' = [key EXCEPT ![w] = w]
    /\ Excused("two keys", keyFile # "nobody")
    /\ UNCHANGED <<active, rotated, lock, tail, sizeSeen, lives, begun, written, acknowledged,
                   dropped>>

(* ... and the tail, then the size, of a file that others append to.       *)
ReadTail(w) ==
    /\ Moves(w, "tail", IF active = << >> THEN "lock" ELSE "stat")
    /\ tail' = [tail EXCEPT ![w] = TailOf(active, @)]
    /\ UNCHANGED <<auditFiles, sizeSeen, key, lives, begun, auditHistory>>

StatTail(w) ==
    /\ Moves(w, "stat", "lock")
    /\ sizeSeen' = [sizeSeen EXCEPT ![w] = Len(active)]
    /\ UNCHANGED <<auditFiles, tail, key, lives, begun, auditHistory>>

-----------------------------------------------------------------------------
(* withAuditLock()                                                         *)

TakeLock(w) ==
    /\ lock = NoLock /\ lock' = Unnamed
    /\ Moves(w, "lock", "pid")
    /\ Excused("two writers", \E v \in Writers \ {w} : pc[v] \in Entered)
    /\ UNCHANGED <<active, rotated, keyFile, tail, sizeSeen, key, lives, begun, written,
                   acknowledged, dropped>>

LockExists(w) ==
    /\ lock # NoLock /\ Moves(w, "lock", "held")
    /\ UNCHANGED <<auditFiles, tail, sizeSeen, key, lives, begun, auditHistory>>

(* Nobody is named, or a dead process: the lock is taken for stale.        *)
ReadHolder(w) ==
    /\ Moves(w, "held", IF lock \in {NoLock, Unnamed} \/ Dead(lock) THEN "reclaim" ELSE "lock")
    /\ UNCHANGED <<auditFiles, tail, sizeSeen, key, lives, begun, auditHistory>>

Reclaim(w) ==
    /\ Moves(w, "reclaim", "lock") /\ lock' = NoLock
    /\ UNCHANGED <<active, rotated, keyFile, tail, sizeSeen, key, lives, begun, auditHistory>>

(* 300 attempts have failed: append() throws.                              *)
GivesUp(w) ==
    /\ lock # NoLock /\ Moves(w, "lock", "idle")
    /\ UNCHANGED <<auditFiles, tail, sizeSeen, key, lives, begun, auditHistory>>

(* By path: whichever file is there now, or none, holds our pid.           *)
WritePid(w) ==
    /\ Moves(w, "pid", "refresh") /\ lock' = Pid(w)
    /\ UNCHANGED <<active, rotated, keyFile, tail, sizeSeen, key, lives, begun, auditHistory>>

Release(w) ==
    /\ Moves(w, "release", "idle") /\ lock' = NoLock
    /\ UNCHANGED <<active, rotated, keyFile, tail, sizeSeen, key, lives, begun, auditHistory>>

-----------------------------------------------------------------------------
(* The critical section.                                                   *)

(* refreshTailState(): a file of the size last seen is not read again.     *)
RefreshTailState(w) ==
    LET size == Len(active)
        trusted == size = sizeSeen[w]
    IN /\ Moves(w, "refresh", "rotate")
       /\ tail' = IF trusted THEN tail ELSE [tail EXCEPT ![w] = TailOf(active, @)]
       /\ sizeSeen' = [sizeSeen EXCEPT ![w] = size]
       /\ Excused("same size", trusted /\ active # << >> /\ tail[w] # TailOf(active, tail[w]))
       /\ UNCHANGED <<auditFiles, key, lives, begun, written, acknowledged, dropped>>

HashesIn(file) == {file[i].hash : i \in DOMAIN file} \ {NoEntry}

(* Each generation moves up by one where there is one; the oldest goes.    *)
Shift(files) ==
    [g \in Generations |-> IF g > 1 THEN files[g - 1] ELSE << >>]

RotateIfNeeded(w) ==
    IF Len(active) < RotateAt
      THEN /\ Moves(w, "rotate", "append")
           /\ UNCHANGED <<auditFiles, tail, sizeSeen, key, lives, begun, auditHistory>>
      ELSE /\ Moves(w, "rotate", "rename")
           /\ rotated' = Shift(rotated)
           /\ dropped' = dropped \cup HashesIn(rotated[Keep])
           /\ UNCHANGED <<active, lock, keyFile, tail, sizeSeen, key, lives, begun, written,
                          acknowledged, excuses>>

(* Mutant: the full file is emptied, not renamed.                          *)
RenameActiveEmpties(w) ==
    IF active = << >>
      THEN /\ Moves(w, "rename", "release")
           /\ UNCHANGED <<auditFiles, tail, sizeSeen, key, lives, begun, auditHistory>>
      ELSE /\ Moves(w, "rename", "append")
           /\ active' = << >> /\ dropped' = dropped \cup HashesIn(active)
           /\ tail' = [tail EXCEPT ![w].seq = 0]
           /\ sizeSeen' = [sizeSeen EXCEPT ![w] = 0]
           /\ UNCHANGED <<rotated, lock, keyFile, key, lives, begun, written, acknowledged,
                          excuses>>

(* The active file becomes generation 1; with none, append() throws.       *)
RenameActive(w) ==
    IF active = << >>
      THEN /\ Moves(w, "rename", "release")
           /\ UNCHANGED <<auditFiles, tail, sizeSeen, key, lives, begun, auditHistory>>
      ELSE /\ Moves(w, "rename", "append")
           /\ rotated' = [rotated EXCEPT ![1] = active] /\ active' = << >>
           /\ tail' = [tail EXCEPT ![w].seq = 0]
           /\ sizeSeen' = [sizeSeen EXCEPT ![w] = 0]
           /\ UNCHANGED <<lock, keyFile, key, lives, begun, auditHistory>>

(* A line is added; behind a torn line it is part of that line.            *)
Line(file, entry) ==
    IF file # << >> /\ file[Len(file)] = TornLine THEN Append(file, TornLine)
                                                  ELSE Append(file, entry)

WriteEntry(w) ==
    LET entry == [hash |-> written + 1, seq |-> tail[w].seq + 1, prev |-> tail[w].hash,
                  key |-> key[w]]
    IN /\ Moves(w, "append", "release")
       /\ active' = Line(active, entry)
       /\ tail' = [tail EXCEPT ![w] = [hash |-> entry.hash, seq |-> entry.seq]]
       /\ sizeSeen' = [sizeSeen EXCEPT ![w] = Len(active')]
       /\ written' = written + 1
       /\ acknowledged' = acknowledged \cup {entry.hash}
       /\ UNCHANGED <<rotated, lock, keyFile, key, lives, begun, dropped, excuses>>

(* The write fails, perhaps half-way; after a rotation the file may be     *)
(* missing now.                                                            *)
WriteFails(w, torn) ==
    /\ Moves(w, "append", "release")
    /\ active' = IF torn THEN Append(active, TornLine) ELSE active
    /\ Excused(IF torn THEN "torn" ELSE "cut short", torn \/ active = << >>)
    /\ UNCHANGED <<rotated, lock, keyFile, tail, sizeSeen, key, lives, begun, written,
                   acknowledged, dropped>>

Crash(w) ==
    /\ lives[w] < MaxCrashes /\ lives' = [lives EXCEPT ![w] = @ + 1]
    /\ pc' = [pc EXCEPT ![w] = "idle"]
    /\ tail' = [tail EXCEPT ![w] = [hash |-> NoEntry, seq |-> 0]]
    /\ sizeSeen' = [sizeSeen EXCEPT ![w] = 0] /\ key' = [key EXCEPT ![w] = "nobody"]
    /\ Excused("cut short", pc[w] = "append" /\ active = << >>)
    /\ UNCHANGED <<auditFiles, begun, written, acknowledged, dropped>>

AuditNext ==
    \E w \in Writers :
        \/ BeginAppend(w) \/ LoadKey(w) \/ GenerateKey(w) \/ ReadTail(w) \/ StatTail(w)
        \/ TakeLock(w) \/ LockExists(w) \/ ReadHolder(w) \/ Reclaim(w) \/ GivesUp(w)
        \/ WritePid(w) \/ Release(w)
        \/ RefreshTailState(w) \/ RotateIfNeeded(w) \/ RenameActive(w) \/ WriteEntry(w)
        \/ \E torn \in BOOLEAN : WriteFails(w, torn)
        \/ Crash(w)
AuditSpec == AuditInit /\ [][AuditNext]_auditVars

-----------------------------------------------------------------------------
(* verify() of all generations from the oldest, each fed the tail of the   *)
(* one before.                                                             *)
Generation(g) == IF g = 0 THEN active ELSE rotated[g]
Behind(g) == {h \in g + 1..Keep : rotated[h] # << >>}
Verifies ==
    \A g \in 0..Keep : \A i \in DOMAIN Generation(g) :
        LET e == Generation(g)[i] IN
        /\ e # TornLine /\ e.key = keyFile
        /\ i > 1 => e.prev = Generation(g)[i - 1].hash
        /\ i = 1 /\ Behind(g) # {} =>
             LET h == CHOOSE h \in Behind(g) : \A k \in Behind(g) : h <= k
             IN e.prev = rotated[h][Len(rotated[h])].hash

(* The chain verifies across rotations, crashes and concurrent writers     *)
(* unless a lock was reclaimed from a living writer, two processes made a  *)
(* key, a cached tail was trusted for a file that only had the size it     *)
(* had, a write was torn, or a writer ended between a rotation and its     *)
(* entry (audit-log.ts:19-29, 40-46, 255-296).                             *)
ChainVerifies == excuses = {} => Verifies

(* An entry whose append() resolved stays in one of the files until its    *)
(* generation is dropped, whatever is torn, unless two writers were inside *)
(* or its line was torn (audit-log.ts:29-46, 434-469).                     *)
AcknowledgedIsKept ==
    excuses \cap {"two writers", "torn"} = {} =>
        acknowledged \subseteq dropped \cup UNION {HashesIn(Generation(g)) : g \in 0..Keep}

(* The log is evidence: nothing in it is broken, nothing is missing.       *)
LogIsEvidence == ChainVerifies /\ AcknowledgedIsKept

(* Who reads the files sees the entries in them, each with its link: as    *)
(* long as nothing has happened that breaks the chain, the log changes as  *)
(* EvidenceLog does, at its two ends only (audit-log.ts:1-42).             *)
EntriesIn(file) == {[hash |-> file[i].hash, prev |-> file[i].prev] : i \in DOMAIN file}
Kept == UNION {EntriesIn(Generation(g)) : g \in 0..Keep}
Trail == INSTANCE EvidenceLog WITH kept <- Kept, latest <- written

ImplementsEvidence ==
    Trail!Begin /\ [][excuses' = {} => [Trail!Evolve]_<<Kept, written>>]_auditVars

(* At any time the log is evidence, and it becomes so from step to step by *)
(* additions and by forgetting, never by a change (audit-log.ts:1-46).     *)
EvidenceIsKept == []LogIsEvidence /\ ImplementsEvidence

(* "Only a dead holder gets reclaimed" (audit-log.ts:604-605): two writers *)
(* are never inside at once.                                               *)
OneWriterInside == "two writers" \notin excuses

(* "Matching size: nobody else wrote since we did" (audit-log.ts:203-208). *)
SameSizeSameTail == "same size" \notin excuses
==============================================================================
