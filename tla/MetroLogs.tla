------------------------------- MODULE MetroLogs ------------------------------
(***************************************************************************)
(* MetroLogsStore of src/core/metro-logs/buffer.ts: the ring of Metro's    *)
(* output of one worktree, and a reader that polls it with a cursor, as    *)
(* the metro-logs module and agents do.  Lines have the numbers the store  *)
(* gives them; of their text only whether the reader's filter finds them   *)
(* matters.                                                                *)
(***************************************************************************)
EXTENDS Naturals, Integers, Sequences, SequencesExt, FiniteSets

CONSTANTS
    Capacity,   \* ring capacity
    Limit,      \* filter.limit of the reader, clamped
    MaxLines,   \* bound on lines
    MaxEpoch    \* bound on clears and restarts

ASSUME RingAssumption == Capacity \in Nat \ {0} /\ Limit \in Nat \ {0}
ASSUME LogBounds == MaxLines \in Nat /\ MaxEpoch \in Nat \ {0}

VARIABLES
    ring,        \* WorktreeRing.entries: the sequence numbers held
    matches,     \* the lines the reader's filter finds
    next,        \* nextSequence
    epoch,       \* bufferEpoch
    evictedCount,     \* evictedCount
    metro,       \* metroStatus
    cursor,      \* what the reader hands back: its epoch and sequence
    read         \* history: what the reader was given since its cursor's
                 \* epoch began for it, from which line on, and whether a
                 \* page was too small for what there was

logVars == <<ring, matches, next, epoch, evictedCount, metro, cursor, read>>

NoCursor == [epoch |-> 0, sequence |-> 0]
NothingRead == [given |-> {}, from |-> 1, over |-> FALSE]

LogTypeOK ==
    /\ next \in 1..(MaxLines + 1) /\ epoch \in 1..MaxEpoch
    /\ ring \in Seq(1..MaxLines) /\ Len(ring) <= Capacity
    /\ matches \subseteq 1..MaxLines
    /\ evictedCount \in 0..MaxLines
    /\ metro \in {"idle", "running", "stopped", "error"}
    /\ cursor \in [epoch : 0..MaxEpoch, sequence : 0..MaxLines]
    /\ read \in [given : SUBSET (1..MaxLines), from : 1..(MaxLines + 1), over : BOOLEAN]

LogInit ==
    /\ ring = <<>> /\ matches = {} /\ next = 1
    /\ epoch = 1 /\ evictedCount = 0 /\ metro = "idle"
    /\ cursor = NoCursor /\ read = NothingRead

-----------------------------------------------------------------------------
(* append(): the oldest line goes when the ring is over its capacity.      *)
AppendLine(found) ==
    /\ next <= MaxLines
    /\ next' = next + 1
    /\ matches' = IF found THEN matches \cup {next} ELSE matches
    /\ IF Len(ring) = Capacity
         THEN ring' = Append(Tail(ring), next) /\ evictedCount' = evictedCount + 1
         ELSE ring' = Append(ring, next) /\ UNCHANGED evictedCount
    /\ UNCHANGED <<epoch, metro, cursor, read>>

(* clear(): the numbering goes on.                                         *)
ClearLog ==
    /\ epoch < MaxEpoch
    /\ epoch' = epoch + 1 /\ ring' = <<>>
    /\ UNCHANGED <<matches, next, evictedCount, metro, cursor, read>>

(* setMetroStatus(): a Metro that comes back begins a new epoch, the first *)
(* one does not.                                                           *)
MetroStatus(s) ==
    /\ metro' = s
    /\ IF metro \in {"stopped", "error"} /\ s = "running"
         THEN /\ epoch < MaxEpoch
              /\ epoch' = epoch + 1 /\ ring' = <<>>
         ELSE UNCHANGED <<epoch, ring>>
    /\ UNCHANGED <<matches, next, evictedCount, cursor, read>>

(* list(): the newest Limit of the lines behind the cursor that match; the *)
(* cursor moves to the last one returned, or to the end of the ring when   *)
(* none is.  A cursor of another epoch is ignored and the reader told so,  *)
(* who starts anew.                                                        *)
Pool == {n \in Range(ring) \cap matches : cursor.epoch = epoch => n > cursor.sequence}
Newest(S) == {n \in S : Cardinality({m \in S : n <= m}) <= Limit}
EndOf(S) == IF S = {} THEN 0 ELSE Max(S)
FirstOf(S) == IF S = {} THEN EndOf(Range(ring)) + 1 ELSE Min(S)

Poll ==
    LET page == Newest(Pool)
        old == IF cursor.epoch = epoch THEN read
               ELSE [NothingRead EXCEPT !.from = FirstOf(page)]
    IN /\ cursor' = [epoch |-> epoch, sequence |-> EndOf(IF page = {} THEN Range(ring) ELSE page)]
       /\ read' = [old EXCEPT !.given = @ \cup page,
                             !.over = @ \/ (cursor.epoch = epoch /\ page # Pool)]
       /\ UNCHANGED <<ring, matches, next, epoch, evictedCount, metro>>

LogNext ==
    \/ \E found \in BOOLEAN : AppendLine(found)
    \/ ClearLog
    \/ \E s \in {"running", "stopped", "error"} : MetroStatus(s)
    \/ Poll
LogSpec == LogInit /\ [][LogNext]_logVars

-----------------------------------------------------------------------------
(* A line the cursor has passed was given to the reader, unless a page was *)
(* smaller than what it had to hold: nothing that the ring still has gets  *)
(* lost between polls, across clears and restarts (buffer.ts:186-218).     *)
PassedWasGiven ==
    cursor.epoch = epoch /\ ~read.over =>
        \A n \in Range(ring) \cap matches :
            read.from <= n /\ n <= cursor.sequence => n \in read.given

(* The documented promise: a reader who pages forward does not lose middle *)
(* matches, however small its pages are (buffer.ts:209-213, 240-244).      *)
NoMiddleLoss ==
    cursor.epoch = epoch =>
        \A n \in Range(ring) \cap matches :
            read.from <= n /\ n <= cursor.sequence => n \in read.given
==============================================================================
