------------------------------ MODULE EvidenceLog ------------------------------
(***************************************************************************)
(* What the audit log promises to whoever reads it later: entries, each    *)
(* linked to the one before, that are added at one end and forgotten at    *)
(* the other, and never altered in between.                                *)
(*                                                                         *)
(* It is the abstract specification of AuditLog.  It says nothing of       *)
(* writers, locks, files and rotations: only that a log is one unbroken    *)
(* chain up to the entry that was recorded last.                           *)
(***************************************************************************)
EXTENDS Naturals

VARIABLES
    kept,     \* the entries that can be read, by their numbers and links
    latest    \* the number of the last entry, 0 before the first

evidenceVars == <<kept, latest>>

Begin == kept = {} /\ latest = 0

(* An entry is linked to the last one, whoever wrote that.                 *)
Record ==
    /\ latest' = latest + 1
    /\ kept' = kept \cup {[hash |-> latest + 1, prev |-> latest]}

(* The oldest entries are forgotten, never the last one.                   *)
Forget ==
    /\ \E n \in 0..latest : n < latest /\ kept' = {e \in kept : e.hash > n}
    /\ UNCHANGED latest

Evolve == Record \/ Forget

Evidence == Begin /\ [][Evolve]_evidenceVars

(* The entries are one chain without a gap: from any of them on to the     *)
(* last, each is there and linked to the one before.                       *)
Unbroken ==
    \A e \in kept : /\ e.hash <= latest
                    /\ \A n \in e.hash..latest : [hash |-> n, prev |-> n - 1] \in kept
===============================================================================
