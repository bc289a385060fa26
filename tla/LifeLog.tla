------------------------------- MODULE LifeLog -------------------------------
(***************************************************************************)
(* What the audit log promises about the rows of a table: in one atomic    *)
(* step a row comes to life or goes and the log says so; nothing else      *)
(* makes a row come or go, and the log only grows.  Of an update only that *)
(* it is one is kept: this is about which rows exist.                      *)
(*                                                                         *)
(* This is the abstract specification of audit.Service together with the   *)
(* stores that call it: every LogCreate and LogDelete runs in the          *)
(* transaction of the INSERT or DELETE it reports.                         *)
(***************************************************************************)
EXTENDS Naturals, SequencesExt

CONSTANTS
    Ids,      \* the ids of the rows
    Initially \* the rows that are there before the log starts

VARIABLES
    present, \* the rows that exist
    lives    \* the log: <<action, id>>, oldest first

vars == <<present, lives>>

Event == {"created", "updated", "deleted"} \X Ids

Init == present = Initially /\ lives = <<>>

Create(id) ==
    /\ id \notin present
    /\ present' = present \cup {id}
    /\ lives' = Append(lives, <<"created", id>>)

(* The log gets entries of one kind behind those it has.                   *)
New == Len(lives) + 1..Len(lives')

Report(action) ==
    /\ lives' \in Seq(Event) /\ IsPrefix(lives, lives')
    /\ \A i \in New : lives'[i][1] = action

(* A deletion reports every row it was asked to remove once, in any order; *)
(* some of them may have been removed by somebody else meanwhile.          *)
Erase(ids) ==
    /\ present' = present \ ids
    /\ Report("deleted")
    /\ [i \in New |-> lives'[i][2]] \in Bijection(New, ids)

(* The entries of an update, one for each field.                           *)
Describe == UNCHANGED present /\ Report("updated")

Next == \/ \E id \in Ids : Create(id)
        \/ \E ids \in SUBSET Ids : Erase(ids)
        \/ Describe

Spec == Init /\ [][Next]_vars

-----------------------------------------------------------------------------
TypeOK == present \subseteq Ids /\ lives \in Seq(Event)

Mentions(id) == {i \in DOMAIN lives : lives[i][1] # "updated" /\ lives[i][2] = id}

(* The newest entry about the life of a row says whether the row exists; a *)
(* row without an entry exists exactly if it did before the log started.   *)
LogTellsLife ==
    \A id \in Ids :
        IF Mentions(id) = {} THEN id \in present <=> id \in Initially
        ELSE \A i \in Mentions(id) :
               (\A j \in Mentions(id) : j <= i) =>
                   (id \in present <=> lives[i][1] = "created")
=============================================================================
