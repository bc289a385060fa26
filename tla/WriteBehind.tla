----------------------------- MODULE WriteBehind -----------------------------
(***************************************************************************)
(* What a writer with a bounded latency promises its caller: the file      *)
(* holds a first part of the bytes that were accepted and never loses one, *)
(* and while the writer is open every accepted byte reaches the file       *)
(* without any further call.  Once it is closed, or could not write, it may*)
(* still write what it has, but no longer has to.                          *)
(***************************************************************************)
EXTENDS Naturals

CONSTANT MaxBytes \* bound: bytes accepted in one behaviour

VARIABLES
    accepted, \* bytes handed to Write
    durable,  \* bytes in the file: the first ones accepted
    open      \* may the writer still be relied on?

vars == <<accepted, durable, open>>

Init == accepted = 0 /\ durable = 0 /\ open = TRUE

Accept == /\ accepted' \in (accepted + 1)..MaxBytes
          /\ durable' \in durable..accepted'
          /\ open' \in {open, FALSE}

(* An open writer leaves nothing behind.                                   *)
Persist == /\ durable' \in (durable + 1)..accepted
           /\ open => durable' = accepted
           /\ UNCHANGED <<accepted, open>>

(* On purpose, or by a write that got no further than this.                *)
Close == /\ open /\ open' = FALSE
         /\ durable' \in durable..accepted
         /\ UNCHANGED accepted

Next == Accept \/ Persist \/ Close

Spec == Init /\ [][Next]_vars /\ WF_vars(open /\ Persist)
=============================================================================
