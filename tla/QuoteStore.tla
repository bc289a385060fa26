----------------------------- MODULE QuoteStore -----------------------------
(***************************************************************************)
(* The quotes table and its audit log: the mutations createQuote,          *)
(* updateQuote and deleteQuote (internal/graphql/gqlresolvers/quote.go),   *)
(* quote.Store and the audit service, run by concurrent requests.          *)
(*                                                                         *)
(* Update and Delete read the rows they are about to change before, and    *)
(* outside of, the transaction that changes them; what they read goes to   *)
(* the log.  A write locks its row until the transaction ends.             *)
(***************************************************************************)
EXTENDS Naturals, Sequences, FiniteSets

CONSTANTS
    Proc,        \* the requests that may be in flight at once
    Ids,         \* the ids of quotes
    Texts,       \* what a field of a quote may say
    Initially,   \* the table before the first request
    MaxRequests  \* bound: requests in one behaviour

Fields == {"author", "content"}
Quote  == [Fields -> Texts]
Absent == [absent |-> TRUE]

ASSUME QuotesAssumption ==
    /\ Initially \in [Ids -> Quote \cup {Absent}]
    /\ MaxRequests \in Nat

VARIABLES
    quotes,  \* the table: a quote or Absent for every id
    audit,   \* the committed rows of auditlogs, oldest first
    pc,      \* where each request is
    ids,     \* the rows it addresses, and those of them it still has to write
    input,   \* the values it was given
    current, \* the row it read (UpdateQuote)
    tx,      \* the writes and log entries of its open transaction
    served   \* bound

vars == <<quotes, audit, pc, ids, input, current, tx, served>>

Entry == [action : {"created", "updated", "deleted"}, id : Ids,
          field : Fields \cup {""}, old : Texts \cup {""}, new : Texts \cup {""}]

Log(action, id) == [action |-> action, id |-> id, field |-> "", old |-> "", new |-> ""]

NoTx == [write |-> <<>>, log |-> <<>>]
NoQuote == Absent

-----------------------------------------------------------------------------
(* mapDiffAction: the name that a change of a field has in the log.        *)
MapDiffAction(type) ==
    CASE type = "create" -> "created"
      [] type = "update" -> "updated"
      [] type = "delete" -> "deleted"

FieldEntry(id, from, to, f) ==
    [action |-> MapDiffAction("update"), id |-> id, field |-> f, old |-> from[f], new |-> to[f]]

(* LogUpdate: an entry for every field in which two quotes differ.         *)
Difference(id, from, to, f) ==
    IF from[f] = to[f] THEN <<>> ELSE <<FieldEntry(id, from, to, f)>>

(* Mutant: from and to are swapped.                                        *)
LogUpdateSwapped(id, from, to) ==
    Difference(id, to, from, "author") \o Difference(id, to, from, "content")

LogUpdate(id, from, to) ==
    Difference(id, from, to, "author") \o Difference(id, from, to, "content")

(* A statement that writes a row waits until no other open transaction has *)
(* written it.                                                             *)
Unlocked(p, id) == \A q \in Proc \ {p} : id \notin DOMAIN tx[q].write

(* tx.write is a function from the ids written to the rows they will be.   *)
Put(write, id, row) == [i \in DOMAIN write \cup {id} |-> IF i = id THEN row ELSE write[i]]

-----------------------------------------------------------------------------
Init ==
    /\ quotes = Initially
    /\ audit = <<>>
    /\ pc = [p \in Proc |-> "idle"]
    /\ ids = [p \in Proc |-> {}]
    /\ input = [p \in Proc |-> NoQuote]
    /\ current = [p \in Proc |-> NoQuote]
    /\ tx = [p \in Proc |-> NoTx]
    /\ served = 0

Return(p) ==
    /\ pc' = [pc EXCEPT ![p] = "idle"]
    /\ ids' = [ids EXCEPT ![p] = {}]
    /\ input' = [input EXCEPT ![p] = NoQuote]
    /\ current' = [current EXCEPT ![p] = NoQuote]
    /\ tx' = [tx EXCEPT ![p] = NoTx]

Receive(p) ==
    /\ pc[p] = "idle" /\ served < MaxRequests
    /\ served' = served + 1
    /\ \/ \E id \in Ids, q \in Quote, op \in {"create", "find"} :
            /\ pc' = [pc EXCEPT ![p] = op]
            /\ ids' = [ids EXCEPT ![p] = {id}]
            /\ input' = [input EXCEPT ![p] = q]
       \/ \E some \in SUBSET Ids :
            /\ pc' = [pc EXCEPT ![p] = "getByID"]
            /\ ids' = [ids EXCEPT ![p] = some]
            /\ UNCHANGED input
    /\ UNCHANGED <<quotes, audit, current, tx>>

(* Create: INSERT and LogCreate.  The id is the one of the input or the    *)
(* next free one; a duplicate id is an error.                              *)
Insert(p) ==
    /\ pc[p] = "create"
    /\ \E id \in ids[p] :
         /\ quotes[id] = Absent /\ Unlocked(p, id)
         /\ tx' = [tx EXCEPT ![p] = [write |-> Put(<<>>, id, input[p]),
                                     log |-> <<Log("created", id)>>]]
    /\ pc' = [pc EXCEPT ![p] = "commit"]
    /\ UNCHANGED <<quotes, audit, ids, input, current, served>>

(* Update reads the committed row, or returns ErrNotFound.                 *)
Find(p) ==
    /\ pc[p] = "find"
    /\ \E id \in ids[p] :
         IF quotes[id] = Absent THEN Return(p)
         ELSE /\ current' = [current EXCEPT ![p] = quotes[id]]
              /\ pc' = [pc EXCEPT ![p] = "update"]
              /\ UNCHANGED <<ids, input, tx>>
    /\ UNCHANGED <<quotes, audit, served>>

(* UPDATE ... WHERE id = ? does not create the row if it is gone.          *)
Update(p) ==
    /\ pc[p] = "update"
    /\ \E id \in ids[p] :
         /\ Unlocked(p, id)
         /\ tx' = [tx EXCEPT ![p] =
              [write |-> Put(<<>>, id, IF quotes[id] = Absent THEN Absent ELSE input[p]),
               log |-> LogUpdate(id, current[p], input[p])]]
    /\ pc' = [pc EXCEPT ![p] = "commit"]
    /\ UNCHANGED <<quotes, audit, ids, input, current, served>>

(* Delete: the rows that exist, read outside the transaction that the      *)
(* resolver has begun.                                                     *)
GetByID(p) ==
    /\ pc[p] = "getByID"
    /\ LET sources == {id \in ids[p] : quotes[id] # Absent}
       IN IF sources = {} THEN Return(p)
          ELSE /\ ids' = [ids EXCEPT ![p] = sources]
               /\ pc' = [pc EXCEPT ![p] = "delete"]
               /\ UNCHANGED <<input, current, tx>>
    /\ UNCHANGED <<quotes, audit, served>>

(* Mutant: the entry is written to a transaction of its own, which nobody  *)
(* commits.                                                                *)
DeleteEntityUnlogged(t, id) == [t EXCEPT !.write = Put(@, id, Absent)]

DeleteEntity(t, id) ==
    [t EXCEPT !.write = Put(@, id, Absent), !.log = Append(@, Log("deleted", id))]

Delete(p) ==
    /\ pc[p] = "delete"
    /\ \E id \in ids[p] :
         /\ Unlocked(p, id)
         /\ tx' = [tx EXCEPT ![p] = DeleteEntity(@, id)]
         /\ ids' = [ids EXCEPT ![p] = @ \ {id}]
         /\ pc' = [pc EXCEPT ![p] = IF ids[p] = {id} THEN "commit" ELSE "delete"]
    /\ UNCHANGED <<quotes, audit, input, current, served>>

Commit(p) ==
    /\ pc[p] = "commit"
    /\ quotes' = [id \in Ids |-> IF id \in DOMAIN tx[p].write THEN tx[p].write[id] ELSE quotes[id]]
    /\ audit' = audit \o tx[p].log
    /\ Return(p)
    /\ UNCHANGED served

(* A statement fails, for an error of the database, a lock it does not get *)
(* or a duplicate id: ROLLBACK.  A restart of the server does the same to  *)
(* every request in flight.  One return of Create leaves its transaction   *)
(* open: the error of ToSql, which a builder that has a table and values,  *)
(* as this one always has, does not return.                                *)
Fail(p) ==
    /\ pc[p] # "idle"
    /\ Return(p)
    /\ UNCHANGED <<quotes, audit, served>>

Step(p) == \/ Insert(p) \/ Find(p) \/ Update(p) \/ GetByID(p)
           \/ Delete(p) \/ Commit(p) \/ Fail(p)

Next == \E p \in Proc : Receive(p) \/ Step(p)

Spec == Init /\ [][Next]_vars

-----------------------------------------------------------------------------
TypeOK ==
    /\ quotes \in [Ids -> Quote \cup {Absent}]
    /\ audit \in Seq(Entry)
    /\ pc \in [Proc -> {"idle", "create", "find", "update", "getByID", "delete", "commit"}]
    /\ ids \in [Proc -> SUBSET Ids]
    /\ input \in [Proc -> Quote \cup {NoQuote}]
    /\ current \in [Proc -> Quote \cup {NoQuote}]
    /\ tx \in [Proc -> [write : UNION {[some -> Quote \cup {Absent}] : some \in SUBSET Ids},
                        log : Seq(Entry)]]
    /\ served \in 0..MaxRequests

(* A row comes or goes in the same step in which the log says so, and no   *)
(* update brings back a row that was deleted meanwhile, whatever fails and *)
(* whoever else writes: the store implements LifeLog.                      *)
Present == {id \in Ids : quotes[id] # Absent}
Lives == [i \in DOMAIN audit |-> <<audit[i].action, audit[i].id>>]

Life == INSTANCE LifeLog WITH
    Initially <- {id \in Ids : Initially[id] # Absent},
    present <- Present, lives <- Lives

ImplementsLifeLog == Life!Spec

(* The log never says a field was set to a value that the row did not get: *)
(* the new value of each entry is what the row holds once the entry is     *)
(* committed, unless the row is gone.                                      *)
EntriesSayWhatWasWritten ==
    [][\A i \in (Len(audit) + 1)..Len(audit') :
          LET e == audit'[i]
          IN e.action = "updated" =>
               \/ quotes'[e.id] = Absent
               \/ quotes'[e.id][e.field] = e.new]_vars

(* audit/service.go: "LogUpdate creates a log entry for a changed entity." *)
(* Whenever the table changes, the log grows.                              *)
ChangesAreLogged == [][quotes' # quotes => Len(audit') > Len(audit)]_vars
=============================================================================
