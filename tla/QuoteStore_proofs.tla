--------------------------- MODULE QuoteStore_proofs ---------------------------
(***************************************************************************)
(* What is proved of the quotes and their log, for any number of requests  *)
(* at once, any table and any texts.                                       *)
(***************************************************************************)
EXTENDS QuoteStore, SequenceTheorems, FiniteSetTheorems, TLAPS

(* What a handler has in hand at its places.                               *)
PlaceFits(p) ==
    /\ pc[p] \in {"create", "find", "update"} => input[p] \in Quote
    /\ pc[p] = "update" => current[p] \in Quote

(* The entry of an update that is not committed yet says what the row of   *)
(* its transaction holds, unless the row was gone.                         *)
Told(write, e) ==
    e.action = "updated" =>
        /\ e.id \in DOMAIN write
        /\ write[e.id] = Absent \/ write[e.id][e.field] = e.new
Honest(t) == \A i \in DOMAIN t.log : Told(t.write, t.log[i])

IInv == TypeOK /\ \A p \in Proc : PlaceFits(p) /\ Honest(tx[p])

Rows == UNION {[some -> Quote \cup {Absent}] : some \in SUBSET Ids}
Tx   == [write : Rows, log : Seq(Entry)]

-----------------------------------------------------------------------------
LEMMA NoTxTyped == NoTx \in Tx /\ Honest(NoTx)
<1>1. <<>> \in [{} -> Quote \cup {Absent}] /\ <<>> \in Seq(Entry) /\ DOMAIN <<>> = {}
  OBVIOUS
<1>2. <<>> \in Rows
  BY <1>1 DEF Rows
<1> QED
  BY <1>1, <1>2 DEF NoTx, Tx, Honest

(* Writing a row keeps the others.                                         *)
LEMMA PutTyped ==
  ASSUME NEW w \in Rows, NEW id \in Ids, NEW row \in Quote \cup {Absent}
  PROVE  /\ Put(w, id, row) \in Rows
         /\ DOMAIN Put(w, id, row) = DOMAIN w \cup {id}
         /\ Put(w, id, row)[id] = row
         /\ \A i \in DOMAIN w : i # id => Put(w, id, row)[i] = w[i]
<1>1. PICK some \in SUBSET Ids : w \in [some -> Quote \cup {Absent}]
  BY DEF Rows
<1>2. Put(w, id, row) \in [some \cup {id} -> Quote \cup {Absent}]
  BY <1>1 DEF Put
<1>3. some \cup {id} \in SUBSET Ids
  OBVIOUS
<1> QED
  BY <1>1, <1>2, <1>3 DEF Rows, Put

LEMMA EmptyRows == <<>> \in Rows
<1>1. <<>> \in [{} -> Quote \cup {Absent}]
  OBVIOUS
<1> QED
  BY <1>1 DEF Rows

LEMMA DeleteEntityIs ==
  ASSUME NEW t \in Tx, NEW id \in Ids
  PROVE  DeleteEntity(t, id) = [write |-> Put(t.write, id, Absent),
                                log |-> Append(t.log, Log("deleted", id))]
<1> DEFINE w == Put(t.write, id, Absent)
           log == Append(t.log, Log("deleted", id))
<1>1. DeleteEntity(t, id) = [[t EXCEPT !.write = w] EXCEPT !.log = log]
  BY DEF DeleteEntity, Tx
<1> HIDE DEF w, log
<1>2. [t EXCEPT !.write = w] = [write |-> w, log |-> t.log]
  BY DEF Tx
<1>3. [[write |-> w, log |-> t.log] EXCEPT !.log = log] = [write |-> w, log |-> log]
  OBVIOUS
<1> QED
  BY <1>1, <1>2, <1>3 DEF w, log

(* LogUpdate writes entries of the row whose new values are those it got.  *)
LEMMA LogUpdateTells ==
  ASSUME NEW id \in Ids, NEW from \in Quote, NEW to \in Quote
  PROVE  /\ LogUpdate(id, from, to) \in Seq(Entry)
         /\ \A i \in DOMAIN LogUpdate(id, from, to) :
              LET e == LogUpdate(id, from, to)[i]
              IN /\ e.action = "updated" /\ e.id = id
                 /\ e.field \in Fields /\ e.new = to[e.field]
<1>1. ASSUME NEW f \in Fields
      PROVE  /\ FieldEntry(id, from, to, f) \in Entry
             /\ FieldEntry(id, from, to, f).action = "updated"
             /\ FieldEntry(id, from, to, f).id = id
             /\ FieldEntry(id, from, to, f).field = f
             /\ FieldEntry(id, from, to, f).new = to[f]
  <2>1. from[f] \in Texts /\ to[f] \in Texts /\ MapDiffAction("update") = "updated"
    BY DEF Quote, MapDiffAction
  <2> QED
    BY <2>1 DEF FieldEntry, Entry
<1> DEFINE Tells(s) == /\ s \in Seq(Entry)
                       /\ \A i \in DOMAIN s : /\ s[i].action = "updated" /\ s[i].id = id
                                              /\ s[i].field \in Fields
                                              /\ s[i].new = to[s[i].field]
<1>2. ASSUME NEW f \in Fields PROVE Tells(Difference(id, from, to, f))
  <2>1. CASE from[f] = to[f]
    BY <2>1 DEF Difference
  <2>2. CASE from[f] # to[f]
    <3>1. Difference(id, from, to, f) = <<FieldEntry(id, from, to, f)>>
      BY <2>2 DEF Difference
    <3> DEFINE e == FieldEntry(id, from, to, f)
    <3>2. e \in Entry /\ e.action = "updated" /\ e.id = id /\ e.field = f /\ e.new = to[f]
      BY <1>1
    <3> HIDE DEF e
    <3>3. Tells(<<e>>)
      BY <3>2
    <3> QED
      BY <3>1, <3>3 DEF e
  <2> QED
    BY <2>1, <2>2
<1>3. ASSUME NEW s, NEW t, Tells(s), Tells(t) PROVE Tells(s \o t)
  <2>1. s \o t \in Seq(Entry) /\ DOMAIN (s \o t) = 1..(Len(s) + Len(t))
    BY <1>3
  <2>2. Len(s) \in Nat /\ Len(t) \in Nat /\ DOMAIN s = 1..Len(s) /\ DOMAIN t = 1..Len(t)
    BY <1>3
  <2>3. ASSUME NEW i \in DOMAIN (s \o t)
        PROVE  (i \in DOMAIN s /\ (s \o t)[i] = s[i])
               \/ (i - Len(s) \in DOMAIN t /\ (s \o t)[i] = t[i - Len(s)])
    BY <1>3, <2>1, <2>2, <2>3
  <2> QED
    BY <1>3, <2>1, <2>3
<1>4. Tells(Difference(id, from, to, "author")) /\ Tells(Difference(id, from, to, "content"))
  BY <1>2 DEF Fields
<1> HIDE DEF Tells
<1>5. Tells(LogUpdate(id, from, to))
  BY <1>3, <1>4 DEF LogUpdate
<1> QED
  BY <1>5 DEF Tells

-----------------------------------------------------------------------------
LEMMA InitInv == Init => IInv
<1> SUFFICES ASSUME Init PROVE IInv
  OBVIOUS
<1>1. TypeOK
  BY QuotesAssumption, NoTxTyped DEF Init, TypeOK, Tx, Rows, NoQuote
<1>2. \A p \in Proc : PlaceFits(p) /\ Honest(tx[p])
  BY NoTxTyped DEF Init, PlaceFits
<1> QED
  BY <1>1, <1>2 DEF IInv

(* What the step of one request leaves of the others.                      *)
LEMMA StepOfOne ==
  ASSUME IInv, NEW p \in Proc, TypeOK', PlaceFits(p)', Honest(tx[p])',
         \A q \in Proc \ {p} : /\ pc'[q] = pc[q] /\ input'[q] = input[q]
                               /\ current'[q] = current[q] /\ tx'[q] = tx[q]
  PROVE  IInv'
BY DEF IInv, PlaceFits, Honest

LEMMA ReturnInv ==
  ASSUME IInv, NEW p \in Proc, Return(p), UNCHANGED served,
         quotes' \in [Ids -> Quote \cup {Absent}], audit' \in Seq(Entry)
  PROVE  IInv'
<1>1. TypeOK
  BY DEF IInv
<1>2. TypeOK'
  <2>1. tx' \in [Proc -> Tx]
    BY <1>1, NoTxTyped DEF Return, TypeOK, Tx, Rows
  <2> QED
    BY <1>1, <2>1 DEF Return, TypeOK, Tx, Rows, NoQuote
<1>3. pc'[p] = "idle" /\ tx'[p] = NoTx
  BY <1>1 DEF Return, TypeOK
<1>4. PlaceFits(p)' /\ Honest(tx[p])'
  BY <1>3, NoTxTyped DEF PlaceFits
<1> QED
  BY <1>1, <1>2, <1>4, StepOfOne DEF Return, TypeOK

(* A step that writes to the transaction of p, from which the place of p   *)
(* is "delete" or "commit".                                                *)
LEMMA WriteInv ==
  ASSUME IInv, NEW p \in Proc, NEW t \in Tx, Honest(t),
         NEW place \in {"delete", "commit"}, NEW rest \in SUBSET Ids,
         tx' = [tx EXCEPT ![p] = t], pc' = [pc EXCEPT ![p] = place],
         ids' = [ids EXCEPT ![p] = rest],
         UNCHANGED <<quotes, audit, input, current, served>>
  PROVE  IInv'
<1>1. TypeOK
  BY DEF IInv
<1>2. TypeOK'
  <2>1. tx' \in [Proc -> Tx]
    BY <1>1 DEF TypeOK, Tx, Rows
  <2> QED
    BY <1>1, <2>1 DEF TypeOK, Tx, Rows
<1>3. pc'[p] = place /\ tx'[p] = t
  BY <1>1 DEF TypeOK
<1>4. PlaceFits(p)' /\ Honest(tx[p])'
  BY <1>3 DEF PlaceFits
<1> QED
  BY <1>1, <1>2, <1>4, StepOfOne DEF TypeOK

LEMMA NextInv == IInv /\ [Next]_vars => IInv'
<1> SUFFICES ASSUME IInv, [Next]_vars PROVE IInv'
  OBVIOUS
<1> USE DEF NoQuote
<1>1. /\ TypeOK /\ \A q \in Proc : tx[q] \in Tx
      /\ tx \in [Proc -> Tx] /\ \A q \in Proc : ids[q] \in SUBSET Ids
  BY DEF IInv, TypeOK, Tx, Rows
<1>2. ASSUME NEW p \in Proc, Receive(p) PROVE IInv'
  <2>1. TypeOK'
    <3>1. served' \in 0..MaxRequests
      BY <1>1, <1>2, QuotesAssumption DEF Receive, TypeOK
    <3>2. /\ pc' \in [Proc -> {"idle", "create", "find", "update", "getByID", "delete", "commit"}]
          /\ ids' \in [Proc -> SUBSET Ids]
          /\ input' \in [Proc -> Quote \cup {NoQuote}]
      <4>1. CASE \E id \in Ids, q \in Quote, op \in {"create", "find"} :
                   /\ pc' = [pc EXCEPT ![p] = op]
                   /\ ids' = [ids EXCEPT ![p] = {id}]
                   /\ input' = [input EXCEPT ![p] = q]
        <5>1. PICK id \in Ids, q \in Quote, op \in {"create", "find"} :
                   /\ pc' = [pc EXCEPT ![p] = op]
                   /\ ids' = [ids EXCEPT ![p] = {id}]
                   /\ input' = [input EXCEPT ![p] = q]
          BY <4>1
        <5>2. {id} \in SUBSET Ids
          OBVIOUS
        <5> QED
          BY <1>1, <5>1, <5>2 DEF TypeOK
      <4>2. CASE \E some \in SUBSET Ids :
                   /\ pc' = [pc EXCEPT ![p] = "getByID"]
                   /\ ids' = [ids EXCEPT ![p] = some]
                   /\ UNCHANGED input
        BY <1>1, <4>2 DEF TypeOK
      <4> QED
        BY <1>2, <4>1, <4>2 DEF Receive
    <3> QED
      BY <1>1, <1>2, <3>1, <3>2 DEF Receive, TypeOK
  <2>2. PlaceFits(p)' /\ Honest(tx[p])'
    <3>1. PlaceFits(p)'
      BY <1>1, <1>2 DEF Receive, TypeOK, PlaceFits
    <3> QED
      BY <3>1, <1>2 DEF Receive, IInv
  <2> QED
    BY <1>1, <1>2, <2>1, <2>2, StepOfOne DEF Receive, TypeOK
<1>3. ASSUME NEW p \in Proc, Insert(p) PROVE IInv'
  <2>1. PICK id \in ids[p] :
          tx' = [tx EXCEPT ![p] = [write |-> Put(<<>>, id, input[p]), log |-> <<Log("created", id)>>]]
    BY <1>3 DEF Insert
  <2> DEFINE t == [write |-> Put(<<>>, id, input[p]), log |-> <<Log("created", id)>>]
  <2>2. id \in Ids /\ input[p] \in Quote
    BY <1>1, <1>3 DEF Insert, IInv, PlaceFits
  <2>3. Log("created", id) \in Entry /\ Log("created", id).action = "created"
    BY <2>2 DEF Log, Entry
  <2>4. t \in Tx
    <3>1. Put(<<>>, id, input[p]) \in Rows
      BY <2>2, EmptyRows, PutTyped
    <3>2. <<Log("created", id)>> \in Seq(Entry)
      BY <2>3
    <3> QED
      BY <3>1, <3>2 DEF Tx
  <2>5. Honest(t)
    BY <2>3 DEF Honest, Told
  <2>6. ids' = [ids EXCEPT ![p] = ids[p]]
    BY <1>1, <1>3 DEF Insert, TypeOK
  <2> HIDE DEF t
  <2>7. tx' = [tx EXCEPT ![p] = t]
    BY <2>1 DEF t
  <2> QED
    BY <1>1, <1>3, <2>4, <2>5, <2>6, <2>7, WriteInv DEF Insert
<1>4. ASSUME NEW p \in Proc, Find(p) PROVE IInv'
  <2>1. CASE Return(p)
    BY <1>1, <1>4, <2>1, ReturnInv DEF Find, TypeOK
  <2>2. CASE ~ Return(p)
    <3>1. PICK id \in ids[p] : /\ quotes[id] # Absent
                               /\ current' = [current EXCEPT ![p] = quotes[id]]
                               /\ pc' = [pc EXCEPT ![p] = "update"]
                               /\ UNCHANGED <<ids, input, tx, quotes, audit, served>>
      BY <1>4, <2>2 DEF Find
    <3>2. id \in Ids /\ quotes[id] \in Quote /\ input[p] \in Quote
      BY <1>1, <1>4, <3>1 DEF Find, IInv, PlaceFits, TypeOK
    <3>3. TypeOK'
      BY <1>1, <3>1, <3>2 DEF TypeOK
    <3>4. pc'[p] = "update" /\ current'[p] \in Quote /\ input'[p] \in Quote
      BY <1>1, <3>1, <3>2 DEF TypeOK
    <3>5. PlaceFits(p)' /\ Honest(tx[p])'
      BY <3>1, <3>4 DEF PlaceFits, IInv
    <3> QED
      BY <1>1, <3>1, <3>3, <3>5, StepOfOne DEF TypeOK
  <2> QED
    BY <2>1, <2>2
<1>5. ASSUME NEW p \in Proc, Update(p) PROVE IInv'
  <2>1. PICK id \in ids[p] :
          tx' = [tx EXCEPT ![p] =
            [write |-> Put(<<>>, id, IF quotes[id] = Absent THEN Absent ELSE input[p]),
             log |-> LogUpdate(id, current[p], input[p])]]
    BY <1>5 DEF Update
  <2> DEFINE log == LogUpdate(id, current[p], input[p])
             row == IF quotes[id] = Absent THEN Absent ELSE input[p]
             t   == [write |-> Put(<<>>, id, row), log |-> log]
  <2>2. id \in Ids /\ input[p] \in Quote /\ current[p] \in Quote
    BY <1>1, <1>5 DEF Update, IInv, PlaceFits
  <2>3. row \in Quote \cup {Absent} /\ row \in {Absent, input[p]}
    BY <2>2
  <2> HIDE DEF row
  <2>4. /\ Put(<<>>, id, row) \in Rows /\ id \in DOMAIN Put(<<>>, id, row)
        /\ Put(<<>>, id, row)[id] = row
    <3>1. DOMAIN Put(<<>>, id, row) = DOMAIN <<>> \cup {id}
      BY <2>2, <2>3, EmptyRows, PutTyped
    <3> QED
      BY <3>1, <2>2, <2>3, EmptyRows, PutTyped
  <2>5. /\ log \in Seq(Entry)
        /\ \A i \in DOMAIN log : /\ log[i].id = id /\ log[i].field \in Fields
                                  /\ log[i].new = input[p][log[i].field]
    BY <2>2, LogUpdateTells
  <2> HIDE DEF log
  <2>6. t \in Tx
    BY <2>4, <2>5 DEF Tx
  <2>7. Honest(t)
    <3>1. t.write = Put(<<>>, id, row) /\ t.log = log
      OBVIOUS
    <3> HIDE DEF t
    <3>2. ASSUME NEW i \in DOMAIN log PROVE Told(t.write, log[i])
      <4>1. log[i].id = id /\ log[i].new = input[p][log[i].field]
        BY <2>5
      <4> QED
        BY <3>1, <4>1, <2>3, <2>4 DEF Told
    <3> QED
      BY <3>1, <3>2 DEF Honest
  <2>8. ids' = [ids EXCEPT ![p] = ids[p]]
    BY <1>1, <1>5 DEF Update, TypeOK
  <2>9. tx' = [tx EXCEPT ![p] = t]
    BY <2>1 DEF row, log
  <2> HIDE DEF t
  <2> QED
    BY <1>1, <1>5, <2>6, <2>7, <2>8, <2>9, WriteInv DEF Update
<1>6. ASSUME NEW p \in Proc, GetByID(p) PROVE IInv'
  <2>1. CASE Return(p)
    BY <1>1, <1>6, <2>1, ReturnInv DEF GetByID, TypeOK
  <2>2. CASE ~ Return(p)
    <3>1. /\ pc' = [pc EXCEPT ![p] = "delete"]
          /\ ids' = [ids EXCEPT ![p] = {id \in ids[p] : quotes[id] # Absent}]
          /\ UNCHANGED <<input, current, tx, quotes, audit, served>>
      BY <1>6, <2>2 DEF GetByID
    <3>2. TypeOK'
      BY <1>1, <3>1 DEF TypeOK
    <3>3. pc'[p] = "delete"
      BY <1>1, <3>1 DEF TypeOK
    <3>4. PlaceFits(p)' /\ Honest(tx[p])'
      BY <3>1, <3>3 DEF PlaceFits, IInv
    <3> QED
      BY <1>1, <3>1, <3>2, <3>4, StepOfOne DEF TypeOK
  <2> QED
    BY <2>1, <2>2
<1>7. ASSUME NEW p \in Proc, Delete(p) PROVE IInv'
  <2>1. PICK id \in ids[p] :
          /\ tx' = [tx EXCEPT ![p] = DeleteEntity(@, id)]
          /\ ids' = [ids EXCEPT ![p] = @ \ {id}]
          /\ pc' = [pc EXCEPT ![p] = IF ids[p] = {id} THEN "commit" ELSE "delete"]
    BY <1>7 DEF Delete
  <2> DEFINE t == DeleteEntity(tx[p], id)
             w == Put(tx[p].write, id, Absent)
             log == Append(tx[p].log, Log("deleted", id))
  <2>2. id \in Ids /\ tx[p] \in Tx /\ tx[p].write \in Rows /\ tx[p].log \in Seq(Entry)
    BY <1>1 DEF Tx
  <2>3. t = [write |-> w, log |-> log] /\ t.write = w /\ t.log = log
    BY <2>2, DeleteEntityIs
  <2>4. /\ w \in Rows /\ DOMAIN w = DOMAIN tx[p].write \cup {id} /\ w[id] = Absent
        /\ \A i \in DOMAIN tx[p].write : i # id => w[i] = tx[p].write[i]
    <3> HIDE DEF t, log
    <3>1. Absent \in Quote \cup {Absent}
      OBVIOUS
    <3>2. w \in Rows /\ DOMAIN w = DOMAIN tx[p].write \cup {id} /\ w[id] = Absent
      BY <2>2, <3>1, PutTyped
    <3>3. \A i \in DOMAIN tx[p].write : i # id => w[i] = tx[p].write[i]
      BY <2>2, <3>1, PutTyped
    <3> QED
      BY <3>2, <3>3
  <2>5. Log("deleted", id) \in Entry /\ Log("deleted", id).action = "deleted"
    BY <2>2 DEF Log, Entry
  <2>6. /\ log \in Seq(Entry) /\ DOMAIN log = 1..(Len(tx[p].log) + 1)
        /\ DOMAIN tx[p].log = 1..Len(tx[p].log) /\ Len(tx[p].log) \in Nat
        /\ log[Len(tx[p].log) + 1] = Log("deleted", id)
        /\ \A i \in DOMAIN tx[p].log : log[i] = tx[p].log[i]
    BY <2>2, <2>5
  <2> HIDE DEF t, w, log
  <2>7. t \in Tx
    BY <2>3, <2>4, <2>6 DEF Tx
  <2>8. Honest(t)
    <3> SUFFICES ASSUME NEW i \in DOMAIN log, log[i].action = "updated"
                 PROVE  /\ log[i].id \in DOMAIN w
                        /\ w[log[i].id] = Absent \/ w[log[i].id][log[i].field] = log[i].new
      BY <2>3 DEF Honest, Told
    <3>1. i \in DOMAIN tx[p].log /\ log[i] = tx[p].log[i]
      <4>1. i # Len(tx[p].log) + 1
        BY <2>5, <2>6
      <4> QED
        BY <4>1, <2>6
    <3>2. Told(tx[p].write, tx[p].log[i])
      BY <3>1 DEF IInv, Honest
    <3> QED
      BY <3>1, <3>2, <2>4 DEF Told
  <2>9. /\ ids' = [ids EXCEPT ![p] = ids[p] \ {id}] /\ ids[p] \ {id} \in SUBSET Ids
        /\ tx' = [tx EXCEPT ![p] = t]
    BY <1>1, <2>1 DEF t, TypeOK
  <2> QED
    BY <1>1, <1>7, <2>1, <2>7, <2>8, <2>9, WriteInv DEF Delete
<1>8. ASSUME NEW p \in Proc, Commit(p) PROVE IInv'
  <2>1. quotes' \in [Ids -> Quote \cup {Absent}]
    <3>1. PICK some \in SUBSET Ids : tx[p].write \in [some -> Quote \cup {Absent}]
      BY <1>1 DEF Tx, Rows
    <3> QED
      BY <1>1, <1>8, <3>1 DEF Commit, TypeOK
  <2>2. audit' \in Seq(Entry)
    BY <1>1, <1>8 DEF Commit, TypeOK, Tx
  <2> QED
    BY <1>8, <2>1, <2>2, ReturnInv DEF Commit
<1>9. ASSUME NEW p \in Proc, Fail(p) PROVE IInv'
  BY <1>1, <1>9, ReturnInv DEF Fail, TypeOK
<1>10. CASE UNCHANGED vars
  BY <1>10 DEF vars, IInv, TypeOK, PlaceFits, Honest
<1> QED
  BY <1>2, <1>3, <1>4, <1>5, <1>6, <1>7, <1>8, <1>9, <1>10 DEF Next, Step

LEMMA Invariant == Spec => []IInv
<1> QED
  BY InitInv, NextInv, PTL DEF Spec

-----------------------------------------------------------------------------
(* The table, the log, every request and its transaction keep their types; *)
(* among them, that an update has read its row when it comes to the log.   *)
THEOREM TypeCorrect == Spec => []TypeOK
<1>1. IInv => TypeOK
  BY DEF IInv
<1> QED
  BY <1>1, Invariant, PTL

(* Whoever updates or deletes the same quotes meanwhile, an entry that is  *)
(* committed names the value that its row holds then, unless it is gone.   *)
THEOREM EntriesAreTrue == Spec => EntriesSayWhatWasWritten
<1> DEFINE True == \A i \in (Len(audit) + 1)..Len(audit') :
                     LET e == audit'[i]
                     IN e.action = "updated" =>
                          \/ quotes'[e.id] = Absent
                          \/ quotes'[e.id][e.field] = e.new
<1>1. ASSUME IInv, [Next]_vars PROVE [True]_vars
  <2>1. /\ TypeOK /\ tx \in [Proc -> Tx] /\ audit \in Seq(Entry) /\ Len(audit) \in Nat
    BY <1>1 DEF IInv, TypeOK, Tx, Rows
  <2>2. ASSUME NEW p \in Proc, Commit(p) PROVE True
    <3> DEFINE log == tx[p].log
    <3>1. /\ log \in Seq(Entry) /\ audit' = audit \o log /\ Honest(tx[p])
          /\ Len(log) \in Nat /\ DOMAIN log = 1..Len(log)
      BY <1>1, <2>1, <2>2 DEF Commit, Tx, IInv
    <3> SUFFICES ASSUME NEW i \in (Len(audit) + 1)..Len(audit'), audit'[i].action = "updated"
                 PROVE  \/ quotes'[audit'[i].id] = Absent
                        \/ quotes'[audit'[i].id][audit'[i].field] = audit'[i].new
      OBVIOUS
    <3>2. i - Len(audit) \in DOMAIN log /\ audit'[i] = log[i - Len(audit)]
      BY <2>1, <3>1
    <3> DEFINE e == log[i - Len(audit)]
    <3>3. Told(tx[p].write, e) /\ e \in Entry
      BY <3>1, <3>2 DEF Honest
    <3>4. e.id \in Ids
      BY <3>3 DEF Entry
    <3>5. e.id \in DOMAIN tx[p].write => quotes'[e.id] = tx[p].write[e.id]
      BY <2>2, <3>4 DEF Commit
    <3> QED
      BY <3>2, <3>3, <3>5 DEF Told
  <2>3. ASSUME ~ \E p \in Proc : Commit(p), ~ UNCHANGED vars PROVE True
    <3>1. audit' = audit
      BY <1>1, <2>3 DEF Next, Step, Receive, Insert, Find, Update, GetByID, Delete, Fail
    <3> QED
      BY <2>1, <3>1
  <2> QED
    BY <2>2, <2>3
<1> QED
  BY <1>1, Invariant, PTL DEF Spec, EntriesSayWhatWasWritten

-----------------------------------------------------------------------------
(* What an open transaction will do to the table and the log, for each of  *)
(* the three mutations.  The row that is created stays absent, and the one *)
(* that an update writes stays absent or present, until the commit: other  *)
(* transactions write other rows.                                          *)
Creates(t) ==
    \E id \in Ids : /\ quotes[id] = Absent
                    /\ DOMAIN t.write = {id} /\ t.write[id] # Absent
                    /\ t.log = <<Log("created", id)>>
Changes(t) ==
    \E id \in Ids : /\ DOMAIN t.write = {id}
                    /\ t.write[id] = Absent <=> quotes[id] = Absent
                    /\ \A i \in DOMAIN t.log : t.log[i].action = "updated"
Deletes(t) ==
    /\ \A id \in DOMAIN t.write : t.write[id] = Absent
    /\ \A i \in DOMAIN t.log : t.log[i].action = "deleted" /\ t.log[i].id \in DOMAIN t.write
    /\ \A id \in DOMAIN t.write : \E i \in DOMAIN t.log : t.log[i].id = id
    /\ \A i, j \in DOMAIN t.log : t.log[i].id = t.log[j].id => i = j

TxFits(p) ==
    /\ pc[p] \notin {"delete", "commit"} => tx[p] = NoTx
    /\ pc[p] = "delete" => Deletes(tx[p]) /\ ids[p] \cap DOMAIN tx[p].write = {}
    /\ pc[p] = "commit" => Creates(tx[p]) \/ Changes(tx[p]) \/ Deletes(tx[p])

LocksApart == \A p \in Proc : \A q \in Proc \ {p} :
                  DOMAIN tx[p].write \cap DOMAIN tx[q].write = {}

LifeInv == IInv /\ LocksApart /\ \A p \in Proc : TxFits(p)

-----------------------------------------------------------------------------
LEMMA QuotesAreThere == \A q \in Quote : q # Absent
<1> SUFFICES ASSUME NEW q \in Quote, q = Absent PROVE FALSE
  OBVIOUS
<1>1. DOMAIN q = {"author", "content"}
  BY DEF Quote, Fields
<1>2. DOMAIN Absent = {"absent"}
  BY DEF Absent
<1> QED
  BY <1>1, <1>2

LEMMA NothingDeleted == DOMAIN NoTx.write = {} /\ Deletes(NoTx)
<1>1. NoTx.write = <<>> /\ NoTx.log = <<>> /\ DOMAIN <<>> = {}
  BY DEF NoTx
<1> QED
  BY <1>1 DEF Deletes

LEMMA LifeInit == Init => LifeInv
<1> SUFFICES ASSUME Init PROVE LifeInv
  OBVIOUS
<1>1. \A p \in Proc : tx[p] = NoTx /\ pc[p] = "idle"
  BY DEF Init
<1> QED
  BY <1>1, InitInv, NothingDeleted DEF LifeInv, LocksApart, TxFits

(* The step of one request that locks no row of another one.  Of the rows  *)
(* that others have locked, none comes or goes.                            *)
LEMMA LifeOfOne ==
  ASSUME LifeInv, NEW p \in Proc, IInv', TxFits(p)',
         \A q \in Proc \ {p} :
            /\ pc'[q] = pc[q] /\ ids'[q] = ids[q] /\ tx'[q] = tx[q]
            /\ DOMAIN tx'[p].write \cap DOMAIN tx[q].write = {}
            /\ \A id \in DOMAIN tx[q].write : quotes'[id] = Absent <=> quotes[id] = Absent
  PROVE  LifeInv'
<1>1. LocksApart'
  <2> SUFFICES ASSUME NEW r \in Proc, NEW q \in Proc \ {r}
               PROVE  DOMAIN tx'[r].write \cap DOMAIN tx'[q].write = {}
    BY DEF LocksApart
  <2>1. CASE r = p
    BY <2>1
  <2>2. CASE q = p
    BY <2>2
  <2>3. CASE r # p /\ q # p
    BY <2>3 DEF LifeInv, LocksApart
  <2> QED
    BY <2>1, <2>2, <2>3
<1>2. ASSUME NEW q \in Proc \ {p} PROVE TxFits(q)'
  <2>1. TxFits(q) /\ pc'[q] = pc[q] /\ ids'[q] = ids[q] /\ tx'[q] = tx[q]
    BY DEF LifeInv
  <2>2. PICK t : t = tx[q]
    OBVIOUS
  <2>3. \A id \in DOMAIN t.write : quotes'[id] = Absent <=> quotes[id] = Absent
    BY <2>2
  <2>4. Creates(t) => Creates(t)'
    BY <2>3 DEF Creates
  <2>5. Changes(t) => Changes(t)'
    BY <2>3 DEF Changes
  <2>6. Deletes(t) <=> Deletes(t)'
    BY DEF Deletes
  <2>7. /\ pc[q] = "delete" => Deletes(t) /\ ids[q] \cap DOMAIN t.write = {}
        /\ pc[q] = "commit" => Creates(t) \/ Changes(t) \/ Deletes(t)
    BY <2>1, <2>2 DEF TxFits
  <2>8. /\ pc'[q] = "delete" => Deletes(t)' /\ ids'[q] \cap DOMAIN t.write = {}
        /\ pc'[q] = "commit" => Creates(t)' \/ Changes(t)' \/ Deletes(t)'
    BY <2>1, <2>4, <2>5, <2>6, <2>7
  <2>9. tx'[q] = t
    BY <2>1, <2>2
  <2>10. pc'[q] \notin {"delete", "commit"} => t = NoTx
    BY <2>1, <2>2 DEF TxFits
  <2>11. /\ Creates(t)' => Creates(tx[q])'
         /\ Changes(t)' => Changes(tx[q])'
         /\ Deletes(t)' => Deletes(tx[q])'
    BY <2>9 DEF Creates, Changes, Deletes
  <2> QED
    BY <2>8, <2>9, <2>10, <2>11 DEF TxFits
<1> QED
  BY <1>1, <1>2 DEF LifeInv

LEMMA ReturnLife ==
  ASSUME LifeInv, NEW p \in Proc, Return(p), IInv',
         \A q \in Proc \ {p} : \A id \in DOMAIN tx[q].write :
             quotes'[id] = Absent <=> quotes[id] = Absent
  PROVE  LifeInv'
<1>1. TypeOK
  BY DEF LifeInv, IInv
<1>2. pc'[p] = "idle" /\ tx'[p] = NoTx
  BY <1>1 DEF Return, TypeOK
<1>3. TxFits(p)'
  BY <1>2 DEF TxFits
<1>4. DOMAIN tx'[p].write = {}
  BY <1>2, NothingDeleted
<1>5. \A q \in Proc \ {p} : pc'[q] = pc[q] /\ ids'[q] = ids[q] /\ tx'[q] = tx[q]
  BY <1>1 DEF Return, TypeOK
<1> QED
  BY <1>3, <1>4, <1>5, LifeOfOne

(* What t writes is locked by nobody but p.                                *)
Unlocks(p, t) == \A q \in Proc \ {p} : DOMAIN t.write \cap DOMAIN tx[q].write = {}

LEMMA PutFirst ==
  ASSUME NEW id \in Ids, NEW row
  PROVE  DOMAIN Put(<<>>, id, row) = {id} /\ Put(<<>>, id, row)[id] = row
<1>1. DOMAIN <<>> = {}
  OBVIOUS
<1> QED
  BY <1>1 DEF Put

(* A row that the transaction has not written yet is deleted as well.      *)
LEMMA DeletesOneMore ==
  ASSUME NEW t \in Tx, NEW id \in Ids, Deletes(t), id \notin DOMAIN t.write
  PROVE  /\ DOMAIN DeleteEntity(t, id).write = DOMAIN t.write \cup {id}
         /\ Deletes(DeleteEntity(t, id))
<1> DEFINE w == Put(t.write, id, Absent)
           log == Append(t.log, Log("deleted", id))
<1>1. t.write \in Rows /\ t.log \in Seq(Entry) /\ Absent \in Quote \cup {Absent}
  BY DEF Tx
<1>2. DOMAIN w = DOMAIN t.write \cup {id} /\ w[id] = Absent
  BY <1>1, PutTyped
<1>3. \A i \in DOMAIN t.write : i # id => w[i] = t.write[i]
  BY <1>1, PutTyped
<1>4. Log("deleted", id).action = "deleted" /\ Log("deleted", id).id = id
  BY DEF Log
<1> HIDE DEF w
<1>5. \A i \in DOMAIN w : w[i] = Absent
  BY <1>2, <1>3 DEF Deletes
<1> DEFINE n == Len(t.log)
<1>6. /\ n \in Nat /\ DOMAIN t.log = 1..n /\ DOMAIN log = 1..n + 1
      /\ log[n + 1] = Log("deleted", id) /\ \A i \in 1..n : log[i] = t.log[i]
  BY <1>1
<1> HIDE DEF log, n
<1>7. DOMAIN log = DOMAIN t.log \cup {n + 1} /\ n + 1 \notin DOMAIN t.log
  BY <1>6
<1>8. \A i \in DOMAIN t.log : log[i] = t.log[i]
  BY <1>6
<1>9. \A i \in DOMAIN log : log[i].action = "deleted" /\ log[i].id \in DOMAIN w
  BY <1>2, <1>4, <1>6, <1>7, <1>8 DEF Deletes
<1>10. \A k \in DOMAIN w : \E i \in DOMAIN log : log[i].id = k
  BY <1>2, <1>4, <1>6, <1>7, <1>8 DEF Deletes
<1>11. \A i \in DOMAIN t.log : log[i].id # id
  BY <1>8 DEF Deletes
<1>12. \A i, j \in DOMAIN log : log[i].id = log[j].id => i = j
  BY <1>4, <1>6, <1>7, <1>8, <1>11 DEF Deletes
<1>13. DeleteEntity(t, id) = [write |-> w, log |-> log]
  BY DeleteEntityIs DEF w, log
<1> QED
  BY <1>2, <1>5, <1>9, <1>10, <1>12, <1>13 DEF Deletes

LEMMA LifeNext == LifeInv /\ [Next]_vars => LifeInv'
<1> SUFFICES ASSUME LifeInv, [Next]_vars PROVE LifeInv'
  OBVIOUS
<1>1. /\ TypeOK /\ IInv' /\ tx \in [Proc -> Tx] /\ \A q \in Proc : tx[q] \in Tx
      /\ \A q \in Proc : ids[q] \in SUBSET Ids
  BY NextInv DEF LifeInv, IInv, TypeOK, Tx, Rows
<1>2. ASSUME NEW p \in Proc, Receive(p) PROVE LifeInv'
  <2>1. tx[p] = NoTx /\ UNCHANGED <<quotes, tx>>
    BY <1>2 DEF Receive, LifeInv, TxFits
  <2>2. pc'[p] \notin {"delete", "commit"}
    BY <1>1, <1>2 DEF Receive, TypeOK
  <2>3. \A q \in Proc \ {p} : pc'[q] = pc[q] /\ ids'[q] = ids[q]
    BY <1>1, <1>2 DEF Receive, TypeOK
  <2>4. TxFits(p)' /\ DOMAIN tx'[p].write = {}
    BY <2>1, <2>2, NothingDeleted DEF TxFits
  <2> QED
    BY <1>1, <2>1, <2>3, <2>4, LifeOfOne
<1>3. ASSUME NEW p \in Proc, NEW t, tx' = [tx EXCEPT ![p] = t], Unlocks(p, t),
             IF pc'[p] = "commit" THEN Creates(t) \/ Changes(t) \/ Deletes(t)
             ELSE /\ pc'[p] = "delete"
                  /\ Deletes(t) /\ ids'[p] \cap DOMAIN t.write = {},
             \A q \in Proc \ {p} : pc'[q] = pc[q] /\ ids'[q] = ids[q],
             UNCHANGED quotes
      PROVE  LifeInv'
  <2>1. tx'[p] = t /\ \A q \in Proc \ {p} : tx'[q] = tx[q]
    BY <1>1, <1>3
  <2>2. TxFits(p)'
    <3>1. /\ Creates(t) => Creates(tx[p])' 
          /\ Changes(t) => Changes(tx[p])'
          /\ Deletes(t) => Deletes(tx[p])'
      BY <1>3, <2>1 DEF Creates, Changes, Deletes
    <3> QED
      BY <1>3, <2>1, <3>1 DEF TxFits
  <2>3. \A q \in Proc \ {p} : DOMAIN tx'[p].write \cap DOMAIN tx[q].write = {}
    BY <1>3, <2>1 DEF Unlocks
  <2> QED
    BY <1>1, <1>3, <2>1, <2>2, <2>3, LifeOfOne
<1>4. ASSUME NEW p \in Proc, Insert(p) PROVE LifeInv'
  <2>1. PICK id \in ids[p] :
          /\ quotes[id] = Absent /\ Unlocked(p, id)
          /\ tx' = [tx EXCEPT ![p] = [write |-> Put(<<>>, id, input[p]),
                                      log |-> <<Log("created", id)>>]]
    BY <1>4 DEF Insert
  <2> DEFINE t == [write |-> Put(<<>>, id, input[p]), log |-> <<Log("created", id)>>]
  <2>2. id \in Ids /\ input[p] \in Quote /\ input[p] # Absent
    BY <1>1, <1>4, QuotesAreThere DEF Insert, LifeInv, IInv, PlaceFits
  <2>3. DOMAIN t.write = {id} /\ t.write[id] = input[p] /\ t.log = <<Log("created", id)>>
    BY PutFirst, <2>2
  <2> HIDE DEF t
  <2>4. Creates(t)
    BY <2>1, <2>2, <2>3 DEF Creates
  <2>5. Unlocks(p, t)
    BY <2>1, <2>3 DEF Unlocks, Unlocked
  <2>6. pc'[p] = "commit" /\ UNCHANGED <<ids, quotes>> /\ \A q \in Proc \ {p} : pc'[q] = pc[q]
    BY <1>1, <1>4 DEF Insert, TypeOK
  <2>7. tx' = [tx EXCEPT ![p] = t]
    BY <2>1 DEF t
  <2> QED
    BY <1>3, <2>4, <2>5, <2>6, <2>7
<1>5. ASSUME NEW p \in Proc, Update(p) PROVE LifeInv'
  <2>1. PICK id \in ids[p] :
          /\ Unlocked(p, id)
          /\ tx' = [tx EXCEPT ![p] =
               [write |-> Put(<<>>, id, IF quotes[id] = Absent THEN Absent ELSE input[p]),
                log |-> LogUpdate(id, current[p], input[p])]]
    BY <1>5 DEF Update
  <2> DEFINE row == IF quotes[id] = Absent THEN Absent ELSE input[p]
             log == LogUpdate(id, current[p], input[p])
             t == [write |-> Put(<<>>, id, row), log |-> log]
  <2>2. id \in Ids /\ input[p] \in Quote /\ input[p] # Absent /\ current[p] \in Quote
    BY <1>1, <1>5, QuotesAreThere DEF Update, LifeInv, IInv, PlaceFits
  <2>3. row = Absent <=> quotes[id] = Absent
    BY <2>2
  <2>4. \A i \in DOMAIN log : log[i].action = "updated"
    BY <2>2, LogUpdateTells
  <2> HIDE DEF row, log
  <2>5. DOMAIN t.write = {id} /\ t.write[id] = row /\ t.log = log
    BY PutFirst, <2>2
  <2>6. tx' = [tx EXCEPT ![p] = t]
    BY <2>1 DEF row, log
  <2> HIDE DEF t
  <2>7. Changes(t)
    BY <2>2, <2>3, <2>4, <2>5 DEF Changes
  <2>8. Unlocks(p, t)
    BY <2>1, <2>5 DEF Unlocks, Unlocked
  <2>9. pc'[p] = "commit" /\ UNCHANGED <<ids, quotes>> /\ \A q \in Proc \ {p} : pc'[q] = pc[q]
    BY <1>1, <1>5 DEF Update, TypeOK
  <2> QED
    BY <1>3, <2>6, <2>7, <2>8, <2>9
<1>6. ASSUME NEW p \in Proc, Delete(p) PROVE LifeInv'
  <2>1. PICK id \in ids[p] :
          /\ Unlocked(p, id)
          /\ tx' = [tx EXCEPT ![p] = DeleteEntity(@, id)]
          /\ ids' = [ids EXCEPT ![p] = @ \ {id}]
          /\ pc' = [pc EXCEPT ![p] = IF ids[p] = {id} THEN "commit" ELSE "delete"]
    BY <1>6 DEF Delete
  <2> DEFINE t == DeleteEntity(tx[p], id)
  <2>2. id \in Ids /\ tx[p] \in Tx /\ Deletes(tx[p]) /\ ids[p] \cap DOMAIN tx[p].write = {}
    BY <1>1, <1>6 DEF Delete, LifeInv, TxFits
  <2>3. DOMAIN t.write = DOMAIN tx[p].write \cup {id} /\ Deletes(t)
    BY <2>2, DeletesOneMore
  <2> HIDE DEF t
  <2>4. Unlocks(p, t)
    BY <2>1, <2>3 DEF Unlocks, Unlocked, LifeInv, LocksApart
  <2>5. ids'[p] = ids[p] \ {id} /\ pc'[p] \in {"commit", "delete"}
    BY <1>1, <2>1 DEF TypeOK
  <2>6. ids'[p] \cap DOMAIN t.write = {}
    BY <2>2, <2>3, <2>5
  <2>7. tx' = [tx EXCEPT ![p] = t]
    BY <1>1, <2>1 DEF t
  <2>8. /\ UNCHANGED quotes
        /\ \A q \in Proc \ {p} : pc'[q] = pc[q] /\ ids'[q] = ids[q]
    BY <1>1, <1>6, <2>1 DEF Delete, TypeOK
  <2> QED
    BY <1>3, <2>3, <2>4, <2>5, <2>6, <2>7, <2>8
<1>7. ASSUME NEW p \in Proc, Return(p), UNCHANGED quotes PROVE LifeInv'
  BY <1>1, <1>7, ReturnLife
<1>8. ASSUME NEW p \in Proc, UNCHANGED <<quotes, tx>>, pc[p] \notin {"delete", "commit"},
             \/ pc'[p] \notin {"delete", "commit"}
             \/ pc'[p] = "delete",
             \A q \in Proc \ {p} : pc'[q] = pc[q] /\ ids'[q] = ids[q]
      PROVE  LifeInv'
  <2>1. tx[p] = NoTx
    BY <1>8 DEF LifeInv, TxFits
  <2>2. DOMAIN tx'[p].write = {} /\ Deletes(tx[p])'
    BY <1>8, <2>1, NothingDeleted DEF Deletes
  <2>3. TxFits(p)'
    BY <1>8, <2>1, <2>2 DEF TxFits
  <2> QED
    BY <1>1, <1>8, <2>2, <2>3, LifeOfOne
<1>9. ASSUME NEW p \in Proc, Find(p) PROVE LifeInv'
  <2>1. CASE Return(p)
    BY <1>7, <1>9, <2>1 DEF Find
  <2>2. CASE ~ Return(p)
    <3>1. pc' = [pc EXCEPT ![p] = "update"] /\ UNCHANGED <<quotes, ids, tx>> /\ pc[p] = "find"
      BY <1>9, <2>2 DEF Find
    <3>2. pc'[p] = "update" /\ \A q \in Proc \ {p} : pc'[q] = pc[q]
      BY <1>1, <3>1 DEF TypeOK
    <3> QED
      BY <1>8, <3>1, <3>2
  <2> QED
    BY <2>1, <2>2
<1>10. ASSUME NEW p \in Proc, GetByID(p) PROVE LifeInv'
  <2>1. CASE Return(p)
    BY <1>7, <1>10, <2>1 DEF GetByID
  <2>2. CASE ~ Return(p)
    <3>1. /\ pc' = [pc EXCEPT ![p] = "delete"] /\ UNCHANGED <<quotes, tx>> /\ pc[p] = "getByID"
          /\ ids' = [ids EXCEPT ![p] = {id \in ids[p] : quotes[id] # Absent}]
      BY <1>10, <2>2 DEF GetByID
    <3>2. pc'[p] = "delete" /\ \A q \in Proc \ {p} : pc'[q] = pc[q] /\ ids'[q] = ids[q]
      BY <1>1, <3>1 DEF TypeOK
    <3> QED
      BY <1>8, <3>1, <3>2
  <2> QED
    BY <2>1, <2>2
<1>11. ASSUME NEW p \in Proc, Commit(p) PROVE LifeInv'
  <2>1. ASSUME NEW q \in Proc \ {p}, NEW id \in DOMAIN tx[q].write
        PROVE  quotes'[id] = Absent <=> quotes[id] = Absent
    <3>1. id \in Ids /\ id \notin DOMAIN tx[p].write
      BY <1>1, <2>1 DEF LifeInv, LocksApart, Tx, Rows
    <3> QED
      BY <1>11, <3>1 DEF Commit
  <2> QED
    BY <1>1, <1>11, <2>1, ReturnLife DEF Commit
<1>12. ASSUME NEW p \in Proc, Fail(p) PROVE LifeInv'
  BY <1>7, <1>12 DEF Fail
<1>13. CASE UNCHANGED vars
  BY <1>1, <1>13 DEF vars, LifeInv, TxFits, LocksApart, Creates, Changes, Deletes
<1> QED
  BY <1>2, <1>4, <1>5, <1>6, <1>9, <1>10, <1>11, <1>12, <1>13 DEF Next, Step

LEMMA LifeInvariant == Spec => []LifeInv
<1> QED
  BY LifeInit, LifeNext, PTL DEF Spec

-----------------------------------------------------------------------------
(* The commit of each mutation, as a step of the log of lives.             *)
Notes(log) == [i \in DOMAIN log |-> <<log[i].action, log[i].id>>]

LEMMA NotesTyped ==
  ASSUME NEW log \in Seq(Entry)
  PROVE  /\ Notes(log) \in Seq(Life!Event) /\ Len(Notes(log)) = Len(log)
         /\ DOMAIN Notes(log) = DOMAIN log
<1>1. \A i \in DOMAIN log : <<log[i].action, log[i].id>> \in Life!Event
  <2> SUFFICES ASSUME NEW i \in DOMAIN log PROVE <<log[i].action, log[i].id>> \in Life!Event
    OBVIOUS
  <2>1. log[i] \in Entry
    OBVIOUS
  <2>2. log[i].action \in {"created", "updated", "deleted"} /\ log[i].id \in Ids
    BY <2>1 DEF Entry
  <2> QED
    BY <2>2 DEF Life!Event
<1>2. DOMAIN log = 1..Len(log) /\ Len(log) \in Nat
  OBVIOUS
<1>3. Notes(log) \in [1..Len(log) -> Life!Event]
  BY <1>1, <1>2 DEF Notes
<1> QED
  BY <1>2, <1>3

LEMMA NotesConcat ==
  ASSUME NEW s \in Seq(Entry), NEW t \in Seq(Entry)
  PROVE  Notes(s \o t) = Notes(s) \o Notes(t)
<1> DEFINE both == Notes(s) \o Notes(t)
<1>1. /\ DOMAIN s = 1..Len(s) /\ DOMAIN t = 1..Len(t) /\ Len(s) \in Nat /\ Len(t) \in Nat
      /\ s \o t \in Seq(Entry) /\ Len(s \o t) = Len(s) + Len(t)
      /\ DOMAIN (s \o t) = 1..Len(s) + Len(t)
  OBVIOUS
<1>2. /\ Notes(s) \in Seq(Life!Event) /\ Len(Notes(s)) = Len(s)
      /\ Notes(t) \in Seq(Life!Event) /\ Len(Notes(t)) = Len(t)
      /\ Notes(s \o t) \in Seq(Life!Event) /\ Len(Notes(s \o t)) = Len(s) + Len(t)
  BY <1>1, NotesTyped
<1>3. both \in Seq(Life!Event) /\ Len(both) = Len(s) + Len(t)
  BY <1>2, ConcatProperties
<1>4. ASSUME NEW i \in 1..Len(s) + Len(t) PROVE Notes(s \o t)[i] = both[i]
  <2>0. Notes(s \o t)[i] = <<(s \o t)[i].action, (s \o t)[i].id>>
    BY <1>1 DEF Notes
  <2>1. CASE i <= Len(s)
    <3>1. i \in DOMAIN s /\ (s \o t)[i] = s[i]
      BY <1>1, <2>1
    <3>2. both[i] = Notes(s)[i]
      BY <1>1, <1>2, <2>1, ConcatProperties
    <3>3. Notes(s)[i] = <<s[i].action, s[i].id>>
      BY <3>1 DEF Notes
    <3> QED
      BY <2>0, <3>1, <3>2, <3>3
  <2>2. CASE i > Len(s)
    <3>1. i - Len(s) \in DOMAIN t /\ (s \o t)[i] = t[i - Len(s)]
      BY <1>1, <2>2
    <3>2. both[i] = Notes(t)[i - Len(s)]
      BY <1>1, <1>2, <2>2, ConcatProperties
    <3>3. Notes(t)[i - Len(s)] = <<t[i - Len(s)].action, t[i - Len(s)].id>>
      BY <3>1 DEF Notes
    <3> QED
      BY <2>0, <3>1, <3>2, <3>3
  <2>3. i \in Nat /\ (i <= Len(s) \/ i > Len(s))
    BY <1>1
  <2> QED
    BY <2>1, <2>2, <2>3
<1> HIDE DEF both
<1>5. Notes(s \o t) = both
  BY <1>1, <1>2, <1>3, <1>4, SeqEqual
<1> QED
  BY <1>5 DEF both

LEMMA LivesAre == Lives = Notes(audit) /\ Lives' = Notes(audit)'
BY DEF Lives, Notes

(* A log that is continued by entries of one kind.                         *)
LEMMA Reports ==
  ASSUME Lives \in Seq(Life!Event), Lives' \in Seq(Life!Event), NEW action,
         NEW more \in Seq(Life!Event), Lives' = Lives \o more,
         \A i \in DOMAIN more : more[i][1] = action
  PROVE  /\ Life!Report(action)
         /\ Life!New = Len(Lives) + 1..Len(Lives) + Len(more)
         /\ \A i \in Life!New : i - Len(Lives) \in DOMAIN more
                              /\ Lives'[i] = more[i - Len(Lives)]
<1>1. /\ Len(Lives) \in Nat /\ Len(more) \in Nat /\ DOMAIN more = 1..Len(more)
      /\ Len(Lives') = Len(Lives) + Len(more)
      /\ \A i \in 1..Len(Lives) + Len(more) :
            Lives'[i] = IF i <= Len(Lives) THEN Lives[i] ELSE more[i - Len(Lives)]
  BY ConcatProperties
<1>2. SubSeq(Lives, 1, Len(Lives)) = SubSeq(Lives', 1, Len(Lives))
  BY <1>1
<1>3. Life!New = Len(Lives) + 1..Len(Lives) + Len(more)
  BY <1>1 DEF Life!New
<1>4. ASSUME NEW i \in Life!New
      PROVE  i - Len(Lives) \in DOMAIN more /\ Lives'[i] = more[i - Len(Lives)]
  BY <1>1, <1>3
<1>5. Len(Lives) <= Len(Lives')
  BY <1>1
<1>6. \A i \in Life!New : Lives'[i][1] = action
  BY <1>4
<1> QED
  BY <1>2, <1>3, <1>4, <1>5, <1>6 DEF Life!Report, Life!IsPrefix

LEMMA CommitImplements ==
  ASSUME LifeInv, TypeOK', NEW p \in Proc, Commit(p)
  PROVE  Life!Next
<1> DEFINE log == tx[p].log
           write == tx[p].write
<1>1. /\ TypeOK /\ tx[p] \in Tx /\ quotes \in [Ids -> Quote \cup {Absent}]
      /\ audit \in Seq(Entry) /\ TxFits(p)
  BY DEF LifeInv, IInv, TypeOK, Tx, Rows
<1>2. log \in Seq(Entry) /\ write \in Rows /\ DOMAIN write \in SUBSET Ids
  BY <1>1 DEF Tx, Rows
<1>3. Lives' = Lives \o Notes(log)
  <2>1. audit' = audit \o log
    BY DEF Commit
  <2>2. Notes(audit)' = Notes(audit \o log)
    BY <2>1 DEF Notes
  <2> QED
    BY <1>1, <1>2, <2>2, LivesAre, NotesConcat
<1>4. \A id \in Ids : quotes'[id] = IF id \in DOMAIN write THEN write[id] ELSE quotes[id]
  BY DEF Commit
<1>5. /\ Lives \in Seq(Life!Event) /\ Lives' \in Seq(Life!Event) /\ Len(Lives) \in Nat
      /\ Notes(log) \in Seq(Life!Event) /\ Len(Notes(log)) = Len(log)
      /\ DOMAIN Notes(log) = DOMAIN log
  BY <1>1, <1>2, <1>3, LivesAre, NotesTyped, ConcatProperties
<1>6. Creates(tx[p]) \/ Changes(tx[p]) \/ Deletes(tx[p])
  BY <1>1 DEF TxFits, Commit
<1> HIDE DEF log, write
<1>7. CASE Creates(tx[p])
  <2>1. PICK id \in Ids : /\ quotes[id] = Absent /\ DOMAIN write = {id}
                          /\ write[id] # Absent /\ log = <<Log("created", id)>>
    BY <1>7 DEF Creates, log, write
  <2>2. id \notin Present /\ Present' = Present \cup {id}
    BY <1>4, <2>1 DEF Present
  <2>3. Notes(log) = << <<"created", id>> >>
    <3>1. /\ DOMAIN <<Log("created", id)>> = {1} /\ <<Log("created", id)>>[1] = Log("created", id)
          /\ Log("created", id).action = "created" /\ Log("created", id).id = id
      BY DEF Log
    <3>2. Notes(log) = [i \in {1} |-> <<"created", id>>]
      BY <2>1, <3>1 DEF Notes
    <3>3. [i \in {1} |-> <<"created", id>>] = << <<"created", id>> >>
      OBVIOUS
    <3> QED
      BY <3>2, <3>3
  <2>4. Lives' = Append(Lives, <<"created", id>>)
    BY <1>3, <1>5, <2>3
  <2> QED
    BY <2>1, <2>2, <2>4 DEF Life!Create, Life!Next
<1>8. CASE Changes(tx[p])
  <2>1. PICK id \in Ids : /\ DOMAIN write = {id} /\ (write[id] = Absent <=> quotes[id] = Absent)
                          /\ \A i \in DOMAIN log : log[i].action = "updated"
    BY <1>8 DEF Changes, log, write
  <2>2. Present' = Present
    BY <1>4, <2>1 DEF Present
  <2>3. \A i \in DOMAIN Notes(log) : Notes(log)[i][1] = "updated"
    BY <1>5, <2>1 DEF Notes
  <2>4. Life!Describe
    BY <1>3, <1>5, <2>2, <2>3, Reports DEF Life!Describe
  <2> QED
    BY <2>4 DEF Life!Next
<1>9. CASE Deletes(tx[p])
  <2> DEFINE S == DOMAIN write
             ids_of == [i \in Life!New |-> Lives'[i][2]]
  <2>1. /\ \A id \in S : write[id] = Absent
        /\ \A i \in DOMAIN log : log[i].action = "deleted" /\ log[i].id \in S
        /\ \A id \in S : \E i \in DOMAIN log : log[i].id = id
        /\ \A i, j \in DOMAIN log : log[i].id = log[j].id => i = j
    BY <1>9 DEF Deletes, log, write
  <2>2. Present' = Present \ S
    BY <1>4, <2>1 DEF Present
  <2>3. DOMAIN log = 1..Len(log) /\ Len(log) \in Nat
    BY <1>2
  <2> HIDE DEF S
  <2>4. \A i \in DOMAIN log : Notes(log)[i][1] = "deleted" /\ Notes(log)[i][2] = log[i].id
    BY <2>1 DEF Notes
  <2>5. /\ Life!Report("deleted") /\ Life!New = Len(Lives) + 1..Len(Lives) + Len(log)
        /\ \A i \in Life!New : /\ i - Len(Lives) \in DOMAIN log
                               /\ Lives'[i] = Notes(log)[i - Len(Lives)]
    <3> DEFINE more == Notes(log)
    <3>1. /\ more \in Seq(Life!Event) /\ Lives' = Lives \o more
          /\ \A i \in DOMAIN more : more[i][1] = "deleted"
      BY <1>3, <1>5, <2>4
    <3>2. DOMAIN more = DOMAIN log /\ Len(more) = Len(log)
      BY <1>5
    <3> HIDE DEF more
    <3>3. /\ Life!Report("deleted") /\ Life!New = Len(Lives) + 1..Len(Lives) + Len(more)
          /\ \A i \in Life!New : /\ i - Len(Lives) \in DOMAIN more
                                 /\ Lives'[i] = more[i - Len(Lives)]
      BY <1>5, <3>1, Reports
    <3> QED
      BY <3>2, <3>3 DEF more
  <2>6. \A i \in Life!New : ids_of[i] = log[i - Len(Lives)].id
    BY <2>4, <2>5
  <2>7. DOMAIN ids_of = Life!New
    OBVIOUS
  <2>8. ids_of \in Life!Bijection(Life!New, S)
    <3>1. ids_of \in [Life!New -> S]
      BY <2>1, <2>5, <2>6
    <3>2. ASSUME NEW i \in Life!New, NEW j \in Life!New, ids_of[i] = ids_of[j] PROVE i = j
      <4>1. i - Len(Lives) = j - Len(Lives)
        BY <2>1, <2>5, <2>6, <3>2
      <4> QED
        BY <1>5, <2>3, <2>5, <4>1
    <3>3. ASSUME NEW id \in S PROVE \E i \in Life!New : ids_of[i] = id
      <4>1. PICK k \in DOMAIN log : log[k].id = id
        BY <2>1
      <4>2. Len(Lives) + k \in Life!New /\ (Len(Lives) + k) - Len(Lives) = k
        BY <1>5, <2>3, <2>5
      <4> QED
        BY <2>6, <4>1, <4>2
    <3> HIDE DEF ids_of
    <3> QED
      BY <2>7, <3>1, <3>2, <3>3
      DEF Life!Bijection, Life!Injection, Life!Surjection, Life!IsInjective
  <2>10. Life!Erase(S)
    BY <2>2, <2>5, <2>8 DEF Life!Erase
  <2>9. S \in SUBSET Ids
    BY <1>2 DEF S
  <2> QED
    BY <2>9, <2>10 DEF Life!Next
<1> QED
  BY <1>6, <1>7, <1>8, <1>9

(* The store implements LifeLog: whatever fails, and whoever else reads or *)
(* writes meanwhile, a row comes or goes in one step with its entry, and   *)
(* with nothing else.                                                      *)
THEOREM Implements == Spec => ImplementsLifeLog
<1>1. Init => Life!Init
  <2> SUFFICES ASSUME Init PROVE Life!Init
    OBVIOUS
  <2>1. quotes = Initially /\ audit = <<>>
    BY DEF Init
  <2>2. Lives = <<>>
    BY <2>1 DEF Lives
  <2> QED
    BY <2>1, <2>2 DEF Life!Init, Present
<1>2. LifeInv /\ TypeOK' /\ [Next]_vars => [Life!Next]_(Life!vars)
  <2> SUFFICES ASSUME LifeInv, TypeOK', [Next]_vars PROVE [Life!Next]_(Life!vars)
    OBVIOUS
  <2>1. CASE \E p \in Proc : Commit(p)
    BY <2>1, CommitImplements
  <2>2. CASE ~ \E p \in Proc : Commit(p)
    <3>1. UNCHANGED <<quotes, audit>>
      BY <2>2 DEF Next, Step, Receive, Insert, Find, Update, GetByID, Delete, Fail, vars
    <3> QED
      BY <3>1 DEF Life!vars, Present, Lives
  <2> QED
    BY <2>1, <2>2
<1>3. LifeInv => TypeOK
  BY DEF LifeInv, IInv
<1> QED
  BY <1>1, <1>2, <1>3, LifeInvariant, PTL DEF Spec, ImplementsLifeLog, Life!Spec

-----------------------------------------------------------------------------
(* What LifeLog promises, from its definition alone.                       *)
Initial == {id \in Ids : Initially[id] # Absent}
LifeTold == Life!TypeOK /\ Life!LogTellsLife

(* A step that says nothing about a row and leaves it where it is.         *)
LEMMA Unmentioned ==
  ASSUME LifeTold, NEW id \in Ids, id \in Present' <=> id \in Present,
         DOMAIN Lives \subseteq DOMAIN Lives',
         \A i \in DOMAIN Lives : Lives'[i] = Lives[i],
         \A i \in DOMAIN Lives' \ DOMAIN Lives : Lives'[i][1] = "updated" \/ Lives'[i][2] # id
  PROVE  IF Life!Mentions(id)' = {} THEN id \in Present' <=> id \in Initial
         ELSE \A i \in Life!Mentions(id)' :
                (\A j \in Life!Mentions(id)' : j <= i) =>
                    (id \in Present' <=> Lives'[i][1] = "created")
<1>1. Life!Mentions(id)' = Life!Mentions(id)
  BY DEF Life!Mentions
<1>2. \A i \in Life!Mentions(id) : Lives'[i][1] = Lives[i][1]
  BY DEF Life!Mentions
<1>3. IF Life!Mentions(id) = {} THEN id \in Present <=> id \in Initial
      ELSE \A i \in Life!Mentions(id) :
             (\A j \in Life!Mentions(id) : j <= i) =>
                 (id \in Present <=> Lives[i][1] = "created")
  BY DEF LifeTold, Life!LogTellsLife, Initial
<1> QED
  BY <1>1, <1>2, <1>3

LEMMA LifeToldInit == Life!Init => LifeTold
<1> SUFFICES ASSUME Life!Init PROVE LifeTold
  OBVIOUS
<1>1. Present = Initial /\ Lives = <<>>
  BY DEF Life!Init, Initial
<1>2. \A id \in Ids : Life!Mentions(id) = {}
  BY <1>1 DEF Life!Mentions
<1>3. Initial \subseteq Ids /\ Lives \in Seq(Life!Event)
  BY <1>1 DEF Initial
<1> QED
  BY <1>1, <1>2, <1>3 DEF LifeTold, Life!TypeOK, Life!LogTellsLife, Initial

(* The log grows by entries of one kind: where the new ones are.           *)
LEMMA ReportGrows ==
  ASSUME Lives \in Seq(Life!Event), NEW action, Life!Report(action)
  PROVE  /\ Lives' \in Seq(Life!Event) /\ DOMAIN Lives \subseteq DOMAIN Lives'
         /\ \A i \in DOMAIN Lives : Lives'[i] = Lives[i]
         /\ DOMAIN Lives' \ DOMAIN Lives = Life!New
         /\ \A i \in DOMAIN Lives : \A j \in Life!New : i < j
         /\ \A i \in Life!New : Lives'[i][1] = action
<1>1. /\ Lives' \in Seq(Life!Event) /\ Len(Lives) <= Len(Lives')
      /\ SubSeq(Lives, 1, Len(Lives)) = SubSeq(Lives', 1, Len(Lives))
      /\ \A i \in Life!New : Lives'[i][1] = action
  BY DEF Life!Report, Life!IsPrefix
<1>2. /\ Len(Lives) \in Nat /\ DOMAIN Lives = 1..Len(Lives)
      /\ Len(Lives') \in Nat /\ DOMAIN Lives' = 1..Len(Lives')
  BY <1>1
<1>3. ASSUME NEW i \in DOMAIN Lives PROVE Lives'[i] = Lives[i]
  <2>1. SubSeq(Lives, 1, Len(Lives))[i] = Lives[i]
    BY <1>2
  <2>2. SubSeq(Lives', 1, Len(Lives))[i] = Lives'[i]
    BY <1>1, <1>2
  <2> QED
    BY <1>1, <2>1, <2>2
<1>4. DOMAIN Lives' \ DOMAIN Lives = Life!New
  BY <1>1, <1>2 DEF Life!New
<1>5. \A i \in DOMAIN Lives : \A j \in Life!New : i < j
  BY <1>2 DEF Life!New
<1>6. DOMAIN Lives \subseteq DOMAIN Lives'
  BY <1>1, <1>2
<1> QED
  BY <1>1, <1>3, <1>4, <1>5, <1>6

LEMMA LifeToldNext == LifeTold /\ [Life!Next]_(Life!vars) => LifeTold'
<1> SUFFICES ASSUME LifeTold, [Life!Next]_(Life!vars) PROVE LifeTold'
  OBVIOUS
<1> DEFINE ToldBy(id) ==
      IF Life!Mentions(id)' = {} THEN id \in Present' <=> id \in Initial
      ELSE \A i \in Life!Mentions(id)' :
             (\A j \in Life!Mentions(id)' : j <= i) =>
                 (id \in Present' <=> Lives'[i][1] = "created")
<1>1. Present \subseteq Ids /\ Lives \in Seq(Life!Event)
  BY DEF LifeTold, Life!TypeOK
<1>2. ASSUME Present' \subseteq Ids, Lives' \in Seq(Life!Event), \A id \in Ids : ToldBy(id)
      PROVE  LifeTold'
  BY <1>2 DEF LifeTold, Life!TypeOK, Life!LogTellsLife, Initial
<1>3. ASSUME NEW id \in Ids, Life!Create(id) PROVE LifeTold'
  <2> DEFINE n == Len(Lives)
  <2>1. /\ Present' = Present \cup {id} /\ Lives' = Append(Lives, <<"created", id>>)
        /\ <<"created", id>> \in Life!Event
    BY <1>3 DEF Life!Create, Life!Event
  <2>2. /\ n \in Nat /\ DOMAIN Lives = 1..n /\ DOMAIN Lives' = 1..n + 1
        /\ Lives' \in Seq(Life!Event) /\ Lives'[n + 1] = <<"created", id>>
        /\ \A i \in 1..n : Lives'[i] = Lives[i]
    BY <1>1, <2>1
  <2> HIDE DEF n
  <2>3. /\ DOMAIN Lives' \ DOMAIN Lives = {n + 1} /\ DOMAIN Lives \subseteq DOMAIN Lives'
        /\ \A i \in DOMAIN Lives : i < n + 1
    BY <2>2
  <2>4. ASSUME NEW other \in Ids, other # id PROVE ToldBy(other)
    <3>1. Lives'[n + 1][2] # other
      BY <2>2, <2>4
    <3> QED
      BY <2>1, <2>2, <2>3, <2>4, <3>1, Unmentioned
  <2>5. ToldBy(id)
    <3>1. n + 1 \in Life!Mentions(id)' /\ Life!Mentions(id)' \subseteq DOMAIN Lives'
      BY <2>2, <2>3 DEF Life!Mentions
    <3>2. ASSUME NEW i \in Life!Mentions(id)', n + 1 <= i PROVE i = n + 1
      BY <2>2, <3>1, <3>2
    <3>3. id \in Present' /\ Lives'[n + 1][1] = "created"
      BY <2>1, <2>2
    <3> QED
      BY <3>1, <3>2, <3>3
  <2> QED
    BY <1>1, <1>2, <2>1, <2>2, <2>4, <2>5
<1>4. ASSUME NEW gone \in SUBSET Ids, Life!Erase(gone) PROVE LifeTold'
  <2> DEFINE f == [i \in Life!New |-> Lives'[i][2]]
  <2>1. Present' = Present \ gone /\ Life!Report("deleted") /\ f \in Life!Bijection(Life!New, gone)
    BY <1>4 DEF Life!Erase
  <2>2. /\ Lives' \in Seq(Life!Event) /\ DOMAIN Lives \subseteq DOMAIN Lives'
        /\ \A i \in DOMAIN Lives : Lives'[i] = Lives[i]
        /\ DOMAIN Lives' \ DOMAIN Lives = Life!New
        /\ \A i \in DOMAIN Lives : \A j \in Life!New : i < j
        /\ \A i \in Life!New : Lives'[i][1] = "deleted"
    BY <1>1, <2>1, ReportGrows
  <2>3. /\ \A i \in Life!New : f[i] = Lives'[i][2] /\ f[i] \in gone
        /\ \A id \in gone : \E i \in Life!New : f[i] = id
    BY <2>1 DEF Life!Bijection, Life!Injection, Life!Surjection
  <2> HIDE DEF f
  <2>4. ASSUME NEW id \in Ids \ gone PROVE ToldBy(id)
    <3>1. \A i \in Life!New : Lives'[i][2] # id
      BY <2>3
    <3> QED
      BY <2>1, <2>2, <3>1, Unmentioned
  <2>5. ASSUME NEW id \in gone PROVE ToldBy(id)
    <3>1. PICK k \in Life!New : Lives'[k][2] = id
      BY <2>3
    <3>2. /\ k \in Life!Mentions(id)' /\ k \in Int
          /\ \A i \in Life!Mentions(id)' : i \in DOMAIN Lives \/ i \in Life!New
          /\ \A i \in DOMAIN Lives : i \in Int
      BY <1>1, <2>2, <3>1 DEF Life!Mentions, Life!New
    <3>3. ASSUME NEW i \in Life!Mentions(id)', k <= i PROVE i \in Life!New
      <4>1. CASE i \in DOMAIN Lives
        <5>1. i < k /\ i \in Int
          BY <2>2, <3>1, <3>2, <4>1
        <5> QED
          BY <3>2, <3>3, <5>1
      <4> QED
        BY <3>2, <4>1
    <3>4. id \notin Present'
      BY <2>1
    <3>5. \A i \in Life!New : Lives'[i][1] # "created"
      BY <2>2
    <3> QED
      BY <3>2, <3>3, <3>4, <3>5
  <2> QED
    BY <1>1, <1>2, <2>1, <2>2, <2>4, <2>5
<1>5. CASE Life!Describe
  <2>1. Present' = Present /\ Life!Report("updated")
    BY <1>5 DEF Life!Describe
  <2>2. /\ Lives' \in Seq(Life!Event) /\ DOMAIN Lives \subseteq DOMAIN Lives'
        /\ \A i \in DOMAIN Lives : Lives'[i] = Lives[i]
        /\ \A i \in DOMAIN Lives' \ DOMAIN Lives : Lives'[i][1] = "updated"
    BY <1>1, <2>1, ReportGrows
  <2>3. \A id \in Ids : ToldBy(id)
    BY <2>1, <2>2, Unmentioned
  <2> QED
    BY <1>1, <1>2, <2>1, <2>2, <2>3
<1>6. CASE UNCHANGED Life!vars
  <2>1. Present' = Present /\ Lives' = Lives
    BY <1>6 DEF Life!vars
  <2>2. \A id \in Ids : ToldBy(id)
    BY <2>1, Unmentioned
  <2> QED
    BY <1>1, <1>2, <2>1, <2>2
<1> QED
  BY <1>3, <1>4, <1>5, <1>6 DEF Life!Next

(* The newest entry about the life of a quote says whether it exists; one  *)
(* without such an entry is there exactly if it was there at the start.    *)
THEOREM NewestEntryTellsLife == Spec => []Life!LogTellsLife
<1>1. LifeTold => Life!LogTellsLife
  BY DEF LifeTold
<1> QED
  BY <1>1, Implements, LifeToldInit, LifeToldNext, PTL DEF ImplementsLifeLog, Life!Spec
=============================================================================
