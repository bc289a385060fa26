-------------------------------- MODULE Loader --------------------------------
(***************************************************************************)
(* The data loaders (internal/graphql/gqldataloaders): the field resolvers *)
(* of one GraphQL request run concurrently and ask a loader for the roles, *)
(* users or permissions of one key each; the loader collects the keys into *)
(* batches, fetches each batch at once and caches what it fetched for the  *)
(* rest of the request.                                                    *)
(*                                                                         *)
(* A batch is ended by its timer or by the load that fills it.  LoadThunk, *)
(* the timer and the write of the cache hold the loader's mutex; the fetch *)
(* and the wait for it do not.  The table that is read may change.         *)
(*                                                                         *)
(* External: the fetch functions' queries, time.Sleep.                     *)
(***************************************************************************)
EXTENDS Naturals, Sequences

CONSTANTS
    Proc,       \* the resolvers
    Key,        \* the keys they load
    MaxBatch,   \* the most keys of a batch (100 in the code)
    MaxLoads,   \* bound: loads in one behaviour
    MaxVersion, \* bound: changes of the table, per key
    Error,      \* what a load that fails returns
    Nothing     \* no value

ASSUME LoaderAssumption ==
    /\ MaxBatch \in Nat \ {0} /\ MaxLoads \in Nat /\ MaxVersion \in Nat
    /\ Nothing \notin Key \X (0..MaxVersion)

Batch == 1..MaxLoads

VARIABLES
    cache,   \* key -> value, for the keys that are cached
    batch,   \* the batch that collects keys; 0 if there is none
    keys,    \* the keys of each batch, in order
    closing, \* the flag of each batch that its limit was hit
    timer,   \* the goroutine of startTimer: "none", "asleep", "done"
    enders,  \* goroutines that are about to run end, for each batch
    closes,  \* how often done was closed, for each batch
    data,    \* what was fetched for each batch: its values or an error
    pc,      \* each resolver: "idle", "waiting" (in its thunk)
    key, place, \* the key it loads; its batch and its position there
    result,  \* what its last load returned
    table,   \* the version of the rows of each key
    loads    \* bound

vars == <<cache, batch, keys, closing, timer, enders, closes, data,
          pc, key, place, result, table, loads>>

Value == Key \X (0..MaxVersion)
NoPlace == <<0, 0>>

Init ==
    /\ cache = [k \in {} |-> Nothing]
    /\ batch = 0
    /\ keys = [b \in Batch |-> <<>>] /\ closing = [b \in Batch |-> FALSE]
    /\ timer = [b \in Batch |-> "none"]
    /\ enders = [b \in Batch |-> 0] /\ closes = [b \in Batch |-> 0]
    /\ data = [b \in Batch |-> <<>>]
    /\ pc = [p \in Proc |-> "idle"] /\ key = [p \in Proc |-> Nothing]
    /\ place = [p \in Proc |-> NoPlace] /\ result = [p \in Proc |-> Nothing]
    /\ table = [k \in Key |-> 0] /\ loads = 0

-----------------------------------------------------------------------------
(* Mutants: a key is always appended; its position is the one behind it.   *)
AppendAlways(ks, k) == Append(ks, k)
PositionBehind(ks, k) == (CHOOSE i \in DOMAIN ks : ks[i] = k) + 1

(* keyIndex: the key's position, appending it if the batch has it not.     *)
WithKey(ks, k) == IF \E i \in DOMAIN ks : ks[i] = k THEN ks ELSE Append(ks, k)
Position(ks, k) == CHOOSE i \in DOMAIN ks : ks[i] = k

(* Mutant: nobody ends the full batch.                                     *)
EndNobody(b) == UNCHANGED enders

Full(ks) == Len(ks) >= MaxBatch
GoEnd(b) == enders' = [enders EXCEPT ![b] = @ + 1]

(* The batch for the next key: the one that collects, or a new one, which  *)
(* has the number of the load that opens it.                               *)
Current == IF batch # 0 THEN batch ELSE loads + 1

(* LoadThunk: a cached value, or a place in a batch.  The first key starts *)
(* the batch's timer, the last one ends the batch.                         *)
LoadThunk(p, k) ==
    /\ pc[p] = "idle" /\ loads < MaxLoads
    /\ loads' = loads + 1
    /\ key' = [key EXCEPT ![p] = k]
    /\ \/ /\ k \in DOMAIN cache
          /\ result' = [result EXCEPT ![p] = cache[k]]
          /\ UNCHANGED <<batch, keys, closing, timer, enders, pc, place>>
       \/ /\ k \notin DOMAIN cache
          /\ LET b  == Current
                 ks == WithKey(keys[b], k)
             IN /\ keys' = [keys EXCEPT ![b] = ks]
                /\ timer' = [timer EXCEPT ![b] = IF keys[b] = <<>> THEN "asleep" ELSE @]
                /\ IF ks # keys[b] /\ Full(ks)
                   THEN batch' = 0 /\ closing' = [closing EXCEPT ![b] = TRUE] /\ GoEnd(b)
                   ELSE batch' = b /\ UNCHANGED <<closing, enders>>
                /\ place' = [place EXCEPT ![p] = <<b, Position(ks, k)>>]
          /\ pc' = [pc EXCEPT ![p] = "waiting"]
          /\ result' = [result EXCEPT ![p] = Nothing]
    /\ UNCHANGED <<cache, closes, data, table>>

(* Mutant: the timer does not look whether the batch is ended already.     *)
NotClosing(b) == TRUE

StillOpen(b) == ~ closing[b]

StartTimer(b) ==
    /\ timer[b] = "asleep"
    /\ timer' = [timer EXCEPT ![b] = "done"]
    /\ IF StillOpen(b) THEN batch' = 0 /\ enders' = [enders EXCEPT ![b] = @ + 1]
                       ELSE UNCHANGED <<batch, enders>>
    /\ UNCHANGED <<cache, keys, closing, closes, data, pc, key, place, result, table, loads>>

(* end: fetch, whose answer has the order of the keys, or one error.       *)
End(b) ==
    /\ enders[b] > 0
    /\ enders' = [enders EXCEPT ![b] = @ - 1]
    /\ closes' = [closes EXCEPT ![b] = @ + 1]
    /\ data' \in {[data EXCEPT ![b] = [i \in DOMAIN keys[b] |-> <<keys[b][i], table[keys[b][i]]>>]],
                  [data EXCEPT ![b] = Error]}
    /\ UNCHANGED <<cache, batch, keys, closing, timer, pc, key, place, result, table, loads>>

(* The thunk: wait for done, take the value at the position, cache it.     *)
Thunk(p) ==
    /\ pc[p] = "waiting"
    /\ LET b == place[p][1]
       IN /\ closes[b] > 0
          /\ IF data[b] = Error
             THEN result' = [result EXCEPT ![p] = Error] /\ UNCHANGED cache
             ELSE LET v == IF place[p][2] \in DOMAIN data[b] THEN data[b][place[p][2]]
                                                            ELSE Nothing
                  IN /\ result' = [result EXCEPT ![p] = v]
                     /\ cache' = [k \in DOMAIN cache \cup {key[p]} |->
                                    IF k = key[p] THEN v ELSE cache[k]]
    /\ pc' = [pc EXCEPT ![p] = "idle"]
    /\ place' = [place EXCEPT ![p] = NoPlace]
    /\ UNCHANGED <<batch, keys, closing, timer, enders, closes, data, key, table, loads>>

(* Another request changes the rows of a key.                              *)
Change(k) ==
    /\ table[k] < MaxVersion
    /\ table' = [table EXCEPT ![k] = @ + 1]
    /\ UNCHANGED <<cache, batch, keys, closing, timer, enders, closes, data,
                   pc, key, place, result, loads>>

Next ==
    \/ \E p \in Proc : Thunk(p) \/ \E k \in Key : LoadThunk(p, k)
    \/ \E b \in Batch : StartTimer(b) \/ End(b)
    \/ \E k \in Key : Change(k)

Spec == Init /\ [][Next]_vars

(* Timers end, fetches return and thunks are called; nothing has to be     *)
(* loaded or changed.                                                      *)
FairSpec ==
    /\ Spec
    /\ \A b \in Batch : WF_vars(StartTimer(b)) /\ WF_vars(End(b))
    /\ \A p \in Proc : WF_vars(Thunk(p))

-----------------------------------------------------------------------------
TypeOK ==
    /\ DOMAIN cache \subseteq Key
    /\ \A k \in DOMAIN cache : cache[k] \in Value
    /\ batch \in Batch \cup {0}
    /\ keys \in [Batch -> Seq(Key)]
    /\ closing \in [Batch -> BOOLEAN]
    /\ timer \in [Batch -> {"none", "asleep", "done"}]
    /\ enders \in [Batch -> Nat] /\ closes \in [Batch -> Nat]
    /\ data \in [Batch -> {Error} \cup Seq(Value)]
    /\ pc \in [Proc -> {"idle", "waiting"}]
    /\ key \in [Proc -> Key \cup {Nothing}]
    /\ place \in [Proc -> (Batch \X (1..MaxBatch)) \cup {NoPlace}]
    /\ result \in [Proc -> Value \cup {Nothing, Error}]
    /\ table \in [Key -> 0..MaxVersion]
    /\ loads \in 0..MaxLoads

(* A batch is fetched once and its channel closed once (a second close     *)
(* panics), whether its timer or its limit comes first or both at once.    *)
EndedOnce == \A b \in Batch : enders[b] + closes[b] <= 1

(* A fetched batch has got all its keys before: no key joins it, nor is    *)
(* one asked for twice, while or after it is fetched.                      *)
ClosedBatchStays ==
    [][\A b \in Batch : /\ enders[b] + closes[b] > 0 => keys'[b] = keys[b]
                        /\ \A i, j \in DOMAIN keys'[b] : keys'[b][i] = keys'[b][j] => i = j]_vars

(* Whatever shares its batch and however batches overlap, a load returns   *)
(* the rows of its own key, or an error; and so does the cache.            *)
OwnValue ==
    /\ \A p \in Proc : result[p] \in {Nothing, Error} \/ result[p][1] = key[p]
    /\ \A k \in DOMAIN cache : cache[k] # Nothing /\ cache[k][1] = k

(* Every load returns.                                                     *)
LoadsReturn == \A p \in Proc : pc[p] = "waiting" ~> pc[p] = "idle"
=============================================================================
