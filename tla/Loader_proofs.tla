----------------------------- MODULE Loader_proofs -----------------------------
(***************************************************************************)
(* What is proved of the data loaders, for any number of resolvers, keys   *)
(* and loads, any limit of a batch and any changes of the table.           *)
(***************************************************************************)
EXTENDS Loader, SequenceTheorems, TLAPS

(* A batch that no load has opened yet is untouched.                       *)
Untouched ==
    \A b \in Batch : b > loads =>
        /\ keys[b] = <<>> /\ timer[b] = "none" /\ ~ closing[b]
        /\ enders[b] = 0 /\ closes[b] = 0

(* The batch that collects keys has room for one more and its timer runs.  *)
Collecting ==
    batch # 0 =>
        /\ batch <= loads /\ Len(keys[batch]) < MaxBatch
        /\ timer[batch] = "asleep" /\ ~ closing[batch]

(* Whoever ends a batch leaves a trace that keeps the other from it.       *)
EndsLeaveTraces ==
    \A b \in Batch :
        /\ enders[b] + closes[b] > 0 => closing[b] \/ timer[b] = "done"
        /\ timer[b] = "asleep" /\ ~ closing[b] => batch = b

NoKeyTwice(ks) == \A i, j \in DOMAIN ks : ks[i] = ks[j] => i = j

(* The place of a load is that of its key, and so is what was fetched.     *)
PlacesFit ==
    \A p \in Proc : pc[p] = "waiting" =>
        /\ place[p][1] \in Batch
        /\ place[p][2] \in DOMAIN keys[place[p][1]]
        /\ keys[place[p][1]][place[p][2]] = key[p]
ValuesFit ==
    \A b \in Batch : closes[b] > 0 /\ data[b] # Error =>
        /\ DOMAIN data[b] = DOMAIN keys[b]
        /\ \A i \in DOMAIN keys[b] : data[b][i] \in Value /\ data[b][i][1] = keys[b][i]

IInv == /\ TypeOK /\ Untouched /\ Collecting /\ EndsLeaveTraces /\ EndedOnce
        /\ \A b \in Batch : NoKeyTwice(keys[b])
        /\ PlacesFit /\ ValuesFit /\ OwnValue

-----------------------------------------------------------------------------
(* keyIndex finds or appends the key and moves no other.                   *)
LEMMA KeyIndex ==
  ASSUME NEW ks \in Seq(Key), NEW k \in Key, NoKeyTwice(ks)
  PROVE  /\ WithKey(ks, k) \in Seq(Key) /\ NoKeyTwice(WithKey(ks, k))
         /\ Position(WithKey(ks, k), k) \in DOMAIN WithKey(ks, k)
         /\ WithKey(ks, k)[Position(WithKey(ks, k), k)] = k
         /\ \A i \in DOMAIN ks : i \in DOMAIN WithKey(ks, k) /\ WithKey(ks, k)[i] = ks[i]
         /\ Len(WithKey(ks, k)) <= Len(ks) + 1
         /\ WithKey(ks, k) = ks \/ Len(WithKey(ks, k)) = Len(ks) + 1
<1>1. CASE \E i \in DOMAIN ks : ks[i] = k
  <2>1. WithKey(ks, k) = ks
    BY <1>1 DEF WithKey
  <2>2. Position(ks, k) \in DOMAIN ks /\ ks[Position(ks, k)] = k
    BY <1>1 DEF Position
  <2> QED
    BY <2>1, <2>2
<1>2. CASE ~ \E i \in DOMAIN ks : ks[i] = k
  <2> DEFINE new == Append(ks, k)
  <2>1. WithKey(ks, k) = new
    BY <1>2 DEF WithKey
  <2>2. /\ new \in Seq(Key) /\ Len(new) = Len(ks) + 1 /\ new[Len(ks) + 1] = k
        /\ DOMAIN new = 1..(Len(ks) + 1) /\ DOMAIN ks = 1..Len(ks) /\ Len(ks) \in Nat
        /\ \A i \in DOMAIN ks : new[i] = ks[i]
    OBVIOUS
  <2>3. NoKeyTwice(new)
    BY <1>2, <2>2 DEF NoKeyTwice
  <2>4. \E i \in DOMAIN new : new[i] = k
    BY <2>2
  <2>5. Position(new, k) \in DOMAIN new /\ new[Position(new, k)] = k
    BY <2>4 DEF Position
  <2> QED
    BY <2>1, <2>2, <2>3, <2>5
<1> QED
  BY <1>1, <1>2

LEMMA InitInv == Init => IInv
<1> SUFFICES ASSUME Init PROVE IInv
  OBVIOUS
<1> USE LoaderAssumption
<1>1. TypeOK
  BY DEF Init, TypeOK, Batch, NoPlace, Value
<1>2. Untouched /\ Collecting /\ EndsLeaveTraces /\ EndedOnce
  BY DEF Init, Untouched, Collecting, EndsLeaveTraces, EndedOnce, Batch
<1>3. \A b \in Batch : NoKeyTwice(keys[b])
  BY DEF Init, NoKeyTwice
<1>4. PlacesFit /\ ValuesFit /\ OwnValue
  BY DEF Init, PlacesFit, ValuesFit, OwnValue
<1> QED
  BY <1>1, <1>2, <1>3, <1>4 DEF IInv

-----------------------------------------------------------------------------
(* The batch of the next key is one that nobody has ended, with room.      *)
LEMMA CurrentOpen ==
  ASSUME IInv, loads < MaxLoads
  PROVE  /\ Current \in Batch /\ Current <= loads + 1
         /\ ~ closing[Current] /\ timer[Current] # "done"
         /\ enders[Current] = 0 /\ closes[Current] = 0
         /\ Len(keys[Current]) < MaxBatch
         /\ keys[Current] = <<>> \/ timer[Current] = "asleep"
         /\ batch # 0 => Current = batch
         /\ batch = 0 => keys[Current] = <<>>
<1> USE LoaderAssumption DEF IInv
<1>1. CASE batch # 0
  <2>1. Current = batch /\ batch \in Batch
    BY <1>1 DEF Current, TypeOK
  <2>2. enders[batch] \in Nat /\ closes[batch] \in Nat /\ loads \in Nat
    BY <2>1 DEF TypeOK
  <2> QED
    BY <1>1, <2>1, <2>2 DEF Collecting, EndsLeaveTraces, Batch
<1>2. CASE batch = 0
  <2>1. Current = loads + 1 /\ Current \in Batch /\ Current > loads
    BY <1>2 DEF Current, TypeOK, Batch
  <2>2. Len(<<>>) = 0
    OBVIOUS
  <2> QED
    BY <1>2, <2>1, <2>2 DEF Untouched, TypeOK, Batch
<1> QED
  BY <1>1, <1>2

(* A load that finds its key in the cache.                                 *)
LEMMA CachedLoad ==
  ASSUME IInv, NEW p \in Proc, NEW k \in Key, LoadThunk(p, k), k \in DOMAIN cache
  PROVE  IInv'
<1> USE LoaderAssumption DEF IInv
<1>0. /\ pc[p] = "idle" /\ loads < MaxLoads /\ loads' = loads + 1
      /\ key' = [key EXCEPT ![p] = k] /\ result' = [result EXCEPT ![p] = cache[k]]
      /\ UNCHANGED <<cache, batch, keys, closing, timer, enders, closes, data, pc, place, table>>
  BY DEF LoadThunk
<1>1. TypeOK'
  BY <1>0 DEF TypeOK
<1>2. loads \in Nat
  BY DEF TypeOK
<1>3. Untouched' /\ Collecting' /\ EndsLeaveTraces' /\ EndedOnce' /\ ValuesFit'
  <2>1. Untouched'
    BY <1>0, <1>2 DEF Untouched, Batch
  <2>2. Collecting'
    BY <1>0, <1>2 DEF Collecting, TypeOK, Batch
  <2> QED
    BY <2>1, <2>2, <1>0 DEF EndsLeaveTraces, EndedOnce, ValuesFit
<1>4. \A b \in Batch : NoKeyTwice(keys'[b])
  BY <1>0
<1>5. PlacesFit'
  BY <1>0 DEF PlacesFit, TypeOK
<1>6. OwnValue'
  BY <1>0 DEF OwnValue, TypeOK
<1> QED
  BY <1>1, <1>3, <1>4, <1>5, <1>6

(* A load that takes a place in the batch that collects.                   *)
LEMMA BatchedLoad ==
  ASSUME IInv, NEW p \in Proc, NEW k \in Key, LoadThunk(p, k), k \notin DOMAIN cache
  PROVE  IInv'
<1> USE LoaderAssumption
<1> DEFINE b  == Current
           ks == WithKey(keys[b], k)
<1>0. /\ pc[p] = "idle" /\ loads < MaxLoads /\ loads' = loads + 1
      /\ key' = [key EXCEPT ![p] = k] /\ result' = [result EXCEPT ![p] = Nothing]
      /\ keys' = [keys EXCEPT ![b] = ks]
      /\ timer' = [timer EXCEPT ![b] = IF keys[b] = <<>> THEN "asleep" ELSE @]
      /\ place' = [place EXCEPT ![p] = <<b, Position(ks, k)>>]
      /\ pc' = [pc EXCEPT ![p] = "waiting"]
      /\ UNCHANGED <<cache, closes, data, table>>
  BY DEF LoadThunk
<1>1. \/ /\ ks # keys[b] /\ Len(ks) >= MaxBatch
         /\ batch' = 0 /\ closing' = [closing EXCEPT ![b] = TRUE]
         /\ enders' = [enders EXCEPT ![b] = @ + 1]
      \/ /\ ~ (ks # keys[b] /\ Len(ks) >= MaxBatch)
         /\ batch' = b /\ closing' = closing /\ enders' = enders
  BY DEF LoadThunk, Full, GoEnd
<1>2. /\ b \in Batch /\ b <= loads + 1 /\ ~ closing[b] /\ timer[b] # "done"
      /\ enders[b] = 0 /\ closes[b] = 0 /\ Len(keys[b]) < MaxBatch
      /\ keys[b] = <<>> \/ timer[b] = "asleep"
      /\ batch # 0 => b = batch
      /\ batch = 0 => keys[b] = <<>>
  BY <1>0, CurrentOpen
<1>3. /\ keys[b] \in Seq(Key) /\ NoKeyTwice(keys[b]) /\ loads \in Nat /\ loads' <= MaxLoads
      /\ TypeOK /\ Len(keys[b]) \in Nat
  BY <1>0, <1>2 DEF IInv, TypeOK
<1> HIDE DEF b
<1>4. /\ ks \in Seq(Key) /\ NoKeyTwice(ks)
      /\ Position(ks, k) \in DOMAIN ks /\ ks[Position(ks, k)] = k
      /\ \A i \in DOMAIN keys[b] : i \in DOMAIN ks /\ ks[i] = keys[b][i]
      /\ Len(ks) <= Len(keys[b]) + 1
      /\ ks = keys[b] \/ Len(ks) = Len(keys[b]) + 1
  BY <1>3, KeyIndex
<1> HIDE DEF ks
<1>5. Len(ks) \in Nat /\ DOMAIN ks = 1..Len(ks) /\ Len(ks) <= MaxBatch
  BY <1>2, <1>3, <1>4
<1>6. /\ \A c \in Batch : keys'[c] = IF c = b THEN ks ELSE keys[c]
      /\ timer'[b] = "asleep" /\ \A c \in Batch : c # b => timer'[c] = timer[c]
      /\ \A c \in Batch : c # b => closing'[c] = closing[c] /\ enders'[c] = enders[c]
  BY <1>0, <1>1, <1>2, <1>3 DEF TypeOK
<1>7. TypeOK'
  <2>1. <<b, Position(ks, k)>> \in Batch \X (1..MaxBatch)
    <3> DEFINE i == Position(ks, k)
    <3>1. i \in 1..Len(ks)
      BY <1>4, <1>5
    <3> HIDE DEF i
    <3>2. i \in 1..MaxBatch
      BY <3>1, <1>5
    <3> QED
      BY <3>2, <1>2 DEF i
  <2>2. place' \in [Proc -> (Batch \X (1..MaxBatch)) \cup {NoPlace}]
    <3>1. place \in [Proc -> (Batch \X (1..MaxBatch)) \cup {NoPlace}]
      BY <1>3 DEF TypeOK
    <3> QED
      BY <3>1, <2>1, <1>0
  <2>3. keys' \in [Batch -> Seq(Key)] /\ timer' \in [Batch -> {"none", "asleep", "done"}]
    BY <1>0, <1>3, <1>4 DEF TypeOK
  <2>4. /\ batch' \in Batch \cup {0} /\ closing' \in [Batch -> BOOLEAN]
        /\ enders' \in [Batch -> Nat]
    <3>1. /\ closing \in [Batch -> BOOLEAN] /\ enders \in [Batch -> Nat]
          /\ batch \in Batch \cup {0}
      BY <1>3 DEF TypeOK
    <3>2. [closing EXCEPT ![b] = TRUE] \in [Batch -> BOOLEAN]
      BY <3>1
    <3>3. [enders EXCEPT ![b] = @ + 1] \in [Batch -> Nat]
      BY <3>1, <1>2
    <3> QED
      BY <3>1, <3>2, <3>3, <1>1, <1>2
  <2>5. /\ pc' \in [Proc -> {"idle", "waiting"}] /\ key' \in [Proc -> Key \cup {Nothing}]
        /\ result' \in [Proc -> Value \cup {Nothing, Error}] /\ loads' \in 0..MaxLoads
    BY <1>0, <1>3 DEF TypeOK
  <2> QED
    BY <1>0, <1>3, <2>2, <2>3, <2>4, <2>5 DEF TypeOK
<1>8. Untouched'
  BY <1>0, <1>2, <1>3, <1>6 DEF IInv, Untouched, Batch
<1>9. Collecting'
  <2>1. CASE batch' = b
    <3>1. b # 0 /\ b <= loads'
      BY <1>0, <1>2 DEF Batch
    <3>2. Len(keys'[b]) < MaxBatch
      <4>1. CASE ks = keys[b]
        BY <4>1, <1>2, <1>6
      <4>2. CASE ks # keys[b]
        <5>1. ~ (Len(ks) >= MaxBatch)
          BY <1>1, <2>1, <3>1, <4>2
        <5> QED
          BY <5>1, <1>2, <1>5, <1>6
      <4> QED
        BY <4>1, <4>2
    <3>3. ~ closing'[b]
      BY <1>1, <1>2, <2>1, <3>1
    <3> QED
      BY <2>1, <3>1, <3>2, <3>3, <1>6 DEF Collecting
  <2>2. CASE batch' = 0
    BY <2>2 DEF Collecting
  <2> QED
    BY <1>1, <2>1, <2>2
<1>10. EndsLeaveTraces'
  <2> SUFFICES ASSUME NEW c \in Batch
               PROVE  /\ enders'[c] + closes'[c] > 0 => closing'[c] \/ timer'[c] = "done"
                      /\ timer'[c] = "asleep" /\ ~ closing'[c] => batch' = c
    BY DEF EndsLeaveTraces
  <2>1. CASE c = b
    BY <2>1, <1>0, <1>1, <1>2, <1>3 DEF TypeOK
  <2>2. CASE c # b
    <3>1. enders'[c] + closes'[c] > 0 => closing'[c] \/ timer'[c] = "done"
      BY <2>2, <1>0, <1>6 DEF IInv, EndsLeaveTraces
    <3>2. ~ (timer[c] = "asleep" /\ ~ closing[c])
      BY <2>2, <1>2 DEF IInv, EndsLeaveTraces, Batch
    <3> QED
      BY <2>2, <3>1, <3>2, <1>6
  <2> QED
    BY <2>1, <2>2
<1>11. EndedOnce'
  <2> SUFFICES ASSUME NEW c \in Batch PROVE enders'[c] + closes'[c] <= 1
    BY DEF EndedOnce
  <2>1. CASE c = b
    BY <2>1, <1>0, <1>1, <1>2, <1>3 DEF TypeOK
  <2>2. CASE c # b
    BY <2>2, <1>0, <1>6 DEF IInv, EndedOnce
  <2> QED
    BY <2>1, <2>2
<1>12. \A c \in Batch : NoKeyTwice(keys'[c])
  BY <1>4, <1>6 DEF IInv
<1>13. PlacesFit'
  <2> SUFFICES ASSUME NEW q \in Proc, pc'[q] = "waiting"
               PROVE  /\ place'[q][1] \in Batch
                      /\ place'[q][2] \in DOMAIN keys'[place'[q][1]]
                      /\ keys'[place'[q][1]][place'[q][2]] = key'[q]
    BY DEF PlacesFit
  <2>1. CASE q = p
    <3>1. place'[q] = <<b, Position(ks, k)>> /\ key'[q] = k
      BY <2>1, <1>0, <1>3 DEF TypeOK
    <3> QED
      BY <3>1, <1>2, <1>4, <1>6
  <2>2. CASE q # p
    <3>1. place'[q] = place[q] /\ key'[q] = key[q] /\ pc[q] = "waiting"
      BY <2>2, <1>0, <1>3 DEF TypeOK
    <3>2. /\ place[q][1] \in Batch
          /\ place[q][2] \in DOMAIN keys[place[q][1]]
          /\ keys[place[q][1]][place[q][2]] = key[q]
      BY <3>1 DEF IInv, PlacesFit
    <3> QED
      BY <3>1, <3>2, <1>4, <1>6
  <2> QED
    BY <2>1, <2>2
<1>14. ValuesFit'
  BY <1>0, <1>2, <1>6 DEF IInv, ValuesFit
<1>15. OwnValue'
  BY <1>0, <1>3 DEF IInv, OwnValue, TypeOK
<1> QED
  BY <1>7, <1>8, <1>9, <1>10, <1>11, <1>12, <1>13, <1>14, <1>15 DEF IInv

-----------------------------------------------------------------------------
(* The timer of a batch: it ends the batch only if it still collects.      *)
LEMMA TimerInv ==
  ASSUME IInv, NEW b \in Batch, StartTimer(b)
  PROVE  IInv'
<1> USE LoaderAssumption
<1>0. /\ timer[b] = "asleep" /\ timer' = [timer EXCEPT ![b] = "done"]
      /\ UNCHANGED <<cache, keys, closing, closes, data, pc, key, place, result, table, loads>>
  BY DEF StartTimer
<1>1. \/ ~ closing[b] /\ batch' = 0 /\ enders' = [enders EXCEPT ![b] = @ + 1]
      \/ closing[b] /\ batch' = batch /\ enders' = enders
  BY DEF StartTimer, StillOpen
<1>2. TypeOK /\ enders[b] \in Nat /\ closes[b] \in Nat /\ b <= loads
  <2>1. TypeOK /\ enders[b] \in Nat /\ closes[b] \in Nat
    BY DEF IInv, TypeOK
  <2>2. loads \in Nat /\ b \in Nat
    BY <2>1 DEF TypeOK, Batch
  <2>3. ~ (b > loads)
    BY <1>0 DEF IInv, Untouched
  <2> QED
    BY <2>1, <2>2, <2>3
<1>3. ~ closing[b] => batch = b /\ enders[b] = 0 /\ closes[b] = 0
  BY <1>0, <1>2 DEF IInv, EndsLeaveTraces
<1>4. closing[b] => batch # b
  BY DEF IInv, Collecting, Batch
<1>5. /\ timer'[b] = "done"
      /\ \A c \in Batch : c # b => timer'[c] = timer[c] /\ enders'[c] = enders[c]
  BY <1>0, <1>1, <1>2 DEF TypeOK
<1>6. TypeOK'
  <2>1. timer' \in [Batch -> {"none", "asleep", "done"}]
    BY <1>0, <1>2 DEF TypeOK
  <2>2. enders' \in [Batch -> Nat] /\ batch' \in Batch \cup {0}
    <3>1. [enders EXCEPT ![b] = @ + 1] \in [Batch -> Nat]
      BY <1>2 DEF TypeOK
    <3> QED
      BY <3>1, <1>1, <1>2 DEF TypeOK
  <2> QED
    BY <2>1, <2>2, <1>0, <1>2 DEF TypeOK
<1>7. Untouched'
  BY <1>0, <1>2, <1>5 DEF IInv, Untouched, Batch, TypeOK
<1>8. Collecting'
  <2>1. CASE closing[b]
    BY <2>1, <1>0, <1>1, <1>2, <1>4, <1>5 DEF IInv, Collecting, TypeOK
  <2>2. CASE ~ closing[b]
    BY <2>2, <1>1 DEF Collecting
  <2> QED
    BY <2>1, <2>2
<1>9. EndsLeaveTraces'
  <2> SUFFICES ASSUME NEW c \in Batch
               PROVE  /\ enders'[c] + closes'[c] > 0 => closing'[c] \/ timer'[c] = "done"
                      /\ timer'[c] = "asleep" /\ ~ closing'[c] => batch' = c
    BY DEF EndsLeaveTraces
  <2>1. CASE c = b
    BY <2>1, <1>5
  <2>2. CASE c # b
    BY <2>2, <1>0, <1>1, <1>3, <1>5 DEF IInv, EndsLeaveTraces
  <2> QED
    BY <2>1, <2>2
<1>10. EndedOnce'
  <2> SUFFICES ASSUME NEW c \in Batch PROVE enders'[c] + closes'[c] <= 1
    BY DEF EndedOnce
  <2>1. CASE c = b /\ ~ closing[b]
    BY <2>1, <1>0, <1>1, <1>2, <1>3 DEF TypeOK
  <2>2. CASE c # b \/ closing[b]
    BY <2>2, <1>0, <1>1, <1>5 DEF IInv, EndedOnce
  <2> QED
    BY <2>1, <2>2
<1>11. PlacesFit' /\ ValuesFit' /\ OwnValue' /\ \A c \in Batch : NoKeyTwice(keys'[c])
  BY <1>0 DEF IInv, PlacesFit, ValuesFit, OwnValue
<1> QED
  BY <1>6, <1>7, <1>8, <1>9, <1>10, <1>11 DEF IInv

(* The fetch of an ended batch: its values have the order of its keys.     *)
LEMMA EndInv ==
  ASSUME IInv, NEW b \in Batch, End(b)
  PROVE  IInv'
<1> USE LoaderAssumption
<1> DEFINE rows == [i \in DOMAIN keys[b] |-> <<keys[b][i], table[keys[b][i]]>>]
<1>0. /\ enders[b] > 0
      /\ enders' = [enders EXCEPT ![b] = @ - 1] /\ closes' = [closes EXCEPT ![b] = @ + 1]
      /\ data' = [data EXCEPT ![b] = rows] \/ data' = [data EXCEPT ![b] = Error]
      /\ UNCHANGED <<cache, batch, keys, closing, timer, pc, key, place, result, table, loads>>
  BY DEF End
<1>1. TypeOK
  BY DEF IInv
<1>2. /\ enders[b] \in Nat /\ closes[b] \in Nat /\ keys[b] \in Seq(Key)
      /\ DOMAIN keys[b] = 1..Len(keys[b]) /\ Len(keys[b]) \in Nat
  BY <1>1 DEF TypeOK
<1>3. /\ DOMAIN rows = DOMAIN keys[b]
      /\ \A i \in DOMAIN keys[b] : rows[i] \in Value /\ rows[i][1] = keys[b][i]
  <2>1. \A i \in DOMAIN keys[b] : keys[b][i] \in Key
    BY <1>2
  <2> QED
    BY <2>1, <1>1 DEF TypeOK, Value
<1>4. rows \in Seq(Value)
  <2>1. rows \in [1..Len(keys[b]) -> Value]
    BY <1>2, <1>3
  <2> HIDE DEF rows
  <2> QED
    BY <2>1, <1>2, SMT
<1> HIDE DEF rows
<1>5. /\ enders'[b] = enders[b] - 1 /\ closes'[b] = closes[b] + 1
      /\ data'[b] \in {rows, Error}
      /\ \A c \in Batch : c # b => /\ enders'[c] = enders[c] /\ closes'[c] = closes[c]
                                   /\ data'[c] = data[c]
  BY <1>0, <1>1 DEF TypeOK
<1>6. TypeOK'
  <2>1. enders' \in [Batch -> Nat] /\ closes' \in [Batch -> Nat]
    BY <1>0, <1>1, <1>2 DEF TypeOK
  <2>2. data' \in [Batch -> {Error} \cup Seq(Value)]
    BY <1>0, <1>1, <1>4 DEF TypeOK
  <2> QED
    BY <2>1, <2>2, <1>0, <1>1 DEF TypeOK
<1>7. Untouched'
  BY <1>0, <1>5 DEF IInv, Untouched
<1>8. Collecting'
  BY <1>0 DEF IInv, Collecting
<1>9. EndsLeaveTraces' /\ EndedOnce'
  BY <1>0, <1>2, <1>5 DEF IInv, EndsLeaveTraces, EndedOnce
<1>10. ValuesFit'
  BY <1>0, <1>3, <1>5 DEF IInv, ValuesFit
<1>11. PlacesFit' /\ OwnValue' /\ \A c \in Batch : NoKeyTwice(keys'[c])
  BY <1>0 DEF IInv, PlacesFit, OwnValue
<1> QED
  BY <1>6, <1>7, <1>8, <1>9, <1>10, <1>11 DEF IInv

(* A thunk takes the value at its place, which is that of its key.         *)
LEMMA ThunkInv ==
  ASSUME IInv, NEW p \in Proc, Thunk(p)
  PROVE  IInv'
<1> USE LoaderAssumption
<1> DEFINE b == place[p][1]
           v == data[b][place[p][2]]
<1>0. /\ pc[p] = "waiting" /\ closes[b] > 0
      /\ pc' = [pc EXCEPT ![p] = "idle"] /\ place' = [place EXCEPT ![p] = NoPlace]
      /\ UNCHANGED <<batch, keys, closing, timer, enders, closes, data, key, table, loads>>
  BY DEF Thunk
<1>1. TypeOK
  BY DEF IInv
<1>2. /\ b \in Batch /\ place[p][2] \in DOMAIN keys[b] /\ keys[b][place[p][2]] = key[p]
      /\ keys[b] \in Seq(Key) /\ key[p] \in Key
  <2>1. b \in Batch /\ place[p][2] \in DOMAIN keys[b] /\ keys[b][place[p][2]] = key[p]
    BY <1>0 DEF IInv, PlacesFit
  <2>2. keys[b] \in Seq(Key)
    BY <2>1, <1>1 DEF TypeOK
  <2> QED
    BY <2>1, <2>2
<1>3. \/ result' = [result EXCEPT ![p] = Error] /\ cache' = cache
      \/ /\ v \in Value /\ v # Nothing /\ v[1] = key[p]
         /\ result' = [result EXCEPT ![p] = v]
         /\ cache' = [k \in DOMAIN cache \cup {key[p]} |-> IF k = key[p] THEN v ELSE cache[k]]
  <2>1. CASE data[b] = Error
    BY <2>1 DEF Thunk
  <2>2. CASE data[b] # Error
    <3>1. DOMAIN data[b] = DOMAIN keys[b] /\ v \in Value /\ v[1] = key[p]
      BY <2>2, <1>0, <1>2 DEF IInv, ValuesFit
    <3>2. v # Nothing
      BY <3>1 DEF Value
    <3> QED
      BY <2>2, <3>1, <3>2, <1>2 DEF Thunk
  <2> QED
    BY <2>1, <2>2
<1> HIDE DEF v, b
<1>4. /\ DOMAIN cache' \subseteq Key
      /\ \A k \in DOMAIN cache' : cache'[k] \in Value /\ cache'[k] # Nothing /\ cache'[k][1] = k
  <2>1. /\ DOMAIN cache \subseteq Key
        /\ \A k \in DOMAIN cache : cache[k] \in Value /\ cache[k] # Nothing /\ cache[k][1] = k
    BY DEF IInv, TypeOK, OwnValue
  <2>2. CASE cache' = cache
    BY <2>1, <2>2
  <2>3. CASE /\ v \in Value /\ v # Nothing /\ v[1] = key[p]
             /\ cache' = [k \in DOMAIN cache \cup {key[p]} |-> IF k = key[p] THEN v ELSE cache[k]]
    BY <2>1, <2>3, <1>2
  <2> QED
    BY <2>2, <2>3, <1>3
<1>5. /\ result' \in [Proc -> Value \cup {Nothing, Error}]
      /\ result'[p] = Error \/ result'[p][1] = key[p]
      /\ \A q \in Proc : q # p => result'[q] = result[q] /\ pc'[q] = pc[q] /\ place'[q] = place[q]
      /\ pc'[p] = "idle"
  BY <1>0, <1>1, <1>3 DEF TypeOK
<1>6. TypeOK'
  <2>1. /\ pc' \in [Proc -> {"idle", "waiting"}]
        /\ place' \in [Proc -> (Batch \X (1..MaxBatch)) \cup {NoPlace}]
    BY <1>0, <1>1 DEF TypeOK
  <2> QED
    BY <2>1, <1>0, <1>1, <1>4, <1>5 DEF TypeOK
<1>7. /\ Untouched' /\ Collecting' /\ EndsLeaveTraces' /\ EndedOnce' /\ ValuesFit'
      /\ \A c \in Batch : NoKeyTwice(keys'[c])
  BY <1>0 DEF IInv, Untouched, Collecting, EndsLeaveTraces, EndedOnce, ValuesFit
<1>8. PlacesFit'
  BY <1>0, <1>5 DEF IInv, PlacesFit
<1>9. OwnValue'
  BY <1>0, <1>4, <1>5 DEF IInv, OwnValue
<1> QED
  BY <1>6, <1>7, <1>8, <1>9 DEF IInv

(* Every step keeps the invariant.                                         *)
LEMMA NextInv == IInv /\ [Next]_vars => IInv'
<1> SUFFICES ASSUME IInv, [Next]_vars PROVE IInv'
  OBVIOUS
<1>1. ASSUME NEW p \in Proc, Thunk(p) PROVE IInv'
  BY <1>1, ThunkInv
<1>2. ASSUME NEW p \in Proc, NEW k \in Key, LoadThunk(p, k) PROVE IInv'
  BY <1>2, CachedLoad, BatchedLoad
<1>3. ASSUME NEW b \in Batch, StartTimer(b) PROVE IInv'
  BY <1>3, TimerInv
<1>4. ASSUME NEW b \in Batch, End(b) PROVE IInv'
  BY <1>4, EndInv
<1>5. ASSUME NEW k \in Key, Change(k) PROVE IInv'
  <2>1. TypeOK'
    BY <1>5, LoaderAssumption DEF Change, IInv, TypeOK
  <2> QED
    BY <1>5, <2>1 DEF Change, IInv, Untouched, Collecting, EndsLeaveTraces, EndedOnce,
                      PlacesFit, ValuesFit, OwnValue
<1>6. CASE UNCHANGED vars
  BY <1>6 DEF vars, IInv, TypeOK, Untouched, Collecting, EndsLeaveTraces, EndedOnce,
              PlacesFit, ValuesFit, OwnValue
<1> QED
  BY <1>1, <1>2, <1>3, <1>4, <1>5, <1>6 DEF Next

LEMMA Invariant == Spec => []IInv
<1> QED
  BY InitInv, NextInv, PTL DEF Spec

-----------------------------------------------------------------------------
(* Batches, places, cache and results keep their types; a place lies       *)
(* within the limit of a batch.                                            *)
THEOREM TypeCorrect == Spec => []TypeOK
<1>1. IInv => TypeOK
  BY DEF IInv
<1> QED
  BY <1>1, Invariant, PTL

(* However the timer of a batch and the load that fills it race, end runs  *)
(* once for it: its channel is never closed twice.                         *)
THEOREM BatchesEndOnce == Spec => []EndedOnce
<1>1. IInv => EndedOnce
  BY DEF IInv
<1> QED
  BY <1>1, Invariant, PTL

(* A load returns the rows of the key it asked for, or an error, and the   *)
(* cache holds under each key the rows of that key.                        *)
THEOREM LoadsGetOwnValue == Spec => []OwnValue
<1>1. IInv => OwnValue
  BY DEF IInv
<1> QED
  BY <1>1, Invariant, PTL

(* No key joins a batch that is being fetched, and no batch asks for one   *)
(* key twice.                                                              *)
THEOREM BatchesStay == Spec => ClosedBatchStays
<1> DEFINE Stays == \A b \in Batch :
                      /\ enders[b] + closes[b] > 0 => keys'[b] = keys[b]
                      /\ \A i, j \in DOMAIN keys'[b] : keys'[b][i] = keys'[b][j] => i = j
<1>1. ASSUME IInv, IInv', [Next]_vars PROVE [Stays]_vars
  <2>1. ASSUME NEW b \in Batch
        PROVE  \A i, j \in DOMAIN keys'[b] : keys'[b][i] = keys'[b][j] => i = j
    BY <1>1 DEF IInv, NoKeyTwice
  <2>2. ASSUME NEW b \in Batch, enders[b] + closes[b] > 0, ~ UNCHANGED vars
        PROVE  keys'[b] = keys[b]
    <3>1. ASSUME NEW p \in Proc, NEW k \in Key, LoadThunk(p, k) PROVE keys'[b] = keys[b]
      <4>1. CASE k \in DOMAIN cache
        BY <3>1, <4>1 DEF LoadThunk
      <4>2. CASE k \notin DOMAIN cache
        <5>1. /\ loads < MaxLoads
              /\ keys' = [keys EXCEPT ![Current] = WithKey(keys[Current], k)]
          BY <3>1, <4>2 DEF LoadThunk
        <5>2. enders[Current] = 0 /\ closes[Current] = 0
          BY <5>1, <1>1, CurrentOpen
        <5> QED
          BY <5>1, <5>2, <2>2, <1>1 DEF IInv, TypeOK
      <4> QED
        BY <4>1, <4>2
    <3>2. (~ \E p \in Proc, k \in Key : LoadThunk(p, k)) => keys' = keys
      BY <1>1, <2>2 DEF Next, Thunk, StartTimer, End, Change
    <3> QED
      BY <3>1, <3>2
  <2> QED
    BY <2>1, <2>2
<1> QED
  BY <1>1, Invariant, PTL DEF Spec, ClosedBatchStays

=============================================================================
