--------------------------- MODULE Execution_proofs ---------------------------
(***************************************************************************)
(* What module Execution says of every operation, for all documents, any   *)
(* number of operations and any selection.  The inductive invariant has    *)
(* three layers:                                                           *)
(*   Shape, ValuesFit      a list was true at some moment of its request   *)
(*                           => ListsWereTrue                              *)
(*   Ordered, Led          the fields of a mutation are run in turn        *)
(*                           => MutationsGoInOrder                         *)
(*   HistoryFits, FieldsTyped, RootsFit                                    *)
(*                         a root field is as far as its calls have come   *)
(*                           => StatesAreTyped, MutationsDoAsGiven         *)
(***************************************************************************)
EXTENDS Execution, FiniteSetTheorems, TLAPS

-----------------------------------------------------------------------------
(* The inductive invariant, in parts.                                      *)

(* Paths, and the root field that a path leads through.                    *)
IsPath(p) == Len(p) \in Nat \ {0, 1} /\ p = [i \in 1..Len(p) |-> p[i]]
Top(p) == <<p[1], p[2]>>
GrowsBy(q, p, id, f) == q = p \o <<id, f>>

IsField(n) == n = [st |-> n.st, type |-> n.type, loader |-> n.loader, sel |-> n.sel,
                   calls |-> n.calls, ids |-> n.ids, at |-> n.at]

(* A field is run for an operation that has begun; one that asks a loader  *)
(* belongs to a root field that is shown.                                  *)
Stands(p) ==
    /\ IsPath(p) /\ p[1] \in Op /\ since[p[1]] > 0
    /\ IsField(node[p]) /\ node[p].at \in 0..Now
    /\ IF Len(p) = 2
       THEN node[p].loader = "none" /\ node[p].st \in {"running", "done", "null"}
       ELSE /\ node[p].loader # "none"
            /\ node[p].st \in {"asked", "waiting", "fetched", "done", "null"}
            /\ Top(p) \in DOMAIN node /\ node[Top(p)].st = "done"

Shape ==
    /\ doc \in Documents
    /\ since \in [Op -> 0..Now]
    /\ hist \in Seq(ToSet(hist)) /\ hist # <<>>
    /\ node = [p \in DOMAIN node |-> node[p]]
    /\ \A p \in DOMAIN node : Stands(p)

(* What is fetched is what the database had since an operation of the      *)
(* request began.                                                          *)
WasTrue(request, loader, key, ids, at) ==
    \E o \in Op : /\ RequestOf(o) = request /\ since[o] > 0
                  /\ at \in since[o]..Now /\ Rows(loader, key, hist[at]) = ids

ValueFits(p) ==
    IF node[p].st \in {"fetched", "done"}
    THEN WasTrue(RequestOf(p[1]), node[p].loader, Key(p), node[p].ids, node[p].at)
    ELSE node[p].ids = {}

ValuesFit ==
    /\ \A p \in DOMAIN node : Len(p) > 2 => ValueFits(p)
    /\ \A s \in DOMAIN cache : WasTrue(s[1], s[2], s[3], cache[s].ids, cache[s].at)

(* An operation has run its first fields; those of a mutation that are     *)
(* before another are finished, and nothing below them is newer than it.   *)
RootsAreFirst(o) ==
    \E n \in Nat \ {0} : Roots(o) = {<<o, i>> : i \in 1..n}
InTurn(o) == doc[o].mutation =>
    \A q, r \in DOMAIN node : q[1] = o /\ r \in Roots(o) /\ r[2] > q[2] =>
        /\ node[q].st \in {"done", "null"}
        /\ node[r].st = "done" => node[q].at <= node[r].at
Ordered ==
    \A o \in Op : since[o] > 0 => RootsAreFirst(o) /\ InTurn(o)

(* Until the first field of a mutation is done its loaders were not asked; *)
(* what they know later is from later.                                     *)
BeforeFirst(o) == since[o] = 0 \/ node[<<o, 1>>].st = "running"
AfterFirst(o)  == since[o] > 0 /\ node[<<o, 1>>].st = "done"
NodesLead(o) ==
    /\ BeforeFirst(o) => \A p \in DOMAIN node : p[1] = o => Len(p) = 2
    /\ AfterFirst(o) =>
         \A p \in DOMAIN node : p[1] = o /\ Len(p) # 2 /\ node[p].st \in {"fetched", "done"} =>
            node[p].at >= node[<<o, 1>>].at
CacheLeads(o) ==
    /\ BeforeFirst(o) => \A s \in DOMAIN cache : s[1] # RequestOf(o)
    /\ AfterFirst(o) =>
         \A s \in DOMAIN cache : s[1] = RequestOf(o) => cache[s].at >= node[<<o, 1>>].at
Led ==
    \A o \in Op : doc[o].mutation /\ IsAlone(o) => NodesLead(o) /\ CacheLeads(o)

-----------------------------------------------------------------------------
(* Paths.                                                                  *)
LEMMA PathIsSequence ==
  ASSUME NEW p, IsPath(p)
  PROVE  p \in Seq(ToSet(p)) /\ DOMAIN p = 1..Len(p) /\ 1 \in DOMAIN p /\ 2 \in DOMAIN p
<1>1. DOMAIN p = 1..Len(p)
  BY DEF IsPath
<1>2. p \in [1..Len(p) -> ToSet(p)]
  BY <1>1 DEF IsPath, ToSet
<1> QED
  BY <1>1, <1>2 DEF IsPath

LEMMA PathGrows ==
  ASSUME NEW p, IsPath(p), NEW id, NEW f, NEW q, GrowsBy(q, p, id, f)
  PROVE  /\ IsPath(q) /\ Len(q) = Len(p) + 2 /\ q[1] = p[1] /\ q[2] = p[2]
         /\ Key(q) = id /\ q[Len(q)] = f /\ Top(q) = Top(p) /\ q # p
<1> DEFINE S == ToSet(p) \cup {id, f}
<1>1. p \in Seq(S) /\ <<id, f>> \in Seq(S) /\ Len(<<id, f>>) = 2
  BY PathIsSequence
<1>2. Len(p) \in Nat /\ Len(p) >= 2
  BY DEF IsPath
<1> HIDE DEF S
<1>3. q \in Seq(S) /\ Len(q) = Len(p) + 2
  BY <1>1 DEF GrowsBy
<1>4. /\ \A i \in 1..Len(p) : q[i] = p[i]
      /\ q[Len(p) + 1] = id /\ q[Len(p) + 2] = f
  BY <1>1, <1>2 DEF GrowsBy
<1>5. q[1] = p[1] /\ q[2] = p[2] /\ Key(q) = id /\ q[Len(q)] = f
  BY <1>2, <1>3, <1>4 DEF Key
<1>6. IsPath(q)
  BY <1>2, <1>3 DEF IsPath
<1> QED
  BY <1>2, <1>3, <1>5, <1>6 DEF Top

(* The fields below a root field are those that lead through it.           *)
LEMMA BelowARoot ==
  ASSUME NEW p, IsPath(p), Len(p) = 2, NEW q, IsPath(q)
  PROVE  /\ p = Top(p)
         /\ (Len(q) >= Len(p) /\ SubSeq(q, 1, Len(p)) = p) <=> Top(q) = p
<1>1. p = Top(p)
  BY PathIsSequence DEF Top, IsPath
<1>2. q \in Seq(ToSet(q))
  BY PathIsSequence
<1>3. Len(q) \in Nat /\ Len(q) >= 2
  BY DEF IsPath
<1>4. SubSeq(q, 1, 2) = <<q[1], q[2]>>
  <2>1. PICK S : q \in Seq(S)
    BY <1>2
  <2>2. PICK t : t = SubSeq(q, 1, 2)
    OBVIOUS
  <2>3. t \in Seq(S) /\ Len(t) = 2 /\ t[1] = q[1] /\ t[2] = q[2]
    BY <1>3, <2>1, <2>2
  <2>4. t = <<t[1], t[2]>>
    BY <2>3
  <2> QED
    BY <2>2, <2>3, <2>4
<1> QED
  BY <1>1, <1>3, <1>4 DEF Top

-----------------------------------------------------------------------------
(* What the steps do to the tree.                                          *)

(* A field that asks a loader for an object of p.                          *)
IsChild(q, n, p, ids) ==
    \E id \in ids, f \in DOMAIN node[p].sel \cap DOMAIN Fields[node[p].type] :
       /\ GrowsBy(q, p, id, f) /\ Fields[node[p].type][f].loader # "none"
       /\ n = Field("asked", Fields[node[p].type][f].type, Fields[node[p].type][f].loader,
                    node[p].sel[f], <<>>)

LEMMA ChildrenAre ==
  ASSUME NEW p, IsPath(p), NEW ids, NEW q \in DOMAIN Children(p, ids)
  PROVE  IsChild(q, Children(p, ids)[q], p, ids)
<1> DEFINE fs == {f \in DOMAIN node[p].sel \cap DOMAIN Fields[node[p].type] :
                    Fields[node[p].type][f].loader # "none"}
           new(f) == Field("asked", Fields[node[p].type][f].type,
                           Fields[node[p].type][f].loader, node[p].sel[f], <<>>)
<1> DEFINE paths == {p \o step : step \in ids \X fs}
<1>1. DOMAIN Children(p, ids) = paths /\ \A x \in paths : Children(p, ids)[x] = new(x[Len(x)])
  BY DEF Children
<1>2. PICK id \in ids, f \in fs : GrowsBy(q, p, id, f)
  <2>1. q \in paths
    BY <1>1
  <2>2. PICK step \in ids \X fs : q = p \o step
    BY <2>1
  <2>3. step = <<step[1], step[2]>> /\ step[1] \in ids /\ step[2] \in fs
    BY <2>2
  <2> QED
    BY <2>2, <2>3 DEF GrowsBy
<1>3. q[Len(q)] = f
  BY <1>2, PathGrows
<1>4. Children(p, ids)[q] = new(f)
  <2> HIDE DEF new
  <2> QED
    BY <1>1, <1>3
<1> QED
  BY <1>2, <1>4 DEF IsChild, new

LEMMA DeliveredIs ==
  ASSUME node = [q \in DOMAIN node |-> node[q]], NEW p \in DOMAIN node,
         IsPath(p), IsField(node[p]), NEW ids, NEW at, NEW new, new = Delivered(p, ids, at)
  PROVE  /\ new = [q \in DOMAIN new |-> new[q]] /\ DOMAIN node \subseteq DOMAIN new
         /\ new[p] = [st |-> "done", type |-> node[p].type, loader |-> node[p].loader,
                      sel |-> node[p].sel, calls |-> <<>>, ids |-> ids, at |-> at]
         /\ \A q \in DOMAIN node \ {p} : new[q] = node[q]
         /\ \A q \in DOMAIN new \ DOMAIN node : IsChild(q, new[q], p, ids)
<1> DEFINE one == [node EXCEPT ![p].st = "done", ![p].ids = ids, ![p].at = at,
                               ![p].calls = <<>>]
<1>1. PICK children : children = Children(p, ids)
  OBVIOUS
<1>2. /\ DOMAIN one = DOMAIN node
      /\ one[p] = [st |-> "done", type |-> node[p].type, loader |-> node[p].loader,
                   sel |-> node[p].sel, calls |-> <<>>, ids |-> ids, at |-> at]
      /\ \A q \in DOMAIN node \ {p} : one[q] = node[q]
  BY DEF IsField
<1> HIDE DEF one
<1>3. new = [q \in DOMAIN node \cup DOMAIN children |->
               IF q \in DOMAIN node THEN one[q] ELSE children[q]]
  BY <1>1, <1>2 DEF Delivered, Extended, one
<1>4. ASSUME NEW q \in DOMAIN new \ DOMAIN node
      PROVE  IsChild(q, new[q], p, ids)
  <2>1. q \in DOMAIN children /\ new[q] = children[q]
    BY <1>3
  <2> QED
    BY <1>1, <2>1, ChildrenAre
<1> QED
  BY <1>2, <1>3, <1>4

LEMMA NulledIs ==
  ASSUME node = [q \in DOMAIN node |-> node[q]], NEW p \in DOMAIN node, IsField(node[p]),
         NEW new, new = Nulled(p)
  PROVE  /\ new = [q \in DOMAIN new |-> new[q]] /\ DOMAIN new = DOMAIN node
         /\ new[p] = [st |-> "null", type |-> node[p].type, loader |-> node[p].loader,
                      sel |-> node[p].sel, calls |-> <<>>, ids |-> node[p].ids,
                      at |-> node[p].at]
         /\ \A q \in DOMAIN node \ {p} : new[q] = node[q]
BY DEF Nulled, IsField

-----------------------------------------------------------------------------
(* What every step keeps: documents, what the database was, when an        *)
(* operation began, and the fields that are done or null.                  *)
HistoryGrows ==
    /\ hist' \in Seq(ToSet(hist')) /\ Len(hist) <= Len(hist')
    /\ \A i \in 1..Len(hist) : hist'[i] = hist[i]
SinceStays ==
    since' \in [Op -> 0..Len(hist')] /\ \A o \in Op : since[o] > 0 => since'[o] = since[o]
NodesStay ==
    /\ node' = [q \in DOMAIN node' |-> node'[q]] /\ DOMAIN node \subseteq DOMAIN node'
    /\ \A q \in DOMAIN node :
          /\ node[q].st \in {"done", "null"} => node'[q] = node[q]
          /\ node'[q].type = node[q].type /\ node'[q].loader = node[q].loader
Kept == doc' = doc /\ HistoryGrows /\ SinceStays /\ NodesStay

LEMMA NowIs ==
  ASSUME Shape
  PROVE  /\ Now \in Nat \ {0} /\ hist \in Seq(ToSet(hist)) /\ DOMAIN hist = 1..Now
         /\ \A i \in DOMAIN hist : hist[i] \in ToSet(hist)
BY DEF Shape, Now, ToSet

LEMMA HistoryStays ==
  ASSUME Shape, hist' = hist
  PROVE  HistoryGrows
BY NowIs DEF HistoryGrows, Now

LEMMA HistoryAppended ==
  ASSUME Shape, NEW d, hist' = Append(hist, d)
  PROVE  HistoryGrows /\ Len(hist') = Now + 1 /\ hist'[Len(hist')] = d
<1>1. PICK S : S = ToSet(hist) \cup {d}
  OBVIOUS
<1>2. hist \in Seq(S) /\ d \in S /\ Len(hist) = Now /\ Now \in Nat
  BY <1>1, NowIs DEF Now
<1>3. /\ hist' \in Seq(S) /\ Len(hist') = Now + 1 /\ hist'[Len(hist')] = d
      /\ \A i \in 1..Len(hist) : hist'[i] = hist[i]
  BY <1>2
<1>4. hist' \in Seq(ToSet(hist'))
  <2>1. PICK h : h = hist'
    OBVIOUS
  <2>2. h \in Seq(S)
    BY <1>3, <2>1
  <2>3. h \in Seq(ToSet(h))
    BY <2>2 DEF ToSet
  <2> QED
    BY <2>1, <2>3 DEF ToSet
<1> QED
  BY <1>2, <1>3, <1>4 DEF HistoryGrows

LEMMA HistoryCommitted ==
  ASSUME Shape, NEW d, hist' = Committed(d)
  PROVE  HistoryGrows /\ hist'[Len(hist')] = d /\ Len(hist') \in {Now, Now + 1}
<1>1. CASE d = Db
  BY <1>1, NowIs, HistoryStays DEF Committed, Db, Now
<1>2. CASE d # Db
  BY <1>2, HistoryAppended DEF Committed
<1> QED
  BY <1>1, <1>2

LEMMA SinceUnchanged ==
  ASSUME Shape, since' = since, HistoryGrows
  PROVE  SinceStays
<1>1. Len(hist') \in Nat
  BY DEF HistoryGrows
<1> QED
  BY <1>1, NowIs DEF SinceStays, Shape, HistoryGrows, Now

LEMMA StandsStays ==
  ASSUME Shape, Kept, NEW q \in DOMAIN node, IsField(node'[q]), node'[q].at \in 0..Len(hist'),
         Len(q) = 2 => node'[q].st \in {"running", "done", "null"},
         Len(q) # 2 => node'[q].st \in {"asked", "waiting", "fetched", "done", "null"}
  PROVE  Stands(q)'
<1>1. Stands(q)
  BY DEF Shape
<1>2. q[1] \in Op /\ since'[q[1]] > 0
  BY <1>1 DEF Stands, Kept, SinceStays
<1>3. Len(q) # 2 => node[Top(q)].st = "done" /\ Top(q) \in DOMAIN node
  BY <1>1 DEF Stands
<1>4. Len(q) # 2 => node'[Top(q)].st = "done" /\ Top(q) \in DOMAIN node'
  BY <1>3 DEF Kept, NodesStay
<1> QED
  BY <1>1, <1>2, <1>4 DEF Stands, Now, Kept, NodesStay

LEMMA OldStands ==
  ASSUME Shape, Kept, NEW q \in DOMAIN node, node'[q] = node[q]
  PROVE  Stands(q)'
<1>1. Stands(q)
  BY DEF Shape
<1>2. node'[q].at \in 0..Len(hist')
  BY <1>1, NowIs DEF Stands, Kept, HistoryGrows, Now
<1> QED
  BY <1>1, <1>2, StandsStays DEF Stands

(* The ways in which a step changes the tree: it adds roots, a field is    *)
(* delivered, or some fields change where they stand.                      *)
AddsRoots(o, d, is) ==
    /\ DOMAIN node' = DOMAIN node \cup {<<o, i>> : i \in is}
    /\ \A q \in DOMAIN node : node'[q] = node[q]
    /\ \A q \in DOMAIN node' \ DOMAIN node :
          \E i \in is : q = <<o, i>> /\ node'[q] = NewRoot(d, i)

Delivers(p, ids, at) ==
    /\ node'[p] = [st |-> "done", type |-> node[p].type, loader |-> node[p].loader,
                   sel |-> node[p].sel, calls |-> <<>>, ids |-> ids, at |-> at]
    /\ \A q \in DOMAIN node \ {p} : node'[q] = node[q]
    /\ \A q \in DOMAIN node' \ DOMAIN node : IsChild(q, node'[q], p, ids)

Moves(fs) ==
    /\ DOMAIN node' = DOMAIN node
    /\ \A q \in DOMAIN node \ fs : node'[q] = node[q]
    /\ \A q \in fs :
          /\ node[q].st \notin {"done", "null"}
          /\ IsField(node'[q]) /\ node'[q].type = node[q].type
          /\ node'[q].loader = node[q].loader /\ node'[q].sel = node[q].sel
Nulls(p) ==
    /\ Moves({p}) /\ node'[p].st = "null"
    /\ node'[p].ids = node[p].ids /\ node'[p].at = node[p].at

LEMMA NewRootIs ==
  ASSUME NEW d, NEW i, NEW n, n = NewRoot(d, i)
  PROVE  /\ IsField(n) /\ n.st \in {"running", "null"} /\ n.type = RootOf(d, i).type
         /\ n.loader = "none" /\ n.ids = {} /\ n.at = 0
         /\ n.calls = IF d.mutation THEN Calls(d.fields[i].name, d.fields[i].arg) ELSE <<"find">>
BY DEF NewRoot, Field, IsField

LEMMA ChildIs ==
  ASSUME NEW p \in DOMAIN node, Stands(p), NEW ids, NEW q, NEW n, IsChild(q, n, p, ids)
  PROVE  /\ IsField(n) /\ n.st = "asked" /\ n.loader # "none" /\ n.ids = {} /\ n.at = 0
         /\ IsPath(q) /\ q[1] = p[1] /\ Len(q) > 2 /\ Top(q) = Top(p)
<1>1. PICK id, f : /\ GrowsBy(q, p, id, f) /\ Fields[node[p].type][f].loader # "none"
                   /\ n = Field("asked", Fields[node[p].type][f].type,
                                Fields[node[p].type][f].loader, node[p].sel[f], <<>>)
  BY DEF IsChild
<1>2. IsPath(p)
  BY DEF Stands
<1>3. IsPath(q) /\ q[1] = p[1] /\ Len(q) = Len(p) + 2 /\ Top(q) = Top(p)
  BY <1>1, <1>2, PathGrows
<1> QED
  BY <1>1, <1>2, <1>3 DEF Field, IsField, IsPath

(* The field of a root, or its own root, leads to the top.                 *)
LEMMA TopIs ==
  ASSUME NEW q \in DOMAIN node, Stands(q)
  PROVE  /\ Len(q) = 2 => Top(q) = q
         /\ Len(q) # 2 => Len(q) > 2 /\ Top(q) \in DOMAIN node /\ node[Top(q)].st = "done"
<1>1. Len(q) \in Nat /\ Len(q) >= 2 /\ q = [i \in 1..Len(q) |-> q[i]]
  BY DEF Stands, IsPath
<1>2. Len(q) = 2 => Top(q) = q
  BY <1>1 DEF Top
<1> QED
  BY <1>1, <1>2 DEF Stands

LEMMA RootsStep ==
  ASSUME Shape, NEW o \in Op, NEW d, NEW is, doc' = doc, HistoryGrows, SinceStays,
         since'[o] > 0, node' = Extended(node, NewRoots(o, d, is))
  PROVE  /\ NodesStay /\ \A q \in DOMAIN node' : Stands(q)'
         /\ AddsRoots(o, d, is)
<1>0. node = [q \in DOMAIN node |-> node[q]]
  BY DEF Shape
<1>1. PICK new : new = node'
  OBVIOUS
<1>2. /\ new = [q \in DOMAIN new |-> new[q]]
      /\ DOMAIN new = DOMAIN node \cup {<<o, i>> : i \in is}
      /\ \A q \in DOMAIN node : new[q] = node[q]
      /\ \A q \in DOMAIN new \ DOMAIN node :
            \E i \in is : q = <<o, i>> /\ new[q] = NewRoot(d, i)
  <2>1. PICK roots : roots = NewRoots(o, d, is)
    OBVIOUS
  <2>2. DOMAIN roots = {<<o, i>> : i \in is} /\ \A i \in is : roots[<<o, i>>] = NewRoot(d, i)
    BY <2>1 DEF NewRoots
  <2>3. new = [q \in DOMAIN node \cup DOMAIN roots |->
                 IF q \in DOMAIN node THEN node[q] ELSE roots[q]]
    BY <1>1, <2>1 DEF Extended
  <2>4. ASSUME NEW q \in DOMAIN new \ DOMAIN node
        PROVE  \E i \in is : q = <<o, i>> /\ new[q] = NewRoot(d, i)
    <3>1. q \in DOMAIN roots /\ new[q] = roots[q]
      BY <2>3
    <3> QED
      BY <2>2, <3>1
  <2> QED
    BY <1>0, <2>2, <2>3, <2>4
<1>3. NodesStay
  BY <1>1, <1>2 DEF NodesStay
<1>4. Kept
  BY <1>3 DEF Kept
<1>5. ASSUME NEW q \in DOMAIN node PROVE Stands(q)'
  BY <1>1, <1>2, <1>4, OldStands
<1>6. ASSUME NEW q \in DOMAIN new \ DOMAIN node PROVE Stands(q)'
  <2>1. PICK i \in is : q = <<o, i>> /\ new[q] = NewRoot(d, i)
    BY <1>2
  <2>2. IsPath(q) /\ Len(q) = 2 /\ q[1] = o
    BY <2>1 DEF IsPath
  <2>3. /\ IsField(new[q]) /\ new[q].st \in {"running", "null"} /\ new[q].loader = "none"
        /\ new[q].at = 0
    BY <2>1, NewRootIs
  <2>4. Len(hist') \in Nat
    BY DEF HistoryGrows
  <2> QED
    BY <1>1, <2>2, <2>3, <2>4 DEF Stands, Now
<1>7. AddsRoots(o, d, is)
  BY <1>1, <1>2 DEF AddsRoots
<1> QED
  BY <1>1, <1>3, <1>5, <1>6, <1>7

LEMMA DeliverStep ==
  ASSUME Shape, NEW p \in DOMAIN node, node[p].st \notin {"done", "null"}, NEW ids, NEW at,
         doc' = doc, HistoryGrows, SinceStays, at \in 0..Len(hist'),
         node' = Delivered(p, ids, at)
  PROVE  /\ NodesStay /\ \A q \in DOMAIN node' : Stands(q)'
         /\ Delivers(p, ids, at)
<1>0. node = [q \in DOMAIN node |-> node[q]] /\ Stands(p)
  BY DEF Shape
<1>1. PICK new : new = node'
  OBVIOUS
<1>2. /\ new = [q \in DOMAIN new |-> new[q]] /\ DOMAIN node \subseteq DOMAIN new
      /\ new[p] = [st |-> "done", type |-> node[p].type, loader |-> node[p].loader,
                   sel |-> node[p].sel, calls |-> <<>>, ids |-> ids, at |-> at]
      /\ \A q \in DOMAIN node \ {p} : new[q] = node[q]
      /\ \A q \in DOMAIN new \ DOMAIN node : IsChild(q, new[q], p, ids)
  <2>1. IsPath(p) /\ IsField(node[p])
    BY <1>0 DEF Stands
  <2> QED
    BY <1>0, <1>1, <2>1, DeliveredIs
<1>3. NodesStay
  BY <1>1, <1>2 DEF NodesStay
<1>4. Kept
  BY <1>3 DEF Kept
<1>5. ASSUME NEW q \in DOMAIN node \ {p} PROVE Stands(q)'
  BY <1>1, <1>2, <1>4, OldStands
<1>6. Stands(p)'
  <2>1. IsField(node'[p]) /\ node'[p].at = at /\ node'[p].st = "done"
    BY <1>1, <1>2 DEF IsField
  <2> QED
    BY <1>4, <2>1, StandsStays
<1>7. ASSUME NEW q \in DOMAIN new \ DOMAIN node PROVE Stands(q)'
  <2>1. IsChild(q, new[q], p, ids)
    BY <1>2
  <2>2. /\ IsField(new[q]) /\ new[q].st = "asked" /\ new[q].loader # "none" /\ new[q].at = 0
        /\ IsPath(q) /\ q[1] = p[1] /\ Len(q) > 2 /\ Top(q) = Top(p)
    BY <1>0, <2>1, ChildIs
  <2>3. Len(hist') \in Nat /\ p[1] \in Op /\ since'[p[1]] > 0
    BY <1>0 DEF HistoryGrows, SinceStays, Stands
  <2>4. Top(p) \in DOMAIN new /\ new[Top(p)].st = "done"
    <3>1. CASE Len(p) = 2
      BY <1>0, <1>2, <3>1, TopIs
    <3>2. CASE Len(p) # 2
      BY <1>0, <1>1, <1>3, <3>2, TopIs DEF NodesStay
    <3> QED
      BY <3>1, <3>2
  <2>5. Top(q) \in DOMAIN node' /\ node'[Top(q)].st = "done"
    BY <1>1, <2>2, <2>4
  <2>6. Len(q) # 2
    BY <2>2 DEF IsPath
  <2> QED
    BY <1>1, <2>2, <2>3, <2>5, <2>6 DEF Stands, Now
<1>8. Delivers(p, ids, at)
  BY <1>1, <1>2 DEF Delivers
<1> QED
  BY <1>1, <1>3, <1>5, <1>6, <1>7, <1>8

LEMMA MoveStep ==
  ASSUME Shape, NEW fs \in SUBSET DOMAIN node, doc' = doc, HistoryGrows, SinceStays,
         node' = [q \in DOMAIN node' |-> node'[q]], Moves(fs),
         \A q \in fs : /\ node'[q].at \in 0..Len(hist')
                       /\ Len(q) = 2 => node'[q].st \in {"running", "null"}
                       /\ Len(q) # 2 => node'[q].st \in {"waiting", "fetched", "null"}
  PROVE  NodesStay /\ \A q \in DOMAIN node' : Stands(q)'
<1>1. ASSUME NEW q \in fs
      PROVE  /\ IsField(node'[q]) /\ node'[q].type = node[q].type
             /\ node'[q].loader = node[q].loader /\ node[q].st \notin {"done", "null"}
  BY DEF Moves
<1>2. NodesStay
  BY <1>1 DEF Moves, NodesStay
<1>3. Kept
  BY <1>2 DEF Kept
<1>4. ASSUME NEW q \in DOMAIN node \ fs PROVE Stands(q)'
  BY <1>3, OldStands DEF Moves
<1>5. ASSUME NEW q \in fs PROVE Stands(q)'
  BY <1>1, <1>3, StandsStays
<1> QED
  BY <1>2, <1>4, <1>5 DEF Moves

LEMMA NullStep ==
  ASSUME Shape, NEW p \in DOMAIN node, node[p].st \notin {"done", "null"},
         doc' = doc, HistoryGrows, SinceStays, node' = Nulled(p)
  PROVE  NodesStay /\ (\A q \in DOMAIN node' : Stands(q)') /\ Nulls(p)
<1>0. node = [q \in DOMAIN node |-> node[q]] /\ Stands(p)
  BY DEF Shape
<1>1. PICK new : new = node'
  OBVIOUS
<1>2. /\ new = [q \in DOMAIN new |-> new[q]] /\ DOMAIN new = DOMAIN node
      /\ new[p] = [st |-> "null", type |-> node[p].type, loader |-> node[p].loader,
                   sel |-> node[p].sel, calls |-> <<>>, ids |-> node[p].ids,
                   at |-> node[p].at]
      /\ \A q \in DOMAIN node \ {p} : new[q] = node[q]
  <2>1. IsField(node[p])
    BY <1>0 DEF Stands
  <2> QED
    BY <1>0, <1>1, <2>1, NulledIs
<1>3. Moves({p}) /\ Nulls(p)
  BY <1>1, <1>2 DEF Moves, Nulls, IsField
<1>4. node'[p].at \in 0..Len(hist')
  BY <1>0, <1>3, NowIs DEF Stands, Nulls, HistoryGrows, Now
<1> QED
  BY <1>1, <1>2, <1>3, <1>4, MoveStep DEF Nulls

-----------------------------------------------------------------------------
(* Each action, by what it does to the tree.                               *)
Stood == Shape' /\ Kept

Proceeds(p, calls, ids) ==
    /\ Moves({p}) /\ node'[p].st = "running" /\ node'[p].calls = calls
    /\ node'[p].ids = ids /\ node'[p].at = node[p].at
Waits(p) ==
    /\ Moves({p}) /\ node'[p].st = "waiting"
    /\ node'[p].ids = node[p].ids /\ node'[p].at = node[p].at

LEMMA ShapeStays ==
  ASSUME Shape, doc' = doc, HistoryGrows, SinceStays, NodesStay,
         \A q \in DOMAIN node' : Stands(q)'
  PROVE  Stood
<1>1. hist' # <<>>
  BY NowIs DEF HistoryGrows, Now
<1>2. since' \in [Op -> 0..Now']
  BY DEF SinceStays, Now
<1>3. doc' \in Documents
  BY DEF Shape
<1>4. hist' \in Seq(ToSet(hist)') /\ node' = [q \in DOMAIN node' |-> node'[q]]
  BY DEF HistoryGrows, NodesStay, ToSet
<1> QED
  BY <1>1, <1>2, <1>3, <1>4 DEF Stood, Shape, Kept

LEMMA BeginStep ==
  ASSUME Shape, NEW o \in Op, Begin(o)
  PROVE  Stood /\ AddsRoots(o, doc[o], First(doc[o]))
<1>1. HistoryGrows /\ doc' = doc
  BY HistoryStays DEF Begin
<1>2. SinceStays /\ since'[o] > 0
  BY NowIs DEF Begin, SinceStays, Shape, Now
<1>3. node' = Extended(node, NewRoots(o, doc[o], First(doc[o])))
  BY DEF Begin
<1> QED
  BY <1>1, <1>2, <1>3, RootsStep, ShapeStays

LEMMA NextFieldStep ==
  ASSUME Shape, NEW o \in Op, NextField(o)
  PROVE  Stood /\ AddsRoots(o, doc[o], {Cardinality(Roots(o)) + 1})
<1>1. HistoryGrows /\ doc' = doc
  BY HistoryStays DEF NextField
<1>2. SinceStays /\ since'[o] > 0
  BY <1>1, SinceUnchanged DEF NextField
<1>3. node' = Extended(node, NewRoots(o, doc[o], {Cardinality(Roots(o)) + 1}))
  BY DEF NextField
<1> QED
  BY <1>1, <1>2, <1>3, RootsStep, ShapeStays

LEMMA ReadStep ==
  ASSUME Shape, NEW p \in DOMAIN node, Read(p)
  PROVE  /\ Stood
         /\ Delivers(p, Found(p), Now) \/ Nulls(p)
<1>1. HistoryGrows /\ doc' = doc /\ SinceStays
  BY HistoryStays, SinceUnchanged DEF Read
<1>2. node[p].st \notin {"done", "null"}
  BY DEF Read
<1>3. Now \in 0..Len(hist')
  BY NowIs DEF Read, Now
<1>4. CASE node' = Delivered(p, Found(p), Now)
  <2>1. PICK ids, at : ids = Found(p) /\ at = Now
    OBVIOUS
  <2>2. node' = Delivered(p, ids, at) /\ at \in 0..Len(hist')
    BY <1>3, <1>4, <2>1
  <2>3. Stood /\ Delivers(p, ids, at)
    BY <1>1, <1>2, <2>2, DeliverStep, ShapeStays
  <2> QED
    BY <2>1, <2>3
<1>5. CASE node' = Nulled(p)
  BY <1>1, <1>2, <1>5, NullStep, ShapeStays
<1> QED
  BY <1>4, <1>5 DEF Read

LEMMA MutationStepIs ==
  ASSUME Shape, NEW p \in DOMAIN node, MutationStep(p),
         NEW call, call = Head(node[p].calls), NEW rest, rest = Tail(node[p].calls)
  PROVE  /\ Stood
         /\ \/ /\ Can(call, Entity(p), Arg(p), node[p].ids, Db)
               /\ hist' = Committed(After(call, Entity(p), Arg(p), node[p].ids, Db))
               /\ \/ rest = <<>> /\ Delivers(p, Answers(p, call), Len(hist'))
                  \/ rest # <<>> /\ Proceeds(p, rest, Answers(p, call))
            \/ /\ \E d \in Left(call, Entity(p), Arg(p), node[p].ids, Db) : hist' = Committed(d)
               /\ Nulls(p)
<1>0. /\ doc' = doc /\ since' = since /\ node[p].st = "running" /\ Stands(p)
      /\ node = [q \in DOMAIN node |-> node[q]]
  BY DEF MutationStep, Shape
<1>1. CASE /\ Can(call, Entity(p), Arg(p), node[p].ids, Db)
           /\ hist' = Committed(After(call, Entity(p), Arg(p), node[p].ids, Db))
           /\ node' = IF rest = <<>>
                      THEN Delivered(p, Answers(p, call), Len(hist'))
                      ELSE [node EXCEPT ![p].calls = rest, ![p].ids = Answers(p, call)]
  <2>1. HistoryGrows
    BY <1>1, HistoryCommitted
  <2>2. SinceStays /\ Len(hist') \in 0..Len(hist')
    BY <1>0, <2>1, SinceUnchanged DEF HistoryGrows
  <2>3. PICK ids, at : ids = Answers(p, call) /\ at = Len(hist')
    OBVIOUS
  <2>4. CASE rest = <<>>
    <3>1. node' = Delivered(p, ids, at) /\ at \in 0..Len(hist')
      BY <1>1, <2>2, <2>3, <2>4
    <3>2. Stood /\ Delivers(p, ids, at)
      BY <1>0, <2>1, <2>2, <3>1, DeliverStep, ShapeStays
    <3> QED
      BY <1>1, <2>3, <2>4, <3>2
  <2>5. CASE rest # <<>>
    <3>1. node' = [node EXCEPT ![p].calls = rest, ![p].ids = ids]
      BY <1>1, <2>3, <2>5
    <3>2. Proceeds(p, rest, ids) /\ node' = [q \in DOMAIN node' |-> node'[q]]
      BY <1>0, <3>1 DEF Stands, IsField, Proceeds, Moves
    <3>3. node'[p].at \in 0..Len(hist')
      BY <1>0, <2>1, <3>2, NowIs DEF Stands, Proceeds, HistoryGrows, Now
    <3>4. Len(p) = 2
      BY <1>0 DEF Stands
    <3>5. Stood
      BY <1>0, <2>1, <2>2, <3>2, <3>3, <3>4, MoveStep, ShapeStays DEF Proceeds
    <3> QED
      BY <1>1, <2>3, <2>5, <3>2, <3>5
  <2> QED
    BY <2>4, <2>5
<1>2. CASE /\ \E d \in Left(call, Entity(p), Arg(p), node[p].ids, Db) : hist' = Committed(d)
           /\ node' = Nulled(p)
  <2>1. HistoryGrows
    BY <1>2, HistoryCommitted
  <2>2. SinceStays
    BY <1>0, <2>1, SinceUnchanged
  <2>3. Stood /\ Nulls(p)
    BY <1>0, <1>2, <2>1, <2>2, NullStep, ShapeStays
  <2> QED
    BY <1>2, <2>3
<1> QED
  BY <1>1, <1>2 DEF MutationStep

LEMMA SlotFits ==
  ASSUME Shape, ValuesFit, NEW s \in DOMAIN cache
  PROVE  cache[s].at \in 1..Now
<1>1. PICK o \in Op : since[o] > 0 /\ cache[s].at \in since[o]..Now
  BY DEF ValuesFit, WasTrue
<1> QED
  BY <1>1, NowIs DEF Shape

LEMMA LoadStep ==
  ASSUME Shape, ValuesFit, NEW p \in DOMAIN node, Load(p)
  PROVE  /\ Stood
         /\ \/ Slot(p) \in DOMAIN cache /\ Delivers(p, cache[Slot(p)].ids, cache[Slot(p)].at)
            \/ Waits(p)
<1>1. HistoryGrows /\ doc' = doc /\ SinceStays /\ hist' = hist
  BY HistoryStays, SinceUnchanged DEF Load
<1>2. /\ node[p].st = "asked" /\ Stands(p) /\ node = [q \in DOMAIN node |-> node[q]]
      /\ Len(p) # 2
  BY DEF Load, Shape, Stands
<1>3. CASE Slot(p) \in DOMAIN cache
  <2>1. PICK ids, at : ids = cache[Slot(p)].ids /\ at = cache[Slot(p)].at
    OBVIOUS
  <2>2. at \in 1..Now
    BY <1>3, <2>1, SlotFits
  <2>3. node' = Delivered(p, ids, at) /\ at \in 0..Len(hist')
    BY <1>1, <1>3, <2>1, <2>2, NowIs DEF Load, Now
  <2>4. Stood /\ Delivers(p, ids, at)
    BY <1>1, <1>2, <2>3, DeliverStep, ShapeStays
  <2> QED
    BY <1>3, <2>1, <2>4
<1>4. CASE node' = [node EXCEPT ![p].st = "waiting"]
  <2>1. Waits(p) /\ node' = [q \in DOMAIN node' |-> node'[q]]
    BY <1>2, <1>4 DEF Stands, IsField, Waits, Moves
  <2>2. node'[p].at \in 0..Len(hist')
    BY <1>1, <1>2, <2>1 DEF Stands, Waits, Now
  <2> QED
    BY <1>1, <1>2, <2>1, <2>2, MoveStep, ShapeStays DEF Waits
<1> QED
  BY <1>3, <1>4 DEF Load

LEMMA ThunkStep ==
  ASSUME Shape, NEW p \in DOMAIN node, Thunk(p)
  PROVE  Stood /\ Delivers(p, node[p].ids, node[p].at)
<1>1. HistoryGrows /\ doc' = doc /\ SinceStays /\ hist' = hist
  BY HistoryStays, SinceUnchanged DEF Thunk
<1>2. node[p].st = "fetched" /\ node[p].at \in 0..Now
  BY DEF Thunk, Shape, Stands
<1>3. PICK ids, at : ids = node[p].ids /\ at = node[p].at
  OBVIOUS
<1>4. node' = Delivered(p, ids, at) /\ at \in 0..Len(hist')
  BY <1>1, <1>2, <1>3 DEF Thunk, Now
<1>5. Stood /\ Delivers(p, ids, at)
  BY <1>1, <1>2, <1>4, DeliverStep, ShapeStays
<1> QED
  BY <1>3, <1>5

LEMMA FetchStep ==
  ASSUME Shape, NEW request, FetchSome(request)
  PROVE  /\ Stood /\ cache' = cache /\ hist' = hist /\ since' = since
         /\ \E fs \in SUBSET Waiting :
              /\ Moves(fs) /\ \A q \in fs : RequestOf(q[1]) = request
              /\ \/ \A q \in fs : /\ node'[q].st = "fetched" /\ node'[q].at = Now
                                  /\ node'[q].ids = Rows(node[q].loader, Key(q), Db)
                 \/ \A q \in fs : /\ node'[q].st = "null" /\ node'[q].at = node[q].at
                                  /\ node'[q].ids = node[q].ids
<1>0. PICK fs \in SUBSET Waiting : \E one \in fs : Fetch(request, node[one].loader, fs)
  BY DEF FetchSome
<1>1. PICK one \in fs : Fetch(request, node[one].loader, fs)
  BY <1>0
<1>2. HistoryGrows /\ doc' = doc /\ SinceStays /\ hist' = hist /\ cache' = cache /\ since' = since
  BY <1>1, HistoryStays, SinceUnchanged DEF Fetch
<1>3. ASSUME NEW q \in fs
      PROVE  /\ q \in DOMAIN node /\ node[q].st = "waiting" /\ Stands(q) /\ Len(q) # 2
             /\ node[q].loader = node[one].loader /\ RequestOf(q[1]) = request
  <2>1. q \in DOMAIN node /\ node[q].st = "waiting"
    BY DEF Waiting
  <2>2. node[q].loader = node[one].loader /\ RequestOf(q[1]) = request
    BY <1>1 DEF Fetch
  <2> QED
    BY <2>1, <2>2 DEF Shape, Stands
<1>4. fs \in SUBSET DOMAIN node
  BY <1>3
<1>5. CASE node' = [p \in DOMAIN node |->
                      IF p \in fs
                      THEN [node[p] EXCEPT !.st = "fetched", !.at = Now,
                                           !.ids = Rows(node[one].loader, Key(p), Db)]
                      ELSE node[p]]
  <2>1. ASSUME NEW q \in fs
        PROVE  /\ IsField(node'[q]) /\ node'[q].type = node[q].type
               /\ node'[q].loader = node[q].loader /\ node'[q].sel = node[q].sel
               /\ node'[q].st = "fetched" /\ node'[q].at = Now
               /\ node'[q].ids = Rows(node[q].loader, Key(q), Db)
    <3>1. PICK n, rows : n = node[q] /\ rows = Rows(node[q].loader, Key(q), Db)
      OBVIOUS
    <3>2. node'[q] = [n EXCEPT !.st = "fetched", !.at = Now, !.ids = rows]
      BY <1>3, <1>4, <1>5, <3>1
    <3>3. IsField(n)
      BY <1>3, <3>1 DEF Stands
    <3>4. node'[q] = [st |-> "fetched", type |-> n.type, loader |-> n.loader, sel |-> n.sel,
                      calls |-> n.calls, ids |-> rows, at |-> Now]
      BY <3>2, <3>3 DEF IsField
    <3> QED
      BY <3>1, <3>4 DEF IsField
  <2>2. Moves(fs)
    BY <1>3, <1>4, <1>5, <2>1 DEF Moves
  <2>3. node' = [q \in DOMAIN node' |-> node'[q]]
    <3> DEFINE to(p) == IF p \in fs
                        THEN [node[p] EXCEPT !.st = "fetched", !.at = Now,
                                             !.ids = Rows(node[one].loader, Key(p), Db)]
                        ELSE node[p]
    <3>1. node' = [p \in DOMAIN node |-> to(p)]
      BY <1>5
    <3> HIDE DEF to
    <3> QED
      BY <3>1
  <2>4. Now \in 0..Len(hist')
    BY <1>2, NowIs DEF Now
  <2>5. Stood
    BY <1>2, <1>3, <1>4, <2>1, <2>2, <2>3, <2>4, MoveStep, ShapeStays
  <2> QED
    BY <1>2, <1>3, <2>1, <2>2, <2>5
<1>6. CASE node' = [p \in DOMAIN node |->
                      IF p \in fs THEN [node[p] EXCEPT !.st = "null"] ELSE node[p]]
  <2>1. ASSUME NEW q \in fs
        PROVE  /\ IsField(node'[q]) /\ node'[q].type = node[q].type
               /\ node'[q].loader = node[q].loader /\ node'[q].sel = node[q].sel
               /\ node'[q].st = "null" /\ node'[q].at = node[q].at
               /\ node'[q].ids = node[q].ids /\ node'[q].at \in 0..Len(hist')
    <3>1. PICK n : n = node[q]
      OBVIOUS
    <3>2. node'[q] = [n EXCEPT !.st = "null"]
      BY <1>4, <1>6, <3>1
    <3>3. IsField(n) /\ n.at \in 0..Now
      BY <1>3, <3>1 DEF Stands
    <3>4. node'[q] = [st |-> "null", type |-> n.type, loader |-> n.loader, sel |-> n.sel,
                      calls |-> n.calls, ids |-> n.ids, at |-> n.at]
      BY <3>2, <3>3 DEF IsField
    <3> QED
      BY <1>2, <3>1, <3>3, <3>4 DEF IsField, Now
  <2>2. Moves(fs)
    BY <1>3, <1>4, <1>6, <2>1 DEF Moves
  <2>3. node' = [q \in DOMAIN node' |-> node'[q]]
    BY <1>6
  <2>4. Stood
    BY <1>2, <1>3, <1>4, <2>1, <2>2, <2>3, MoveStep, ShapeStays
  <2> QED
    BY <1>2, <1>3, <2>1, <2>2, <2>4
<1> QED
  BY <1>1, <1>5, <1>6 DEF Fetch

LEMMA ChangeStep ==
  ASSUME Shape, NEW u, NEW r, Change(u, r)
  PROVE  /\ Stood /\ node' = node /\ cache' = cache /\ since' = since
         /\ \E d : hist' = Append(hist, d)
<1>1. /\ node' = node /\ cache' = cache /\ since' = since /\ doc' = doc
      /\ \E d : hist' = Append(hist, d)
  BY DEF Change
<1>2. HistoryGrows
  BY <1>1, HistoryAppended
<1>3. SinceStays
  BY <1>1, <1>2, SinceUnchanged
<1>4. NodesStay
  BY <1>1 DEF NodesStay, Shape
<1>5. Kept
  BY <1>1, <1>2, <1>3, <1>4 DEF Kept
<1>6. ASSUME NEW q \in DOMAIN node' PROVE Stands(q)'
  BY <1>1, <1>5, OldStands
<1> QED
  BY <1>1, <1>2, <1>3, <1>4, <1>6, ShapeStays

-----------------------------------------------------------------------------
(* What is fetched and what is cached was true.                            *)
LEMMA WasTrueStays ==
  ASSUME Shape, Kept, NEW request, NEW loader, NEW key, NEW ids, NEW at,
         WasTrue(request, loader, key, ids, at)
  PROVE  WasTrue(request, loader, key, ids, at)'
<1>1. PICK o \in Op : /\ RequestOf(o) = request /\ since[o] > 0
                      /\ at \in since[o]..Now /\ Rows(loader, key, hist[at]) = ids
  BY DEF WasTrue
<1>2. RequestOf(o)' = request /\ since'[o] = since[o]
  BY <1>1 DEF RequestOf, Kept, SinceStays
<1>3. at \in since'[o]..Len(hist') /\ hist'[at] = hist[at]
  BY <1>1, <1>2, NowIs DEF Shape, Kept, HistoryGrows, Now
<1>4. Rows(loader, key, hist'[at]) = ids
  BY <1>1, <1>3
<1> QED
  BY <1>1, <1>2, <1>3, <1>4 DEF WasTrue, Now

LEMMA ValueStays ==
  ASSUME Shape, ValuesFit, Kept, NEW q \in DOMAIN node, Len(q) > 2, node'[q] = node[q]
  PROVE  ValueFits(q)'
<1>1. ValueFits(q)
  BY DEF ValuesFit
<1>2. PICK request, loader, key, ids, at :
        /\ request = RequestOf(q[1]) /\ loader = node[q].loader /\ key = Key(q)
        /\ ids = node[q].ids /\ at = node[q].at
  OBVIOUS
<1>3. RequestOf(q[1])' = request /\ Key(q)' = key
  BY <1>2 DEF RequestOf, Kept, Key
<1>4. CASE node[q].st \in {"fetched", "done"}
  <2>1. WasTrue(request, loader, key, ids, at)
    BY <1>1, <1>2, <1>4 DEF ValueFits
  <2>2. WasTrue(request, loader, key, ids, at)'
    BY <2>1, WasTrueStays
  <2> QED
    BY <1>2, <1>3, <1>4, <2>2 DEF ValueFits
<1>5. CASE node[q].st \notin {"fetched", "done"}
  BY <1>1, <1>5 DEF ValueFits
<1> QED
  BY <1>4, <1>5

LEMMA CacheStays ==
  ASSUME Shape, ValuesFit, Kept, NEW s \in DOMAIN cache
  PROVE  WasTrue(s[1], s[2], s[3], cache[s].ids, cache[s].at) /\
         \A ids, at : ids = cache[s].ids /\ at = cache[s].at =>
                         WasTrue(s[1], s[2], s[3], ids, at)'
BY WasTrueStays DEF ValuesFit

LEMMA SameCache ==
  ASSUME Shape, ValuesFit, Kept, cache' = cache
  PROVE  \A s \in DOMAIN cache' : WasTrue(s[1], s[2], s[3], cache[s].ids, cache[s].at)'
<1> SUFFICES ASSUME NEW s \in DOMAIN cache
             PROVE  WasTrue(s[1], s[2], s[3], cache[s].ids, cache[s].at)'
  OBVIOUS
<1>1. PICK ids, at : ids = cache[s].ids /\ at = cache[s].at
  OBVIOUS
<1>2. WasTrue(s[1], s[2], s[3], ids, at)'
  BY <1>1, CacheStays
<1>3. cache'[s].ids = ids /\ cache'[s].at = at
  BY <1>1
<1> QED
  BY <1>2, <1>3 DEF WasTrue

LEMMA DeliverValues ==
  ASSUME Shape, ValuesFit, Kept, NEW p \in DOMAIN node, NEW ids, NEW at, Delivers(p, ids, at),
         Len(p) > 2 => WasTrue(RequestOf(p[1]), node[p].loader, Key(p), ids, at)
  PROVE  \A q \in DOMAIN node' : Len(q) > 2 => ValueFits(q)'
<1>1. ASSUME NEW q \in DOMAIN node \ {p}, Len(q) > 2 PROVE ValueFits(q)'
  BY <1>1, ValueStays DEF Delivers
<1>2. ASSUME Len(p) > 2 PROVE ValueFits(p)'
  <2>1. PICK request, loader, key :
          request = RequestOf(p[1]) /\ loader = node[p].loader /\ key = Key(p)
    OBVIOUS
  <2>2. WasTrue(request, loader, key, ids, at)'
    BY <1>2, <2>1, WasTrueStays
  <2>3. RequestOf(p[1])' = request /\ Key(p)' = key
    BY <2>1 DEF RequestOf, Kept, Key
  <2>4. /\ node'[p].st = "done" /\ node'[p].loader = loader
        /\ node'[p].ids = ids /\ node'[p].at = at
    BY <2>1 DEF Delivers
  <2> QED
    BY <2>2, <2>3, <2>4 DEF ValueFits
<1>3. ASSUME NEW q \in DOMAIN node' \ DOMAIN node PROVE ValueFits(q)'
  <2>1. IsChild(q, node'[q], p, ids) /\ Stands(p)
    BY DEF Delivers, Shape
  <2>2. node'[q].st = "asked" /\ node'[q].ids = {}
    BY <2>1, ChildIs
  <2> QED
    BY <2>2 DEF ValueFits
<1> QED
  BY <1>1, <1>2, <1>3

LEMMA MoveValues ==
  ASSUME Shape, ValuesFit, Kept, NEW fs \in SUBSET DOMAIN node, Moves(fs),
         \A q \in fs : Len(q) > 2 => ValueFits(q)'
  PROVE  \A q \in DOMAIN node' : Len(q) > 2 => ValueFits(q)'
<1> SUFFICES ASSUME NEW q \in DOMAIN node \ fs, Len(q) > 2 PROVE ValueFits(q)'
  BY DEF Moves
<1> QED
  BY ValueStays DEF Moves

LEMMA RootValues ==
  ASSUME Shape, ValuesFit, Kept, NEW o \in Op, NEW d, NEW is, AddsRoots(o, d, is)
  PROVE  \A q \in DOMAIN node' : Len(q) > 2 => ValueFits(q)'
<1>1. ASSUME NEW q \in DOMAIN node' \ DOMAIN node PROVE Len(q) = 2
  BY DEF AddsRoots
<1>2. ASSUME NEW q \in DOMAIN node, Len(q) > 2 PROVE ValueFits(q)'
  BY <1>2, ValueStays DEF AddsRoots
<1> QED
  BY <1>1, <1>2

(* A field that takes nothing new keeps its value.                         *)
LEMMA ValueOfNull ==
  ASSUME Shape, ValuesFit, NEW q \in DOMAIN node, Len(q) > 2,
         node[q].st \notin {"fetched", "done"}, node'[q].ids = node[q].ids,
         node'[q].st \notin {"fetched", "done"}
  PROVE  ValueFits(q)'
BY DEF ValueFits, ValuesFit

LEMMA FetchValues ==
  ASSUME Shape, ValuesFit, NEW request, FetchSome(request)
  PROVE  \A q \in DOMAIN node' : Len(q) > 2 => ValueFits(q)'
<1>1. /\ Stood /\ hist' = hist
      /\ \E fs \in SUBSET Waiting :
           /\ Moves(fs)
           /\ \/ \A q \in fs : /\ node'[q].st = "fetched" /\ node'[q].at = Now
                               /\ node'[q].ids = Rows(node[q].loader, Key(q), Db)
              \/ \A q \in fs : node'[q].st = "null" /\ node'[q].ids = node[q].ids
  BY FetchStep
<1>2. PICK fs \in SUBSET Waiting :
        /\ Moves(fs)
        /\ \/ \A q \in fs : /\ node'[q].st = "fetched" /\ node'[q].at = Now
                            /\ node'[q].ids = Rows(node[q].loader, Key(q), Db)
           \/ \A q \in fs : node'[q].st = "null" /\ node'[q].ids = node[q].ids
  BY <1>1
<1>3. fs \in SUBSET DOMAIN node
  BY DEF Waiting
<1>4. ASSUME NEW q \in fs, Len(q) > 2 PROVE ValueFits(q)'
  <2>1. q \in DOMAIN node /\ node[q].st = "waiting" /\ Stands(q)
    BY DEF Waiting, Shape
  <2>2. CASE node'[q].st = "null" /\ node'[q].ids = node[q].ids
    BY <1>4, <2>1, <2>2, ValueOfNull
  <2>3. CASE /\ node'[q].st = "fetched" /\ node'[q].at = Now
             /\ node'[q].ids = Rows(node[q].loader, Key(q), Db)
    <3>1. q[1] \in Op /\ since[q[1]] > 0 /\ since[q[1]] \in 0..Now /\ Now \in Nat
      BY <2>1, NowIs DEF Stands, Shape
    <3>2. WasTrue(RequestOf(q[1]), node[q].loader, Key(q), node'[q].ids, Now)
      BY <2>3, <3>1 DEF WasTrue, Db
    <3>3. PICK request1, loader, key, ids, at :
            /\ request1 = RequestOf(q[1]) /\ loader = node[q].loader /\ key = Key(q)
            /\ ids = node'[q].ids /\ at = Now
      OBVIOUS
    <3>4. WasTrue(request1, loader, key, ids, at)'
      BY <1>1, <3>2, <3>3, WasTrueStays DEF Stood
    <3>5. RequestOf(q[1])' = request1 /\ Key(q)' = key /\ node'[q].loader = loader
      BY <1>1, <2>1, <3>3 DEF RequestOf, Kept, Key, NodesStay, Stood
    <3> QED
      BY <2>3, <3>3, <3>4, <3>5 DEF ValueFits
  <2> QED
    BY <1>2, <2>2, <2>3
<1> QED
  BY <1>1, <1>2, <1>3, <1>4, MoveValues DEF Stood

LEMMA ThunkCaches ==
  ASSUME Shape, ValuesFit, NEW p \in DOMAIN node, Thunk(p), Stood
  PROVE  \A s \in DOMAIN cache' : WasTrue(s[1], s[2], s[3], cache[s].ids, cache[s].at)'
<1> SUFFICES ASSUME NEW s \in DOMAIN cache'
             PROVE  WasTrue(s[1], s[2], s[3], cache[s].ids, cache[s].at)'
  OBVIOUS
<1>0. Kept
  BY DEF Stood
<1>1. PICK slot, ids, at : slot = Slot(p) /\ ids = node[p].ids /\ at = node[p].at
  OBVIOUS
<1>2. cache' = [x \in {slot} \cup DOMAIN cache |->
                  IF x \in {slot} THEN [ids |-> ids, at |-> at] ELSE cache[x]]
  BY <1>1 DEF Thunk, Extended
<1>3. CASE s = slot
  <2>1. slot[1] = RequestOf(p[1]) /\ slot[2] = node[p].loader /\ slot[3] = Key(p)
    BY <1>1 DEF Slot
  <2>2. node[p].st = "fetched" /\ Stands(p)
    BY DEF Thunk, Shape
  <2>3. Len(p) > 2
    BY <2>2, TopIs DEF Stands
  <2>4. WasTrue(slot[1], slot[2], slot[3], ids, at)
    BY <1>1, <2>1, <2>2, <2>3 DEF ValuesFit, ValueFits
  <2>5. WasTrue(slot[1], slot[2], slot[3], ids, at)'
    BY <1>0, <2>4, WasTrueStays
  <2>6. cache'[s].ids = ids /\ cache'[s].at = at
    BY <1>2, <1>3
  <2> QED
    BY <1>3, <2>5, <2>6 DEF WasTrue
<1>4. CASE s # slot
  <2>1. s \in DOMAIN cache /\ cache'[s] = cache[s]
    BY <1>2, <1>4
  <2>2. PICK i, a : i = cache[s].ids /\ a = cache[s].at
    OBVIOUS
  <2>3. WasTrue(s[1], s[2], s[3], i, a)'
    BY <1>0, <2>1, <2>2, CacheStays
  <2> QED
    BY <2>1, <2>2, <2>3 DEF WasTrue
<1> QED
  BY <1>3, <1>4

LEMMA RunsAtTheTop ==
  ASSUME Shape, NEW p \in DOMAIN node, node[p].st = "running"
  PROVE  Stands(p) /\ Len(p) = 2 /\ ~ (Len(p) > 2)
<1>1. Stands(p) /\ Len(p) = 2
  BY DEF Shape, Stands
<1>2. ~ (2 > 2)
  OBVIOUS
<1> QED
  BY <1>1, <1>2

LEMMA StepValues ==
  ASSUME Shape, ValuesFit, NEW o \in Op, Step(o)
  PROVE  Stood /\ ValuesFit'
<1>1. CASE NextField(o)
  <2>1. Stood /\ AddsRoots(o, doc[o], {Cardinality(Roots(o)) + 1}) /\ cache' = cache
    BY <1>1, NextFieldStep DEF NextField
  <2> QED
    BY <2>1, RootValues, SameCache DEF Stood, ValuesFit
<1>2. ASSUME NEW p \in DOMAIN node, Read(p) PROVE Stood /\ ValuesFit'
  <2>1. Stood /\ (Delivers(p, Found(p), Now) \/ Nulls(p)) /\ cache' = cache /\ ~ (Len(p) > 2)
    BY <1>2, ReadStep, RunsAtTheTop DEF Read
  <2>2. PICK ids, at : ids = Found(p) /\ at = Now
    OBVIOUS
  <2>3. CASE Delivers(p, ids, at)
    BY <2>1, <2>3, DeliverValues, SameCache DEF Stood, ValuesFit
  <2>4. CASE Nulls(p)
    BY <2>1, <2>4, MoveValues, SameCache DEF Stood, ValuesFit, Nulls
  <2> QED
    BY <2>1, <2>2, <2>3, <2>4
<1>3. ASSUME NEW p \in DOMAIN node, MutationStep(p) PROVE Stood /\ ValuesFit'
  <2>1. PICK call, rest : call = Head(node[p].calls) /\ rest = Tail(node[p].calls)
    OBVIOUS
  <2>2. /\ Stood /\ cache' = cache /\ ~ (Len(p) > 2)
        /\ \/ Delivers(p, Answers(p, call), Len(hist'))
           \/ Proceeds(p, rest, Answers(p, call)) \/ Nulls(p)
    BY <1>3, <2>1, MutationStepIs, RunsAtTheTop DEF MutationStep
  <2>3. PICK ids, at : ids = Answers(p, call) /\ at = Len(hist')
    OBVIOUS
  <2>4. CASE Delivers(p, ids, at)
    BY <2>2, <2>4, DeliverValues, SameCache DEF Stood, ValuesFit
  <2>5. CASE Moves({p})
    BY <2>2, <2>5, MoveValues, SameCache DEF Stood, ValuesFit
  <2> QED
    BY <2>2, <2>3, <2>4, <2>5 DEF Nulls, Proceeds
<1>4. ASSUME NEW p \in DOMAIN node, Load(p) PROVE Stood /\ ValuesFit'
  <2>1. /\ Stood /\ cache' = cache /\ node[p].st = "asked"
        /\ \/ Slot(p) \in DOMAIN cache /\ Delivers(p, cache[Slot(p)].ids, cache[Slot(p)].at)
           \/ Waits(p)
    BY <1>4, LoadStep DEF Load
  <2>2. CASE Slot(p) \in DOMAIN cache /\ Delivers(p, cache[Slot(p)].ids, cache[Slot(p)].at)
    <3>1. PICK ids, at, slot : ids = cache[slot].ids /\ at = cache[slot].at /\ slot = Slot(p)
      OBVIOUS
    <3>2. WasTrue(slot[1], slot[2], slot[3], ids, at)
      BY <2>2, <3>1 DEF ValuesFit
    <3>3. slot[1] = RequestOf(p[1]) /\ slot[2] = node[p].loader /\ slot[3] = Key(p)
      BY <3>1 DEF Slot
    <3>4. Delivers(p, ids, at)
      BY <2>2, <3>1
    <3>5. WasTrue(RequestOf(p[1]), node[p].loader, Key(p), ids, at)
      BY <3>2, <3>3
    <3> QED
      BY <2>1, <3>4, <3>5, DeliverValues, SameCache DEF Stood, ValuesFit
  <2>3. CASE Waits(p)
    <3>1. Len(p) > 2 => ValueFits(p)'
      BY <2>1, <2>3, ValueOfNull DEF Waits
    <3> QED
      BY <2>1, <2>3, <3>1, MoveValues, SameCache DEF Stood, ValuesFit, Waits
  <2> QED
    BY <2>1, <2>2, <2>3
<1>5. ASSUME NEW p \in DOMAIN node, Thunk(p) PROVE Stood /\ ValuesFit'
  <2>1. Stood /\ Delivers(p, node[p].ids, node[p].at) /\ node[p].st = "fetched"
    BY <1>5, ThunkStep DEF Thunk
  <2>2. PICK ids, at : ids = node[p].ids /\ at = node[p].at
    OBVIOUS
  <2>3. Len(p) > 2 => WasTrue(RequestOf(p[1]), node[p].loader, Key(p), ids, at)
    BY <2>1, <2>2 DEF ValuesFit, ValueFits
  <2>4. Delivers(p, ids, at)
    BY <2>1, <2>2
  <2>5. \A q \in DOMAIN node' : Len(q) > 2 => ValueFits(q)'
    BY <2>1, <2>3, <2>4, DeliverValues DEF Stood
  <2> QED
    BY <1>5, <2>1, <2>5, ThunkCaches DEF ValuesFit
<1> QED
  BY <1>1, <1>2, <1>3, <1>4, <1>5 DEF Step

LEMMA InitShape ==
  ASSUME Init
  PROVE  Shape /\ ValuesFit
<1>1. hist = <<Given>> /\ Len(hist) = 1 /\ hist \in Seq({Given}) /\ hist[1] = Given
  BY DEF Init
<1>2. hist \in Seq(ToSet(hist)) /\ hist # <<>>
  BY <1>1 DEF ToSet
<1>3. DOMAIN node = {} /\ DOMAIN cache = {} /\ node = [p \in DOMAIN node |-> node[p]]
  BY DEF Init
<1>4. doc \in Documents /\ since \in [Op -> 0..Now]
  BY <1>1 DEF Init, Now
<1> QED
  BY <1>2, <1>3, <1>4 DEF Shape, ValuesFit

LEMMA NextValues ==
  ASSUME Shape, ValuesFit, Next
  PROVE  Stood /\ ValuesFit'
<1>1. ASSUME NEW o \in Op, Begin(o) PROVE Stood /\ ValuesFit'
  <2>1. Stood /\ AddsRoots(o, doc[o], First(doc[o])) /\ cache' = cache
    BY <1>1, BeginStep DEF Begin
  <2> QED
    BY <2>1, RootValues, SameCache DEF Stood, ValuesFit
<1>2. ASSUME NEW o \in Op, FetchSome(RequestOf(o)) PROVE Stood /\ ValuesFit'
  <2>1. Stood /\ cache' = cache
    BY <1>2, FetchStep
  <2> QED
    BY <1>2, <2>1, FetchValues, SameCache DEF Stood, ValuesFit
<1>3. ASSUME NEW m, Change(m[1], m[2]) PROVE Stood /\ ValuesFit'
  <2>1. Stood /\ node' = node /\ cache' = cache
    BY <1>3, ChangeStep
  <2> QED
    BY <2>1, ValueStays, SameCache DEF Stood, ValuesFit
<1> QED
  BY <1>1, <1>2, <1>3, StepValues DEF Next

LEMMA StutterValues ==
  ASSUME Shape, ValuesFit, UNCHANGED vars
  PROVE  Stood /\ ValuesFit'
<1>1. /\ doc' = doc /\ since' = since /\ node' = node /\ cache' = cache /\ hist' = hist
  BY DEF vars
<1>2. HistoryGrows /\ SinceStays
  BY <1>1, HistoryStays, SinceUnchanged
<1>3. NodesStay
  BY <1>1 DEF NodesStay, Shape
<1>4. Kept
  BY <1>1, <1>2, <1>3 DEF Kept
<1>5. Stood
  BY <1>1, <1>2, <1>3, <1>4, OldStands, ShapeStays
<1> QED
  BY <1>1, <1>4, <1>5, ValueStays, SameCache DEF ValuesFit

(* For all documents and bounds: every list that a field of an answer      *)
(* shows from a loader is what the database had for that key at a moment   *)
(* since an operation of the same request began (resolvers and loaders of  *)
(* internal/graphql).                                                      *)
THEOREM ListsWereTrue == Spec => []ShownWasTrue
<1>1. Init => Shape /\ ValuesFit
  BY InitShape
<1>2. Shape /\ ValuesFit /\ [Next]_vars => (Shape /\ ValuesFit)'
  BY NextValues, StutterValues DEF Stood
<1>3. Shape /\ ValuesFit => ShownWasTrue
  <2> SUFFICES ASSUME Shape, ValuesFit, NEW p \in DOMAIN node,
                      node[p].loader # "none", node[p].st = "done"
               PROVE  \E o \in Op :
                        /\ RequestOf(o) = RequestOf(p[1]) /\ since[o] > 0
                        /\ \E i \in since[o]..Now :
                             Rows(node[p].loader, Key(p), hist[i]) = node[p].ids
    BY DEF ShownWasTrue, IsShown
  <2>1. Len(p) > 2
    BY TopIs DEF Shape, Stands
  <2>2. WasTrue(RequestOf(p[1]), node[p].loader, Key(p), node[p].ids, node[p].at)
    BY <2>1 DEF ValuesFit, ValueFits
  <2> QED
    BY <2>2 DEF WasTrue
<1> QED
  BY <1>1, <1>2, <1>3, PTL DEF Spec

-----------------------------------------------------------------------------
(* The fields of a mutation follow each other.                             *)
OrderedAt(o) == RootsAreFirst(o) /\ InTurn(o)

LEMMA RootsKnown ==
  ASSUME Shape, NEW o, RootsAreFirst(o), NEW q \in DOMAIN node, q[1] = o
  PROVE  /\ Top(q) \in Roots(o) /\ Top(q)[2] = q[2] /\ q[2] \in Nat \ {0}
         /\ Len(q) = 2 => q \in Roots(o) /\ q = Top(q)
<1>1. Stands(q) /\ Top(q) = <<q[1], q[2]>>
  BY DEF Shape, Top
<1>2. Top(q) \in DOMAIN node
  BY <1>1, TopIs
<1>3. Top(q)[1] = o /\ Len(Top(q)) = 2 /\ Top(q)[2] = q[2]
  BY <1>1
<1>4. Top(q) \in Roots(o)
  BY <1>2, <1>3 DEF Roots
<1>5. PICK n \in Nat \ {0} : Roots(o) = {<<o, i>> : i \in 1..n}
  BY DEF RootsAreFirst
<1>6. PICK i \in 1..n : Top(q) = <<o, i>>
  BY <1>4, <1>5
<1>7. q[2] = i /\ i \in Nat \ {0}
  BY <1>3, <1>6
<1> QED
  BY <1>1, <1>3, <1>4, <1>7, TopIs

LEMMA OrderStays ==
  ASSUME NEW o, OrderedAt(o), doc' = doc, DOMAIN node \subseteq DOMAIN node',
         \A q \in DOMAIN node' : q[1] = o => q \in DOMAIN node /\ node'[q] = node[q]
  PROVE  OrderedAt(o)'
<1>1. Roots(o)' = Roots(o)
  BY DEF Roots
<1> QED
  BY <1>1 DEF OrderedAt, RootsAreFirst, InTurn, Roots

LEMMA MoveOrder ==
  ASSUME Shape, NEW o, OrderedAt(o), doc' = doc, NEW fs \in SUBSET DOMAIN node, Moves(fs),
         \A q \in fs : Len(q) = 2 => node'[q].st # "done"
  PROVE  OrderedAt(o)'
<1>1. Roots(o)' = Roots(o) /\ DOMAIN node' = DOMAIN node
  BY DEF Roots, Moves
<1>2. ASSUME doc[o].mutation, NEW q \in DOMAIN node, NEW r \in Roots(o), q[1] = o,
             r[2] > q[2]
      PROVE  /\ node'[q].st \in {"done", "null"}
             /\ node'[r].st = "done" => node'[q].at <= node'[r].at
  <2>1. /\ node[q].st \in {"done", "null"} /\ r \in DOMAIN node /\ Len(r) = 2
        /\ node[r].st = "done" => node[q].at <= node[r].at
    BY <1>2 DEF OrderedAt, InTurn, Roots
  <2>2. node'[q] = node[q]
    BY <2>1 DEF Moves
  <2>3. node'[r].st = "done" => node'[r] = node[r]
    BY <2>1 DEF Moves
  <2> QED
    BY <2>1, <2>2, <2>3
<1> QED
  BY <1>1, <1>2 DEF OrderedAt, RootsAreFirst, InTurn

LEMMA DeliverOrder ==
  ASSUME Shape, NEW o, OrderedAt(o), doc' = doc,
         NEW p \in DOMAIN node, node[p].st \notin {"done", "null"}, NEW ids, NEW at,
         Delivers(p, ids, at), DOMAIN node \subseteq DOMAIN node',
         Len(p) = 2 => at \in Nat /\ at >= Now
  PROVE  OrderedAt(o)'
<1>0. Stands(p)
  BY DEF Shape
<1>1. ASSUME NEW q \in DOMAIN node' \ DOMAIN node
      PROVE  Len(q) # 2 /\ q[1] = p[1] /\ q[2] = p[2]
  <2>1. Len(q) > 2 /\ IsPath(q) /\ q[1] = p[1] /\ Top(q) = Top(p)
    BY <1>0, ChildIs DEF Delivers
  <2>2. Top(q)[2] = q[2] /\ Top(p)[2] = p[2]
    BY DEF Top
  <2> QED
    BY <2>1, <2>2 DEF IsPath
<1>2. Roots(o)' = Roots(o)
  BY <1>1 DEF Roots
<1>3. ASSUME doc[o].mutation, p[1] = o, NEW r \in Roots(o), r[2] > p[2] PROVE FALSE
  <2>1. InTurn(o) /\ r \in DOMAIN node
    BY DEF OrderedAt, Roots
  <2>2. node[p].st \in {"done", "null"}
    BY <1>3, <2>1 DEF InTurn
  <2> QED
    BY <2>2
<1>4. ASSUME doc[o].mutation, NEW q \in DOMAIN node', NEW r \in Roots(o), q[1] = o,
             r[2] > q[2]
      PROVE  /\ node'[q].st \in {"done", "null"}
             /\ node'[r].st = "done" => node'[q].at <= node'[r].at
  <2>1. q \in DOMAIN node /\ q # p
    BY <1>1, <1>3, <1>4
  <2>2. /\ node[q].st \in {"done", "null"} /\ r \in DOMAIN node /\ Len(r) = 2
        /\ node[r].st = "done" => node[q].at <= node[r].at
    BY <1>4, <2>1 DEF OrderedAt, InTurn, Roots
  <2>3. node'[q] = node[q] /\ (r # p => node'[r] = node[r])
    BY <2>1, <2>2 DEF Delivers
  <2>4. CASE r = p
    <3>1. node'[r].at = at /\ at >= Now /\ at \in Nat
      BY <2>2, <2>4 DEF Delivers
    <3>2. node[q].at \in 0..Now /\ Now \in Nat
      BY <2>1, NowIs DEF Shape, Stands
    <3> QED
      BY <2>2, <2>3, <3>1, <3>2
  <2> QED
    BY <2>2, <2>3, <2>4
<1> QED
  BY <1>2, <1>4 DEF OrderedAt, RootsAreFirst, InTurn

LEMMA RootsCounted ==
  ASSUME NEW o, NEW n \in Nat
  PROVE  Cardinality({<<o, i>> : i \in 1..n}) = n
<1> DEFINE f == [i \in 1..n |-> <<o, i>>]
           T == {<<o, i>> : i \in 1..n}
<1>1. f \in [1..n -> T]
  OBVIOUS
<1>2. \A i, j \in 1..n : f[i] = f[j] => i = j
  OBVIOUS
<1>3. \A t \in T : \E i \in 1..n : f[i] = t
  OBVIOUS
<1> HIDE DEF f, T
<1>4. f \in Bijection(1..n, T)
  BY <1>1, <1>2, <1>3 DEF Bijection, Injection, Surjection, IsInjective
<1>5. ExistsBijection(1..n, T)
  BY <1>4 DEF ExistsBijection
<1>6. Cardinality(T) = n
  BY <1>5, FS_CountingElements
<1> QED
  BY <1>6 DEF T

LEMMA NextFieldOrder ==
  ASSUME Shape, NEW o \in Op, OrderedAt(o), NextField(o)
  PROVE  OrderedAt(o)'
<1>1. PICK n \in Nat \ {0} : Roots(o) = {<<o, i>> : i \in 1..n}
  BY DEF OrderedAt, RootsAreFirst
<1>2. PICK new : new = <<o, n + 1>>
  OBVIOUS
<1>3. new[1] = o /\ new[2] = n + 1 /\ Len(new) = 2
  BY <1>2
<1>4. AddsRoots(o, doc[o], {n + 1})
  <2>1. Cardinality(Roots(o)) = n
    BY <1>1, RootsCounted
  <2> QED
    BY <2>1, NextFieldStep
<1>5. /\ DOMAIN node' = DOMAIN node \cup {new}
      /\ \A q \in DOMAIN node : node'[q] = node[q]
      /\ new \notin DOMAIN node => node'[new].st # "done"
  <2>1. \A q \in DOMAIN node' \ DOMAIN node : node'[q].st # "done"
    BY <1>4, NewRootIs DEF AddsRoots
  <2> QED
    BY <1>2, <1>4, <2>1 DEF AddsRoots
<1>6. new \notin DOMAIN node
  <2>1. \A r \in Roots(o) : r[2] \in 1..n
    BY <1>1
  <2>2. new \notin Roots(o)
    BY <1>3, <2>1
  <2> QED
    BY <1>3, <2>2 DEF Roots
<1>7. Roots(o)' = Roots(o) \cup {new}
  BY <1>3, <1>5 DEF Roots
<1>8. RootsAreFirst(o)'
  <2>1. {<<o, i>> : i \in 1..n + 1} = {<<o, i>> : i \in 1..n} \cup {new}
    <3>1. 1..n + 1 = (1..n) \cup {n + 1}
      OBVIOUS
    <3> QED
      BY <1>2, <3>1
  <2>2. Roots(o)' = {<<o, i>> : i \in 1..n + 1} /\ n + 1 \in Nat \ {0}
    BY <1>1, <1>7, <2>1
  <2> QED
    BY <2>2 DEF RootsAreFirst
<1>9. ASSUME NEW q \in DOMAIN node, q[1] = o
      PROVE  node[q].st \in {"done", "null"}
  <2>1. Top(q) \in Roots(o)
    BY <1>9, RootsKnown DEF OrderedAt
  <2>2. Finished(Top(q))
    BY <2>1 DEF NextField, Behind
  <2>3. IsPath(q) /\ IsPath(Top(q)) /\ Len(Top(q)) = 2
    BY <2>1 DEF Shape, Stands, Roots
  <2>4. q \in Below(Top(q))
    BY <2>3, BelowARoot DEF Below
  <2> QED
    BY <2>2, <2>4 DEF Finished
<1>10. ASSUME doc[o].mutation, NEW q \in DOMAIN node', NEW r \in Roots(o) \cup {new},
              q[1] = o, r[2] > q[2]
       PROVE  /\ node'[q].st \in {"done", "null"}
              /\ node'[r].st = "done" => node'[q].at <= node'[r].at
  <2>1. r[2] \in 1..n + 1
    BY <1>1, <1>3
  <2>2. q \in DOMAIN node
    BY <1>3, <1>5, <1>10, <2>1
  <2>3. node'[q] = node[q] /\ node'[q].st \in {"done", "null"}
    BY <1>5, <1>9, <1>10, <2>2
  <2>4. CASE r = new
    BY <1>5, <1>6, <2>3, <2>4
  <2>5. CASE r \in Roots(o)
    BY <1>5, <1>10, <2>2, <2>3, <2>5 DEF OrderedAt, InTurn, Roots
  <2> QED
    BY <2>4, <2>5
<1> QED
  BY <1>7, <1>8, <1>10 DEF OrderedAt, InTurn, NextField

LEMMA BeginOrder ==
  ASSUME Shape, NEW o \in Op, Begin(o)
  PROVE  OrderedAt(o)'
<1>1. PICK n \in Nat \ {0} : First(doc[o]) = 1..n /\ (doc[o].mutation => n = 1)
  <2>1. Len(doc[o].fields) \in Nat \ {0} /\ DOMAIN doc[o].fields = 1..Len(doc[o].fields)
    BY ExecutionAssumption DEF Shape, IsValid
  <2>2. CASE doc[o].mutation
    <3>1. First(doc[o]) = 1..1
      BY <2>2 DEF First
    <3> QED
      BY <3>1
  <2>3. CASE ~ doc[o].mutation
    <3>1. First(doc[o]) = 1..Len(doc[o].fields)
      BY <2>1, <2>3 DEF First
    <3> QED
      BY <2>1, <2>3, <3>1
  <2> QED
    BY <2>2, <2>3
<1>2. \A q \in DOMAIN node : q[1] # o
  BY DEF Begin, Shape, Stands
<1>3. PICK is : is = {<<o, i>> : i \in 1..n}
  OBVIOUS
<1>4. \A r \in is : r[1] = o /\ r[2] \in 1..n /\ Len(r) = 2
  BY <1>3
<1>5. AddsRoots(o, doc[o], 1..n)
  BY <1>1, BeginStep
<1>6. DOMAIN node' = DOMAIN node \cup is
  BY <1>3, <1>5 DEF AddsRoots
<1>7. Roots(o)' = is
  BY <1>2, <1>4, <1>6 DEF Roots
<1>8. RootsAreFirst(o)'
  BY <1>3, <1>7 DEF RootsAreFirst
<1>9. InTurn(o)'
  <2>1. ASSUME doc[o].mutation, NEW q \in is, NEW r \in is, r[2] > q[2] PROVE FALSE
    BY <1>1, <1>4, <2>1
  <2>2. doc' = doc
    BY DEF Begin
  <2>3. ASSUME doc[o].mutation, NEW q \in DOMAIN node', NEW r \in is, q[1] = o, r[2] > q[2]
        PROVE  FALSE
    <3>1. q \in is
      BY <1>2, <1>6, <2>3
    <3> QED
      BY <2>1, <2>3, <3>1
  <2> QED
    BY <1>7, <2>2, <2>3 DEF InTurn
<1> QED
  BY <1>8, <1>9 DEF OrderedAt

LEMMA OthersFirst ==
  ASSUME Shape, Kept, doc' = doc, NEW o, OrderedAt(o), NEW other, other # o, NEW d, NEW is,
         AddsRoots(other, d, is)
  PROVE  OrderedAt(o)'
<1>1. ASSUME NEW q \in DOMAIN node' \ DOMAIN node PROVE q[1] # o
  BY DEF AddsRoots
<1>2. DOMAIN node \subseteq DOMAIN node'
  BY DEF AddsRoots
<1> QED
  BY <1>1, <1>2, OrderStays DEF AddsRoots

LEMMA StepOrder ==
  ASSUME Shape, ValuesFit, Ordered, NEW other \in Op, Step(other), Stood,
         NEW o \in Op, OrderedAt(o)
  PROVE  OrderedAt(o)'
<1>0. Kept /\ DOMAIN node \subseteq DOMAIN node' /\ doc' = doc
  BY DEF Stood, Kept, NodesStay
<1>1. CASE NextField(other)
  <2>1. CASE other = o
    BY <1>1, <2>1, NextFieldOrder
  <2>2. CASE other # o
    BY <1>0, <1>1, <2>2, NextFieldStep, OthersFirst
  <2> QED
    BY <2>1, <2>2
<1>2. ASSUME NEW p \in DOMAIN node, Read(p) PROVE OrderedAt(o)'
  <2>1. (Delivers(p, Found(p), Now) \/ Nulls(p)) /\ node[p].st = "running"
    BY <1>2, ReadStep DEF Read
  <2>2. PICK ids, at : ids = Found(p) /\ at = Now
    OBVIOUS
  <2>3. CASE Delivers(p, ids, at)
    <3>1. at \in Nat /\ at >= Now
      BY <2>2, NowIs
    <3> QED
      BY <1>0, <2>1, <2>3, <3>1, DeliverOrder
  <2>4. CASE Nulls(p)
    BY <1>0, <2>4, MoveOrder DEF Nulls
  <2> QED
    BY <2>1, <2>2, <2>3, <2>4
<1>3. ASSUME NEW p \in DOMAIN node, MutationStep(p) PROVE OrderedAt(o)'
  <2>1. PICK call, rest : call = Head(node[p].calls) /\ rest = Tail(node[p].calls)
    OBVIOUS
  <2>2. /\ \/ Delivers(p, Answers(p, call), Len(hist'))
           \/ Proceeds(p, rest, Answers(p, call)) \/ Nulls(p)
        /\ node[p].st = "running"
    BY <1>3, <2>1, MutationStepIs DEF MutationStep
  <2>3. PICK ids, at : ids = Answers(p, call) /\ at = Len(hist')
    OBVIOUS
  <2>4. CASE Delivers(p, ids, at)
    <3>1. at \in Nat /\ at >= Now
      BY <1>0, <2>3, NowIs DEF Kept, HistoryGrows, Now
    <3> QED
      BY <1>0, <2>2, <2>4, <3>1, DeliverOrder
  <2>5. CASE Proceeds(p, rest, ids)
    BY <1>0, <2>5, MoveOrder DEF Proceeds
  <2>6. CASE Nulls(p)
    BY <1>0, <2>6, MoveOrder DEF Nulls
  <2> QED
    BY <2>2, <2>3, <2>4, <2>5, <2>6
<1>4. ASSUME NEW p \in DOMAIN node, Load(p) PROVE OrderedAt(o)'
  <2>1. /\ node[p].st = "asked" /\ Len(p) # 2
        /\ (\E ids, at : Delivers(p, ids, at)) \/ Waits(p)
    BY <1>4, LoadStep DEF Load, Shape, Stands
  <2>2. ASSUME NEW ids, NEW at, Delivers(p, ids, at) PROVE OrderedAt(o)'
    BY <1>0, <2>1, <2>2, DeliverOrder
  <2>3. CASE Waits(p)
    BY <1>0, <2>1, <2>3, MoveOrder DEF Waits
  <2> QED
    BY <2>1, <2>2, <2>3
<1>5. ASSUME NEW p \in DOMAIN node, Thunk(p) PROVE OrderedAt(o)'
  <2>1. /\ node[p].st = "fetched" /\ Len(p) # 2 /\ \E ids, at : Delivers(p, ids, at)
    BY <1>5, ThunkStep DEF Thunk, Shape, Stands
  <2> QED
    BY <1>0, <2>1, DeliverOrder
<1> QED
  BY <1>1, <1>2, <1>3, <1>4, <1>5 DEF Step

LEMMA NextOrder ==
  ASSUME Shape, ValuesFit, Ordered, Next
  PROVE  Ordered'
<1>0. Stood /\ Kept /\ doc' = doc
  BY NextValues DEF Stood, Kept
<1> SUFFICES ASSUME NEW o \in Op, since'[o] > 0
             PROVE  OrderedAt(o)'
  BY <1>0 DEF Ordered, OrderedAt, Kept
<1>1. ASSUME NEW other \in Op, Begin(other) PROVE OrderedAt(o)'
  <2>1. CASE other = o
    BY <1>1, <2>1, BeginOrder
  <2>2. CASE other # o
    <3>1. since'[o] = since[o]
      BY <1>1, <2>2 DEF Begin, Shape
    <3>2. OrderedAt(o)
      BY <3>1 DEF Ordered, OrderedAt
    <3> QED
      BY <1>0, <1>1, <2>2, <3>2, BeginStep, OthersFirst
  <2> QED
    BY <2>1, <2>2
<1>2. ASSUME since' = since PROVE OrderedAt(o)
  BY <1>2 DEF Ordered, OrderedAt
<1>3. ASSUME NEW other \in Op, Step(other) PROVE OrderedAt(o)'
  <2>1. since' = since
    BY <1>3 DEF Step, NextField, Read, MutationStep, Load, Thunk
  <2> QED
    BY <1>0, <1>2, <1>3, <2>1, StepOrder
<1>4. ASSUME NEW other \in Op, FetchSome(RequestOf(other)) PROVE OrderedAt(o)'
  <2>1. /\ since' = since
        /\ \E fs \in SUBSET Waiting : Moves(fs) /\ \A q \in fs : node'[q].st \in {"fetched", "null"}
    BY <1>4, FetchStep
  <2>2. PICK fs \in SUBSET Waiting : Moves(fs) /\ \A q \in fs : node'[q].st \in {"fetched", "null"}
    BY <2>1
  <2>3. fs \in SUBSET DOMAIN node
    BY DEF Waiting
  <2> QED
    BY <1>0, <1>2, <2>1, <2>2, <2>3, MoveOrder
<1>5. ASSUME NEW m, Change(m[1], m[2]) PROVE OrderedAt(o)'
  <2>1. node' = node /\ since' = since
    BY <1>5, ChangeStep
  <2> QED
    BY <1>0, <1>2, <2>1, OrderStays
<1> QED
  BY <1>1, <1>3, <1>4, <1>5 DEF Next

LEMMA FirstIs ==
  ASSUME Shape, NEW o, RootsAreFirst(o), NEW first, first = <<o, 1>>
  PROVE  first \in Roots(o) /\ first \in DOMAIN node /\ first[1] = o /\ first[2] = 1
         /\ Len(first) = 2 /\ node[first].st \in {"running", "done", "null"}
<1>1. PICK n \in Nat \ {0} : Roots(o) = {<<o, i>> : i \in 1..n}
  BY DEF RootsAreFirst
<1>2. first \in Roots(o) /\ first[1] = o /\ first[2] = 1 /\ Len(first) = 2
  BY <1>1
<1>3. first \in DOMAIN node
  BY <1>2 DEF Roots
<1> QED
  BY <1>2, <1>3 DEF Shape, Stands

(* The first field ends once.                                              *)
LEMMA FirstChanges ==
  ASSUME Shape, Kept, Ordered, NEW o \in Op, doc[o].mutation
  PROVE  /\ BeforeFirst(o)' => BeforeFirst(o)
         /\ AfterFirst(o)' => \/ AfterFirst(o) /\ node'[<<o, 1>>] = node[<<o, 1>>]
                              \/ BeforeFirst(o)
<1>1. PICK first : first = <<o, 1>>
  OBVIOUS
<1>2. CASE since[o] = 0
  BY <1>2 DEF BeforeFirst
<1>3. CASE since[o] # 0
  <2>1. since[o] > 0 /\ since'[o] = since[o]
    BY <1>3, NowIs DEF Shape, Kept, SinceStays
  <2>2. first \in DOMAIN node /\ node[first].st \in {"running", "done", "null"}
    BY <1>1, <2>1, FirstIs DEF Ordered
  <2>3. node[first].st # "running" => node'[first] = node[first]
    BY <2>2 DEF Kept, NodesStay
  <2> QED
    BY <1>1, <2>1, <2>2, <2>3 DEF BeforeFirst, AfterFirst
<1> QED
  BY <1>2, <1>3

(* While it runs no other field of its operation does.                     *)
LEMMA FirstRunsAlone ==
  ASSUME Shape, Ordered, NEW o \in Op, doc[o].mutation, NodesLead(o), BeforeFirst(o),
         NEW p \in DOMAIN node, p[1] = o, node[p].st \notin {"done", "null"}
  PROVE  p = <<o, 1>> /\ Len(p) = 2
<1>1. PICK first : first = <<o, 1>>
  OBVIOUS
<1>2. since[o] > 0 /\ Len(p) = 2
  BY DEF Shape, Stands, NodesLead
<1>3. RootsAreFirst(o) /\ InTurn(o)
  BY <1>2 DEF Ordered
<1>4. first \in DOMAIN node /\ first[1] = o /\ first[2] = 1 /\ node[first].st = "running"
  <2>1. since[o] # 0
    BY <1>2
  <2> QED
    BY <1>1, <1>3, <2>1, FirstIs DEF BeforeFirst
<1>5. p \in Roots(o) /\ p[2] \in Nat \ {0} /\ p = Top(p)
  BY <1>2, <1>3, RootsKnown
<1>6. ~ (p[2] > first[2])
  BY <1>3, <1>4, <1>5 DEF InTurn
<1>7. p[2] = 1
  BY <1>4, <1>5, <1>6
<1>8. p = <<o, 1>>
  BY <1>5, <1>7 DEF Top
<1> QED
  BY <1>2, <1>8

LEMMA AddLeads ==
  ASSUME Shape, Kept, Ordered, NEW o \in Op, doc[o].mutation, NodesLead(o),
         NEW other, NEW d, NEW is, AddsRoots(other, d, is)
  PROVE  NodesLead(o)'
<1>1. PICK first : first = <<o, 1>>
  OBVIOUS
<1>2. ASSUME NEW q \in DOMAIN node' PROVE Len(q) = 2 \/ (q \in DOMAIN node /\ node'[q] = node[q])
  BY DEF AddsRoots
<1>3. ASSUME BeforeFirst(o)', NEW q \in DOMAIN node', q[1] = o PROVE Len(q) = 2
  BY <1>2, <1>3, FirstChanges DEF NodesLead
<1>4. ASSUME AfterFirst(o)', NEW q \in DOMAIN node', q[1] = o, Len(q) # 2,
             node'[q].st \in {"fetched", "done"}
      PROVE  node'[q].at >= node'[first].at
  <2>1. q \in DOMAIN node /\ node'[q] = node[q]
    BY <1>2, <1>4
  <2>2. ~ BeforeFirst(o)
    BY <1>4, <2>1 DEF NodesLead
  <2>3. AfterFirst(o) /\ node'[first] = node[first]
    BY <1>1, <1>4, <2>2, FirstChanges
  <2> QED
    BY <1>1, <1>4, <2>1, <2>3 DEF NodesLead
<1> QED
  BY <1>1, <1>3, <1>4 DEF NodesLead

LEMMA MoveLeads ==
  ASSUME Shape, Kept, Ordered, NEW o \in Op, doc[o].mutation, NodesLead(o), since' = since,
         NEW fs \in SUBSET DOMAIN node, Moves(fs),
         \A q \in fs : q[1] = o /\ Len(q) # 2 /\ node'[q].st \in {"fetched", "done"} =>
            node'[q].at = Now
  PROVE  NodesLead(o)'
<1>1. PICK first : first = <<o, 1>>
  OBVIOUS
<1>2. DOMAIN node' = DOMAIN node /\ \A q \in DOMAIN node \ fs : node'[q] = node[q]
  BY DEF Moves
<1>3. ASSUME BeforeFirst(o)', NEW q \in DOMAIN node', q[1] = o PROVE Len(q) = 2
  BY <1>2, <1>3, FirstChanges DEF NodesLead
<1>4. ASSUME AfterFirst(o)', NEW q \in DOMAIN node', q[1] = o, Len(q) # 2,
             node'[q].st \in {"fetched", "done"}
      PROVE  node'[q].at >= node'[first].at
  <2>1. q \in DOMAIN node /\ ~ BeforeFirst(o)
    BY <1>2, <1>4 DEF NodesLead
  <2>2. AfterFirst(o) /\ node'[first] = node[first]
    BY <1>1, <1>4, <2>1, FirstChanges
  <2>3. CASE q \in fs
    <3>1. node'[q].at = Now
      BY <1>4, <2>3
    <3>2. first \in DOMAIN node
      BY <1>1, <2>2, FirstIs DEF Ordered, AfterFirst
    <3>3. node[first].at \in 0..Now /\ Now \in Nat
      BY <3>2, NowIs DEF Shape, Stands
    <3> QED
      BY <2>2, <3>1, <3>3
  <2>4. CASE q \notin fs
    BY <1>1, <1>2, <1>4, <2>1, <2>2, <2>4 DEF NodesLead
  <2> QED
    BY <2>3, <2>4
<1> QED
  BY <1>1, <1>3, <1>4 DEF NodesLead

LEMMA DeliverLeads ==
  ASSUME Shape, Kept, Ordered, NEW o \in Op, doc[o].mutation, NodesLead(o), since' = since,
         NEW p \in DOMAIN node, node[p].st \notin {"done", "null"}, NEW ids, NEW at,
         Delivers(p, ids, at),
         AfterFirst(o) /\ p[1] = o /\ Len(p) # 2 => at >= node[<<o, 1>>].at
  PROVE  NodesLead(o)'
<1>0. Stands(p)
  BY DEF Shape
<1>1. PICK first : first = <<o, 1>>
  OBVIOUS
<1>2. ASSUME NEW q \in DOMAIN node' \ DOMAIN node
      PROVE  q[1] = p[1] /\ node'[q].st = "asked"
  BY <1>0, ChildIs DEF Delivers
<1>3. ASSUME BeforeFirst(o)', NEW q \in DOMAIN node', q[1] = o PROVE Len(q) = 2
  <2>1. BeforeFirst(o)
    BY <1>3, FirstChanges
  <2>2. CASE q \in DOMAIN node
    BY <1>3, <2>1, <2>2 DEF NodesLead
  <2>3. CASE q \notin DOMAIN node
    <3>1. p[1] = o
      BY <1>2, <1>3, <2>3
    <3>2. p = first
      BY <1>1, <2>1, <3>1, FirstRunsAlone
    <3>3. node'[first].st = "done" /\ since'[o] > 0
      BY <1>0, <3>1, <3>2 DEF Delivers, Stands
    <3>4. FALSE
      BY <1>1, <1>3, <3>3 DEF BeforeFirst
    <3> QED
      BY <3>4
  <2> QED
    BY <2>2, <2>3
<1>4. ASSUME AfterFirst(o)', NEW q \in DOMAIN node', q[1] = o, Len(q) # 2,
             node'[q].st \in {"fetched", "done"}
      PROVE  node'[q].at >= node'[first].at
  <2>1. q \in DOMAIN node
    BY <1>2, <1>4
  <2>2. ~ BeforeFirst(o)
    BY <1>4, <2>1 DEF NodesLead
  <2>3. AfterFirst(o) /\ node'[first] = node[first]
    BY <1>1, <1>4, <2>2, FirstChanges
  <2>4. CASE q = p
    <3>1. node'[q].at = at
      BY <2>4 DEF Delivers
    <3> QED
      BY <1>1, <1>4, <2>3, <2>4, <3>1
  <2>5. CASE q # p
    <3>1. node'[q] = node[q]
      BY <2>1, <2>5 DEF Delivers
    <3> QED
      BY <1>1, <1>4, <2>1, <2>3, <3>1 DEF NodesLead
  <2> QED
    BY <2>4, <2>5
<1> QED
  BY <1>1, <1>3, <1>4 DEF NodesLead

LEMMA SameCacheLeads ==
  ASSUME Shape, Kept, Ordered, NEW o \in Op, doc[o].mutation, CacheLeads(o),
         cache' = cache
  PROVE  CacheLeads(o)'
<1>1. PICK first, request : first = <<o, 1>> /\ request = RequestOf(o)
  OBVIOUS
<1>2. RequestOf(o)' = request
  BY <1>1 DEF RequestOf, Kept
<1>3. BeforeFirst(o)' => \A s \in DOMAIN cache' : s[1] # request
  BY <1>1, FirstChanges DEF CacheLeads
<1>4. ASSUME AfterFirst(o)', NEW s \in DOMAIN cache', s[1] = request
      PROVE  cache'[s].at >= node'[first].at
  <2>1. AfterFirst(o) /\ node'[first] = node[first]
    BY <1>1, <1>4, FirstChanges DEF CacheLeads
  <2> QED
    BY <1>1, <1>4, <2>1 DEF CacheLeads
<1> QED
  BY <1>1, <1>2, <1>3, <1>4 DEF CacheLeads

LEMMA ThunkLeads ==
  ASSUME Shape, Kept, Ordered, NEW o \in Op, doc[o].mutation, IsAlone(o), NodesLead(o),
         CacheLeads(o), NEW p \in DOMAIN node, Thunk(p)
  PROVE  CacheLeads(o)'
<1>1. PICK first, request, slot, at :
        first = <<o, 1>> /\ request = RequestOf(o) /\ slot = Slot(p) /\ at = node[p].at
  OBVIOUS
<1>2. RequestOf(o)' = request /\ since' = since
  BY <1>1 DEF RequestOf, Kept, Thunk
<1>3. /\ DOMAIN cache' = DOMAIN cache \cup {slot} /\ cache'[slot].at = at
      /\ \A s \in DOMAIN cache : s # slot => cache'[s] = cache[s]
  <2>1. PICK ids : ids = node[p].ids
    OBVIOUS
  <2>2. cache' = [x \in {slot} \cup DOMAIN cache |->
                    IF x \in {slot} THEN [ids |-> ids, at |-> at] ELSE cache[x]]
    BY <1>1, <2>1 DEF Thunk, Extended
  <2> QED
    BY <2>2
<1>4. node[p].st = "fetched" /\ Len(p) # 2 /\ p[1] \in Op
  BY DEF Thunk, Shape, Stands
<1>5. slot[1] = request => p[1] = o
  BY <1>1, <1>4 DEF Slot, IsAlone
<1>6. ASSUME slot[1] = request
      PROVE  ~ BeforeFirst(o) /\ (AfterFirst(o) => at >= node[first].at)
  BY <1>1, <1>4, <1>5, <1>6 DEF NodesLead
<1>7. BeforeFirst(o)' => \A s \in DOMAIN cache' : s[1] # request
  BY <1>1, <1>2, <1>3, <1>6, FirstChanges DEF CacheLeads
<1>8. ASSUME AfterFirst(o)', NEW s \in DOMAIN cache', s[1] = request
      PROVE  cache'[s].at >= node'[first].at
  <2>1. AfterFirst(o) /\ node'[first] = node[first]
    <3>1. CASE s = slot
      BY <1>1, <1>2, <1>6, <1>8, <3>1, FirstChanges
    <3>2. CASE s # slot
      BY <1>1, <1>2, <1>3, <1>8, <3>2, FirstChanges DEF CacheLeads
    <3> QED
      BY <3>1, <3>2
  <2>2. CASE s = slot
    BY <1>3, <1>6, <1>8, <2>1, <2>2
  <2>3. CASE s # slot
    BY <1>1, <1>3, <1>8, <2>1, <2>3 DEF CacheLeads
  <2> QED
    BY <2>2, <2>3
<1> QED
  BY <1>1, <1>2, <1>7, <1>8 DEF CacheLeads

LEMMA StepLeads ==
  ASSUME Shape, ValuesFit, Ordered, Kept, NEW other \in Op, Step(other), NEW o \in Op,
         doc[o].mutation, IsAlone(o), NodesLead(o), CacheLeads(o)
  PROVE  NodesLead(o)' /\ CacheLeads(o)'
<1>0. since' = since
  BY DEF Step, NextField, Read, MutationStep, Load, Thunk
<1>1. CASE NextField(other)
  <2>1. AddsRoots(other, doc[other], {Cardinality(Roots(other)) + 1}) /\ cache' = cache
    BY <1>1, NextFieldStep DEF NextField
  <2> QED
    BY <1>0, <2>1, AddLeads, SameCacheLeads
<1>2. ASSUME NEW p \in DOMAIN node, Read(p) PROVE NodesLead(o)' /\ CacheLeads(o)'
  <2>1. /\ Delivers(p, Found(p), Now) \/ Nulls(p)
        /\ node[p].st = "running" /\ cache' = cache /\ Len(p) = 2
    BY <1>2, ReadStep, RunsAtTheTop DEF Read
  <2>2. PICK ids, at : ids = Found(p) /\ at = Now
    OBVIOUS
  <2>3. CASE Delivers(p, ids, at)
    BY <1>0, <2>1, <2>3, DeliverLeads, SameCacheLeads
  <2>4. CASE Nulls(p)
    BY <1>0, <2>1, <2>4, MoveLeads, SameCacheLeads DEF Nulls
  <2> QED
    BY <2>1, <2>2, <2>3, <2>4
<1>3. ASSUME NEW p \in DOMAIN node, MutationStep(p) PROVE NodesLead(o)' /\ CacheLeads(o)'
  <2>1. PICK call, rest : call = Head(node[p].calls) /\ rest = Tail(node[p].calls)
    OBVIOUS
  <2>2. /\ \/ Delivers(p, Answers(p, call), Len(hist'))
           \/ Proceeds(p, rest, Answers(p, call)) \/ Nulls(p)
        /\ node[p].st = "running" /\ cache' = cache /\ Len(p) = 2
    BY <1>3, <2>1, MutationStepIs, RunsAtTheTop DEF MutationStep
  <2>3. PICK ids, at : ids = Answers(p, call) /\ at = Len(hist')
    OBVIOUS
  <2>4. CASE Delivers(p, ids, at)
    BY <1>0, <2>2, <2>4, DeliverLeads, SameCacheLeads
  <2>5. CASE Moves({p})
    BY <1>0, <2>2, <2>5, MoveLeads, SameCacheLeads
  <2> QED
    BY <2>2, <2>3, <2>4, <2>5 DEF Nulls, Proceeds
<1>4. ASSUME NEW p \in DOMAIN node, Load(p) PROVE NodesLead(o)' /\ CacheLeads(o)'
  <2>1. /\ node[p].st = "asked" /\ cache' = cache
        /\ \/ Slot(p) \in DOMAIN cache /\ Delivers(p, cache[Slot(p)].ids, cache[Slot(p)].at)
           \/ Waits(p)
    BY <1>4, LoadStep DEF Load
  <2>2. CASE Slot(p) \in DOMAIN cache /\ Delivers(p, cache[Slot(p)].ids, cache[Slot(p)].at)
    <3>1. PICK ids, at, slot : ids = cache[slot].ids /\ at = cache[slot].at /\ slot = Slot(p)
      OBVIOUS
    <3>2. Delivers(p, ids, at) /\ slot \in DOMAIN cache
      BY <2>2, <3>1
    <3>3. slot[1] = RequestOf(p[1])
      BY <3>1 DEF Slot
    <3>4. AfterFirst(o) /\ p[1] = o => at >= node[<<o, 1>>].at
      BY <3>1, <3>2, <3>3 DEF CacheLeads
    <3> QED
      BY <1>0, <2>1, <3>2, <3>4, DeliverLeads, SameCacheLeads
  <2>3. CASE Waits(p)
    BY <1>0, <2>1, <2>3, MoveLeads, SameCacheLeads DEF Waits
  <2> QED
    BY <2>1, <2>2, <2>3
<1>5. ASSUME NEW p \in DOMAIN node, Thunk(p) PROVE NodesLead(o)' /\ CacheLeads(o)'
  <2>1. Delivers(p, node[p].ids, node[p].at) /\ node[p].st = "fetched"
    BY <1>5, ThunkStep DEF Thunk
  <2>2. PICK ids, at : ids = node[p].ids /\ at = node[p].at
    OBVIOUS
  <2>3. AfterFirst(o) /\ p[1] = o /\ Len(p) # 2 => at >= node[<<o, 1>>].at
    BY <2>1, <2>2 DEF NodesLead
  <2>4. Delivers(p, ids, at)
    BY <2>1, <2>2
  <2>5. NodesLead(o)'
    BY <1>0, <2>1, <2>3, <2>4, DeliverLeads
  <2> QED
    BY <1>5, <2>5, ThunkLeads
<1> QED
  BY <1>1, <1>2, <1>3, <1>4, <1>5 DEF Step

LEMMA NextLed ==
  ASSUME Shape, ValuesFit, Ordered, Led, Next
  PROVE  Led'
<1>0. Kept
  BY NextValues DEF Stood
<1> SUFFICES ASSUME NEW o \in Op, doc[o].mutation, IsAlone(o)
             PROVE  NodesLead(o)' /\ CacheLeads(o)'
  BY <1>0 DEF Led, IsAlone, RequestOf, Kept
<1>1. NodesLead(o) /\ CacheLeads(o)
  BY DEF Led
<1>2. ASSUME NEW other \in Op, Begin(other) PROVE NodesLead(o)' /\ CacheLeads(o)'
  <2>1. AddsRoots(other, doc[other], First(doc[other])) /\ cache' = cache
    BY <1>2, BeginStep DEF Begin
  <2> QED
    BY <1>0, <1>1, <2>1, AddLeads, SameCacheLeads
<1>3. ASSUME NEW other \in Op, Step(other) PROVE NodesLead(o)' /\ CacheLeads(o)'
  BY <1>0, <1>1, <1>3, StepLeads
<1>4. ASSUME NEW other \in Op, FetchSome(RequestOf(other))
      PROVE  NodesLead(o)' /\ CacheLeads(o)'
  <2>1. /\ since' = since /\ cache' = cache
        /\ \E fs \in SUBSET Waiting :
             /\ Moves(fs)
             /\ \/ \A q \in fs : node'[q].st = "fetched" /\ node'[q].at = Now
                \/ \A q \in fs : node'[q].st = "null"
    BY <1>4, FetchStep
  <2>2. PICK fs \in SUBSET Waiting :
             /\ Moves(fs)
             /\ \/ \A q \in fs : node'[q].st = "fetched" /\ node'[q].at = Now
                \/ \A q \in fs : node'[q].st = "null"
    BY <2>1
  <2>3. fs \in SUBSET DOMAIN node
    BY DEF Waiting
  <2> QED
    BY <1>0, <1>1, <2>1, <2>2, <2>3, MoveLeads, SameCacheLeads
<1>5. ASSUME NEW m, Change(m[1], m[2]) PROVE NodesLead(o)' /\ CacheLeads(o)'
  <2>1. node' = node /\ cache' = cache /\ since' = since
    BY <1>5, ChangeStep
  <2>2. Moves({})
    BY <2>1 DEF Moves
  <2> QED
    BY <1>0, <1>1, <2>1, <2>2, MoveLeads, SameCacheLeads
<1> QED
  BY <1>2, <1>3, <1>4, <1>5 DEF Next

LEMMA StutterOrder ==
  ASSUME Shape, ValuesFit, Ordered, UNCHANGED vars
  PROVE  Ordered'
<1>1. Kept /\ node' = node /\ since' = since /\ doc' = doc
  BY StutterValues DEF vars, Stood
<1>2. ASSUME NEW o \in Op, since[o] > 0 PROVE OrderedAt(o)'
  BY <1>1, <1>2, OrderStays DEF Ordered, OrderedAt
<1> QED
  BY <1>1, <1>2 DEF Ordered, OrderedAt

LEMMA StutterLed ==
  ASSUME Shape, ValuesFit, Ordered, Led, UNCHANGED vars
  PROVE  Led'
<1>1. Kept /\ node' = node /\ cache' = cache /\ since' = since /\ doc' = doc
  BY StutterValues DEF vars, Stood
<1>2. ASSUME NEW o \in Op, doc[o].mutation, IsAlone(o) PROVE NodesLead(o)' /\ CacheLeads(o)'
  <2>1. Moves({}) /\ NodesLead(o) /\ CacheLeads(o)
    BY <1>1, <1>2 DEF Moves, Led
  <2> QED
    BY <1>1, <1>2, <2>1, MoveLeads, SameCacheLeads
<1> QED
  BY <1>1, <1>2 DEF Led, IsAlone, RequestOf

(* For all documents and bounds: what a mutation shows below one of its    *)
(* fields is from before the calls of the fields behind it, and below the  *)
(* first field, when no other operation shares its loaders, from after its *)
(* own calls (_Mutation goes on when a field and all below it are there).  *)
THEOREM MutationsGoInOrder == Spec => []FieldsInOrder
<1>1. Init => Shape /\ ValuesFit /\ Ordered /\ Led
  BY InitShape DEF Init, Ordered, Led, NodesLead, CacheLeads, AfterFirst
<1>2. Shape /\ ValuesFit /\ Ordered /\ Led /\ [Next]_vars
         => (Shape /\ ValuesFit /\ Ordered /\ Led)'
  <2> SUFFICES ASSUME Shape, ValuesFit, Ordered, Led, [Next]_vars
               PROVE  (Shape /\ ValuesFit /\ Ordered /\ Led)'
    OBVIOUS
  <2>1. CASE Next
    BY <2>1, NextValues, NextOrder, NextLed DEF Stood
  <2>2. CASE UNCHANGED vars
    BY <2>2, StutterValues, StutterOrder, StutterLed DEF Stood
  <2> QED
    BY <2>1, <2>2
<1>3. Shape /\ ValuesFit /\ Ordered /\ Led => FieldsInOrder
  <2> SUFFICES ASSUME Shape, Ordered, Led, NEW o \in Op, since[o] > 0, doc[o].mutation,
                      IsAlone(o), NEW p \in Roots(o), NEW q \in Below(p) \ {p},
                      node[q].st = "done"
               PROVE  /\ p[2] = 1 => node[q].at >= node[p].at
                      /\ \A r \in Roots(o) : r[2] > p[2] /\ node[r].st = "done" =>
                            node[q].at <= node[r].at
    BY DEF FieldsInOrder, IsShown
  <2>1. p \in DOMAIN node /\ p[1] = o /\ Len(p) = 2 /\ IsPath(p) /\ q \in DOMAIN node /\ Stands(q)
    BY DEF Roots, Below, Shape, Stands
  <2>2. Top(q) = p
    BY <2>1, BelowARoot DEF Below, Stands
  <2>3. p = Top(p) /\ p[2] = q[2] /\ q[1] = o
    <3>1. p = Top(p)
      BY <2>1, BelowARoot
    <3>2. Top(p)[1] = p[1] /\ Top(q)[1] = q[1] /\ Top(p)[2] = p[2] /\ Top(q)[2] = q[2]
      BY DEF Top
    <3> QED
      BY <2>1, <2>2, <3>1, <3>2
  <2>4. Len(q) # 2 /\ node[p].st = "done"
    BY <2>1, <2>2, TopIs
  <2>5. ASSUME p[2] = 1 PROVE node[q].at >= node[p].at
    <3>1. p = <<o, 1>>
      BY <2>1, <2>3, <2>5 DEF Top
    <3> QED
      BY <2>1, <2>3, <2>4, <3>1 DEF Led, NodesLead, AfterFirst
  <2>6. ASSUME NEW r \in Roots(o), r[2] > p[2], node[r].st = "done"
        PROVE  node[q].at <= node[r].at
    <3>1. InTurn(o) /\ r \in DOMAIN node
      BY DEF Ordered, Roots
    <3> QED
      BY <2>1, <2>3, <2>6, <3>1 DEF InTurn
  <2> QED
    BY <2>5, <2>6
<1> QED
  BY <1>1, <1>2, <1>3, PTL DEF Spec

-----------------------------------------------------------------------------
(* The services keep the database consistent, and no id comes back.        *)
Follows(d, e) == IsConsistent(e) /\ d.fresh <= e.fresh

HistoryFits ==
    /\ \A i \in DOMAIN hist : IsConsistent(hist[i])
    /\ \A i, j \in DOMAIN hist : i <= j => hist[i].fresh <= hist[j].fresh

IsDb(d) == d = [User |-> d.User, Role |-> d.Role, Quote |-> d.Quote, member |-> d.member,
                links |-> d.links, perms |-> d.perms, fresh |-> d.fresh]

LEMMA DatabaseIs ==
  ASSUME NEW d
  PROVE  d \in Database <=>
           /\ IsDb(d)
           /\ d.User \subseteq Id /\ d.Role \subseteq Id /\ d.Quote \subseteq Id
           /\ d.member \subseteq Id \X Id /\ d.links \subseteq Nat \X Id
           /\ d.perms \subseteq Nat \X Perm /\ d.fresh \in 1..MaxId + 1
BY DEF Database, IsDb

LEMMA IdsAreNatural == MaxId \in Nat \ {0} /\ Id \subseteq Nat /\ 1 \in Id
BY ExecutionAssumption DEF Id

LEMMA CreatedFollows ==
  ASSUME NEW d, IsConsistent(d), CreateCan(d), NEW type \in {"User", "Role", "Quote"}
  PROVE  /\ Follows(d, Created(type, d)) /\ d.fresh \in Id
         /\ \A t \in {"User", "Role", "Quote"} : d.fresh \notin d[t]
<1>1. d.fresh \in Id /\ d.fresh + 1 \in 1..MaxId + 1 /\ d.fresh <= d.fresh + 1
  BY IdsAreNatural, DatabaseIs DEF IsConsistent, CreateCan, Id
<1>2. /\ IsDb(d)
      /\ d.User \subseteq Id /\ d.Role \subseteq Id /\ d.Quote \subseteq Id
      /\ d.member \subseteq Id \X Id /\ d.links \subseteq Nat \X Id
      /\ d.perms \subseteq Nat \X Perm /\ d.fresh \in 1..MaxId + 1
  BY DatabaseIs DEF IsConsistent
<1>3. PICK e : e = Created(type, d)
  OBVIOUS
<1>4. /\ IsDb(e)
      /\ e.fresh = d.fresh + 1 /\ e.member = d.member /\ e.links = d.links
      /\ e.perms = d.perms
      /\ \A t \in {"User", "Role", "Quote"} :
            e[t] = IF t = type THEN d[t] \cup {d.fresh} ELSE d[t]
  BY <1>2, <1>3 DEF Created, IsDb
<1>5. e \in Database
  BY <1>1, <1>2, <1>4, DatabaseIs
<1>6. d.member \subseteq d.User \X d.Role
      /\ \A t \in {"User", "Role", "Quote"} : \A id \in d[t] : id < d.fresh /\ id \in Nat
  BY <1>2, IdsAreNatural DEF IsConsistent
<1>7. e.member \subseteq e.User \X e.Role
  BY <1>4, <1>6
<1>8. ASSUME NEW t \in {"User", "Role", "Quote"}, NEW id \in e[t] PROVE id < e.fresh
  <2>1. id \in d[t] \/ id = d.fresh
    BY <1>4
  <2>2. e.fresh = d.fresh + 1 /\ d.fresh \in Nat
    BY <1>1, <1>4, IdsAreNatural
  <2>3. id \in d[t] => id < d.fresh /\ id \in Nat
    BY <1>6
  <2> QED
    BY <2>1, <2>2, <2>3
<1> QED
  BY <1>1, <1>3, <1>4, <1>5, <1>6, <1>7, <1>8, IdsAreNatural DEF Follows, IsConsistent

(* What is left when no entity is added.                                   *)
LEMMA RestFollows ==
  ASSUME NEW d, IsConsistent(d), NEW e,
         IsDb(e),
         e.User \subseteq d.User, e.Role \subseteq d.Role, e.Quote \subseteq d.Quote,
         e.member \subseteq e.User \X e.Role, e.links \subseteq Nat \X Id,
         e.perms \subseteq Nat \X Perm, e.fresh = d.fresh
  PROVE  Follows(d, e)
<1>1. /\ d.User \subseteq Id /\ d.Role \subseteq Id /\ d.Quote \subseteq Id
      /\ d.fresh \in 1..MaxId + 1
      /\ \A t \in {"User", "Role", "Quote"} : \A id \in d[t] : id < d.fresh
  BY DatabaseIs DEF IsConsistent
<1>2. e \in Database
  BY <1>1, DatabaseIs
<1>3. \A t \in {"User", "Role", "Quote"} : \A id \in e[t] : id < e.fresh
  BY <1>1
<1> QED
  BY <1>1, <1>2, <1>3, IdsAreNatural DEF Follows, IsConsistent

LEMMA ConsistentIs ==
  ASSUME NEW d, IsConsistent(d)
  PROVE  /\ IsDb(d)
         /\ d.User \subseteq Id /\ d.Role \subseteq Id /\ d.Quote \subseteq Id
         /\ d.member \subseteq d.User \X d.Role /\ d.links \subseteq Nat \X Id
         /\ d.member \subseteq Id \X Id
         /\ d.perms \subseteq Nat \X Perm /\ d.fresh \in Nat
BY DatabaseIs, IdsAreNatural DEF IsConsistent

LEMMA SameFollows ==
  ASSUME NEW d, IsConsistent(d)
  PROVE  Follows(d, d)
BY ConsistentIs DEF Follows

LEMMA DeletedUsersFollow ==
  ASSUME NEW d, IsConsistent(d), NEW ids
  PROVE  Follows(d, DeletedUsers(ids, d))
<1>0. IsDb(d)
  BY ConsistentIs
<1>1. PICK e, rest, member :
        /\ e = DeletedUsers(ids, d) /\ rest = d.User \ ids
        /\ member = {m \in d.member : m[1] \notin ids}
  OBVIOUS
<1>2. /\ IsDb(e) /\ e.User = rest /\ e.Role = d.Role
      /\ e.Quote = d.Quote /\ e.member = member
      /\ e.links = d.links /\ e.perms = d.perms /\ e.fresh = d.fresh
  <2>1. e = [d EXCEPT !.User = rest, !.member = member]
    BY <1>1 DEF DeletedUsers
  <2> QED
    BY <1>0, <2>1 DEF IsDb
<1>3. member \subseteq rest \X d.Role
  BY <1>1, ConsistentIs
<1> QED
  BY <1>1, <1>2, <1>3, ConsistentIs, RestFollows

LEMMA RevokedFollow ==
  ASSUME NEW d, IsConsistent(d), NEW ids
  PROVE  Follows(d, RevokedRoles(ids, d))
<1>0. IsDb(d)
  BY ConsistentIs
<1>1. PICK e, links, perms :
        /\ e = RevokedRoles(ids, d)
        /\ links = {m \in d.links : m[2] \notin ids}
        /\ perms = {q \in d.perms : q[1] \notin ids}
  OBVIOUS
<1>2. /\ IsDb(e) /\ e.User = d.User /\ e.Role = d.Role
      /\ e.Quote = d.Quote /\ e.member = d.member
      /\ e.links = links /\ e.perms = perms /\ e.fresh = d.fresh
  <2>1. e = [d EXCEPT !.links = links, !.perms = perms]
    BY <1>1 DEF RevokedRoles
  <2> QED
    BY <1>0, <2>1 DEF IsDb
<1> QED
  BY <1>1, <1>2, ConsistentIs, RestFollows

LEMMA DeletedRolesFollow ==
  ASSUME NEW d, IsConsistent(d), NEW s
  PROVE  Follows(d, DeletedRoles(s, d))
<1>0. IsDb(d)
  BY ConsistentIs
<1>1. PICK e, first, rest, member, links, perms :
        /\ e = DeletedRoles(s, d) /\ first = UniqueInts(s) /\ rest = d.Role \ first
        /\ member = {m \in d.member : m[2] \notin first}
        /\ links = {m \in d.links : m[2] \notin Moved(s)}
        /\ perms = {q \in d.perms : q[1] \notin Moved(s)}
  OBVIOUS
<1>2. /\ IsDb(e) /\ e.User = d.User /\ e.Role = rest
      /\ e.Quote = d.Quote /\ e.member = member
      /\ e.links = links /\ e.perms = perms /\ e.fresh = d.fresh
  <2>1. RevokedRoles(Moved(s), d) = [d EXCEPT !.links = links, !.perms = perms]
    BY <1>1 DEF RevokedRoles
  <2>2. PICK revoked : revoked = RevokedRoles(Moved(s), d)
    OBVIOUS
  <2>3. /\ IsDb(revoked) /\ revoked.User = d.User /\ revoked.Role = d.Role
      /\ revoked.Quote = d.Quote /\ revoked.member = d.member
      /\ revoked.links = links /\ revoked.perms = perms /\ revoked.fresh = d.fresh
    BY <1>0, <2>1, <2>2 DEF IsDb
  <2>4. e = [revoked EXCEPT !.Role = rest, !.member = member]
    BY <1>1, <2>2, <2>3 DEF DeletedRoles
  <2> QED
    BY <2>3, <2>4 DEF IsDb
<1>3. member \subseteq d.User \X rest
  BY <1>1, ConsistentIs
<1> QED
  BY <1>1, <1>2, <1>3, ConsistentIs, RestFollows

LEMMA DeletedQuotesFollow ==
  ASSUME NEW d, IsConsistent(d), NEW ids
  PROVE  Follows(d, [d EXCEPT !.Quote = @ \ ids])
<1>0. IsDb(d)
  BY ConsistentIs
<1>1. PICK e, rest : e = [d EXCEPT !.Quote = @ \ ids] /\ rest = d.Quote \ ids
  OBVIOUS
<1>2. /\ IsDb(e) /\ e.User = d.User /\ e.Role = d.Role
      /\ e.Quote = rest /\ e.member = d.member
      /\ e.links = d.links /\ e.perms = d.perms /\ e.fresh = d.fresh
  <2>1. e = [d EXCEPT !.Quote = rest]
    BY <1>1
  <2> QED
    BY <1>0, <2>1 DEF IsDb
<1> QED
  BY <1>1, <1>2, ConsistentIs, RestFollows

LEMMA SyncedRolesFollow ==
  ASSUME NEW d, IsConsistent(d), NEW e \in Nat, NEW roles,
         roles = {} \/ (e \in d.User /\ roles \subseteq d.Role)
  PROVE  /\ Follows(d, SyncedRoles(e, roles, d))
         /\ Follows(d, Links(d, SyncedRoles(e, roles, d).links))
         /\ RolesByUser(e, SyncedRoles(e, roles, d)) = roles
<1>0. IsDb(d)
  BY ConsistentIs
<1>1. PICK after : after = SyncedRoles(e, roles, d)
  OBVIOUS
<1>2. PICK member : member = {m \in d.member : m[1] # e} \cup ({e} \X roles)
  OBVIOUS
<1>3. PICK links : links = (d.links \ {m \in d.member : m[1] = e}) \cup ({e} \X roles)
  OBVIOUS
<1>4. /\ IsDb(after) /\ after.User = d.User /\ after.Role = d.Role
      /\ after.Quote = d.Quote /\ after.member = member
      /\ after.links = links /\ after.perms = d.perms /\ after.fresh = d.fresh
  <2>1. after = [d EXCEPT !.member = member, !.links = links]
    BY <1>1, <1>2, <1>3 DEF SyncedRoles
  <2> QED
    BY <1>0, <2>1 DEF IsDb
<1>5. {e} \X roles \subseteq d.User \X d.Role /\ {e} \X roles \subseteq Nat \X Id
  BY ConsistentIs DEF IsDb
<1>6. member \subseteq d.User \X d.Role /\ links \subseteq Nat \X Id
  BY <1>2, <1>3, <1>5, ConsistentIs
<1>7. Follows(d, after)
  BY <1>4, <1>6, ConsistentIs, RestFollows
<1>8. PICK left : left = Links(d, links)
  OBVIOUS
<1>9. Follows(d, left)
  <2>1. left = [d EXCEPT !.links = links]
    BY <1>8 DEF Links
  <2>2. /\ IsDb(left) /\ left.User = d.User /\ left.Role = d.Role /\ left.Quote = d.Quote
        /\ left.member = d.member /\ left.links = links /\ left.perms = d.perms
        /\ left.fresh = d.fresh
    BY <1>0, <2>1 DEF IsDb
  <2> QED
    BY <1>6, <2>2, ConsistentIs, RestFollows
<1>10. RolesByUser(e, after) = roles
  <2>1. {x \in member : x[1] = e} = {e} \X roles
    BY <1>2
  <2>2. after.member = member
    BY <1>4
  <2>3. {m[2] : m \in {e} \X roles} = roles
    <3>1. \A r \in roles : <<e, r>> \in {e} \X roles /\ <<e, r>>[2] = r
      OBVIOUS
    <3> QED
      BY <3>1
  <2> QED
    BY <2>1, <2>2, <2>3 DEF RolesByUser
<1> QED
  BY <1>1, <1>4, <1>7, <1>8, <1>9, <1>10

LEMMA SyncedUsersFollow ==
  ASSUME NEW d, IsConsistent(d), NEW e \in Nat, NEW us,
         us = {} \/ (e \in d.Role /\ us \subseteq d.User)
  PROVE  /\ Follows(d, SyncedUsers(e, us, d))
         /\ Follows(d, Links(d, SyncedUsers(e, us, d).links))
         /\ UsersByRole(e, SyncedUsers(e, us, d)) = us
<1>0. IsDb(d)
  BY ConsistentIs
<1>1. PICK after : after = SyncedUsers(e, us, d)
  OBVIOUS
<1>2. PICK member : member = {m \in d.member : m[2] # e} \cup (us \X {e})
  OBVIOUS
<1>3. PICK links : links = (d.links \ {m \in d.member : m[2] = e}) \cup (us \X {e})
  OBVIOUS
<1>4. /\ IsDb(after) /\ after.User = d.User /\ after.Role = d.Role
      /\ after.Quote = d.Quote /\ after.member = member
      /\ after.links = links /\ after.perms = d.perms /\ after.fresh = d.fresh
  <2>1. after = [d EXCEPT !.member = member, !.links = links]
    BY <1>1, <1>2, <1>3 DEF SyncedUsers
  <2> QED
    BY <1>0, <2>1 DEF IsDb
<1>5. us \X {e} \subseteq d.User \X d.Role /\ us \X {e} \subseteq Nat \X Id
  BY ConsistentIs, IdsAreNatural
<1>6. member \subseteq d.User \X d.Role /\ links \subseteq Nat \X Id
  BY <1>2, <1>3, <1>5, ConsistentIs
<1>7. Follows(d, after)
  BY <1>4, <1>6, ConsistentIs, RestFollows
<1>8. PICK left : left = Links(d, links)
  OBVIOUS
<1>9. Follows(d, left)
  <2>1. left = [d EXCEPT !.links = links]
    BY <1>8 DEF Links
  <2>2. /\ IsDb(left) /\ left.User = d.User /\ left.Role = d.Role /\ left.Quote = d.Quote
        /\ left.member = d.member /\ left.links = links /\ left.perms = d.perms
        /\ left.fresh = d.fresh
    BY <1>0, <2>1 DEF IsDb
  <2> QED
    BY <1>6, <2>2, ConsistentIs, RestFollows
<1>10. UsersByRole(e, after) = us
  <2>1. {x \in member : x[2] = e} = us \X {e}
    BY <1>2
  <2>2. after.member = member
    BY <1>4
  <2>3. {m[1] : m \in us \X {e}} = us
    <3>1. \A u \in us : <<u, e>> \in us \X {e} /\ <<u, e>>[1] = u
      OBVIOUS
    <3> QED
      BY <3>1
  <2> QED
    BY <2>1, <2>2, <2>3 DEF UsersByRole
<1> QED
  BY <1>1, <1>4, <1>7, <1>8, <1>9, <1>10

LEMMA SyncedPermissionsFollow ==
  ASSUME NEW d, IsConsistent(d), NEW e \in Nat,
         NEW perms \in SUBSET (Code \X {"none", "read", "write", "manage"})
  PROVE  Follows(d, SyncedPermissions(e, perms, d))
<1>0. IsDb(d)
  BY ConsistentIs
<1>1. PICK after : after = SyncedPermissions(e, perms, d)
  OBVIOUS
<1>2. Expand(perms) \subseteq Perm
  BY DEF Expand, LevelsUpTo, Perm
<1>3. PICK links, kept, rows :
        /\ links = {m \in d.links : m[2] \notin {e}}
        /\ kept = {q \in d.perms : q[1] \notin {e}}
        /\ rows = kept \cup ({e} \X Expand(perms))
  OBVIOUS
<1>4. /\ IsDb(after) /\ after.User = d.User /\ after.Role = d.Role
      /\ after.Quote = d.Quote /\ after.member = d.member
      /\ after.links = links /\ after.perms = rows /\ after.fresh = d.fresh
  <2>1. PICK revoked : revoked = RevokedRoles({e}, d)
    OBVIOUS
  <2>2. revoked = [d EXCEPT !.links = links, !.perms = kept]
    BY <1>3, <2>1 DEF RevokedRoles
  <2>3. /\ IsDb(revoked) /\ revoked.User = d.User /\ revoked.Role = d.Role
      /\ revoked.Quote = d.Quote /\ revoked.member = d.member
      /\ revoked.links = links /\ revoked.perms = kept /\ revoked.fresh = d.fresh
    BY <1>0, <2>2 DEF IsDb
  <2>4. after = [revoked EXCEPT !.perms = rows]
    BY <1>1, <1>3, <2>1, <2>3 DEF SyncedPermissions
  <2> QED
    BY <2>3, <2>4 DEF IsDb
<1>5. {e} \X Expand(perms) \subseteq Nat \X Perm
  BY <1>2
<1>6. links \subseteq Nat \X Id /\ rows \subseteq Nat \X Perm
  BY <1>3, <1>5, ConsistentIs
<1> QED
  BY <1>1, <1>4, <1>6, ConsistentIs, RestFollows

LEMMA ChangedFollows ==
  ASSUME NEW d, IsConsistent(d), NEW u \in d.User, NEW r \in d.Role, NEW member, NEW links,
         member \subseteq d.member \cup {<<u, r>>}, links \subseteq d.links \cup {<<u, r>>},
         NEW e, e = [d EXCEPT !.member = member, !.links = links]
  PROVE  Follows(d, e)
<1>0. IsDb(d)
  BY ConsistentIs
<1>1. /\ IsDb(e) /\ e.User = d.User /\ e.Role = d.Role /\ e.Quote = d.Quote
      /\ e.member = member /\ e.links = links /\ e.perms = d.perms /\ e.fresh = d.fresh
  BY <1>0 DEF IsDb
<1>2. <<u, r>> \in d.User \X d.Role /\ <<u, r>> \in Nat \X Id
  BY ConsistentIs, IdsAreNatural
<1>3. member \subseteq d.User \X d.Role /\ links \subseteq Nat \X Id
  BY <1>2, ConsistentIs
<1> QED
  BY <1>1, <1>3, ConsistentIs, RestFollows

(* What the resolvers give to the services.                                *)
InputFits(in) ==
    /\ in.id \in 0..MaxId /\ in.ids \in Seq(Int)
    /\ IdsOf(in.roles) \in Seq(Int) /\ IdsOf(in.users) \in Seq(Int)
    /\ PermissionsOf(in.permissions) \subseteq
         (Code \X {"none", "read", "write", "manage"}) \cup {Null}

LEMMA InputsFit ==
  ASSUME NEW in \in Input
  PROVE  InputFits(in)
<1>1. in.id \in 0..MaxId /\ in.ids \in Seq(Int)
  BY DEF Input
<1>2. IdsOf(in.roles) \in Seq(Int)
  BY DEF Input, IdsOf
<1>3. IdsOf(in.users) \in Seq(Int)
  BY DEF Input, IdsOf
<1>4. PICK P : P = (Code \X {"none", "read", "write", "manage"}) \cup {Null}
  OBVIOUS
<1>5. IdsOf(in.permissions) \in Seq(P)
  BY <1>4 DEF Input, IdsOf
<1>6. PICK s : s = IdsOf(in.permissions)
  OBVIOUS
<1>7. ToSet(s) \subseteq P
  BY <1>5, <1>6 DEF ToSet
<1> QED
  BY <1>1, <1>2, <1>3, <1>4, <1>6, <1>7 DEF InputFits, PermissionsOf

LEMMA AfterFollows ==
  ASSUME NEW d, IsConsistent(d), NEW call, NEW e \in 0..MaxId, NEW in, InputFits(in), NEW ids,
         Can(call, e, in, ids, d)
  PROVE  Follows(d, After(call, e, in, ids, d))
<1>0. e \in Nat
  BY IdsAreNatural
<1>1. CASE IsCreate(call)
  <2>1. Mutation[call].type \in {"User", "Role", "Quote"}
    BY <1>1 DEF IsCreate, Mutation, CreateUser, CreateRole, CreateQuote, Root
  <2>2. CreateCan(d)
    BY <1>1 DEF Can, IsCreate, IsDelete
  <2>3. PICK after : after = Created(Mutation[call].type, d)
    OBVIOUS
  <2>4. After(call, e, in, ids, d) = after
    BY <1>1, <2>3 DEF After, IsCreate
  <2> QED
    BY <2>1, <2>2, <2>3, <2>4, CreatedFollows
<1>2. CASE call = "deleteUser"
  BY <1>2, DeletedUsersFollow DEF After, IsCreate
<1>3. CASE call = "deleteRole"
  BY <1>3, DeletedRolesFollow DEF After, IsCreate
<1>4. CASE call = "deleteQuote"
  BY <1>4, DeletedQuotesFollow DEF After, IsCreate
<1>5. CASE call = "syncRoles"
  <2>1. PICK s, roles : s = IdsOf(in.roles) /\ roles = ToSet(s)
    OBVIOUS
  <2>2. roles = {} \/ (e \in d.User /\ roles \subseteq d.Role)
    BY <1>5, <2>1 DEF Can, IsCreate, IsDelete, SyncRolesCan, ToSet
  <2>3. After(call, e, in, ids, d) = SyncedRoles(e, roles, d)
    BY <1>5, <2>1 DEF After, IsCreate
  <2> QED
    BY <1>0, <2>2, <2>3, SyncedRolesFollow
<1>6. CASE call = "syncUsers"
  <2>1. PICK s, us : s = IdsOf(in.users) /\ us = ToSet(s)
    OBVIOUS
  <2>2. us = {} \/ (e \in d.Role /\ us \subseteq d.User)
    BY <1>6, <2>1 DEF Can, IsCreate, IsDelete, SyncUsersCan, ToSet
  <2>3. After(call, e, in, ids, d) = SyncedUsers(e, us, d)
    BY <1>6, <2>1 DEF After, IsCreate
  <2> QED
    BY <1>0, <2>2, <2>3, SyncedUsersFollow
<1>7. CASE call = "syncPermissions"
  <2>1. PICK perms : perms = PermissionsOf(in.permissions)
    OBVIOUS
  <2>2. perms \in SUBSET (Code \X {"none", "read", "write", "manage"})
    BY <1>7, <2>1 DEF Can, IsCreate, IsDelete, SyncPermissionsCan, InputFits
  <2>3. After(call, e, in, ids, d) = SyncedPermissions(e, perms, d)
    BY <1>7, <2>1 DEF After, IsCreate
  <2> QED
    BY <1>0, <2>2, <2>3, SyncedPermissionsFollow
<1>8. CASE /\ ~ IsCreate(call)
           /\ call \notin {"deleteUser", "deleteRole", "deleteQuote", "syncRoles", "syncUsers",
                           "syncPermissions"}
  BY <1>8, SameFollows DEF After
<1> QED
  BY <1>1, <1>2, <1>3, <1>4, <1>5, <1>6, <1>7, <1>8

LEMMA LeftFollows ==
  ASSUME NEW d, IsConsistent(d), NEW call, NEW e \in 0..MaxId, NEW in, NEW ids,
         NEW left \in Left(call, e, in, ids, d)
  PROVE  Follows(d, left)
<1>0. e \in Nat
  BY IdsAreNatural
<1>1. CASE left = d
  BY <1>1, SameFollows
<1>2. CASE call = "syncRoles" /\ left # d
  <2>1. PICK s, present : s = IdsOf(in.roles) /\ present = IF e \in d.User THEN d.Role ELSE {}
    OBVIOUS
  <2>2. PICK roles \in Inserted(s, present) : left = Links(d, SyncedRoles(e, roles, d).links)
    BY <1>2, <2>1 DEF Left
  <2>3. roles \subseteq present
    BY <2>2 DEF Inserted
  <2>4. roles = {} \/ (e \in d.User /\ roles \subseteq d.Role)
    BY <2>1, <2>3
  <2> QED
    BY <1>0, <2>2, <2>4, SyncedRolesFollow
<1>3. CASE call = "syncUsers" /\ left # d
  <2>1. PICK s, present : s = IdsOf(in.users) /\ present = IF e \in d.Role THEN d.User ELSE {}
    OBVIOUS
  <2>2. PICK us \in Inserted(s, present) : left = Links(d, SyncedUsers(e, us, d).links)
    BY <1>3, <2>1 DEF Left
  <2>3. us \subseteq present
    BY <2>2 DEF Inserted
  <2>4. us = {} \/ (e \in d.Role /\ us \subseteq d.User)
    BY <2>1, <2>3
  <2> QED
    BY <1>0, <2>2, <2>4, SyncedUsersFollow
<1>4. CASE call = "deleteRole" /\ left # d
  <2>1. left = RevokedRoles(ToSet(in.ids), d)
    BY <1>4 DEF Left
  <2> QED
    BY <2>1, RevokedFollow
<1>5. CASE call \notin {"syncRoles", "syncUsers", "deleteRole"}
  BY <1>5, SameFollows DEF Left
<1> QED
  BY <1>1, <1>2, <1>3, <1>4, <1>5

(* A set of numbers has a least one.                                       *)
LEMMA Least ==
  ASSUME NEW T \in SUBSET Nat, T # {}
  PROVE  \E n \in T : \A m \in T : n <= m
<1> DEFINE family == {0..n : n \in T}
<1>1. family \subseteq FiniteSubsetsOf(Nat)
  <2> SUFFICES ASSUME NEW n \in T PROVE 0..n \in FiniteSubsetsOf(Nat)
    OBVIOUS
  <2>1. n \in Nat /\ 0..n \subseteq Nat
    OBVIOUS
  <2>2. IsFiniteSet(0..n)
    BY <2>1, FS_Interval
  <2> QED
    BY <2>1, <2>2 DEF FiniteSubsetsOf
<1>2. family # {}
  OBVIOUS
<1>3. PICK x \in family : \A y \in family : <<y, x>> \notin StrictSubsetOrdering(Nat)
  <2>1. IsWellFoundedOn(StrictSubsetOrdering(Nat), FiniteSubsetsOf(Nat))
    BY FS_StrictSubsetOrderingWellFounded
  <2> HIDE DEF family
  <2> QED
    BY <1>1, <1>2, <2>1, WFMin
<1>4. PICK n \in T : x = 0..n
  BY <1>3
<1>5. ASSUME NEW m \in T PROVE n <= m
  <2>1. n \in Nat /\ m \in Nat
    OBVIOUS
  <2>2. SUFFICES ASSUME m < n PROVE FALSE
    BY <2>1
  <2>3. 0..m \subseteq 0..n /\ 0..m # 0..n
    BY <2>1, <2>2
  <2>4. <<0..m, 0..n>> \in StrictSubsetOrdering(Nat)
    BY <2>1, <2>3 DEF StrictSubsetOrdering
  <2> QED
    BY <1>3, <1>4, <2>4
<1> QED
  BY <1>4, <1>5
-----------------------------------------------------------------------------
(* The calls of a mutation's resolver, one after the other.                *)
Names == DOMAIN Mutation
IsUpdate(call) == call \in {"updateUser", "updateRole", "updateQuote"}

LEMMA NamesAre ==
  ASSUME NEW name \in Names
  PROVE  /\ IsCreate(name) \/ IsUpdate(name) \/ IsDelete(name)
         /\ Mutation[name].type \in {"User", "Role", "Quote"}
BY DEF Names, Mutation, IsCreate, IsUpdate, IsDelete, CreateUser, UpdateUser, DeleteUser,
       CreateRole, UpdateRole, DeleteRole, CreateQuote, UpdateQuote, DeleteQuote, Root

(* The users of updateRole are set with its permissions only.              *)
UsersDue(name, in) == in.users # Absent /\ (name = "updateRole" => in.permissions # Absent)

(* The calls that are left when the entity is there.                       *)
SyncsLeft(name, in, calls) ==
    \/ calls = <<"syncRoles">> /\ ~ UsersDue(name, in)
    \/ calls = <<"syncPermissions">> /\ ~ UsersDue(name, in) /\ in.roles = Absent
    \/ calls = <<"syncUsers">> /\ in.roles = Absent
    \/ calls = <<"syncPermissions", "syncUsers">> /\ in.roles = Absent

(* Before the first call, and after it.                                    *)
Progress(name, in, calls, ids, before) ==
    \/ calls = Calls(name, in) /\ ids = {}
    \/ IsDelete(name) /\ calls = <<name>> /\ ids \subseteq ToSet(in.ids)
    \/ IsUpdate(name) /\ SyncsLeft(name, in, calls)
    \/ IsCreate(name) /\ SyncsLeft(name, in, calls)
       /\ \E n \in Id : ids = {n} /\ n >= before.fresh

EntityOf(name, in, ids) ==
    IF IsCreate(name) /\ ids # {} THEN CHOOSE id \in ids : TRUE ELSE in.id

(* What a mutation that is shown has done.                                 *)
Result(name, in, type, ids, d, before) ==
    LET e == EntityOf(name, in, ids)
    IN /\ in.roles # Absent => RolesByUser(e, d) = ToSet(IdsOf(in.roles))
       /\ UsersDue(name, in) => UsersByRole(e, d) = ToSet(IdsOf(in.users))
       /\ IsCreate(name) => ids \cap before[type] = {}
       /\ IsDelete(name) => ids \cap d[type] = {}
       /\ name = "deleteRole" => \A r \in ids :
            UsersByRole(r, d) = {} /\ PermissionsByRole(r, d) = {}

LEMMA OneCall ==
  ASSUME NEW a
  PROVE  <<a>> \o <<>> = <<a>> /\ Head(<<a>>) = a /\ Tail(<<a>>) = <<>> /\ <<a>> # <<>>
<1>1. <<a>> \in Seq({a}) /\ Len(<<a>>) = 1
  OBVIOUS
<1>2. PICK t : t = <<a>> \o <<>>
  OBVIOUS
<1>3. t \in Seq({a}) /\ Len(t) = 1 /\ t[1] = a
  BY <1>1, <1>2
<1>4. t = <<a>>
  BY <1>3
<1> QED
  BY <1>1, <1>2, <1>4

LEMMA TwoCalls ==
  ASSUME NEW a, NEW b
  PROVE  /\ <<a>> \o <<b>> = <<a, b>> /\ <<a, b>> \o <<>> = <<a, b>>
         /\ Head(<<a, b>>) = a /\ Tail(<<a, b>>) = <<b>> /\ <<a, b>> # <<>>
<1>1. <<a>> \in Seq({a, b}) /\ <<b>> \in Seq({a, b}) /\ <<a, b>> \in Seq({a, b})
  OBVIOUS
<1>2. PICK t : t = <<a>> \o <<b>>
  OBVIOUS
<1>3. t \in Seq({a, b}) /\ Len(t) = 2 /\ t[1] = a /\ t[2] = b
  BY <1>1, <1>2
<1>4. t = <<a, b>>
  BY <1>3
<1>5. PICK u : u = <<a, b>> \o <<>>
  OBVIOUS
<1>6. u \in Seq({a, b}) /\ Len(u) = 2 /\ u[1] = a /\ u[2] = b
  BY <1>1, <1>5
<1>7. u = <<a, b>>
  BY <1>6
<1>8. PICK v : v = Tail(<<a, b>>)
  OBVIOUS
<1>9. v \in Seq({a, b}) /\ Len(v) = 1 /\ v[1] = b
  BY <1>1, <1>8
<1>10. v = <<b>>
  BY <1>9
<1>11. Head(<<a, b>>) = a /\ Len(<<a, b>>) = 2 /\ Len(<<>>) = 0
  BY <1>1
<1> QED
  BY <1>2, <1>4, <1>5, <1>7, <1>8, <1>10, <1>11

LEMMA ThreeCalls ==
  ASSUME NEW a, NEW b, NEW c
  PROVE  /\ (<<a>> \o <<b>>) \o <<c>> = <<a, b, c>>
         /\ Head(<<a, b, c>>) = a /\ Tail(<<a, b, c>>) = <<b, c>>
<1> DEFINE S == {a, b, c}
<1>1. <<a, b>> \in Seq(S) /\ <<c>> \in Seq(S) /\ <<a, b, c>> \in Seq(S)
  OBVIOUS
<1>2. PICK t : t = <<a, b>> \o <<c>>
  OBVIOUS
<1>3. t \in Seq(S) /\ Len(t) = 3 /\ t[1] = a /\ t[2] = b /\ t[3] = c
  BY <1>1, <1>2
<1>4. t = <<a, b, c>>
  BY <1>3
<1>5. PICK v : v = Tail(<<a, b, c>>)
  OBVIOUS
<1>6. v \in Seq(S) /\ Len(v) = 2 /\ v[1] = b /\ v[2] = c
  BY <1>1, <1>5
<1>7. v = <<b, c>>
  BY <1>6
<1>8. Head(<<a, b, c>>) = a
  BY <1>1
<1> QED
  BY <1>2, <1>4, <1>5, <1>7, <1>8, TwoCalls

LEMMA CallsAre ==
  ASSUME NEW name \in Names, NEW f, f.name = name, IsValidField(f, TRUE),
         NEW calls, calls = Calls(name, f.arg)
  PROVE  /\ IsDelete(name) => Head(calls) = "find" /\ Tail(calls) = <<name>>
         /\ ~ IsDelete(name) => Head(calls) = name
         /\ ~ IsDelete(name) /\ Tail(calls) # <<>> => SyncsLeft(name, f.arg, Tail(calls))
         /\ Tail(calls) = <<>> => f.arg.roles = Absent /\ ~ UsersDue(name, f.arg)
         /\ IsDelete(name) => f.arg.roles = Absent /\ ~ UsersDue(name, f.arg)
<1>1. PICK in : in = f.arg
  OBVIOUS
<1>2. CASE name \in {"createUser", "updateUser"}
  <2>1. in.users = Absent
    BY <1>1, <1>2 DEF IsValidField
  <2>2. CASE in.roles = Absent
    <3>1. calls = <<name>>
      BY <1>1, <1>2, <2>2, OneCall, TwoCalls DEF Calls, Optional, IsGiven
    <3>2. Head(calls) = name /\ Tail(calls) = <<>>
      BY <3>1, OneCall
    <3> QED
      BY <1>1, <1>2, <2>1, <2>2, <3>2 DEF UsersDue, IsDelete
  <2>3. CASE in.roles # Absent
    <3>1. calls = <<name, "syncRoles">>
      BY <1>1, <1>2, <2>3, OneCall, TwoCalls DEF Calls, Optional, IsGiven
    <3>2. Head(calls) = name /\ Tail(calls) = <<"syncRoles">> /\ <<"syncRoles">> # <<>>
      BY <3>1, OneCall, TwoCalls
    <3> QED
      BY <1>1, <1>2, <2>1, <3>2 DEF UsersDue, IsDelete, SyncsLeft
  <2> QED
    BY <2>2, <2>3
<1>3. CASE name = "createRole"
  <2>1. in.roles = Absent
    BY <1>1, <1>3 DEF IsValidField
  <2>2. calls = (<<name>> \o Optional(IsGiven(in.permissions), "syncPermissions"))
                          \o Optional(IsGiven(in.users), "syncUsers")
    BY <1>1, <1>3 DEF Calls
  <2>3. CASE in.users = Absent /\ in.permissions = Absent
    <3>1. calls = <<name>>
      BY <2>2, <2>3, OneCall, TwoCalls DEF Optional, IsGiven
    <3>2. Head(calls) = name /\ Tail(calls) = <<>>
      BY <3>1, OneCall
    <3> QED
      BY <1>1, <1>3, <2>1, <2>3, <3>2 DEF UsersDue, IsDelete
  <2>4. CASE in.users = Absent /\ in.permissions # Absent
    <3>1. calls = <<name, "syncPermissions">>
      BY <2>2, <2>4, OneCall, TwoCalls DEF Optional, IsGiven
    <3>2. Head(calls) = name /\ Tail(calls) = <<"syncPermissions">> /\ <<"syncPermissions">> # <<>>
      BY <3>1, OneCall, TwoCalls
    <3> QED
      BY <1>1, <1>3, <2>1, <2>4, <3>2 DEF UsersDue, IsDelete, SyncsLeft
  <2>5. CASE in.users # Absent /\ in.permissions = Absent
    <3>1. calls = <<name, "syncUsers">>
      BY <2>2, <2>5, OneCall, TwoCalls DEF Optional, IsGiven
    <3>2. Head(calls) = name /\ Tail(calls) = <<"syncUsers">> /\ <<"syncUsers">> # <<>>
      BY <3>1, OneCall, TwoCalls
    <3> QED
      BY <1>1, <1>3, <2>1, <2>5, <3>2 DEF IsDelete, SyncsLeft
  <2>6. CASE in.users # Absent /\ in.permissions # Absent
    <3>1. calls = (<<name>> \o <<"syncPermissions">>) \o <<"syncUsers">>
      BY <2>2, <2>6 DEF Optional, IsGiven
    <3>2. calls = <<name, "syncPermissions", "syncUsers">>
      BY <3>1, ThreeCalls
    <3>3. PICK rest : rest = <<"syncPermissions", "syncUsers">> /\ rest # <<>>
      BY TwoCalls
    <3>4. Head(calls) = name /\ Tail(calls) = rest
      BY <3>2, <3>3, ThreeCalls
    <3> QED
      BY <1>1, <1>3, <2>1, <2>6, <3>3, <3>4 DEF IsDelete, SyncsLeft
  <2> QED
    BY <2>3, <2>4, <2>5, <2>6
<1>4. CASE name = "updateRole"
  <2>1. in.roles = Absent
    BY <1>1, <1>4 DEF IsValidField
  <2>2. calls = (<<name>> \o Optional(IsGiven(in.permissions), "syncPermissions"))
                          \o Optional(IsGiven(in.permissions), "syncUsers")
    BY <1>1, <1>4 DEF Calls
  <2>3. CASE in.permissions = Absent
    <3>1. calls = <<name>>
      BY <2>2, <2>3, OneCall, TwoCalls DEF Optional, IsGiven
    <3>2. Head(calls) = name /\ Tail(calls) = <<>>
      BY <3>1, OneCall
    <3> QED
      BY <1>1, <1>4, <2>1, <2>3, <3>2 DEF UsersDue, IsDelete
  <2>4. CASE in.permissions # Absent
    <3>1. calls = (<<name>> \o <<"syncPermissions">>) \o <<"syncUsers">>
      BY <2>2, <2>4 DEF Optional, IsGiven
    <3>2. calls = <<name, "syncPermissions", "syncUsers">>
      BY <3>1, ThreeCalls
    <3>3. PICK rest : rest = <<"syncPermissions", "syncUsers">> /\ rest # <<>>
      BY TwoCalls
    <3>4. Head(calls) = name /\ Tail(calls) = rest
      BY <3>2, <3>3, ThreeCalls
    <3> QED
      BY <1>1, <1>4, <2>1, <2>4, <3>3, <3>4 DEF IsDelete, SyncsLeft
  <2> QED
    BY <2>3, <2>4
<1>5. CASE IsDelete(name)
  <2>1. in.roles = Absent /\ in.users = Absent
    BY <1>1, <1>5 DEF IsValidField, IsDelete
  <2>2. calls = <<"find", name>>
    BY <1>1, <1>5 DEF Calls, IsDelete
  <2> QED
    BY <1>1, <1>5, <2>1, <2>2, OneCall, TwoCalls DEF UsersDue
<1>6. CASE name \in {"createQuote", "updateQuote"}
  <2>1. in.roles = Absent /\ in.users = Absent
    BY <1>1, <1>6 DEF IsValidField
  <2>2. calls = <<name>>
    BY <1>1, <1>6 DEF Calls
  <2> QED
    BY <1>1, <1>6, <2>1, <2>2, OneCall DEF UsersDue, IsDelete
<1> QED
  BY <1>2, <1>3, <1>4, <1>5, <1>6, NamesAre DEF IsCreate, IsUpdate

(* The first occurrence of every element is among those that are kept.     *)
LEMMA UniqueIntsAre ==
  ASSUME NEW s \in Seq(Int)
  PROVE  UniqueInts(s) = ToSet(s)
<1>1. ASSUME NEW i \in DOMAIN s PROVE s[i] \in UniqueInts(s)
  <2> DEFINE T == {k \in DOMAIN s : s[k] = s[i]}
  <2>1. T \in SUBSET Nat /\ T # {} /\ T \subseteq DOMAIN s
    OBVIOUS
  <2>2. PICK n \in T : \A m \in T : n <= m
    BY <2>1, Least
  <2>3. n \in DOMAIN s /\ s[n] = s[i] /\ n \in Nat
    BY <2>1, <2>2
  <2>4. ASSUME NEW k \in 1..(n - 1), s[k] = s[n] PROVE FALSE
    <3>1. k \in DOMAIN s /\ k < n
      BY <2>3
    <3>2. k \in T
      BY <2>3, <2>4, <3>1
    <3> QED
      BY <2>2, <2>3, <3>1, <3>2
  <2>5. n \in Firsts(s)
    BY <2>3, <2>4 DEF Firsts
  <2> QED
    BY <2>3, <2>5 DEF UniqueInts
<1>2. UniqueInts(s) \subseteq ToSet(s)
  BY DEF UniqueInts, Firsts, ToSet
<1> QED
  BY <1>1, <1>2 DEF ToSet

(* What is answered, given what a find finds.                              *)
AnswersOf(call, in, ids, d, found) ==
    CASE call = "find"  -> found
      [] IsCreate(call) -> {d.fresh}
      [] IsUpdate(call) -> {in.id}
      [] OTHER          -> ids

(* A call is made in a state where this holds.                             *)
CallFits(name, f, calls, ids, before, d) ==
    /\ name \in Names /\ f.name = name /\ IsValidField(f, TRUE)
    /\ IsConsistent(before) /\ IsConsistent(d) /\ before.fresh <= d.fresh
    /\ Progress(name, f.arg, calls, ids, before) /\ ids \subseteq Id

LEMMA CreateFits ==
  ASSUME NEW name, IsCreate(name), NEW in, NEW before, NEW d,
         IsConsistent(before), IsConsistent(d), before.fresh <= d.fresh, CreateCan(d)
  PROVE  /\ {d.fresh} \subseteq Id
         /\ {d.fresh} \cap before[Mutation[name].type] = {}
         /\ d.fresh >= before.fresh
<1>1. PICK type : type = Mutation[name].type
  OBVIOUS
<1>2. type \in {"User", "Role", "Quote"}
  BY <1>1 DEF IsCreate, Mutation, CreateUser, CreateRole, CreateQuote, Root
<1>3. d.fresh \in Id
  BY <1>2, CreatedFollows
<1>4. before.fresh \in Nat /\ d.fresh \in Nat
  BY ConsistentIs
<1>5. \A id \in before[type] : id < before.fresh /\ id \in Nat
  BY <1>2, ConsistentIs, IdsAreNatural DEF IsConsistent
<1>6. d.fresh \notin before[type]
  BY <1>4, <1>5
<1> QED
  BY <1>1, <1>3, <1>4, <1>6

LEMMA FirstCall ==
  ASSUME NEW name, NEW f, NEW calls, NEW ids, NEW before, NEW d,
         CallFits(name, f, calls, ids, before, d), calls = Calls(name, f.arg), ids = {},
         ~ IsDelete(name), NEW found, NEW new, NEW after,
         Can(name, f.arg.id, f.arg, ids, d), new = AnswersOf(name, f.arg, ids, d, found)
  PROVE  /\ new \subseteq Id /\ Head(calls) = name
         /\ Tail(calls) = <<>> =>
               Result(name, f.arg, Mutation[name].type, new, after, before)
         /\ Tail(calls) # <<>> => Progress(name, f.arg, Tail(calls), new, before)
<1>1. /\ name \in Names /\ f.name = name /\ IsValidField(f, TRUE) /\ IsConsistent(d)
      /\ IsConsistent(before) /\ before.fresh <= d.fresh
  BY DEF CallFits
<1>2. /\ Head(calls) = name
      /\ Tail(calls) # <<>> => SyncsLeft(name, f.arg, Tail(calls))
      /\ Tail(calls) = <<>> => f.arg.roles = Absent /\ ~ UsersDue(name, f.arg)
  BY <1>1, CallsAre
<1>3. CASE IsCreate(name)
  <2>1. CreateCan(d)
    BY <1>3 DEF Can, IsCreate, IsDelete
  <2>2. new = {d.fresh}
    BY <1>3 DEF AnswersOf, IsCreate, IsUpdate
  <2>3. /\ new \subseteq Id /\ new \cap before[Mutation[name].type] = {}
        /\ d.fresh >= before.fresh
    BY <1>1, <1>3, <2>1, <2>2, CreateFits
  <2>4. ~ IsDelete(name) /\ name # "deleteRole"
    BY <1>3 DEF IsCreate, IsDelete
  <2> QED
    BY <1>2, <1>3, <2>2, <2>3, <2>4 DEF Result, Progress
<1>4. CASE IsUpdate(name)
  <2>1. UpdateCan(name, f.arg.id, d)
    BY <1>4 DEF Can, IsUpdate, IsCreate, IsDelete
  <2>2. new = {f.arg.id}
    BY <1>4 DEF AnswersOf, IsCreate, IsUpdate
  <2>3. f.arg.id \in 0..MaxId
    BY <1>1 DEF IsValidField, Input
  <2>4. f.arg.id \in Id
    <3>1. CASE name = "updateRole"
      BY <2>1, <2>3, <3>1, IdsAreNatural DEF UpdateCan, Id
    <3>2. CASE name # "updateRole"
      BY <1>1, <2>1, <3>2, ConsistentIs, NamesAre DEF UpdateCan
    <3> QED
      BY <3>1, <3>2
  <2>5. ~ IsCreate(name) /\ ~ IsDelete(name) /\ name # "deleteRole"
    BY <1>4 DEF IsUpdate, IsCreate, IsDelete
  <2> QED
    BY <1>2, <1>4, <2>2, <2>4, <2>5 DEF Result, Progress
<1> QED
  BY <1>1, <1>3, <1>4, NamesAre

LEMMA DeleteCall ==
  ASSUME NEW name, IsDelete(name), NEW in, InputFits(in), NEW ids \in SUBSET ToSet(in.ids),
         NEW d, IsConsistent(d), NEW before, in.roles = Absent, ~ UsersDue(name, in),
         NEW after, after = After(name, in.id, in, ids, d)
  PROVE  Result(name, in, Mutation[name].type, ids, after, before)
<1>0. ~ IsCreate(name) /\ IsDb(d)
  BY ConsistentIs DEF IsDelete, IsCreate
<1>1. CASE name = "deleteUser"
  <2>1. after = DeletedUsers(ids, d) /\ Mutation[name].type = "User"
    BY <1>0, <1>1 DEF After, Mutation, DeleteUser, Root
  <2>2. after.User = d.User \ ids
    BY <1>0, <2>1 DEF DeletedUsers, IsDb
  <2> QED
    BY <1>0, <1>1, <2>1, <2>2 DEF Result
<1>2. CASE name = "deleteRole"
  <2>1. after = DeletedRoles(in.ids, d) /\ Mutation[name].type = "Role"
    BY <1>0, <1>2 DEF After, Mutation, DeleteRole, Root
  <2>2. PICK told : told = Moved(in.ids)
    OBVIOUS
  <2>3. PICK first : first = UniqueInts(in.ids)
    OBVIOUS
  <2>4. ids \subseteq first /\ first \subseteq told
    BY <2>2, <2>3, UniqueIntsAre DEF Moved, InputFits
  <2>5. PICK revoked : revoked = RevokedRoles(told, d)
    OBVIOUS
  <2>6. PICK perms : perms = {q \in d.perms : q[1] \notin told}
    OBVIOUS
  <2>7. IsDb(revoked) /\ revoked.perms = perms /\ revoked.Role = d.Role
        /\ revoked.member = d.member
    BY <1>0, <2>5, <2>6 DEF RevokedRoles, IsDb
  <2>8. PICK member : member = {m \in d.member : m[2] \notin first}
    OBVIOUS
  <2>9. after = [revoked EXCEPT !.Role = d.Role \ first, !.member = member]
    BY <2>1, <2>2, <2>3, <2>5, <2>7, <2>8 DEF DeletedRoles
  <2>10. after.Role = d.Role \ first /\ after.member = member /\ after.perms = perms
    BY <2>7, <2>9 DEF IsDb
  <2>11. ASSUME NEW r \in ids PROVE UsersByRole(r, after) = {} /\ PermissionsByRole(r, after) = {}
    <3>1. {x \in member : x[2] = r} = {} /\ {x \in perms : x[1] = r} = {}
      BY <2>4, <2>6, <2>8
    <3> QED
      BY <2>10, <3>1 DEF UsersByRole, PermissionsByRole
  <2>12. ids \cap after.Role = {}
    BY <2>4, <2>10
  <2> QED
    BY <1>0, <1>2, <2>1, <2>11, <2>12 DEF Result
<1>3. CASE name = "deleteQuote"
  <2>1. after = [d EXCEPT !.Quote = @ \ ids] /\ Mutation[name].type = "Quote"
    BY <1>0, <1>3 DEF After, Mutation, DeleteQuote, Root
  <2>2. after.Quote = d.Quote \ ids
    BY <1>0, <2>1 DEF IsDb
  <2> QED
    BY <1>0, <1>3, <2>1, <2>2 DEF Result
<1> QED
  BY <1>1, <1>2, <1>3 DEF IsDelete

SyncFits(name, in, calls, e, ids, d) ==
    /\ name \in Names /\ ~ IsDelete(name) /\ InputFits(in) /\ SyncsLeft(name, in, calls)
    /\ e \in 0..MaxId /\ IsConsistent(d) /\ Can(Head(calls), e, in, ids, d)

LEMMA SyncCall ==
  ASSUME NEW name, NEW in, NEW calls, NEW e, NEW ids, NEW d,
         SyncFits(name, in, calls, e, ids, d)
  PROVE  LET after == After(Head(calls), e, in, ids, d)
         IN /\ Head(calls) \in {"syncRoles", "syncPermissions", "syncUsers"}
            /\ Tail(calls) # <<>> => SyncsLeft(name, in, Tail(calls))
            /\ Tail(calls) = <<>> =>
                  /\ in.roles # Absent => RolesByUser(e, after) = ToSet(IdsOf(in.roles))
                  /\ UsersDue(name, in) => UsersByRole(e, after) = ToSet(IdsOf(in.users))
<1>0. e \in Nat /\ IsConsistent(d) /\ Can(Head(calls), e, in, ids, d)
  BY IdsAreNatural DEF SyncFits
<1> PICK after : after = After(Head(calls), e, in, ids, d)
  OBVIOUS
<1>1. CASE calls = <<"syncRoles">> /\ ~ UsersDue(name, in)
  <2>1. Head(calls) = "syncRoles" /\ Tail(calls) = <<>>
    BY <1>1, OneCall
  <2>2. PICK s, roles : s = IdsOf(in.roles) /\ roles = ToSet(s)
    OBVIOUS
  <2>3. roles = {} \/ (e \in d.User /\ roles \subseteq d.Role)
    BY <1>0, <2>1, <2>2 DEF Can, IsCreate, IsDelete, SyncRolesCan, ToSet
  <2>4. after = SyncedRoles(e, roles, d)
    BY <2>1, <2>2 DEF After, IsCreate
  <2>5. RolesByUser(e, after) = roles
    BY <1>0, <2>3, <2>4, SyncedRolesFollow
  <2> QED
    BY <1>1, <2>1, <2>2, <2>5
<1>2. CASE calls = <<"syncPermissions">> /\ ~ UsersDue(name, in) /\ in.roles = Absent
  <2>1. Head(calls) = "syncPermissions" /\ Tail(calls) = <<>>
    BY <1>2, OneCall
  <2> QED
    BY <1>2, <2>1
<1>3. CASE calls = <<"syncUsers">> /\ in.roles = Absent
  <2>1. Head(calls) = "syncUsers" /\ Tail(calls) = <<>>
    BY <1>3, OneCall
  <2>2. PICK s, us : s = IdsOf(in.users) /\ us = ToSet(s)
    OBVIOUS
  <2>3. us = {} \/ (e \in d.Role /\ us \subseteq d.User)
    BY <1>0, <2>1, <2>2 DEF Can, IsCreate, IsDelete, SyncUsersCan, ToSet
  <2>4. after = SyncedUsers(e, us, d)
    BY <2>1, <2>2 DEF After, IsCreate
  <2>5. UsersByRole(e, after) = us
    BY <1>0, <2>3, <2>4, SyncedUsersFollow
  <2> QED
    BY <1>3, <2>1, <2>2, <2>5
<1>4. CASE calls = <<"syncPermissions", "syncUsers">> /\ in.roles = Absent
  <2>1. /\ Head(calls) = "syncPermissions" /\ Tail(calls) = <<"syncUsers">>
        /\ <<"syncUsers">> # <<>>
    BY <1>4, OneCall, TwoCalls
  <2> QED
    BY <1>4, <2>1 DEF SyncsLeft
<1> QED
  BY <1>1, <1>2, <1>3, <1>4 DEF SyncFits, SyncsLeft

LEMMA EntityFits ==
  ASSUME NEW name, NEW f, NEW calls, NEW ids, NEW before, NEW d,
         CallFits(name, f, calls, ids, before, d)
  PROVE  EntityOf(name, f.arg, ids) \in 0..MaxId /\ InputFits(f.arg)
<1>1. IsValidField(f, TRUE) /\ ids \subseteq Id
  BY DEF CallFits
<1>2. InputFits(f.arg) /\ f.arg.id \in 0..MaxId
  BY <1>1, InputsFit DEF IsValidField, InputFits
<1>3. Id \subseteq 0..MaxId
  BY IdsAreNatural DEF Id
<1> QED
  BY <1>1, <1>2, <1>3 DEF EntityOf

(* Every call that succeeds brings the resolver on, and the last one to a  *)
(* result as the input says.                                               *)
Succeeds(name, f, calls, ids, before, d, e, found, call, rest, after, new) ==
    /\ CallFits(name, f, calls, ids, before, d) /\ e = EntityOf(name, f.arg, ids)
    /\ found \subseteq Id /\ (IsDelete(name) => found \subseteq ToSet(f.arg.ids))
    /\ call = Head(calls) /\ rest = Tail(calls) /\ Can(call, e, f.arg, ids, d)
    /\ after = After(call, e, f.arg, ids, d) /\ new = AnswersOf(call, f.arg, ids, d, found)

LEMMA CallStep ==
  ASSUME NEW name, NEW f, NEW calls, NEW ids, NEW before, NEW d, NEW e, NEW found,
         NEW call, NEW rest, NEW after, NEW new,
         Succeeds(name, f, calls, ids, before, d, e, found, call, rest, after, new)
  PROVE  /\ new \subseteq Id
         /\ call = "find" => IsDelete(name)
         /\ rest = <<>> => Result(name, f.arg, Mutation[name].type, new, after, before)
         /\ rest # <<>> => Progress(name, f.arg, rest, new, before)
<1>0. /\ CallFits(name, f, calls, ids, before, d) /\ e = EntityOf(name, f.arg, ids)
      /\ found \subseteq Id /\ (IsDelete(name) => found \subseteq ToSet(f.arg.ids))
      /\ call = Head(calls) /\ rest = Tail(calls) /\ Can(call, e, f.arg, ids, d)
      /\ after = After(call, e, f.arg, ids, d) /\ new = AnswersOf(call, f.arg, ids, d, found)
  BY DEF Succeeds
<1>1. PICK in : in = f.arg
  OBVIOUS
<1>2. /\ name \in Names /\ f.name = name /\ IsValidField(f, TRUE) /\ IsConsistent(d)
      /\ IsConsistent(before) /\ before.fresh <= d.fresh
      /\ Progress(name, in, calls, ids, before) /\ ids \subseteq Id
  BY <1>0, <1>1 DEF CallFits
<1>3. InputFits(in) /\ in.id \in 0..MaxId
  BY <1>0, <1>1, <1>2, InputsFit DEF IsValidField, InputFits
<1>4. e \in 0..MaxId
  BY <1>0, EntityFits
<1>5. CASE calls = Calls(name, in) /\ ids = {} /\ ~ IsDelete(name)
  <2>1. e = in.id
    BY <1>0, <1>1, <1>5 DEF EntityOf
  <2>2. call = name
    BY <1>0, <1>1, <1>2, <1>5, CallsAre
  <2>3. /\ Can(name, f.arg.id, f.arg, ids, d) /\ calls = Calls(name, f.arg)
        /\ new = AnswersOf(name, f.arg, ids, d, found)
    BY <1>0, <1>1, <1>5, <2>1, <2>2
  <2>4. /\ new \subseteq Id
        /\ Tail(calls) = <<>> =>
              Result(name, f.arg, Mutation[name].type, new, after, before)
        /\ Tail(calls) # <<>> => Progress(name, f.arg, Tail(calls), new, before)
    BY <1>0, <1>5, <2>3, FirstCall
  <2>5. call # "find"
    BY <1>2, <2>2, NamesAre DEF IsCreate, IsUpdate, IsDelete
  <2> QED
    BY <1>0, <1>1, <2>4, <2>5
<1>6. CASE calls = Calls(name, in) /\ ids = {} /\ IsDelete(name)
  <2>1. call = "find" /\ rest = <<name>> /\ rest # <<>>
    <3>1. calls = Calls(name, f.arg)
      BY <1>0, <1>1, <1>6
    <3>2. Head(calls) = "find" /\ Tail(calls) = <<name>>
      BY <1>0, <1>2, <1>6, <3>1, CallsAre
    <3> QED
      BY <1>0, <3>2, OneCall
  <2>2. new = found
    BY <1>0, <2>1 DEF AnswersOf, IsCreate, IsUpdate
  <2> QED
    BY <1>0, <1>1, <1>3, <1>4, <1>6, <2>1, <2>2 DEF Progress
<1>7. CASE IsDelete(name) /\ calls = <<name>> /\ ids \subseteq ToSet(in.ids)
  <2>1. call = name /\ rest = <<>>
    BY <1>0, <1>7, OneCall
  <2>2. e = in.id
    BY <1>0, <1>1, <1>7 DEF EntityOf, IsDelete, IsCreate
  <2>3. new = ids
    BY <1>0, <1>7, <2>1 DEF AnswersOf, IsCreate, IsUpdate, IsDelete
  <2>4. in.roles = Absent /\ ~ UsersDue(name, in)
    BY <1>0, <1>1, <1>2, <1>7, CallsAre
  <2>5. after = After(name, in.id, in, ids, d)
    BY <1>0, <1>1, <2>1, <2>2
  <2>6. Result(name, in, Mutation[name].type, ids, after, before)
    BY <1>2, <1>3, <1>7, <2>4, <2>5, DeleteCall
  <2> QED
    BY <1>0, <1>1, <1>2, <1>3, <1>4, <1>7, <2>1, <2>3, <2>6
<1>8. CASE ~ IsDelete(name) /\ SyncsLeft(name, in, calls)
           /\ (IsCreate(name) => \E n \in Id : ids = {n} /\ n >= before.fresh)
  <2>1. /\ call \in {"syncRoles", "syncPermissions", "syncUsers"}
        /\ rest # <<>> => SyncsLeft(name, in, rest)
        /\ rest = <<>> =>
              /\ in.roles # Absent => RolesByUser(e, after) = ToSet(IdsOf(in.roles))
              /\ UsersDue(name, in) => UsersByRole(e, after) = ToSet(IdsOf(in.users))
    <3>1. SyncFits(name, in, calls, e, ids, d)
      BY <1>0, <1>1, <1>2, <1>3, <1>4, <1>8 DEF SyncFits
    <3>2. LET left == After(Head(calls), e, in, ids, d)
          IN /\ Head(calls) \in {"syncRoles", "syncPermissions", "syncUsers"}
             /\ Tail(calls) # <<>> => SyncsLeft(name, in, Tail(calls))
             /\ Tail(calls) = <<>> =>
                   /\ in.roles # Absent => RolesByUser(e, left) = ToSet(IdsOf(in.roles))
                   /\ UsersDue(name, in) => UsersByRole(e, left) = ToSet(IdsOf(in.users))
      BY <3>1, SyncCall
    <3> QED
      BY <1>0, <1>1, <3>1, <3>2
  <2>2. new = ids
    BY <1>0, <2>1 DEF AnswersOf, IsCreate, IsUpdate
  <2>3. IsCreate(name) => ids \cap before[Mutation[name].type] = {}
    <3>1. before.fresh \in Nat /\ Id \subseteq Nat
      BY <1>2, ConsistentIs, IdsAreNatural
    <3>2. PICK type \in {"User", "Role", "Quote"} : type = Mutation[name].type
      BY <1>2, NamesAre
    <3>3. \A id \in before[type] : id < before.fresh
      BY <1>2 DEF IsConsistent
    <3>4. ASSUME NEW n \in Id, ids = {n}, n >= before.fresh PROVE n \notin before[type]
      BY <3>1, <3>3, <3>4
    <3> QED
      BY <1>8, <3>2, <3>4
  <2>4. name # "deleteRole"
    BY <1>8 DEF IsDelete
  <2>5. e = EntityOf(name, in, ids)
    BY <1>0, <1>1
  <2>6. rest = <<>> => Result(name, in, Mutation[name].type, ids, after, before)
    BY <1>8, <2>1, <2>3, <2>4, <2>5 DEF Result
  <2>7. rest # <<>> => Progress(name, in, rest, ids, before)
    BY <1>2, <1>8, <2>1, NamesAre DEF Progress
  <2> QED
    BY <1>0, <1>1, <1>2, <1>3, <1>4, <2>1, <2>2, <2>6, <2>7
<1> QED
  <2>1. ~ (IsDelete(name) /\ IsUpdate(name)) /\ ~ (IsDelete(name) /\ IsCreate(name))
        /\ ~ (IsCreate(name) /\ IsUpdate(name))
    BY DEF IsDelete, IsCreate, IsUpdate
  <2> QED
    BY <1>2, <1>5, <1>6, <1>7, <1>8, <2>1 DEF Progress

-----------------------------------------------------------------------------
(* Every field has the type that the schema says, and what it shows.       *)
LoadedTypes == {<<"PermissionsByRole", "Permission">>, <<"PermissionsByUser", "Permission">>,
                <<"UsersByRole", "User">>, <<"RolesByUser", "Role">>}
Typed(p) ==
    IF Len(p) = 2
    THEN /\ p[2] \in DOMAIN doc[p[1]].fields
         /\ node[p].type = RootOf(doc[p[1]], p[2]).type
    ELSE <<node[p].loader, node[p].type>> \in LoadedTypes
FieldsTyped == \A p \in DOMAIN node : Typed(p)

RootFits(p) ==
    LET before == hist[since[p[1]]]
    IN /\ node[p].ids \subseteq Id
       /\ doc[p[1]].mutation /\ node[p].st = "running" =>
            Progress(Name(p), Arg(p), node[p].calls, node[p].ids, before)
       /\ doc[p[1]].mutation /\ node[p].st = "done" =>
            /\ node[p].at > 0
            /\ Result(Name(p), Arg(p), node[p].type, node[p].ids, hist[node[p].at], before)
RootsFit == \A p \in DOMAIN node : Len(p) = 2 => RootFits(p)

LEMMA RootIs ==
  ASSUME Shape, NEW o \in Op, NEW i \in DOMAIN doc[o].fields
  PROVE  /\ doc[o].mutation \in BOOLEAN
         /\ IsValidField(doc[o].fields[i], doc[o].mutation)
         /\ doc[o].mutation =>
              /\ doc[o].fields[i].name \in Names
              /\ RootOf(doc[o], i).type = Mutation[doc[o].fields[i].name].type
         /\ RootOf(doc[o], i).type \in {"User", "Role", "Quote"}
<1>1. IsValid(doc[o])
  BY ExecutionAssumption DEF Shape
<1>2. doc[o].mutation \in BOOLEAN /\ IsValidField(doc[o].fields[i], doc[o].mutation)
  BY <1>1 DEF IsValid
<1>3. CASE doc[o].mutation
  BY <1>2, <1>3, NamesAre DEF IsValidField, RootOf, Names
<1>4. CASE ~ doc[o].mutation
  <2>1. doc[o].fields[i].name \in DOMAIN Query /\ RootOf(doc[o], i) = Query[doc[o].fields[i].name]
    BY <1>2, <1>4 DEF IsValidField, RootOf
  <2>2. \A name \in DOMAIN Query : Query[name].type \in {"User", "Role", "Quote"}
    BY DEF Query, QueryUsers, QueryUser, QueryAuthUser, QueryRoles, QueryRole, QueryQuotes,
           QueryQuote, Root
  <2> QED
    BY <1>2, <1>4, <2>1, <2>2
<1> QED
  BY <1>2, <1>3, <1>4

LEMMA FieldsAre ==
  ASSUME NEW type \in {"User", "Role", "Quote", "Permission"}, NEW f \in DOMAIN Fields[type],
         Fields[type][f].loader # "none"
  PROVE  <<Fields[type][f].loader, Fields[type][f].type>> \in LoadedTypes
<1>1. CASE type = "User"
  BY <1>1 DEF Fields, Extended, UserRoles, UserPermissions, UserScalars, Taken, Loaded, LoadedTypes
<1>2. CASE type = "Role"
  BY <1>2 DEF Fields, Extended, RolePermissions, RoleUsers, RoleScalars, Taken, Loaded, LoadedTypes
<1>3. CASE type = "Quote"
  BY <1>3 DEF Fields, QuoteFields, Taken
<1>4. CASE type = "Permission"
  BY <1>4 DEF Fields, PermissionFields, Taken
<1> QED
  BY <1>1, <1>2, <1>3, <1>4

LEMMA TypesAre ==
  ASSUME Shape, NEW p \in DOMAIN node, Typed(p)
  PROVE  node[p].type \in {"User", "Role", "Quote", "Permission"}
BY RootIs DEF Shape, Stands, Typed, LoadedTypes

LEMMA ChildIsTyped ==
  ASSUME Shape, NEW p \in DOMAIN node, Typed(p), NEW ids, NEW q, NEW n, IsChild(q, n, p, ids)
  PROVE  <<n.loader, n.type>> \in LoadedTypes
<1>1. PICK type : type = node[p].type
  OBVIOUS
<1>2. PICK f \in DOMAIN Fields[type] :
        /\ Fields[type][f].loader # "none"
        /\ n = Field("asked", Fields[type][f].type, Fields[type][f].loader, node[p].sel[f], <<>>)
  BY <1>1 DEF IsChild
<1>3. n.loader = Fields[type][f].loader /\ n.type = Fields[type][f].type
  BY <1>2 DEF Field
<1> QED
  BY <1>1, <1>2, <1>3, TypesAre, FieldsAre

(* A step keeps the types when those of its new fields are right.          *)
LEMMA TypesStay ==
  ASSUME FieldsTyped, Kept, NEW q \in DOMAIN node
  PROVE  Typed(q)'
BY DEF FieldsTyped, Typed, Kept, NodesStay, RootOf

LEMMA AddedTypes ==
  ASSUME Shape, FieldsTyped, Kept, NEW o \in Op, NEW is \in SUBSET DOMAIN doc[o].fields,
         AddsRoots(o, doc[o], is)
  PROVE  FieldsTyped'
<1>1. ASSUME NEW q \in DOMAIN node' \ DOMAIN node PROVE Typed(q)'
  <2>1. PICK i \in is : q = <<o, i>> /\ node'[q] = NewRoot(doc[o], i)
    BY DEF AddsRoots
  <2>2. node'[q].type = RootOf(doc[o], i).type /\ Len(q) = 2 /\ q[1] = o /\ q[2] = i
    BY <2>1, NewRootIs
  <2> QED
    BY <2>2 DEF Typed, Kept, RootOf
<1> QED
  BY <1>1, TypesStay DEF FieldsTyped

LEMMA DeliveredTypes ==
  ASSUME Shape, FieldsTyped, Kept, NEW p \in DOMAIN node, NEW ids, NEW at, Delivers(p, ids, at)
  PROVE  FieldsTyped'
<1>1. ASSUME NEW q \in DOMAIN node' \ DOMAIN node PROVE Typed(q)'
  <2>1. IsChild(q, node'[q], p, ids) /\ Stands(p)
    BY DEF Delivers, Shape
  <2>2. PICK n : n = node'[q]
    OBVIOUS
  <2>3. <<n.loader, n.type>> \in LoadedTypes
    BY <2>1, <2>2, ChildIsTyped DEF FieldsTyped
  <2>4. Len(q) # 2
    BY <2>1, ChildIs DEF IsPath
  <2> QED
    BY <2>2, <2>3, <2>4 DEF Typed
<1> QED
  BY <1>1, TypesStay DEF FieldsTyped

LEMMA MovedTypes ==
  ASSUME FieldsTyped, Kept, DOMAIN node' = DOMAIN node
  PROVE  FieldsTyped'
BY TypesStay DEF FieldsTyped

(* What a commit does to the history.                                      *)
LEMMA CommittedFits ==
  ASSUME Shape, HistoryFits, NEW d, Follows(Db, d),
         hist' = Committed(d) \/ hist' = Append(hist, d)
  PROVE  HistoryFits'
<1>1. PICK new : new = hist'
  OBVIOUS
<1>2. HistoryGrows /\ new[Len(new)] = d /\ Len(new) \in {Now, Now + 1}
  BY <1>1, HistoryCommitted, HistoryAppended
<1>3. /\ DOMAIN hist = 1..Now /\ DOMAIN new = 1..Len(new) /\ Now \in Nat \ {0}
      /\ \A i \in 1..Now : new[i] = hist[i]
  BY <1>1, <1>2, NowIs DEF HistoryGrows, Now
<1>4. /\ \A i \in DOMAIN hist : IsConsistent(hist[i]) /\ hist[i].fresh <= hist[Now].fresh
      /\ \A i \in DOMAIN hist : hist[i].fresh \in Nat
  <2>1. Now \in DOMAIN hist /\ \A i \in DOMAIN hist : i <= Now
    BY <1>3
  <2> QED
    BY <2>1, ConsistentIs DEF HistoryFits
<1>5. IsConsistent(d) /\ hist[Now].fresh <= d.fresh /\ d.fresh \in Nat
  BY ConsistentIs DEF Follows, Db
<1>6. ASSUME NEW i \in DOMAIN new
      PROVE  IsConsistent(new[i]) /\ new[i].fresh <= d.fresh
  <2>1. CASE i \in 1..Now
    <3>1. new[i] = hist[i] /\ hist[i].fresh <= hist[Now].fresh /\ hist[Now].fresh \in Nat
          /\ hist[i].fresh \in Nat /\ IsConsistent(hist[i])
      BY <1>3, <1>4, <2>1
    <3> QED
      BY <1>5, <3>1
  <2>2. CASE i = Len(new)
    BY <1>2, <1>5, <2>2
  <2>3. i \in 1..Now \/ i = Len(new)
    <3>1. PICK l : l = Len(new)
      OBVIOUS
    <3>2. i \in 1..l /\ Now \in Nat /\ l \in {Now, Now + 1}
      BY <1>2, <1>3, <3>1
    <3> QED
      BY <3>1, <3>2
  <2> QED
    BY <2>1, <2>2, <2>3
<1>7. ASSUME NEW i \in DOMAIN new, NEW j \in DOMAIN new, i <= j
      PROVE  new[i].fresh <= new[j].fresh
  <2>1. CASE j \in 1..Now
    <3>1. i \in 1..Now /\ i \in DOMAIN hist /\ j \in DOMAIN hist
      BY <1>3, <1>7, <2>1
    <3> QED
      BY <1>3, <1>7, <3>1 DEF HistoryFits
  <2>2. CASE j = Len(new)
    BY <1>2, <1>6, <2>2
  <2> QED
    BY <1>2, <1>3, <2>1, <2>2
<1> QED
  BY <1>1, <1>6, <1>7 DEF HistoryFits

LEMMA SameHistoryFits ==
  ASSUME HistoryFits, hist' = hist
  PROVE  HistoryFits'
BY DEF HistoryFits

(* A root field that is done or as it was stays as it fits.                *)
LEMMA RootStays ==
  ASSUME Shape, Kept, NEW q \in DOMAIN node, RootFits(q), node'[q] = node[q]
  PROVE  RootFits(q)'
<1>1. /\ q[1] \in Op /\ since[q[1]] \in 1..Now /\ node[q].at \in 0..Now
  BY NowIs DEF Shape, Stands
<1>2. PICK o, n, at : o = q[1] /\ n = node[q] /\ at = node[q].at
  OBVIOUS
<1>3. since'[o] = since[o] /\ hist'[since[o]] = hist[since[o]] /\ doc' = doc
  BY <1>1, <1>2 DEF Kept, SinceStays, HistoryGrows, Now
<1>4. at > 0 => hist'[at] = hist[at]
  BY <1>1, <1>2, NowIs DEF Kept, HistoryGrows, Now
<1>5. Name(q)' = Name(q) /\ Arg(q)' = Arg(q)
  BY <1>3 DEF Name, Arg
<1> QED
  BY <1>2, <1>3, <1>4, <1>5 DEF RootFits

LEMMA AddedRootsFit ==
  ASSUME Shape, Kept, RootsFit, NEW o \in Op, since'[o] > 0,
         NEW is \in SUBSET DOMAIN doc[o].fields, AddsRoots(o, doc[o], is)
  PROVE  RootsFit'
<1>1. ASSUME NEW q \in DOMAIN node' \ DOMAIN node PROVE RootFits(q)'
  <2>1. PICK i \in is : q = <<o, i>> /\ node'[q] = NewRoot(doc[o], i)
    BY DEF AddsRoots
  <2>2. PICK n : n = node'[q]
    OBVIOUS
  <2>3. /\ n.st \in {"running", "null"} /\ n.ids = {} /\ q[1] = o /\ q[2] = i
        /\ n.calls = IF doc[o].mutation
                     THEN Calls(doc[o].fields[i].name, doc[o].fields[i].arg) ELSE <<"find">>
    BY <2>1, <2>2, NewRootIs
  <2>4. Name(q)' = doc[o].fields[i].name /\ Arg(q)' = doc[o].fields[i].arg /\ doc' = doc
    BY <2>3 DEF Kept, Name, Arg
  <2> QED
    BY <2>2, <2>3, <2>4 DEF RootFits, Progress
<1>2. ASSUME NEW q \in DOMAIN node, Len(q) = 2 PROVE RootFits(q)'
  BY <1>2, RootStays DEF RootsFit, AddsRoots
<1> QED
  BY <1>1, <1>2 DEF RootsFit

LEMMA MovedRootsFit ==
  ASSUME Shape, Kept, RootsFit, NEW fs \in SUBSET DOMAIN node, Moves(fs),
         \A q \in fs : Len(q) = 2 => RootFits(q)'
  PROVE  RootsFit'
<1>1. ASSUME NEW q \in DOMAIN node \ fs, Len(q) = 2 PROVE RootFits(q)'
  BY <1>1, RootStays DEF RootsFit, Moves
<1> QED
  BY <1>1 DEF RootsFit, Moves

LEMMA DeliveredRootsFit ==
  ASSUME Shape, Kept, RootsFit, NEW p \in DOMAIN node, NEW ids, NEW at, Delivers(p, ids, at),
         Len(p) = 2 => RootFits(p)'
  PROVE  RootsFit'
<1>1. ASSUME NEW q \in DOMAIN node \ {p}, Len(q) = 2 PROVE RootFits(q)'
  BY <1>1, RootStays DEF RootsFit, Delivers
<1>2. ASSUME NEW q \in DOMAIN node' \ DOMAIN node PROVE Len(q) # 2
  <2>1. IsChild(q, node'[q], p, ids) /\ Stands(p)
    BY DEF Delivers, Shape
  <2> QED
    BY <2>1, ChildIs DEF IsPath
<1> QED
  BY <1>1, <1>2 DEF RootsFit

(* A root field that becomes null keeps its ids, and says nothing.         *)
LEMMA NullRootFits ==
  ASSUME RootsFit, Kept, NEW p \in DOMAIN node, Nulls(p)
  PROVE  Len(p) = 2 => RootFits(p)'
BY DEF RootsFit, RootFits, Nulls

LEMMA DbIs ==
  ASSUME Shape, HistoryFits
  PROVE  /\ IsConsistent(Db) /\ Db.fresh \in Nat
         /\ \A i \in 1..Now : IsConsistent(hist[i]) /\ hist[i].fresh <= Db.fresh
<1>1. DOMAIN hist = 1..Now /\ Now \in DOMAIN hist /\ \A i \in DOMAIN hist : i <= Now
  BY NowIs
<1> QED
  BY <1>1, ConsistentIs DEF HistoryFits, Db

LEMMA FoundFits ==
  ASSUME Shape, HistoryFits, NEW p \in DOMAIN node, Len(p) = 2, Typed(p)
  PROVE  /\ ~ doc[p[1]].mutation => Found(p) \subseteq Id
         /\ doc[p[1]].mutation /\ IsDelete(Name(p)) =>
              Found(p) \subseteq Id /\ Found(p) \subseteq ToSet(Arg(p).ids)
<1>1. PICK o, i, name, type : /\ o = p[1] /\ i = p[2] /\ name = doc[o].fields[i].name
                              /\ type = node[p].type
  OBVIOUS
<1>2. /\ o \in Op /\ i \in DOMAIN doc[o].fields /\ type = RootOf(doc[o], i).type
      /\ Name(p) = name
  BY <1>1 DEF Shape, Stands, Typed, Name
<1>3. /\ type \in {"User", "Role", "Quote"} /\ doc[o].mutation \in BOOLEAN
      /\ IsValidField(doc[o].fields[i], doc[o].mutation)
  BY <1>2, RootIs
<1>4. Db[type] \subseteq Id /\ Caller.id \in Id
  BY <1>3, DbIs, ConsistentIs, IdsAreNatural DEF Caller
<1>5. CASE ~ doc[o].mutation
  <2>1. name \in DOMAIN Query
    BY <1>1, <1>3, <1>5 DEF IsValidField
  <2>2. RootOf(doc[o], i).takes \in {"nothing", "id"}
    BY <1>1, <1>5, <2>1 DEF RootOf, Query, QueryUsers, QueryUser, QueryAuthUser, QueryRoles,
                            QueryRole, QueryQuotes, QueryQuote, Root
  <2>3. Found(p) \subseteq Id
    BY <1>1, <1>2, <1>4, <2>2 DEF Found
  <2> QED
    BY <1>1, <1>5, <2>3
<1>6. CASE doc[o].mutation /\ IsDelete(name)
  <2>1. RootOf(doc[o], i).takes = "ids" /\ name # "authUser"
    BY <1>1, <1>6 DEF RootOf, Mutation, IsDelete, DeleteUser, DeleteRole, DeleteQuote, Root
  <2>2. Found(p) = Db[type] \cap ToSet(Arg(p).ids)
    BY <1>1, <1>2, <2>1 DEF Found
  <2> QED
    BY <1>1, <1>4, <1>6, <2>2
<1> QED
  BY <1>1, <1>2, <1>5, <1>6

LEMMA ReadFits ==
  ASSUME Shape, HistoryFits, FieldsTyped, RootsFit, Kept, NEW p \in DOMAIN node, Len(p) = 2,
         ~ doc[p[1]].mutation, NEW ids, ids = Found(p), NEW at, Delivers(p, ids, at)
  PROVE  RootFits(p)'
<1>1. ids \subseteq Id
  BY FoundFits DEF FieldsTyped
<1>2. node'[p].ids = ids /\ doc' = doc
  BY DEF Delivers, Kept
<1> QED
  BY <1>1, <1>2 DEF RootFits

LEMMA MutationFits ==
  ASSUME Shape, HistoryFits, FieldsTyped, RootsFit, NEW p \in DOMAIN node, MutationStep(p),
         Len(p) = 2, Stood
  PROVE  HistoryFits' /\ FieldsTyped' /\ RootsFit'
<1>1. PICK o, i, f, name, in, calls, ids, before, d, e, call, rest, found :
        /\ o = p[1] /\ i = p[2] /\ f = doc[o].fields[i] /\ name = Name(p) /\ in = Arg(p)
        /\ calls = node[p].calls /\ ids = node[p].ids /\ before = hist[since[o]] /\ d = Db
        /\ e = Entity(p) /\ call = Head(calls) /\ rest = Tail(calls)
        /\ found = IF IsDelete(name) THEN Found(p) ELSE {}
  OBVIOUS
<1>2. f.name = name /\ f.arg = in /\ e = EntityOf(name, in, ids)
  BY <1>1 DEF Name, Arg, Entity, EntityOf
<1>3. /\ node[p].st = "running" /\ doc[o].mutation /\ o \in Op /\ i \in DOMAIN doc[o].fields
      /\ since[o] \in 1..Now /\ node[p].type = RootOf(doc[o], i).type
  <2>1. since[o] > 0 /\ since[o] \in 0..Now /\ Now \in Nat
    BY <1>1, NowIs DEF Shape, Stands
  <2>2. since[o] \in 1..Now
    BY <2>1
  <2> QED
    BY <1>1, <2>2 DEF MutationStep, Shape, Stands, FieldsTyped, Typed
<1>4. /\ IsValidField(f, TRUE) /\ name \in Names
      /\ node[p].type = Mutation[name].type
  BY <1>1, <1>2, <1>3, RootIs
<1>5. IsConsistent(d) /\ IsConsistent(before) /\ before.fresh <= d.fresh
  BY <1>1, <1>3, DbIs
<1>6. RootFits(p)
  BY DEF RootsFit
<1>7. CallFits(name, f, calls, ids, before, d)
  BY <1>1, <1>2, <1>3, <1>4, <1>5, <1>6 DEF CallFits, RootFits
<1>8. /\ found \in SUBSET Id
      /\ IsDelete(name) => found \subseteq ToSet(f.arg.ids)
  BY <1>1, <1>2, <1>3, FoundFits DEF FieldsTyped
<1>9. e \in 0..MaxId /\ InputFits(in)
  BY <1>2, <1>7, EntityFits
<1>10. Kept
  BY DEF Stood
<1>11. \/ /\ Can(call, e, in, ids, d)
          /\ hist' = Committed(After(call, e, in, ids, d))
          /\ \/ rest = <<>> /\ Delivers(p, Answers(p, call), Len(hist'))
             \/ rest # <<>> /\ Proceeds(p, rest, Answers(p, call))
       \/ /\ \E left \in Left(call, e, in, ids, d) : hist' = Committed(left)
          /\ Nulls(p)
  BY <1>1, MutationStepIs
<1>12. CASE /\ Can(call, e, in, ids, d)
            /\ hist' = Committed(After(call, e, in, ids, d))
            /\ \/ rest = <<>> /\ Delivers(p, Answers(p, call), Len(hist'))
               \/ rest # <<>> /\ Proceeds(p, rest, Answers(p, call))
  <2>1. PICK after, new : /\ after = After(call, e, in, ids, d)
                          /\ new = AnswersOf(call, in, ids, d, found)
    OBVIOUS
  <2>2. /\ new \subseteq Id
        /\ call = "find" => IsDelete(name)
        /\ rest = <<>> => Result(name, in, Mutation[name].type, new, after, before)
        /\ rest # <<>> => Progress(name, in, rest, new, before)
    <3>1. Succeeds(name, f, calls, ids, before, d, e, found, call, rest, after, new)
      BY <1>1, <1>2, <1>7, <1>8, <1>12, <2>1 DEF Succeeds
    <3> QED
      BY <1>2, <3>1, CallStep
  <2>3. new = Answers(p, call)
    BY <1>1, <2>1, <2>2 DEF Answers, AnswersOf, IsUpdate
  <2>4. Follows(d, after)
    BY <1>5, <1>9, <1>12, <2>1, AfterFollows
  <2>5. HistoryFits' /\ hist'[Len(hist')] = after /\ Len(hist') > 0
    <3>1. hist' = Committed(after)
      BY <1>12, <2>1
    <3>2. hist'[Len(hist')] = after /\ Len(hist') \in {Now, Now + 1} /\ Now \in Nat \ {0}
      BY <3>1, HistoryCommitted, NowIs
    <3> QED
      BY <1>1, <2>4, <3>1, <3>2, CommittedFits
  <2>6. /\ since'[o] = since[o] /\ hist'[since[o]] = before /\ doc' = doc
        /\ Name(p)' = name /\ Arg(p)' = in
    BY <1>1, <1>3, <1>10 DEF Kept, SinceStays, HistoryGrows, Now, Name, Arg
  <2>7. CASE rest = <<>> /\ Delivers(p, new, Len(hist'))
    <3>1. PICK at : at = Len(hist')
      OBVIOUS
    <3>2. Delivers(p, new, at)
      BY <2>7, <3>1
    <3>3. /\ node'[p].st = "done" /\ node'[p].ids = new /\ node'[p].at = at
          /\ node'[p].type = Mutation[name].type
      BY <1>4, <3>2 DEF Delivers
    <3>4. RootFits(p)'
      BY <1>1, <2>2, <2>5, <2>6, <2>7, <3>1, <3>3 DEF RootFits
    <3> QED
      BY <1>10, <2>5, <3>2, <3>4, DeliveredTypes, DeliveredRootsFit
  <2>8. CASE rest # <<>> /\ Proceeds(p, rest, new)
    <3>1. /\ node'[p].st = "running" /\ node'[p].ids = new /\ node'[p].calls = rest
          /\ Moves({p})
      BY <2>8 DEF Proceeds
    <3>2. RootFits(p)'
      BY <1>1, <2>2, <2>6, <2>8, <3>1 DEF RootFits
    <3>3. DOMAIN node' = DOMAIN node
      BY <3>1 DEF Moves
    <3> QED
      BY <1>10, <2>5, <3>1, <3>2, <3>3, MovedTypes, MovedRootsFit
  <2> QED
    BY <1>12, <2>3, <2>7, <2>8
<1>13. CASE /\ \E left \in Left(call, e, in, ids, d) : hist' = Committed(left)
            /\ Nulls(p)
  <2>1. PICK left \in Left(call, e, in, ids, d) : hist' = Committed(left)
    BY <1>13
  <2>2. Follows(Db, left)
    BY <1>1, <1>5, <1>9, LeftFollows
  <2>3. HistoryFits'
    BY <2>1, <2>2, CommittedFits
  <2>4. Moves({p}) /\ DOMAIN node' = DOMAIN node
    BY <1>13 DEF Nulls, Moves
  <2>5. RootFits(p)'
    BY <1>10, <1>13, NullRootFits
  <2> QED
    BY <1>10, <2>3, <2>4, <2>5, MovedTypes, MovedRootsFit
<1> QED
  BY <1>11, <1>12, <1>13

LEMMA FieldsOf ==
  ASSUME Shape, NEW o \in Op
  PROVE  Len(doc[o].fields) \in Nat \ {0} /\ DOMAIN doc[o].fields = 1..Len(doc[o].fields)
BY ExecutionAssumption DEF Shape, IsValid

Fits == HistoryFits /\ FieldsTyped /\ RootsFit

LEMMA StepFits ==
  ASSUME Shape, ValuesFit, Ordered, Fits, NEW o \in Op, Step(o), Stood
  PROVE  Fits'
<1>0. Kept /\ HistoryFits /\ FieldsTyped /\ RootsFit
  BY DEF Stood, Fits
<1>1. CASE NextField(o)
  <2>1. PICK n \in Nat \ {0} : Roots(o) = {<<o, i>> : i \in 1..n}
    BY <1>1 DEF NextField, Ordered, RootsAreFirst
  <2>2. Cardinality(Roots(o)) = n
    BY <2>1, RootsCounted
  <2>3. n + 1 \in DOMAIN doc[o].fields
    BY <1>1, <2>2, FieldsOf DEF NextField
  <2>4. AddsRoots(o, doc[o], {n + 1})
    BY <1>1, <2>2, NextFieldStep
  <2>5. since'[o] > 0 /\ hist' = hist
    BY <1>1 DEF NextField
  <2> QED
    BY <1>0, <2>3, <2>4, <2>5, AddedTypes, AddedRootsFit, SameHistoryFits DEF Fits
<1>2. ASSUME NEW p \in DOMAIN node, Read(p) PROVE Fits'
  <2>1. (Delivers(p, Found(p), Now) \/ Nulls(p)) /\ Len(p) = 2 /\ hist' = hist
        /\ ~ doc[p[1]].mutation
    BY <1>2, ReadStep, RunsAtTheTop DEF Read
  <2>2. PICK ids, at : ids = Found(p) /\ at = Now
    OBVIOUS
  <2>3. CASE Delivers(p, ids, at)
    BY <1>0, <2>1, <2>2, <2>3, ReadFits, DeliveredTypes, DeliveredRootsFit, SameHistoryFits
       DEF Fits
  <2>4. CASE Nulls(p)
    <3>1. Moves({p}) /\ DOMAIN node' = DOMAIN node
      BY <2>4 DEF Nulls, Moves
    <3> QED
      BY <1>0, <2>1, <2>4, <3>1, NullRootFits, MovedTypes, MovedRootsFit, SameHistoryFits
         DEF Fits
  <2> QED
    BY <2>1, <2>2, <2>3, <2>4
<1>3. ASSUME NEW p \in DOMAIN node, MutationStep(p) PROVE Fits'
  <2>1. Len(p) = 2
    BY <1>3, RunsAtTheTop DEF MutationStep
  <2> QED
    BY <1>0, <1>3, <2>1, MutationFits DEF Fits
<1>4. ASSUME NEW p \in DOMAIN node, Load(p) PROVE Fits'
  <2>1. /\ Len(p) # 2 /\ hist' = hist
        /\ (\E ids, at : Delivers(p, ids, at)) \/ Waits(p)
    BY <1>4, LoadStep DEF Load, Shape, Stands
  <2>2. ASSUME NEW ids, NEW at, Delivers(p, ids, at) PROVE Fits'
    BY <1>0, <2>1, <2>2, DeliveredTypes, DeliveredRootsFit, SameHistoryFits DEF Fits
  <2>3. CASE Waits(p)
    <3>1. Moves({p}) /\ DOMAIN node' = DOMAIN node
      BY <2>3 DEF Waits, Moves
    <3> QED
      BY <1>0, <2>1, <3>1, MovedTypes, MovedRootsFit, SameHistoryFits DEF Fits
  <2> QED
    BY <2>1, <2>2, <2>3
<1>5. ASSUME NEW p \in DOMAIN node, Thunk(p) PROVE Fits'
  <2>1. /\ Len(p) # 2 /\ hist' = hist /\ \E ids, at : Delivers(p, ids, at)
    BY <1>5, ThunkStep DEF Thunk, Shape, Stands
  <2> QED
    BY <1>0, <2>1, DeliveredTypes, DeliveredRootsFit, SameHistoryFits DEF Fits
<1> QED
  BY <1>1, <1>2, <1>3, <1>4, <1>5 DEF Step

LEMMA NextFits ==
  ASSUME Shape, ValuesFit, Ordered, Fits, Next
  PROVE  Fits'
<1>0. Stood /\ Kept /\ HistoryFits /\ FieldsTyped /\ RootsFit
  BY NextValues DEF Stood, Fits
<1>1. ASSUME NEW o \in Op, Begin(o) PROVE Fits'
  <2>1. First(doc[o]) \in SUBSET DOMAIN doc[o].fields
    BY FieldsOf DEF First
  <2>2. AddsRoots(o, doc[o], First(doc[o]))
    BY <1>1, BeginStep
  <2>3. since'[o] > 0 /\ hist' = hist
    BY <1>1, NowIs DEF Begin, Shape
  <2> QED
    BY <1>0, <2>1, <2>2, <2>3, AddedTypes, AddedRootsFit, SameHistoryFits DEF Fits
<1>2. ASSUME NEW o \in Op, FetchSome(RequestOf(o)) PROVE Fits'
  <2>1. PICK fs \in SUBSET Waiting : Moves(fs)
    BY <1>2, FetchStep
  <2>2. hist' = hist
    BY <1>2, FetchStep
  <2>3. \A q \in fs : q \in DOMAIN node /\ Len(q) # 2
    BY DEF Waiting, Shape, Stands
  <2>4. DOMAIN node' = DOMAIN node
    BY <2>1 DEF Moves
  <2> QED
    BY <1>0, <2>1, <2>2, <2>3, <2>4, MovedTypes, MovedRootsFit, SameHistoryFits DEF Fits
<1>3. ASSUME NEW m, Change(m[1], m[2]) PROVE Fits'
  <2>1. PICK u, r : u = m[1] /\ r = m[2]
    OBVIOUS
  <2>2. PICK d : d = Db
    OBVIOUS
  <2>3. PICK member, links, e :
          /\ member \subseteq d.member \cup {<<u, r>>} /\ links \subseteq d.links \cup {<<u, r>>}
          /\ e = [d EXCEPT !.member = member, !.links = links] /\ hist' = Append(hist, e)
          /\ u \in d.User /\ r \in d.Role
    <3>1. PICK member, links, e :
            /\ member = IF <<u, r>> \in d.member THEN d.member \ {<<u, r>>}
                                                ELSE d.member \cup {<<u, r>>}
            /\ links = IF <<u, r>> \in d.member THEN d.links \ {<<u, r>>}
                                               ELSE d.links \cup {<<u, r>>}
            /\ e = [d EXCEPT !.member = member, !.links = links]
      OBVIOUS
    <3>2. hist' = Append(hist, e) /\ u \in d.User /\ r \in d.Role
      BY <1>3, <2>1, <2>2, <3>1 DEF Change
    <3>3. member \subseteq d.member \cup {<<u, r>>} /\ links \subseteq d.links \cup {<<u, r>>}
      BY <3>1
    <3>4. e = [d EXCEPT !.member = member, !.links = links]
      BY <3>1
    <3> QED
      BY <3>2, <3>3, <3>4
  <2>4. Follows(d, e)
    BY <1>0, <2>2, <2>3, DbIs, ChangedFollows
  <2>5. HistoryFits'
    BY <1>0, <2>2, <2>3, <2>4, CommittedFits
  <2>6. node' = node
    BY <1>3, ChangeStep
  <2> QED
    BY <1>0, <2>5, <2>6, MovedTypes, RootStays DEF Fits, RootsFit
<1> QED
  BY <1>0, <1>1, <1>2, <1>3, StepFits DEF Next

LEMMA StutterFits ==
  ASSUME Shape, ValuesFit, Fits, UNCHANGED vars
  PROVE  Fits'
<1>1. Kept /\ hist' = hist /\ node' = node
  BY StutterValues DEF Stood, vars
<1> QED
  BY <1>1, MovedTypes, RootStays, SameHistoryFits DEF Fits, RootsFit

LEMMA InitFits ==
  ASSUME Init
  PROVE  Fits
<1>1. hist = <<Given>> /\ DOMAIN hist = {1} /\ hist[1] = Given /\ DOMAIN node = {}
  BY DEF Init
<1>2. HistoryFits
  <2>1. IsConsistent(Given) /\ Given.fresh \in Nat
    BY ExecutionAssumption, ConsistentIs
  <2> QED
    BY <1>1, <2>1 DEF HistoryFits
<1> QED
  BY <1>1, <1>2 DEF Fits, FieldsTyped, RootsFit

LEMMA InvariantKept ==
  Spec => [](Shape /\ ValuesFit /\ Ordered /\ Fits)
<1>1. Init => Shape /\ ValuesFit /\ Ordered /\ Fits
  BY InitShape, InitFits DEF Init, Ordered
<1>2. Shape /\ ValuesFit /\ Ordered /\ Fits /\ [Next]_vars
        => (Shape /\ ValuesFit /\ Ordered /\ Fits)'
  <2> SUFFICES ASSUME Shape, ValuesFit, Ordered, Fits, [Next]_vars
               PROVE  (Shape /\ ValuesFit /\ Ordered /\ Fits)'
    OBVIOUS
  <2>1. CASE Next
    BY <2>1, NextValues, NextOrder, NextFits DEF Stood
  <2>2. CASE UNCHANGED vars
    BY <2>2, StutterValues, StutterOrder, StutterFits DEF Stood
  <2> QED
    BY <2>1, <2>2
<1> QED
  BY <1>1, <1>2, PTL DEF Spec

LEMMA RowsFit ==
  ASSUME NEW d, IsConsistent(d), NEW loader, NEW type, <<loader, type>> \in LoadedTypes, NEW key
  PROVE  Rows(loader, key, d) \subseteq IF type = "Permission" THEN Perm ELSE Id
<1>0. d.member \subseteq Id \X Id /\ d.perms \subseteq Nat \X Perm
  BY ConsistentIs
<1>1. \A x : PermissionsByRole(x, d) \subseteq Perm
  BY <1>0 DEF PermissionsByRole
<1>2. CASE loader = "PermissionsByRole" /\ type = "Permission"
  BY <1>1, <1>2 DEF Rows
<1>3. CASE loader = "PermissionsByUser" /\ type = "Permission"
  <2>1. PermissionsByUser(key, d) \subseteq Perm
    BY <1>1 DEF PermissionsByUser
  <2> QED
    BY <1>3, <2>1 DEF Rows
<1>4. CASE loader = "UsersByRole" /\ type = "User"
  <2>1. UsersByRole(key, d) \subseteq Id
    BY <1>0 DEF UsersByRole
  <2> QED
    BY <1>4, <2>1 DEF Rows
<1>5. CASE loader = "RolesByUser" /\ type = "Role"
  <2>1. RolesByUser(key, d) \subseteq Id
    BY <1>0 DEF RolesByUser
  <2> QED
    BY <1>5, <2>1 DEF Rows
<1> QED
  BY <1>2, <1>3, <1>4, <1>5 DEF LoadedTypes

(* For all documents and bounds: every field is in a state that the code   *)
(* knows, shows ids or permissions as its type says, and the database has  *)
(* no member of a role that is not a user and a role (the foreign keys of  *)
(* role_user), whatever services fail.                                     *)
THEOREM StatesAreTyped == Spec => []TypeOK
<1>1. Shape /\ ValuesFit /\ Ordered /\ Fits => TypeOK
  <2> SUFFICES ASSUME Shape, ValuesFit, Fits PROVE TypeOK
    OBVIOUS
  <2>1. \A i \in DOMAIN hist : IsConsistent(hist[i])
    BY DEF Fits, HistoryFits
  <2>2. ASSUME NEW p \in DOMAIN node
        PROVE  node[p].ids \subseteq IF node[p].type = "Permission" THEN Perm ELSE Id
    <3>1. Typed(p) /\ Stands(p)
      BY DEF Fits, FieldsTyped, Shape
    <3>2. CASE Len(p) = 2
      <4>1. node[p].type \in {"User", "Role", "Quote"}
        BY <3>1, <3>2, RootIs DEF Typed, Stands
      <4>2. node[p].ids \subseteq Id
        BY <3>2 DEF Fits, RootsFit, RootFits
      <4> QED
        BY <4>1, <4>2
    <3>3. CASE Len(p) # 2 /\ node[p].ids # {}
      <4>1. Len(p) > 2 /\ <<node[p].loader, node[p].type>> \in LoadedTypes
        BY <3>1, <3>3, TopIs DEF Typed
      <4>2. WasTrue(RequestOf(p[1]), node[p].loader, Key(p), node[p].ids, node[p].at)
        BY <3>3, <4>1 DEF ValuesFit, ValueFits
      <4>3. PICK i \in 1..Now : Rows(node[p].loader, Key(p), hist[i]) = node[p].ids
        BY <4>2, NowIs DEF WasTrue, Shape
      <4>4. IsConsistent(hist[i])
        BY <2>1, NowIs
      <4> QED
        BY <4>1, <4>3, <4>4, RowsFit
    <3> QED
      BY <3>2, <3>3
  <2>3. ASSUME NEW p \in DOMAIN node
        PROVE  /\ p[1] \in Op /\ since[p[1]] > 0 /\ node[p].at \in 0..Now
               /\ node[p].st \in {"running", "asked", "waiting", "fetched", "done", "null"}
    BY DEF Shape, Stands
  <2>4. \A s \in DOMAIN cache : cache[s].at \in 1..Now
    BY SlotFits
  <2>5. hist \in Seq(Database)
    BY <2>1, NowIs DEF IsConsistent
  <2>6. \A i \in DOMAIN hist : hist[i].member \subseteq hist[i].User \X hist[i].Role
    BY <2>1 DEF IsConsistent
  <2> QED
    BY <2>2, <2>3, <2>4, <2>5, <2>6 DEF TypeOK, Shape
<1> QED
  BY <1>1, InvariantKept, PTL

(* For all documents, bounds and failures: a mutation that answers has     *)
(* done what its input says, whatever other operations did between its     *)
(* calls (the resolvers of internal/graphql/resolvers and the services).   *)
THEOREM MutationsDoAsGiven == Spec => []GivenIsDone
<1>1. Shape /\ ValuesFit /\ Ordered /\ Fits => GivenIsDone
  <2> SUFFICES ASSUME Shape, Fits, NEW o \in Op, since[o] > 0, doc[o].mutation,
                      NEW p \in Roots(o), node[p].st = "done"
               PROVE  LET d == hist[node[p].at]
                          e == Entity(p)
                      IN /\ Arg(p).roles # Absent => RolesByUser(e, d) = ToSet(IdsOf(Arg(p).roles))
                         /\ /\ Arg(p).users # Absent
                            /\ Name(p) = "updateRole" => Arg(p).permissions # Absent
                            => UsersByRole(e, d) = ToSet(IdsOf(Arg(p).users))
                         /\ IsCreate(Name(p)) =>
                              node[p].ids \cap hist[since[o]][node[p].type] = {}
                         /\ IsDelete(Name(p)) => node[p].ids \cap d[node[p].type] = {}
                         /\ Name(p) = "deleteRole" => \A r \in node[p].ids :
                              UsersByRole(r, d) = {} /\ PermissionsByRole(r, d) = {}
    BY DEF GivenIsDone, IsShown
  <2>1. p \in DOMAIN node /\ p[1] = o /\ Len(p) = 2
    BY DEF Roots
  <2>2. Result(Name(p), Arg(p), node[p].type, node[p].ids, hist[node[p].at], hist[since[o]])
    BY <2>1 DEF Fits, RootsFit, RootFits
  <2>3. Entity(p) = EntityOf(Name(p), Arg(p), node[p].ids)
    BY DEF Entity, EntityOf
  <2> QED
    BY <2>2, <2>3 DEF Result, UsersDue
<1> QED
  BY <1>1, InvariantKept, PTL

===============================================================================
