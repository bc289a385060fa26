------------------------------ MODULE Http_proofs ------------------------------
(***************************************************************************)
(* What is proved of a request on its way through the middlewares, for all *)
(* requests and any number of faults; and at the end of the writer of the  *)
(* access log, for every size of its buffer: its invariants, and that it   *)
(* implements the safety part of WriteBehind.  The writer's liveness is    *)
(* left to TLC.                                                            *)
(***************************************************************************)
EXTENDS Http, LatencyWriter, FiniteSetTheorems, TLAPS

-----------------------------------------------------------------------------
(* The chain of a request: four middlewares of all routes, up to three of  *)
(* the route's group, and the handler.                                     *)
Timed == Chain[5] = "timeout"
Inner == Chain[6] = "session"

(* j is s and t, of the lengths m and n.                                   *)
Joins(S, s, t, j, m, n) ==
    /\ s \in Seq(S) /\ t \in Seq(S) /\ j = s \o t
    /\ m = Len(s) /\ n = Len(t)
Joined(S, s, t, j, m, n) ==
    /\ j \in Seq(S) /\ Len(j) = m + n
    /\ \A i \in 1..m : j[i] = s[i]
    /\ \A i \in 1..n : j[m + i] = t[i]

LEMMA JoinedIs ==
  ASSUME NEW S, NEW s, NEW t, NEW j, NEW m, NEW n, Joins(S, s, t, j, m, n)
  PROVE  Joined(S, s, t, j, m, n)
BY DEF Joins, Joined

(* c is gl, g and h.                                                       *)
AreParts(S, gl, g, u, c, h) ==
    /\ gl \in Seq(S) /\ g \in Seq(S) /\ h \in Seq(S)
    /\ Len(gl) = 4 /\ Len(g) \in 1..3 /\ Len(h) = 1
    /\ u = gl \o g /\ c = u \o h
IsWhole(gl, g, c, h) ==
    /\ Len(c) \in 6..8
    /\ \A i \in 1..4 : c[i] = gl[i]
    /\ \A i \in 5..(Len(c) - 1) : i - 4 \in 1..Len(g) /\ c[i] = g[i - 4]
    /\ c[Len(c)] = h[1]

LEMMA ThreeParts ==
  ASSUME NEW S, NEW gl, NEW g, NEW u, NEW c, NEW h, AreParts(S, gl, g, u, c, h)
  PROVE  IsWhole(gl, g, c, h)
<1> USE DEF AreParts
<1>1. PICK n : n = Len(g)
  OBVIOUS
<1>2. n \in 1..3
  BY <1>1
<1>3. PICK p : p = Len(gl)
  OBVIOUS
<1>4. PICK q : q = Len(h)
  OBVIOUS
<1>5. p = 4 /\ q = 1
  BY <1>3, <1>4
<1>6. /\ u \in Seq(S) /\ Len(u) = p + n
      /\ \A i \in 1..p : u[i] = gl[i]
      /\ \A i \in 1..n : u[p + i] = g[i]
  <2>1. Joins(S, gl, g, u, p, n)
    BY <1>1, <1>3 DEF Joins
  <2>2. Joined(S, gl, g, u, p, n)
    BY <2>1, JoinedIs
  <2> QED
    BY <2>2 DEF Joined
<1>7. PICK m : m = Len(u)
  OBVIOUS
<1>8. m = 4 + n
  BY <1>5, <1>6, <1>7
<1>9. /\ c \in Seq(S) /\ Len(c) = m + q
      /\ \A i \in 1..m : c[i] = u[i]
      /\ \A i \in 1..q : c[m + i] = h[i]
  <2>1. Joins(S, u, h, c, m, q)
    BY <1>4, <1>6, <1>7 DEF Joins
  <2>2. Joined(S, u, h, c, m, q)
    BY <2>1, JoinedIs
  <2> QED
    BY <2>2 DEF Joined
<1>10. PICK l : l = Len(c)
  OBVIOUS
<1>11. l = n + 5
  BY <1>2, <1>5, <1>8, <1>9, <1>10
<1>12. ASSUME NEW i \in 1..4 PROVE c[i] = gl[i]
  <2>1. i \in 1..p /\ i \in 1..m
    BY <1>2, <1>5, <1>8
  <2> QED
    BY <1>6, <1>9, <2>1
<1>13. ASSUME NEW i \in 5..(l - 1) PROVE i - 4 \in 1..n /\ c[i] = g[i - 4]
  <2>1. i - 4 \in 1..n /\ i \in 1..m /\ p + (i - 4) = i
    BY <1>2, <1>5, <1>8, <1>11
  <2>2. u[p + (i - 4)] = g[i - 4]
    BY <1>6, <2>1
  <2> QED
    BY <1>9, <2>1, <2>2
<1>14. l = m + 1 /\ c[m + 1] = h[1] /\ l \in 6..8
  BY <1>2, <1>5, <1>8, <1>9, <1>11
<1> QED
  BY <1>1, <1>9, <1>10, <1>12, <1>13, <1>14 DEF IsWhole

LEMMA GroupIs ==
  ASSUME req.route \in Routes
  PROVE  /\ Group(req.route) \in Seq({"timeout", "session", "loaders", "locale", "auth"})
         /\ Len(Group(req.route)) \in 1..3
         /\ \A i \in 1..Len(Group(req.route)) :
              /\ Group(req.route)[i] = "timeout" => i = 1
              /\ Group(req.route)[i] = "session" => i = 2 /\ Group(req.route)[1] = "timeout"
<1> DEFINE Names == {"timeout", "session", "loaders", "locale", "auth"}
           Fits(g) == /\ g \in Seq(Names) /\ Len(g) \in 1..3
                      /\ \A i \in 1..Len(g) :
                           /\ g[i] = "timeout" => i = 1
                           /\ g[i] = "session" => i = 2 /\ g[1] = "timeout"
<1>1. CASE req.route \in {"index", "files"}
  <2>1. Group(req.route) = <<"timeout">>
    BY <1>1 DEF Group
  <2>2. Fits(<<"timeout">>)
    OBVIOUS
  <2> QED
    BY <2>1, <2>2
<1>2. CASE req.route \in {"login", "logout", "locale"}
  <2>1. Group(req.route) = <<"timeout", "session">>
    BY <1>2 DEF Group
  <2>2. Fits(<<"timeout", "session">>)
    OBVIOUS
  <2> QED
    BY <2>1, <2>2
<1>3. CASE req.route = "query"
  <2>1. Group(req.route) = <<"loaders", "locale", "auth">>
    BY <1>3 DEF Group, GraphQL
  <2>2. Fits(<<"loaders", "locale", "auth">>)
    OBVIOUS
  <2> QED
    BY <2>1, <2>2
<1>4. CASE req.route = "playground"
  <2>1. Group(req.route) = <<"auth">>
    BY <1>4 DEF Group, GraphQL
  <2>2. Fits(<<"auth">>)
    OBVIOUS
  <2> QED
    BY <2>1, <2>2
<1> QED
  BY <1>1, <1>2, <1>3, <1>4 DEF Routes

LEMMA ChainIs ==
  ASSUME req.route \in Routes
  PROVE  /\ Len(Chain) \in 6..8
         /\ Chain[1] = "logger" /\ Chain[2] = "recoverer" /\ Chain[3] = "session"
         /\ Chain[4] = "cors"
         /\ \A i \in 5..(Len(Chain) - 1) :
              /\ Chain[i] \in {"timeout", "session", "loaders", "locale", "auth"}
              /\ Chain[i] = "timeout" => i = 5
              /\ Chain[i] = "session" => i = 6 /\ Timed
         /\ Chain[Len(Chain)] = "handler"
<1> DEFINE All == {"logger", "recoverer", "session", "cors", "timeout", "loaders", "locale",
                   "auth", "handler"}
<1>1. PICK g : g = Group(req.route)
  OBVIOUS
<1>2. PICK gl : gl = Global
  OBVIOUS
<1>3. PICK h : h = <<"handler">>
  OBVIOUS
<1>4. PICK u : u = gl \o g
  OBVIOUS
<1>5. PICK c : c = u \o h
  OBVIOUS
<1>6. c = Chain
  BY <1>1, <1>2, <1>3, <1>4, <1>5 DEF Chain
<1>7. /\ g \in Seq(All) /\ Len(g) \in 1..3
      /\ \A i \in 1..Len(g) : /\ g[i] \in {"timeout", "session", "loaders", "locale", "auth"}
                              /\ g[i] = "timeout" => i = 1
                              /\ g[i] = "session" => i = 2 /\ g[1] = "timeout"
  BY <1>1, GroupIs
<1>8. /\ gl \in Seq(All) /\ Len(gl) = 4
      /\ gl[1] = "logger" /\ gl[2] = "recoverer" /\ gl[3] = "session" /\ gl[4] = "cors"
  BY <1>2 DEF Global
<1>9. h \in Seq(All) /\ Len(h) = 1 /\ h[1] = "handler"
  BY <1>3
<1>10. /\ Len(c) \in 6..8
       /\ \A i \in 1..4 : c[i] = gl[i]
       /\ \A i \in 5..(Len(c) - 1) : i - 4 \in 1..Len(g) /\ c[i] = g[i - 4]
       /\ c[Len(c)] = h[1]
  <2>1. AreParts(All, gl, g, u, c, h)
    BY <1>4, <1>5, <1>7, <1>8, <1>9 DEF AreParts
  <2>2. IsWhole(gl, g, c, h)
    BY <2>1, ThreeParts
  <2> QED
    BY <2>2 DEF IsWhole
<1>11. c[1] = "logger" /\ c[2] = "recoverer" /\ c[3] = "session" /\ c[4] = "cors"
  BY <1>8, <1>10
<1>12. c[Len(c)] = "handler"
  BY <1>9, <1>10
<1>13. PICK l : l = Len(c)
  OBVIOUS
<1>14. ASSUME NEW i \in 5..(l - 1)
       PROVE  /\ c[i] \in {"timeout", "session", "loaders", "locale", "auth"}
              /\ c[i] = "timeout" => i = 5
              /\ c[i] = "session" => i = 6 /\ c[5] = "timeout"
  <2>1. i - 4 \in 1..Len(g) /\ c[i] = g[i - 4]
    BY <1>10, <1>13
  <2>2. 5 \in 5..(l - 1) /\ 5 - 4 = 1
    BY <1>10, <1>13
  <2>3. c[5] = g[1]
    BY <1>10, <1>13, <2>2
  <2> QED
    BY <1>7, <2>1, <2>3
<1> QED
  BY <1>6, <1>10, <1>11, <1>12, <1>13, <1>14 DEF Timed

-----------------------------------------------------------------------------
(* Writers.                                                                *)
Codes == {0, 200, 404, 422, 500, 504}
Types == {"none", "json", "file", "text", "html"}
Bodies == Seq({"answer", "error"})

(* w is what v becomes by a status, and by a body.                         *)
GetsStatus(v, w, c, t, n) ==
    /\ v.code # 0 => w = v
    /\ v.code = 0 => w.code = c /\ w.body = v.body /\ w.type = IF n = 1 THEN t ELSE v.type

GetsBody(v, w, b, t, n) ==
    /\ w.body = v.body \o b
    /\ w.code = IF n = 1 /\ v.code = 0 THEN 200 ELSE v.code
    /\ w.type = IF n = 1 /\ v.code = 0 THEN t ELSE v.type

(* Nothing but the last writer changes.                                    *)
SameBelow(ws, r) ==
    /\ r \in Seq(Answers) /\ Len(r) = Len(ws)
    /\ \A i \in 1..(Len(ws) - 1) : r[i] = ws[i]

LEMMA StatusIs ==
  ASSUME NEW ws \in Seq(Answers), Len(ws) > 0, NEW c \in Codes, NEW t \in Types,
         NEW r, r = WithStatus(ws, c, t)
  PROVE  SameBelow(ws, r) /\ GetsStatus(ws[Len(ws)], r[Len(ws)], c, t, Len(ws))
<1>1. Last(ws) = ws[Len(ws)] /\ Len(ws) \in Nat /\ ws[Len(ws)] \in Answers
  BY DEF Last
<1>2. CASE ws[Len(ws)].code # 0
  BY <1>1, <1>2 DEF WithStatus, SameBelow, GetsStatus
<1>3. CASE ws[Len(ws)].code = 0
  <2>1. PICK v \in Answers : v = ws[Len(ws)]
    BY <1>1
  <2>2. PICK w : w = [v EXCEPT !.code = c, !.type = IF Len(ws) = 1 THEN t ELSE @]
    OBVIOUS
  <2>3. /\ w.code = c /\ w.body = v.body /\ w.type = IF Len(ws) = 1 THEN t ELSE v.type
        /\ w \in Answers
    <3>1. v = [code |-> v.code, body |-> v.body, type |-> v.type]
      BY <2>1 DEF Answers
    <3>2. w = [code |-> c, body |-> v.body, type |-> IF Len(ws) = 1 THEN t ELSE v.type]
      BY <2>2, <3>1
    <3> QED
      BY <3>2, <2>1 DEF Answers, Codes, Types
  <2>4. r = [ws EXCEPT ![Len(ws)] = w]
    BY <1>1, <1>3, <2>1, <2>2 DEF WithStatus, IsConnection
  <2> QED
    BY <1>1, <1>3, <2>1, <2>3, <2>4 DEF SameBelow, GetsStatus
<1> QED
  BY <1>2, <1>3

LEMMA BodyIs ==
  ASSUME NEW ws \in Seq(Answers), Len(ws) > 0, NEW b \in Bodies, NEW t \in Types,
         NEW r, r = WithBody(ws, b, t)
  PROVE  SameBelow(ws, r) /\ GetsBody(ws[Len(ws)], r[Len(ws)], b, t, Len(ws))
<1>1. PICK s : s = IF Len(ws) = 1 THEN WithStatus(ws, 200, t) ELSE ws
  OBVIOUS
<1>2. /\ SameBelow(ws, s)
      /\ Len(ws) = 1 => GetsStatus(ws[Len(ws)], s[Len(ws)], 200, t, Len(ws))
      /\ Len(ws) # 1 => s = ws
  <2>1. 200 \in Codes
    BY DEF Codes
  <2> QED
    BY <1>1, <2>1, StatusIs DEF SameBelow
<1>3. PICK v : v = s[Len(ws)]
  OBVIOUS
<1>4. v \in Answers /\ Len(s) = Len(ws) /\ Len(ws) \in Nat
  BY <1>2, <1>3 DEF SameBelow
<1>5. PICK w : w = [v EXCEPT !.body = @ \o b]
  OBVIOUS
<1>6. v.body \o b \in Bodies
  BY <1>4 DEF Answers, Bodies
<1>7. w \in Answers /\ w.code = v.code /\ w.type = v.type /\ w.body = v.body \o b
  <2>1. v = [code |-> v.code, body |-> v.body, type |-> v.type]
    BY <1>4 DEF Answers
  <2>2. w = [code |-> v.code, body |-> v.body \o b, type |-> v.type]
    BY <1>5, <2>1
  <2> QED
    BY <2>2, <1>4, <1>6 DEF Answers, Bodies
<1>8. r = [s EXCEPT ![Len(ws)] = w]
  BY <1>1, <1>3, <1>5 DEF WithBody, IsConnection
<1>9. SameBelow(ws, r) /\ r[Len(ws)] = w
  BY <1>2, <1>4, <1>7, <1>8 DEF SameBelow
<1> QED
  BY <1>2, <1>3, <1>7, <1>9 DEF GetsBody, GetsStatus

LEMMA FrontIs ==
  ASSUME NEW ws \in Seq(Answers), Len(ws) > 1, NEW r, r = Front(ws)
  PROVE  /\ r \in Seq(Answers) /\ Len(r) = Len(ws) - 1 /\ Len(r) > 0
         /\ \A i \in 1..Len(r) : r[i] = ws[i]
BY DEF Front

LEMMA Words ==
  /\ <<"error">> \in Bodies /\ <<"answer">> \in Bodies /\ <<>> \in Bodies
  /\ \A b \in Bodies : <<>> \o b = b
<1>1. ASSUME NEW b \in Bodies PROVE <<>> \o b = b
  BY DEF Bodies
<1> QED
  BY <1>1 DEF Bodies

IsError(w, n) == w.code = 500 /\ w.body = <<"error">> /\ w.type = IF n = 1 THEN "text" ELSE "none"

LEMMA ErrorIs ==
  ASSUME NEW ws \in Seq(Answers), Len(ws) > 0, NEW r, r = WithError(ws)
  PROVE  /\ SameBelow(ws, r) /\ r[Len(ws)].code # 0
         /\ ws[Len(ws)] = Empty => IsError(r[Len(ws)], Len(ws))
<1>1. PICK s : s = WithStatus(ws, 500, "text")
  OBVIOUS
<1>2. 500 \in Codes /\ "text" \in Types /\ <<"error">> \in Bodies
  BY Words DEF Codes, Types
<1>3. SameBelow(ws, s) /\ GetsStatus(ws[Len(ws)], s[Len(ws)], 500, "text", Len(ws))
  BY <1>1, <1>2, StatusIs
<1>4. s \in Seq(Answers) /\ Len(s) = Len(ws)
  BY <1>3 DEF SameBelow
<1>5. r = WithBody(s, <<"error">>, "text")
  BY <1>1 DEF WithError
<1>6. SameBelow(s, r) /\ GetsBody(s[Len(s)], r[Len(s)], <<"error">>, "text", Len(s))
  BY <1>2, <1>4, <1>5, BodyIs
<1>7. s[Len(ws)].code # 0
  BY <1>3 DEF GetsStatus
<1>8. SameBelow(ws, r)
  BY <1>3, <1>4, <1>6 DEF SameBelow
<1>9. GetsBody(s[Len(ws)], r[Len(ws)], <<"error">>, "text", Len(ws))
  BY <1>4, <1>6
<1>10. r[Len(ws)].code # 0
  BY <1>7, <1>9 DEF GetsBody
<1>11. ASSUME ws[Len(ws)] = Empty PROVE IsError(r[Len(ws)], Len(ws))
  <2>1. s[Len(ws)].code = 500 /\ s[Len(ws)].body = <<>>
        /\ s[Len(ws)].type = IF Len(ws) = 1 THEN "text" ELSE "none"
    BY <1>3, <1>11 DEF GetsStatus, Empty
  <2>2. <<>> \o <<"error">> = <<"error">>
    BY Words
  <2> QED
    BY <1>9, <2>1, <2>2 DEF GetsBody, IsError
<1> QED
  BY <1>8, <1>10, <1>11

(* The same for n writers: r is ws up to the last one.                     *)
Alike(ws, r, n) == r \in Seq(Answers) /\ Len(r) = n /\ \A i \in 1..(n - 1) : r[i] = ws[i]

LEMMA SameIs ==
  ASSUME NEW ws \in Seq(Answers), NEW n \in {1, 2, 3}, Len(ws) = n, NEW r, SameBelow(ws, r)
  PROVE  Alike(ws, r, n)
BY DEF SameBelow, Alike

LEMMA StatusOn ==
  ASSUME NEW ws \in Seq(Answers), NEW n \in {1, 2, 3}, Len(ws) = n,
         NEW c \in Codes, NEW t \in Types, NEW r, r = WithStatus(ws, c, t)
  PROVE  Alike(ws, r, n) /\ GetsStatus(ws[n], r[n], c, t, n)
<1>1. Len(ws) > 0
  OBVIOUS
<1> QED
  BY <1>1, StatusIs, SameIs

LEMMA BodyOn ==
  ASSUME NEW ws \in Seq(Answers), NEW n \in {1, 2, 3}, Len(ws) = n,
         NEW b \in Bodies, NEW t \in Types, NEW r, r = WithBody(ws, b, t)
  PROVE  Alike(ws, r, n) /\ GetsBody(ws[n], r[n], b, t, n)
<1>1. Len(ws) > 0
  OBVIOUS
<1> QED
  BY <1>1, BodyIs, SameIs

LEMMA ErrorOn ==
  ASSUME NEW ws \in Seq(Answers), NEW n \in {1, 2, 3}, Len(ws) = n, NEW r, r = WithError(ws)
  PROVE  /\ Alike(ws, r, n) /\ r[n].code # 0
         /\ ws[n] = Empty => IsError(r[n], n)
<1>1. Len(ws) > 0
  OBVIOUS
<1> QED
  BY <1>1, ErrorIs, SameIs

LEMMA AppendOn ==
  ASSUME NEW ws \in Seq(Answers), NEW n \in {1, 2}, Len(ws) = n, NEW r, r = Append(ws, Empty)
  PROVE  r \in Seq(Answers) /\ Len(r) = n + 1 /\ (\A i \in 1..n : r[i] = ws[i]) /\ r[n + 1] = Empty
<1>1. Empty \in Answers
  BY Words DEF Empty, Answers, Bodies
<1>2. Append(ws, Empty) \in Seq(Answers) /\ Len(Append(ws, Empty)) = Len(ws) + 1
      /\ (\A i \in 1..Len(ws) : Append(ws, Empty)[i] = ws[i]) /\ Append(ws, Empty)[Len(ws) + 1] = Empty
  BY <1>1
<1> QED
  BY <1>2

LEMMA FrontOn ==
  ASSUME NEW ws \in Seq(Answers), NEW n \in {1, 2}, Len(ws) = n + 1, NEW r, r = Front(ws)
  PROVE  r \in Seq(Answers) /\ Len(r) = n /\ \A i \in 1..n : r[i] = ws[i]
<1>1. PICK m : m = Len(ws)
  OBVIOUS
<1>2. m > 1 /\ m - 1 = n
  BY <1>1
<1> QED
  BY <1>1, <1>2, FrontIs

(* A buffer is passed on.                                                  *)
Passes(ws, r, t, n) ==
    /\ Alike(ws, r, n)
    /\ n = 1 => r[n].code # 0
    /\ ws[n] = Empty =>
         /\ r[n].body = ws[n + 1].body
         /\ r[n].code = IF n = 1 /\ ws[n + 1].code = 0 THEN 200 ELSE ws[n + 1].code
         /\ r[n].type = IF n = 1 THEN t ELSE "none"

LEMMA PassedOnIs ==
  ASSUME NEW ws \in Seq(Answers), NEW n \in {1, 2}, Len(ws) = n + 1, NEW t \in Types,
         NEW r, r = PassedOn(ws, t)
  PROVE  Passes(ws, r, t, n)
<1>1. PICK f : f = Front(ws)
  OBVIOUS
<1>2. f \in Seq(Answers) /\ Len(f) = n /\ \A i \in 1..n : f[i] = ws[i]
  BY <1>1, FrontOn
<1>3. PICK top : top = ws[n + 1]
  OBVIOUS
<1>4. top \in Answers /\ top.code \in Codes /\ top.body \in Bodies /\ Last(ws) = top
  <2>1. PICK m : m = Len(ws)
    OBVIOUS
  <2>2. m \in Nat /\ m = n + 1 /\ m \in 1..m
    BY <2>1
  <2>3. top \in Answers
    BY <1>3, <2>1, <2>2
  <2>4. Last(ws) = top
    BY <1>3, <2>1, <2>2 DEF Last
  <2> QED
    BY <2>3, <2>4 DEF Answers, Codes, Bodies
<1>5. PICK s : s = IF top.code # 0 THEN WithStatus(f, top.code, t) ELSE f
  OBVIOUS
<1>6. /\ Alike(f, s, n)
      /\ top.code # 0 => GetsStatus(f[n], s[n], top.code, t, n)
      /\ top.code = 0 => s = f
  <2>1. CASE top.code # 0
    BY <1>2, <1>4, <1>5, <2>1, StatusOn
  <2>2. CASE top.code = 0
    BY <1>2, <1>5, <2>2 DEF Alike
  <2> QED
    BY <2>1, <2>2
<1>7. s \in Seq(Answers) /\ Len(s) = n
  BY <1>6 DEF Alike
<1>8. r = WithBody(s, top.body, t)
  BY <1>1, <1>4, <1>5 DEF PassedOn
<1>9. Alike(s, r, n) /\ GetsBody(s[n], r[n], top.body, t, n)
  BY <1>4, <1>7, <1>8, BodyOn
<1>10. Alike(ws, r, n)
  BY <1>2, <1>6, <1>9 DEF Alike
<1>11. n = 1 => r[n].code # 0
  BY <1>9 DEF GetsBody
<1>12. ASSUME ws[n] = Empty
       PROVE  /\ r[n].body = top.body
              /\ r[n].code = IF n = 1 /\ top.code = 0 THEN 200 ELSE top.code
              /\ r[n].type = IF n = 1 THEN t ELSE "none"
  <2>1. f[n].code = 0 /\ f[n].body = <<>> /\ f[n].type = "none"
    BY <1>2, <1>12 DEF Empty
  <2>2. s[n].body = <<>> /\ <<>> \o top.body = top.body
    BY <1>4, <1>6, <2>1, Words DEF GetsStatus
  <2> QED
    BY <1>6, <1>9, <2>1, <2>2 DEF GetsStatus, GetsBody
<1> QED
  BY <1>3, <1>10, <1>11, <1>12 DEF Passes

-----------------------------------------------------------------------------
(* The inductive invariant of Http, in parts.                              *)

(* How far the request is in: has it passed the i-th middleware and not    *)
(* left it?  How many writers that makes, and who is written to.           *)
Inside(i) == at > i \/ (at = i /\ going # "in")
Depth == IF Inner /\ Inside(6) THEN 3 ELSE IF Inside(3) THEN 2 ELSE 1
Top == writers[Depth]
InTimeout == Timed /\ Inside(5)

(* What a handler may still have to write: its body comes last.            *)
Ops == [op : {"status"}, arg : Codes \ {0}] \cup [op : {"type"}, arg : Types]
       \cup [op : {"body"}, arg : {"answer"}]
Draft(ops) ==
    /\ ops # <<>> => \E k \in DOMAIN ops : ops[k].op = "body"
    /\ \A k \in DOMAIN ops : ops[k].op = "body" => ops[k] = Body("answer") /\ k = Len(ops)

HttpTyped ==
    /\ req \in Requests /\ at \in 0..Len(Chain) /\ going \in {"in", "working", "out", "panic"}
    /\ type \in Types /\ deadline \in {"none", "ahead", "passed"} /\ served \in 0..2
    /\ faults \in 0..MaxFaults
    /\ todo \in Seq(Ops) /\ Draft(todo)
    /\ writers \in Seq(Answers) /\ Len(writers) = Depth

(* A panic comes from the handler and ends at the recoverer.               *)
Placed ==
    /\ going = "working" => at = Len(Chain)
    /\ going = "in" => at > 0
    /\ going = "panic" => at >= 2 /\ at < Len(Chain)
    /\ going = "out" => at < Len(Chain)
    /\ going # "working" => todo = <<>>

(* The connection gets nothing before the outermost session middleware is  *)
(* left, and something then.                                               *)
Unsent ==
    /\ IF going = "out" /\ at <= 2 THEN Connection.code # 0 ELSE Connection = Empty
    /\ log = IF at = 0 /\ ~ req.upgrade THEN <<Connection.code>> ELSE <<>>

(* A deadline is there in the timeout middleware only, and what stays of it*)
(* outside is that it has passed; a request that has none there opens a    *)
(* websocket and is served for the first time.                             *)
Timing ==
    IF InTimeout
    THEN /\ served \in 1..2
         /\ deadline = "none" => req.upgrade /\ served = 1
    ELSE /\ deadline # "ahead"
         /\ going = "in" => deadline = "none" /\ (served = 0 \/ (at = 5 /\ Timed /\ served = 1 /\ req.upgrade))
         /\ ~ Timed => deadline = "none"

(* Nothing is written on the way in, nor to the buffer of the outer session*)
(* as long as there is one on top of it.                                   *)
Fresh ==
    ~ req.upgrade => /\ going = "in" => /\ \A i \in 1..Depth : writers[i] = Empty
                                        /\ type = "none" /\ said = <<>> /\ faults = 0
                     /\ Depth = 3 => writers[2] = Empty

(* After a fault the request unwinds in a panic, or the error is written   *)
(* and nothing else is.                                                    *)
Failed ==
    /\ going = "panic" => faults > 0
    /\ ~ req.upgrade /\ faults > 0 =>
          \/ going = "panic"
          \/ going = "out" /\ at <= 5 /\ IsError(Top, Depth) /\ type = "text"

(* What the handler has written is what it has said, and what it has not   *)
(* yet written is still to come.                                           *)
Left(op) == \E k \in DOMAIN todo : todo[k].op = op
Proper == faults = 0 /\ ~ req.upgrade /\ ~ req.preflight

Working ==
    Proper /\ going = "working" =>
        /\ Len(said) = 1
        /\ Top.body = IF todo = <<>> THEN <<"answer">> ELSE <<>>
        /\ \A k \in DOMAIN todo : \E l \in DOMAIN said[1] : said[1][l] = todo[k]
        /\ Top.code # 0 => Top.code \in StatusOf(said[1])
        /\ StatusOf(said[1]) # {} => Top.code # 0 \/ Left("status")
        /\ TypeOf(said[1]) # {} => type \in TypeOf(said[1]) \/ Left("type")

(* On the way out the answer is complete; a timeout is added to it, or the *)
(* connection's own status, only if it has no status.                      *)
Answered ==
    Proper /\ going = "out" =>
        /\ Len(said) = 1
        /\ Top.body = <<"answer">>
        /\ IF StatusOf(said[1]) # {} THEN Top.code # 0 /\ Top.code \in StatusOf(said[1])
           ELSE Top.code = IF deadline = "passed" /\ ~ InTimeout THEN 504
                           ELSE IF Depth = 1 THEN 200 ELSE 0
        /\ TypeOf(said[1]) # {} => /\ type \in TypeOf(said[1])
                                   /\ Depth = 1 => Top.type \in TypeOf(said[1])

HttpInv == HttpTyped /\ Placed /\ Unsent /\ Timing /\ Fresh /\ Failed /\ Working /\ Answered

-----------------------------------------------------------------------------
(* Where a request is.                                                     *)
LEMMA PathIs ==
  ASSUME HttpInv
  PROVE  /\ req.route \in Routes /\ Len(Chain) \in 6..8
         /\ Inner => Timed /\ Len(Chain) # 6
         /\ at # 0 => /\ Here = "logger" <=> at = 1
                      /\ Here = "recoverer" <=> at = 2
                      /\ Here = "session" <=> at = 3 \/ (at = 6 /\ Inner)
                      /\ Here = "cors" <=> at = 4
                      /\ Here = "timeout" <=> at = 5 /\ Timed
                      /\ Here = "handler" <=> at = Len(Chain)
<1>1. req.route \in Routes
  BY HttpAssumption DEF HttpInv, HttpTyped
<1>2. PICK l : l = Len(Chain)
  OBVIOUS
<1>3. l \in 6..8 /\ at \in 0..l
  BY <1>1, <1>2, ChainIs DEF HttpInv, HttpTyped
<1>4. /\ Chain[1] = "logger" /\ Chain[2] = "recoverer" /\ Chain[3] = "session"
      /\ Chain[4] = "cors" /\ Chain[l] = "handler"
      /\ \A i \in 5..(l - 1) : /\ Chain[i] \in {"timeout", "session", "loaders", "locale", "auth"}
                               /\ Chain[i] = "timeout" => i = 5
                               /\ Chain[i] = "session" => i = 6 /\ Timed
  BY <1>1, <1>2, ChainIs
<1>5. Inner => Timed /\ l # 6
  <2>1. 6 \in 5..(l - 1) \/ l = 6
    BY <1>3
  <2> QED
    BY <1>4, <2>1 DEF Inner
<1>6. at # 0 => at \in {1, 2, 3, 4} \/ at \in 5..(l - 1) \/ at = l
  BY <1>3
<1>7. at # 0 => /\ Here = "logger" <=> at = 1
                /\ Here = "recoverer" <=> at = 2
                /\ Here = "session" <=> at = 3 \/ (at = 6 /\ Inner)
                /\ Here = "cors" <=> at = 4
                /\ Here = "timeout" <=> at = 5 /\ Timed
                /\ Here = "handler" <=> at = l
  BY <1>3, <1>4, <1>6 DEF Here, Inner, Timed
<1> QED
  BY <1>1, <1>2, <1>3, <1>5, <1>7

LEMMA Still ==
  ASSUME req' = req
  PROVE  Chain' = Chain /\ (Timed' <=> Timed) /\ (Inner' <=> Inner)
<1>1. Chain' = Chain
  BY DEF Chain
<1> QED
  BY <1>1 DEF Timed, Inner

LEMMA EnterPlainKeeps ==
  ASSUME HttpInv, EnterPlain
  PROVE  HttpInv'
<1> USE DEF HttpInv
<1>1. PICK l : l = Len(Chain)
  OBVIOUS
<1>2. /\ l \in 6..8 /\ at \in 1..l /\ at' = at + 1 /\ going = "in" /\ going' = "in"
      /\ at \notin {3, 4, l} /\ ~ (Timed /\ at = 5) /\ ~ (Inner /\ at = 6)
  BY <1>1, PathIs DEF EnterPlain, Pass, HttpTyped
<1>3. Chain' = Chain /\ (Timed' <=> Timed) /\ (Inner' <=> Inner)
  BY Still DEF EnterPlain
<1>4. Depth' = Depth /\ (InTimeout' <=> InTimeout)
  BY <1>2, <1>3 DEF Depth, InTimeout, Inside
<1>5. HttpTyped'
  BY <1>1, <1>2, <1>3, <1>4 DEF HttpTyped, EnterPlain
<1>6. Placed'
  BY <1>1, <1>2, <1>3 DEF Placed, EnterPlain
<1>7. Unsent'
  BY <1>2 DEF Unsent, Connection, EnterPlain
<1>8. Timing'
  BY <1>2, <1>3, <1>4 DEF Timing, EnterPlain
<1>9. Fresh'
  BY <1>2, <1>4 DEF Fresh, EnterPlain
<1>10. Failed'
  BY <1>2 DEF Failed, Fresh, EnterPlain
<1>11. Working' /\ Answered'
  BY <1>2 DEF Working, Answered
<1> QED
  BY <1>5, <1>6, <1>7, <1>8, <1>9, <1>10, <1>11

LEMMA DepthIs ==
  ASSUME HttpInv
  PROVE  Depth \in {1, 2, 3} /\ Len(writers) = Depth /\ Top \in Answers /\ Connection \in Answers
<1>1. PICK n : n = Depth
  OBVIOUS
<1>2. n \in {1, 2, 3} /\ Len(writers) = n /\ writers \in Seq(Answers)
  BY <1>1 DEF Depth, HttpInv, HttpTyped
<1>3. n \in 1..Len(writers) /\ 1 \in 1..Len(writers)
  BY <1>2
<1> QED
  BY <1>1, <1>2, <1>3 DEF Top, Connection

LEMMA FaultIs ==
  ASSUME faults \in 0..MaxFaults, Fault
  PROVE  faults' \in 0..MaxFaults /\ faults' > 0 /\ faults' # 0
BY HttpAssumption DEF Fault

LEMMA EnterSessionKeeps ==
  ASSUME HttpInv, EnterSession
  PROVE  HttpInv'
<1> USE DEF HttpInv
<1>1. PICK l : l = Len(Chain)
  OBVIOUS
<1>2. l \in 6..8 /\ at \in 1..l /\ going = "in" /\ (at = 3 \/ (at = 6 /\ Inner /\ Timed /\ l # 6))
  BY <1>1, PathIs DEF EnterSession, Pass, HttpTyped
<1>3. Chain' = Chain /\ (Timed' <=> Timed) /\ (Inner' <=> Inner)
  BY Still DEF EnterSession
<1>4. PICK n : n = Depth
  OBVIOUS
<1>5. n = (IF at = 6 THEN 2 ELSE 1) /\ n \in {1, 2} /\ Len(writers) = n /\ writers \in Seq(Answers)
  BY <1>2, <1>4 DEF Depth, Inside, HttpTyped
<1>6. CASE at' = at + 1 /\ going' = going /\ writers' = Append(writers, Empty) /\ type' = type /\ faults' = faults
  <2>1. Depth' = n + 1 /\ (InTimeout' <=> InTimeout)
    BY <1>2, <1>3, <1>5, <1>6 DEF Depth, InTimeout, Inside
  <2>2. /\ writers' \in Seq(Answers) /\ Len(writers') = n + 1
        /\ (\A i \in 1..n : writers'[i] = writers[i]) /\ writers'[n + 1] = Empty
    BY <1>5, <1>6, AppendOn
  <2>3. HttpTyped'
    BY <1>1, <1>2, <1>3, <1>6, <2>1, <2>2 DEF HttpTyped, EnterSession
  <2>4. Placed'
    BY <1>1, <1>2, <1>3, <1>6 DEF Placed, EnterSession
  <2>5. Unsent'
    BY <1>2, <1>5, <1>6, <2>2 DEF Unsent, Connection, EnterSession
  <2>6. Timing'
    BY <1>2, <1>3, <1>6, <2>1 DEF Timing, EnterSession
  <2>7. Fresh'
    BY <1>2, <1>4, <1>5, <1>6, <2>1, <2>2 DEF Fresh, EnterSession
  <2>8. Failed'
    BY <1>2, <1>6 DEF Failed, Fresh, EnterSession
  <2>9. Working' /\ Answered'
    BY <1>2, <1>6 DEF Working, Answered
  <2> QED
    BY <2>3, <2>4, <2>5, <2>6, <2>7, <2>8, <2>9
<1>7. CASE Fault /\ at' = at - 1 /\ going' = "out" /\ writers' = WithError(writers) /\ type' = "text"
  <2>1. Depth' = n /\ (InTimeout' <=> InTimeout)
    BY <1>2, <1>3, <1>5, <1>7 DEF Depth, InTimeout, Inside
  <2>2. /\ Alike(writers, writers', n) /\ writers'[n].code # 0
        /\ writers[n] = Empty => IsError(writers'[n], n)
    BY <1>5, <1>7, ErrorOn
  <2>3. faults' \in 0..MaxFaults /\ faults' > 0 /\ faults' # 0
    BY <1>7, FaultIs DEF HttpTyped
  <2>4. HttpTyped'
    BY <1>1, <1>2, <1>3, <1>7, <2>1, <2>2, <2>3 DEF HttpTyped, EnterSession, Alike, Types
  <2>5. Placed'
    BY <1>1, <1>2, <1>3, <1>7 DEF Placed, EnterSession
  <2>6. Unsent'
    BY <1>2, <1>5, <1>7, <2>2 DEF Unsent, Connection, EnterSession, Alike
  <2>7. Timing'
    BY <1>2, <1>3, <1>7, <2>1 DEF Timing, EnterSession
  <2>8. Fresh'
    BY <1>2, <1>5, <1>7, <2>1 DEF Fresh, EnterSession
  <2>9. Failed'
    BY <1>2, <1>4, <1>5, <1>7, <2>1, <2>2 DEF Failed, Fresh, Top, EnterSession
  <2>10. Working' /\ Answered'
    BY <2>3 DEF Working, Answered, Proper
  <2> QED
    BY <2>4, <2>5, <2>6, <2>7, <2>8, <2>9, <2>10
<1> QED
  BY <1>6, <1>7 DEF EnterSession

LEMMA EnterCorsKeeps ==
  ASSUME HttpInv, EnterCors
  PROVE  HttpInv'
<1> USE DEF HttpInv
<1>1. PICK l : l = Len(Chain)
  OBVIOUS
<1>2. l \in 6..8 /\ at = 4 /\ going = "in"
  BY <1>1, PathIs DEF EnterCors, Pass, HttpTyped
<1>3. Chain' = Chain /\ (Timed' <=> Timed) /\ (Inner' <=> Inner)
  BY Still DEF EnterCors
<1>4. /\ Depth = 2 /\ Len(writers) = 2 /\ writers \in Seq(Answers) /\ type \in Types
      /\ Depth' = 2 /\ ~ InTimeout /\ ~ InTimeout'
  BY <1>2, <1>3 DEF Depth, InTimeout, Inside, HttpTyped, EnterCors
<1>5. (at' = 3 /\ going' = "out") \/ (at' = 5 /\ going' = "in")
  BY <1>2 DEF EnterCors
<1>6. writers' \in Seq(Answers) /\ Len(writers') = 2 /\ writers'[1] = writers[1]
  <2>1. CASE req.preflight
    <3>1. 200 \in Codes
      BY DEF Codes
    <3>2. Alike(writers, writers', 2)
      BY <1>4, <2>1, <3>1, StatusOn DEF EnterCors
    <3> QED
      BY <3>2 DEF Alike
  <2>2. CASE ~ req.preflight
    BY <1>4, <2>2 DEF EnterCors
  <2> QED
    BY <2>1, <2>2
<1>7. UNCHANGED <<req, todo, type, deadline, served, faults>>
  BY DEF EnterCors
<1>8. Len(Chain') = l /\ at' \in 0..l /\ at' < l /\ at' > 0 /\ going' \in {"in", "out"}
  <2>1. Len(Chain') = l
    BY <1>1, <1>3
  <2>2. at' \in {3, 5} /\ going' \in {"in", "out"}
    BY <1>5
  <2>3. at' \in 0..l /\ at' < l /\ at' > 0
    BY <1>2, <2>2
  <2> QED
    BY <2>1, <2>2, <2>3
<1>9. HttpTyped'
  BY <1>4, <1>6, <1>7, <1>8 DEF HttpTyped
<1>10. Placed'
  BY <1>2, <1>7, <1>8 DEF Placed
<1>11. Unsent'
  BY <1>2, <1>5, <1>6 DEF Unsent, Connection, EnterCors
<1>12. Timing'
  BY <1>2, <1>3, <1>4 DEF Timing, EnterCors
<1>13. Fresh'
  BY <1>2, <1>4 DEF Fresh, EnterCors
<1>14. Failed'
  BY <1>2 DEF Failed, Fresh, EnterCors
<1>15. Working' /\ Answered'
  BY <1>2 DEF Working, Answered, Proper, EnterCors
<1> QED
  BY <1>9, <1>10, <1>11, <1>12, <1>13, <1>14, <1>15

LEMMA EnterTimeoutKeeps ==
  ASSUME HttpInv, EnterTimeout
  PROVE  HttpInv'
<1> USE DEF HttpInv
<1>1. PICK l : l = Len(Chain)
  OBVIOUS
<1>2. l \in 6..8 /\ at = 5 /\ going = "in" /\ Timed /\ at' = 6 /\ going' = "in"
  BY <1>1, PathIs DEF EnterTimeout, Pass, HttpTyped
<1>3. Chain' = Chain /\ (Timed' <=> Timed) /\ (Inner' <=> Inner)
  BY Still DEF EnterTimeout
<1>4. Depth = 2 /\ Depth' = 2 /\ ~ InTimeout /\ InTimeout'
  BY <1>2, <1>3 DEF Depth, InTimeout, Inside
<1>5. served \in {0, 1} /\ (served = 1 => req.upgrade)
  BY <1>2, <1>4 DEF Timing
<1>6. served' \in {1, 2} /\ deadline' \in {"none", "ahead"} /\ (deadline' = "none" => req.upgrade /\ served' = 1)
  BY <1>5 DEF EnterTimeout, IsServedFirst
<1>7. HttpTyped'
  BY <1>1, <1>2, <1>3, <1>4, <1>6 DEF HttpTyped, EnterTimeout
<1>8. Placed'
  BY <1>1, <1>2, <1>3 DEF Placed, EnterTimeout
<1>9. Unsent'
  BY <1>2 DEF Unsent, Connection, EnterTimeout
<1>10. Timing'
  BY <1>4, <1>6 DEF Timing, EnterTimeout
<1>11. Fresh'
  BY <1>2, <1>4 DEF Fresh, EnterTimeout
<1>12. Failed'
  BY <1>2 DEF Failed, Fresh, EnterTimeout
<1>13. Working' /\ Answered'
  BY <1>2 DEF Working, Answered
<1> QED
  BY <1>7, <1>8, <1>9, <1>10, <1>11, <1>12, <1>13

-----------------------------------------------------------------------------
(* What handlers write.                                                    *)
LEMMA OpsAre ==
  /\ Body("answer") \in Ops /\ Body("answer").op = "body"
  /\ \A c \in Codes \ {0} : Status(c) \in Ops /\ Status(c).op = "status"
  /\ \A t \in Types : Type(t) \in Ops /\ Type(t).op = "type"
BY DEF Ops, Body, Status, Type

LEMMA DraftIs ==
  /\ Draft(<<>>) /\ <<>> \in Seq(Ops)
  /\ LET ops == <<Body("answer")>> IN ops \in Seq(Ops) /\ ops # <<>> /\ Draft(ops)
  /\ \A a \in Ops : a.op # "body" =>
        LET ops == <<a, Body("answer")>> IN ops \in Seq(Ops) /\ ops # <<>> /\ Draft(ops)
  /\ \A a, b \in Ops : a.op # "body" /\ b.op # "body" =>
        LET ops == <<a, b, Body("answer")>> IN ops \in Seq(Ops) /\ ops # <<>> /\ Draft(ops)
<1>1. PICK z : z = Body("answer")
  OBVIOUS
<1>2. z \in Ops /\ z.op = "body"
  BY <1>1, OpsAre
<1>3. Draft(<<>>) /\ <<>> \in Seq(Ops)
  BY DEF Draft
<1>4. <<z>> \in Seq(Ops) /\ <<z>> # <<>> /\ Draft(<<z>>)
  BY <1>1, <1>2 DEF Draft
<1>5. ASSUME NEW a \in Ops, a.op # "body"
      PROVE  <<a, z>> \in Seq(Ops) /\ <<a, z>> # <<>> /\ Draft(<<a, z>>)
  BY <1>1, <1>2, <1>5 DEF Draft
<1>6. ASSUME NEW a \in Ops, a.op # "body", NEW b \in Ops, b.op # "body"
      PROVE  <<a, b, z>> \in Seq(Ops) /\ <<a, b, z>> # <<>> /\ Draft(<<a, b, z>>)
  BY <1>1, <1>2, <1>6 DEF Draft
<1> QED
  BY <1>1, <1>3, <1>4, <1>5, <1>6

LEMMA WritesAre ==
  ASSUME NEW route \in Routes, NEW ops \in Writes(route)
  PROVE  ops \in Seq(Ops) /\ ops # <<>> /\ Draft(ops)
<1>1. \/ ops \in LoginHandler \/ ops \in LogoutHandler \/ ops \in LocaleHandler
      \/ ops \in IndexHandler \/ ops \in FileServer \/ ops \in QueryHandler \/ ops \in Playground
  BY DEF Writes, Routes
<1>2. PICK z : z = Body("answer")
  OBVIOUS
<1>3. \/ ops = <<z>>
      \/ \E a \in {Type("json"), Type("html")} : ops = <<a, z>>
      \/ \E t \in {"json", "file", "text"}, c \in {200, 404, 422, 500} :
            ops = <<Type(t), Status(c), z>> \/ ops = <<Status(c), Type(t), z>>
  BY <1>1, <1>2 DEF LoginHandler, LogoutHandler, LocaleHandler, IndexHandler, FileServer,
     QueryHandler, Playground, JSON, Error
<1>4. CASE ops = <<z>>
  BY <1>2, <1>4, DraftIs
<1>5. CASE \E a \in {Type("json"), Type("html")} : ops = <<a, z>>
  <2>1. PICK a \in {Type("json"), Type("html")} : ops = <<a, z>>
    BY <1>5
  <2>2. a \in Ops /\ a.op # "body"
    BY OpsAre DEF Types
  <2> QED
    BY <1>2, <2>1, <2>2, DraftIs
<1>6. CASE \E t \in {"json", "file", "text"}, c \in {200, 404, 422, 500} :
             ops = <<Type(t), Status(c), z>> \/ ops = <<Status(c), Type(t), z>>
  <2>1. PICK t \in {"json", "file", "text"}, c \in {200, 404, 422, 500} :
             ops = <<Type(t), Status(c), z>> \/ ops = <<Status(c), Type(t), z>>
    BY <1>6
  <2>2. PICK a : a = Type(t)
    OBVIOUS
  <2>3. PICK b : b = Status(c)
    OBVIOUS
  <2>4. a \in Ops /\ a.op # "body" /\ b \in Ops /\ b.op # "body"
    <3>1. t \in Types /\ c \in Codes \ {0}
      BY DEF Types, Codes
    <3> QED
      BY <2>2, <2>3, <3>1, OpsAre
  <2>5. ops = <<a, b, z>> \/ ops = <<b, a, z>>
    BY <2>1, <2>2, <2>3
  <2> QED
    BY <1>2, <2>4, <2>5, DraftIs
<1> QED
  BY <1>3, <1>4, <1>5, <1>6

(* op is the first of ops, and rest the others.                            *)
Splits(ops, op, rest) ==
    /\ op \in Ops /\ rest \in Seq(Ops) /\ Draft(rest)
    /\ op.op = "body" => op = Body("answer")
    /\ rest = <<>> <=> op.op = "body"
    /\ \E k \in DOMAIN ops : ops[k] = op
    /\ \A k \in DOMAIN rest : \E i \in DOMAIN ops : ops[i] = rest[k]
    /\ \A i \in DOMAIN ops : ops[i] = op \/ \E k \in DOMAIN rest : rest[k] = ops[i]

LEMMA TailIs ==
  ASSUME NEW ops \in Seq(Ops), ops # <<>>, Draft(ops), NEW op, op = Head(ops), NEW rest, rest = Tail(ops)
  PROVE  Splits(ops, op, rest)
<1>1. PICK m : m = Len(ops)
  OBVIOUS
<1>2. m \in Nat /\ m > 0 /\ DOMAIN ops = 1..m /\ op = ops[1] /\ 1 \in 1..m
  BY <1>1
<1>3. /\ rest \in Seq(Ops) /\ Len(rest) = m - 1 /\ DOMAIN rest = 1..(m - 1)
      /\ \A k \in 1..(m - 1) : rest[k] = ops[k + 1]
  BY <1>1, <1>2
<1>4. op \in Ops
  BY <1>1, <1>2
<1>5. \A k \in 1..m : ops[k].op = "body" => ops[k] = Body("answer") /\ k = m
  BY <1>1, <1>2 DEF Draft
<1>6. PICK b \in 1..m : ops[b].op = "body"
  BY <1>2 DEF Draft
<1>7. b = m
  BY <1>5, <1>6
<1>8. m = 1 => rest = <<>>
  BY <1>3
<1>9. m # 1 => rest # <<>>
  BY <1>2, <1>3
<1>10. op.op = "body" <=> m = 1
  BY <1>2, <1>5, <1>6, <1>7
<1>11. Draft(rest)
  <2>1. ASSUME NEW k \in 1..(m - 1) PROVE rest[k] = ops[k + 1] /\ k + 1 \in 1..m
    BY <1>2, <1>3
  <2>2. ASSUME rest # <<>> PROVE \E k \in DOMAIN rest : rest[k].op = "body"
    <3>1. m - 1 \in 1..(m - 1) /\ (m - 1) + 1 = m
      BY <1>2, <1>8, <2>2
    <3>2. rest[m - 1] = ops[m]
      BY <1>3, <3>1
    <3> QED
      BY <1>3, <1>6, <1>7, <3>1, <3>2
  <2>3. ASSUME NEW k \in DOMAIN rest, rest[k].op = "body"
        PROVE  rest[k] = Body("answer") /\ k = Len(rest)
    <3>1. k \in 1..(m - 1) /\ rest[k] = ops[k + 1] /\ k + 1 \in 1..m
      BY <1>3, <2>1
    <3>2. ops[k + 1] = Body("answer") /\ k + 1 = m
      BY <1>5, <2>3, <3>1
    <3> QED
      BY <1>2, <1>3, <3>1, <3>2
  <2> QED
    BY <2>2, <2>3 DEF Draft
<1>12. ASSUME NEW k \in DOMAIN rest PROVE \E i \in DOMAIN ops : ops[i] = rest[k]
  <2>1. k \in 1..(m - 1) /\ k + 1 \in 1..m
    BY <1>2, <1>3
  <2> QED
    BY <1>2, <1>3, <2>1
<1>13. ASSUME NEW i \in DOMAIN ops, i # 1 PROVE \E k \in DOMAIN rest : rest[k] = ops[i]
  <2>1. i - 1 \in 1..(m - 1) /\ (i - 1) + 1 = i
    BY <1>2, <1>13
  <2>2. rest[i - 1] = ops[i]
    BY <1>3, <2>1
  <2> QED
    BY <1>3, <2>1, <2>2
<1> QED
  BY <1>2, <1>3, <1>4, <1>5, <1>8, <1>9, <1>10, <1>11, <1>12, <1>13 DEF Splits

-----------------------------------------------------------------------------
(* In the handler.                                                         *)
LEMMA HandlerIs ==
  ASSUME HttpInv, at = Len(Chain)
  PROVE  at \in {6, 7, 8} /\ (Inner => Timed /\ at \in {7, 8})
<1>1. PICK l : l = Len(Chain)
  OBVIOUS
<1>2. l \in {6, 7, 8} /\ (Inner => Timed /\ l # 6)
  BY <1>1, PathIs
<1> QED
  BY <1>1, <1>2

LEMMA CallKeeps ==
  ASSUME HttpInv, Call
  PROVE  HttpInv'
<1> USE DEF HttpInv
<1>0. at = Len(Chain)
  BY PathIs DEF Call, WriteNext, Return, Panic, Pass, Placed
<1>1. at \in {6, 7, 8} /\ (Inner => Timed /\ at \in {7, 8})
  BY <1>0, HandlerIs
<1>2. going = "in" /\ at' = at /\ going' = "working"
  BY DEF Call, Pass
<1>3. Chain' = Chain /\ (Timed' <=> Timed) /\ (Inner' <=> Inner)
  BY Still DEF Call
<1>4. Depth' = Depth /\ (InTimeout' <=> InTimeout)
  BY <1>1, <1>2, <1>3 DEF Depth, InTimeout, Inside
<1>5. PICK ops \in Writes(req.route) : todo' = ops /\ said' = Append(said, ops)
  BY DEF Call
<1>6. ops \in Seq(Ops) /\ ops # <<>> /\ Draft(ops)
  BY PathIs, WritesAre
<1>7. UNCHANGED <<req, writers, type, deadline, served, log, faults>>
  BY DEF Call
<1>8. HttpTyped'
  BY <1>0, <1>1, <1>2, <1>3, <1>4, <1>5, <1>6, <1>7 DEF HttpTyped
<1>9. Placed'
  BY <1>0, <1>1, <1>2, <1>3 DEF Placed
<1>10. Unsent'
  BY <1>1, <1>2, <1>7 DEF Unsent, Connection
<1>11. Timing'
  BY <1>1, <1>2, <1>3, <1>4, <1>7 DEF Timing
<1>12. Fresh'
  BY <1>2, <1>4, <1>7 DEF Fresh
<1>13. Failed'
  BY <1>2, <1>7 DEF Failed, Fresh
<1>14. Working'
  <2> SUFFICES ASSUME Proper'
               PROVE  /\ Len(said') = 1
                      /\ Top'.body = IF todo' = <<>> THEN <<"answer">> ELSE <<>>
                      /\ \A k \in DOMAIN todo' : \E i \in DOMAIN said'[1] : said'[1][i] = todo'[k]
                      /\ Top'.code # 0 => Top'.code \in StatusOf(said'[1])
                      /\ StatusOf(said'[1]) # {} => Left("status")'
                      /\ TypeOf(said'[1]) # {} => Left("type")'
    BY DEF Working
  <2>1. said = <<>> /\ \A i \in 1..Depth : writers[i] = Empty
    BY <1>2, <1>7 DEF Fresh, Proper
  <2>2. said' = <<ops>>
    BY <1>5, <2>1
  <2>3. Len(said') = 1 /\ said'[1] = ops
    BY <2>2
  <2>4. Top' = Empty
    <3>1. PICK n : n = Depth
      OBVIOUS
    <3>2. n \in 1..n
      BY <3>1, DepthIs
    <3> QED
      BY <1>4, <1>7, <2>1, <3>1, <3>2 DEF Top
  <2>5. Top'.body = <<>> /\ Top'.code = 0
    BY <2>4 DEF Empty
  <2>6. StatusOf(ops) # {} => \E k \in DOMAIN ops : ops[k].op = "status"
    BY DEF StatusOf
  <2>7. TypeOf(ops) # {} => \E k \in DOMAIN ops : ops[k].op = "type"
    BY DEF TypeOf
  <2> QED
    BY <1>5, <1>6, <2>3, <2>5, <2>6, <2>7 DEF Left
<1>15. Answered'
  BY <1>2 DEF Answered
<1> QED
  BY <1>8, <1>9, <1>10, <1>11, <1>12, <1>13, <1>14, <1>15

LEMMA WriteNextKeeps ==
  ASSUME HttpInv, WriteNext
  PROVE  HttpInv'
<1> USE DEF HttpInv
<1>0. at = Len(Chain)
  BY PathIs DEF Call, WriteNext, Return, Panic, Pass, Placed
<1>1. at \in {6, 7, 8} /\ (Inner => Timed /\ at \in {7, 8})
  BY <1>0, HandlerIs
<1>2. /\ going = "working"
      /\ UNCHANGED <<req, at, going, said, deadline, served, log, faults>>
  BY DEF WriteNext
<1>3. Chain' = Chain /\ (Timed' <=> Timed) /\ (Inner' <=> Inner)
  BY <1>2, Still
<1>4. PICK n : n = Depth
  OBVIOUS
<1>5. n \in {2, 3} /\ Len(writers) = n /\ writers \in Seq(Answers) /\ type \in Types
  BY <1>1, <1>2, <1>4 DEF Depth, Inside, HttpTyped
<1>6. Depth' = n /\ (InTimeout' <=> InTimeout)
  BY <1>1, <1>2, <1>3, <1>4 DEF Depth, InTimeout, Inside
<1>7. PICK op : op = Head(todo)
  OBVIOUS
<1>8. PICK rest : rest = Tail(todo)
  OBVIOUS
<1>9. /\ op \in Ops /\ rest \in Seq(Ops) /\ Draft(rest) /\ todo' = rest
      /\ op.op = "body" => op = Body("answer")
      /\ rest = <<>> <=> op.op = "body"
      /\ \E k \in DOMAIN todo : todo[k] = op
      /\ \A k \in DOMAIN rest : \E i \in DOMAIN todo : todo[i] = rest[k]
      /\ \A i \in DOMAIN todo : todo[i] = op \/ \E k \in DOMAIN rest : rest[k] = todo[i]
  <2>1. todo \in Seq(Ops) /\ todo # <<>> /\ Draft(todo) /\ todo' = rest
    BY <1>8 DEF WriteNext, HttpTyped
  <2>2. Splits(todo, op, rest)
    BY <1>7, <1>8, <2>1, TailIs
  <2> QED
    BY <2>1, <2>2 DEF Splits
<1>10. /\ writers' = CASE op.op = "status" -> WithStatus(writers, op.arg, type)
                       [] op.op = "body"   -> WithBody(writers, <<op.arg>>, type)
                       [] OTHER            -> writers
       /\ type' = IF op.op = "type" THEN op.arg ELSE type
  BY <1>7 DEF WriteNext
<1>11. PICK v : v = writers[n]
  OBVIOUS
<1>12. PICK w : w = writers'[n]
  OBVIOUS
<1>13. /\ Alike(writers, writers', n) /\ type' \in Types
       /\ \/ op.op = "status" /\ op.arg # 0 /\ GetsStatus(v, w, op.arg, type, n) /\ type' = type
          \/ op.op = "body" /\ GetsBody(v, w, <<"answer">>, type, n) /\ type' = type
          \/ op.op = "type" /\ w = v /\ type' = op.arg
  <2>1. CASE op.op = "status"
    <3>1. op.arg \in Codes /\ op.arg # 0
      BY <1>9, <2>1 DEF Ops
    <3>2. writers' = WithStatus(writers, op.arg, type) /\ type' = type
      BY <1>10, <2>1
    <3> QED
      BY <1>5, <1>11, <1>12, <2>1, <3>1, <3>2, StatusOn
  <2>2. CASE op.op = "body"
    <3>1. op.arg = "answer"
      BY <1>9, <2>2 DEF Body
    <3>2. writers' = WithBody(writers, <<"answer">>, type) /\ type' = type
      BY <1>10, <2>2, <3>1
    <3>3. <<"answer">> \in Bodies
      BY Words
    <3> QED
      BY <1>5, <1>11, <1>12, <2>2, <3>2, <3>3, BodyOn
  <2>3. CASE op.op = "type"
    <3>1. op.arg \in Types
      BY <1>9, <2>3 DEF Ops
    <3>2. writers' = writers /\ type' = op.arg
      BY <1>10, <2>3
    <3> QED
      BY <1>5, <1>11, <1>12, <2>3, <3>1, <3>2 DEF Alike
  <2> QED
    BY <1>9, <2>1, <2>2, <2>3 DEF Ops
<1>14. writers' \in Seq(Answers) /\ Len(writers') = n /\ writers'[1] = writers[1]
       /\ (n = 3 => writers'[2] = writers[2])
  BY <1>5, <1>13 DEF Alike
<1>15. HttpTyped'
  BY <1>0, <1>1, <1>2, <1>3, <1>6, <1>9, <1>13, <1>14 DEF HttpTyped
<1>16. Placed'
  BY <1>0, <1>1, <1>2, <1>3 DEF Placed
<1>17. Unsent'
  BY <1>1, <1>2, <1>14 DEF Unsent, Connection
<1>18. Timing'
  BY <1>1, <1>2, <1>3, <1>6 DEF Timing
<1>19. Fresh'
  BY <1>2, <1>4, <1>6, <1>14 DEF Fresh
<1>20. Failed'
  BY <1>2 DEF Failed
<1>21. Working'
  <2> SUFFICES ASSUME Proper
               PROVE  /\ w.body = IF rest = <<>> THEN <<"answer">> ELSE <<>>
                      /\ \A k \in DOMAIN rest : \E i \in DOMAIN said[1] : said[1][i] = rest[k]
                      /\ w.code # 0 => w.code \in StatusOf(said[1])
                      /\ StatusOf(said[1]) # {} => w.code # 0 \/ \E k \in DOMAIN rest : rest[k].op = "status"
                      /\ TypeOf(said[1]) # {} => type' \in TypeOf(said[1]) \/ \E k \in DOMAIN rest : rest[k].op = "type"
    BY <1>2, <1>6, <1>9, <1>12 DEF Working, Proper, Top, Left
  <2>1. /\ v.body = <<>>
        /\ \A k \in DOMAIN todo : \E i \in DOMAIN said[1] : said[1][i] = todo[k]
        /\ v.code # 0 => v.code \in StatusOf(said[1])
        /\ StatusOf(said[1]) # {} => v.code # 0 \/ \E k \in DOMAIN todo : todo[k].op = "status"
        /\ TypeOf(said[1]) # {} => type \in TypeOf(said[1]) \/ \E k \in DOMAIN todo : todo[k].op = "type"
    BY <1>2, <1>4, <1>11 DEF Working, Top, Left, WriteNext
  <2>2. \E i \in DOMAIN said[1] : said[1][i] = op
    BY <1>9, <2>1
  <2>3. op.op = "status" => op.arg \in StatusOf(said[1])
    BY <2>2 DEF StatusOf
  <2>4. op.op = "type" => op.arg \in TypeOf(said[1])
    BY <2>2 DEF TypeOf
  <2>5. \A k \in DOMAIN rest : \E i \in DOMAIN said[1] : said[1][i] = rest[k]
    BY <1>9, <2>1
  <2>6. <<>> \o <<"answer">> = <<"answer">>
    BY Words
  <2>7. CASE op.op = "status"
    BY <1>9, <1>13, <2>1, <2>3, <2>5, <2>7 DEF GetsStatus
  <2>8. CASE op.op = "body"
    BY <1>5, <1>9, <1>13, <2>1, <2>5, <2>6, <2>8 DEF GetsBody
  <2>9. CASE op.op = "type"
    BY <1>9, <1>13, <2>1, <2>4, <2>5, <2>9
  <2> QED
    BY <1>13, <2>7, <2>8, <2>9
<1>22. Answered'
  BY <1>2 DEF Answered
<1> QED
  BY <1>15, <1>16, <1>17, <1>18, <1>19, <1>20, <1>21, <1>22

LEMMA ReturnKeeps ==
  ASSUME HttpInv, Return
  PROVE  HttpInv'
<1> USE DEF HttpInv
<1>0. at = Len(Chain)
  BY PathIs DEF Call, WriteNext, Return, Panic, Pass, Placed
<1>1. at \in {6, 7, 8} /\ (Inner => Timed /\ at \in {7, 8})
  BY <1>0, HandlerIs
<1>2. /\ going = "working" /\ todo = <<>> /\ going' = "out" /\ at' = at - 1
      /\ UNCHANGED <<req, todo, said, writers, type, deadline, served, log, faults>>
  BY DEF Return
<1>3. Chain' = Chain /\ (Timed' <=> Timed) /\ (Inner' <=> Inner)
  BY <1>2, Still
<1>4. Depth' = Depth /\ Depth # 1 /\ (InTimeout' <=> Timed) /\ (InTimeout <=> Timed)
  BY <1>1, <1>2, <1>3 DEF Depth, InTimeout, Inside
<1>5. at' \in 5..7 /\ at' < at
  BY <1>1, <1>2
<1>6. HttpTyped'
  BY <1>0, <1>1, <1>2, <1>3, <1>4, <1>5 DEF HttpTyped
<1>7. Placed'
  BY <1>0, <1>1, <1>2, <1>3, <1>5 DEF Placed
<1>8. Unsent'
  BY <1>1, <1>2, <1>5 DEF Unsent, Connection
<1>9. Timing'
  BY <1>1, <1>2, <1>3, <1>4 DEF Timing
<1>10. Fresh'
  BY <1>2, <1>4 DEF Fresh
<1>11. Failed'
  BY <1>2 DEF Failed
<1>12. Working'
  BY <1>2 DEF Working
<1>13. Answered'
  <2> SUFFICES ASSUME Proper
               PROVE  /\ Len(said) = 1 /\ Top.body = <<"answer">>
                      /\ IF StatusOf(said[1]) # {} THEN Top.code # 0 /\ Top.code \in StatusOf(said[1]) ELSE Top.code = 0
                      /\ TypeOf(said[1]) # {} => type \in TypeOf(said[1])
                      /\ Timed \/ deadline = "none"
    BY <1>2, <1>3, <1>4 DEF Answered, Proper, Top
  <2>1. ~ Left("status") /\ ~ Left("type")
    BY <1>2 DEF Left
  <2> QED
    BY <1>2, <1>4, <2>1 DEF Working, Timing
<1> QED
  BY <1>6, <1>7, <1>8, <1>9, <1>10, <1>11, <1>12, <1>13

LEMMA PanicKeeps ==
  ASSUME HttpInv, Panic
  PROVE  HttpInv'
<1> USE DEF HttpInv
<1>0. at = Len(Chain)
  BY PathIs DEF Call, WriteNext, Return, Panic, Pass, Placed
<1>1. at \in {6, 7, 8} /\ (Inner => Timed /\ at \in {7, 8})
  BY <1>0, HandlerIs
<1>2. /\ going = "working" /\ going' = "panic" /\ at' = at - 1 /\ todo' = <<>>
      /\ UNCHANGED <<req, said, writers, type, deadline, served, log>>
  BY DEF Panic
<1>3. Chain' = Chain /\ (Timed' <=> Timed) /\ (Inner' <=> Inner)
  BY <1>2, Still
<1>4. Depth' = Depth /\ (InTimeout' <=> InTimeout)
  BY <1>1, <1>2, <1>3 DEF Depth, InTimeout, Inside
<1>5. at' \in 5..7 /\ at' < at
  BY <1>1, <1>2
<1>6. faults' \in 0..MaxFaults /\ faults' > 0
  BY FaultIs DEF HttpTyped, Panic
<1>7. HttpTyped'
  BY <1>0, <1>1, <1>2, <1>3, <1>4, <1>5, <1>6, DraftIs DEF HttpTyped
<1>8. Placed'
  BY <1>0, <1>1, <1>2, <1>3, <1>5 DEF Placed
<1>9. Unsent'
  BY <1>1, <1>2, <1>5 DEF Unsent, Connection
<1>10. Timing'
  BY <1>1, <1>2, <1>3, <1>4 DEF Timing
<1>11. Fresh'
  BY <1>2, <1>4 DEF Fresh
<1>12. Failed'
  BY <1>2, <1>6 DEF Failed
<1>13. Working' /\ Answered'
  BY <1>2 DEF Working, Answered
<1> QED
  BY <1>7, <1>8, <1>9, <1>10, <1>11, <1>12, <1>13

LEMMA MissDeadlineKeeps ==
  ASSUME HttpInv, MissDeadline
  PROVE  HttpInv'
<1> USE DEF HttpInv
<1>1. UNCHANGED <<req, at, going, todo, said, writers, type, served, log, faults>>
      /\ deadline = "ahead" /\ deadline' = "passed"
  BY DEF MissDeadline
<1>2. Chain' = Chain /\ (Timed' <=> Timed) /\ (Inner' <=> Inner)
  BY <1>1, Still
<1>3. Depth' = Depth /\ (InTimeout' <=> InTimeout)
  BY <1>1, <1>2 DEF Depth, InTimeout, Inside
<1>4. InTimeout
  BY <1>1 DEF Timing
<1>5. HttpTyped' /\ Placed'
  BY <1>1, <1>2, <1>3 DEF HttpTyped, Placed
<1>6. Unsent' /\ Fresh'
  BY <1>1, <1>3 DEF Unsent, Connection, Fresh
<1>7. Timing'
  BY <1>1, <1>3, <1>4 DEF Timing
<1>8. Failed'
  BY <1>1, <1>3 DEF Failed, Top
<1>9. Working'
  BY <1>1, <1>3 DEF Working, Proper, Top, Left
<1>10. Answered'
  BY <1>1, <1>3, <1>4 DEF Answered, Proper, Top
<1> QED
  BY <1>5, <1>6, <1>7, <1>8, <1>9, <1>10

-----------------------------------------------------------------------------
(* On the way out.                                                         *)
LEMMA LeavePlainKeeps ==
  ASSUME HttpInv, LeavePlain
  PROVE  HttpInv'
<1> USE DEF HttpInv
<1>1. PICK l : l = Len(Chain)
  OBVIOUS
<1>2. /\ l \in 6..8 /\ at \in 4..8 /\ at <= l /\ at' = at - 1 /\ going \in {"out", "panic"}
      /\ ~ (Timed /\ at = 5) /\ ~ (Inner /\ at = 6) /\ (Inner => Timed)
      /\ UNCHANGED <<req, going, todo, said, writers, type, deadline, served, log, faults>>
  <2>1. l \in 6..8 /\ at \in 1..l /\ at \notin {1, 2, 3}
    BY <1>1, PathIs DEF LeavePlain, Back, HttpTyped
  <2>2. at \in 4..8 /\ at <= l
    BY <2>1
  <2> QED
    BY <2>1, <2>2, PathIs DEF LeavePlain, Back
<1>3. Chain' = Chain /\ (Timed' <=> Timed) /\ (Inner' <=> Inner)
  BY <1>2, Still
<1>4. Depth' = Depth /\ (InTimeout' <=> InTimeout)
  BY <1>2, <1>3 DEF Depth, InTimeout, Inside
<1>5. Depth # 1
  BY <1>2 DEF Depth, Inside
<1>6. HttpTyped'
  BY <1>1, <1>2, <1>3, <1>4 DEF HttpTyped
<1>7. Placed'
  BY <1>1, <1>2, <1>3 DEF Placed
<1>8. Unsent'
  BY <1>2 DEF Unsent, Connection
<1>9. Timing'
  BY <1>2, <1>3, <1>4 DEF Timing
<1>10. Fresh'
  BY <1>2, <1>4 DEF Fresh
<1>11. Failed'
  BY <1>2, <1>4 DEF Failed, Top
<1>12. Working'
  BY <1>2 DEF Working
<1>13. Answered'
  BY <1>2, <1>4 DEF Answered, Proper, Top
<1> QED
  BY <1>6, <1>7, <1>8, <1>9, <1>10, <1>11, <1>12, <1>13

LEMMA LogKeeps ==
  ASSUME HttpInv, Log
  PROVE  HttpInv'
<1> USE DEF HttpInv
<1>1. PICK l : l = Len(Chain)
  OBVIOUS
<1>2. /\ l \in 6..8 /\ at = 1 /\ at' = 0 /\ going = "out" /\ going' = "out"
      /\ UNCHANGED <<req, todo, said, writers, type, deadline, served, faults>>
      /\ log' = IF req.upgrade THEN log ELSE Append(log, writers[1].code)
  <2>1. l \in 6..8 /\ at = 1
    BY <1>1, PathIs DEF Log, Back
  <2>2. going # "panic"
    BY <2>1 DEF Placed
  <2> QED
    BY <2>1, <2>2 DEF Log, Back
<1>3. Chain' = Chain /\ (Timed' <=> Timed) /\ (Inner' <=> Inner)
  BY <1>2, Still
<1>4. Depth = 1 /\ Depth' = 1 /\ ~ InTimeout /\ ~ InTimeout'
  BY <1>2, <1>3 DEF Depth, InTimeout, Inside
<1>5. HttpTyped'
  BY <1>1, <1>2, <1>3, <1>4 DEF HttpTyped
<1>6. Placed'
  BY <1>1, <1>2, <1>3 DEF Placed
<1>7. Unsent'
  <2>1. log = <<>> /\ Connection.code # 0
    BY <1>2 DEF Unsent
  <2>2. Append(<<>>, Connection.code) = <<Connection.code>>
    OBVIOUS
  <2> QED
    BY <1>2, <2>1, <2>2 DEF Unsent, Connection
<1>8. Timing'
  BY <1>2, <1>3, <1>4 DEF Timing
<1>9. Fresh'
  BY <1>2, <1>4 DEF Fresh
<1>10. Failed'
  BY <1>2, <1>4 DEF Failed, Top
<1>11. Working'
  BY <1>2 DEF Working
<1>12. Answered'
  BY <1>2, <1>4 DEF Answered, Proper, Top
<1> QED
  BY <1>5, <1>6, <1>7, <1>8, <1>9, <1>10, <1>11, <1>12

LEMMA RecoverKeeps ==
  ASSUME HttpInv, Recover
  PROVE  HttpInv'
<1> USE DEF HttpInv
<1>1. PICK l : l = Len(Chain)
  OBVIOUS
<1>2. /\ l \in 6..8 /\ at = 2 /\ at' = 1 /\ going \in {"out", "panic"} /\ going' = "out"
      /\ UNCHANGED <<req, todo, said, deadline, served, log, faults>>
  BY <1>1, PathIs DEF Recover, Back
<1>3. Chain' = Chain /\ (Timed' <=> Timed) /\ (Inner' <=> Inner)
  BY <1>2, Still
<1>4. /\ Depth = 1 /\ Depth' = 1 /\ ~ InTimeout /\ ~ InTimeout'
      /\ Len(writers) = 1 /\ writers \in Seq(Answers)
  BY <1>2, <1>3 DEF Depth, InTimeout, Inside, HttpTyped
<1>5. \/ going = "out" /\ writers' = writers /\ type' = type
      \/ /\ going = "panic" /\ type' = "text" /\ writers' \in Seq(Answers) /\ Len(writers') = 1
         /\ writers'[1].code # 0 /\ IsError(writers'[1], 1)
  <2>1. CASE going = "panic"
    <3>1. writers' = WithError(writers) /\ type' = "text"
      BY <2>1 DEF Recover
    <3>2. writers[1] = Empty
      BY <2>1 DEF Unsent, Connection
    <3>3. /\ Alike(writers, writers', 1) /\ writers'[1].code # 0
          /\ writers[1] = Empty => IsError(writers'[1], 1)
      BY <1>4, <3>1, ErrorOn
    <3> QED
      BY <2>1, <3>1, <3>2, <3>3 DEF Alike
  <2>2. CASE going = "out"
    BY <2>2 DEF Recover
  <2> QED
    BY <1>2, <2>1, <2>2
<1>6. HttpTyped'
  BY <1>1, <1>2, <1>3, <1>4, <1>5 DEF HttpTyped, Types
<1>7. Placed'
  BY <1>1, <1>2, <1>3 DEF Placed
<1>8. Unsent'
  BY <1>2, <1>5 DEF Unsent, Connection
<1>9. Timing'
  BY <1>2, <1>3, <1>4 DEF Timing
<1>10. Fresh'
  BY <1>2, <1>4 DEF Fresh
<1>11. Failed'
  BY <1>2, <1>4, <1>5 DEF Failed, Top
<1>12. Working'
  BY <1>2 DEF Working
<1>13. Answered'
  <2> SUFFICES ASSUME Proper PROVE Answered'
    BY <1>2 DEF Answered, Proper
  <2>1. going = "out" /\ writers' = writers /\ type' = type
    BY <1>5 DEF Failed, Proper, HttpTyped
  <2> QED
    BY <1>2, <1>4, <2>1 DEF Answered, Proper, Top
<1> QED
  BY <1>6, <1>7, <1>8, <1>9, <1>10, <1>11, <1>12, <1>13

LEMMA LeaveTimeoutKeeps ==
  ASSUME HttpInv, LeaveTimeout
  PROVE  HttpInv'
<1> USE DEF HttpInv
<1>1. PICK l : l = Len(Chain)
  OBVIOUS
<1>2. /\ l \in 6..8 /\ at = 5 /\ Timed /\ going \in {"out", "panic"}
      /\ UNCHANGED <<req, todo, said, type, served, log, faults>>
  BY <1>1, PathIs DEF LeaveTimeout, Back
<1>3. Chain' = Chain /\ (Timed' <=> Timed) /\ (Inner' <=> Inner)
  BY <1>2, Still
<1>4. Depth = 2 /\ InTimeout /\ Len(writers) = 2 /\ writers \in Seq(Answers) /\ type \in Types
  BY <1>2 DEF Depth, InTimeout, Inside, HttpTyped
<1>5. CASE going = "out" /\ deadline = "none"
  <2>1. at' = 5 /\ going' = "in" /\ UNCHANGED <<writers, deadline>>
    BY <1>2, <1>5 DEF LeaveTimeout
  <2>2. Depth' = 2 /\ ~ InTimeout'
    BY <1>2, <1>3, <2>1 DEF Depth, InTimeout, Inside
  <2>3. req.upgrade /\ served = 1
    BY <1>4, <1>5 DEF Timing
  <2>4. HttpTyped'
    BY <1>1, <1>2, <1>3, <1>4, <2>1, <2>2 DEF HttpTyped
  <2>5. Placed'
    BY <1>1, <1>2, <1>3, <2>1 DEF Placed
  <2>6. Unsent'
    BY <1>2, <2>1 DEF Unsent, Connection
  <2>7. Timing'
    BY <1>2, <1>3, <1>5, <2>1, <2>2, <2>3 DEF Timing
  <2>8. Fresh' /\ Failed' /\ Working' /\ Answered'
    BY <1>2, <2>1, <2>3 DEF Fresh, Failed, Working, Answered, Proper
  <2> QED
    BY <2>4, <2>5, <2>6, <2>7, <2>8
<1>6. CASE ~ (going = "out" /\ deadline = "none")
  <2>1. /\ at' = 4 /\ going' = going
        /\ deadline' = IF deadline = "ahead" THEN "none" ELSE deadline
        /\ writers' = IF deadline = "passed" THEN TimedOut(writers) ELSE writers
    BY <1>2, <1>6 DEF LeaveTimeout
  <2>2. Depth' = 2 /\ ~ InTimeout'
    BY <1>2, <1>3, <2>1 DEF Depth, InTimeout, Inside
  <2>3. deadline' \in {"none", "passed"} /\ (deadline' = "passed" <=> deadline = "passed")
    BY <2>1 DEF HttpTyped
  <2>4. PICK v : v = writers[2]
    OBVIOUS
  <2>5. PICK w : w = writers'[2]
    OBVIOUS
  <2>6. /\ writers' \in Seq(Answers) /\ Len(writers') = 2 /\ writers'[1] = writers[1]
        /\ IF deadline = "passed" THEN GetsStatus(v, w, 504, type, 2) ELSE w = v
    <3>1. CASE deadline = "passed"
      <4>1. 504 \in Codes
        BY DEF Codes
      <4>2. writers' = WithStatus(writers, 504, type)
        BY <2>1, <3>1 DEF TimedOut
      <4>3. Alike(writers, writers', 2) /\ GetsStatus(v, w, 504, type, 2)
        BY <1>4, <2>4, <2>5, <4>1, <4>2, StatusOn
      <4> QED
        BY <3>1, <4>3 DEF Alike
    <3>2. CASE deadline # "passed"
      BY <1>4, <2>1, <2>4, <2>5, <3>2
    <3> QED
      BY <3>1, <3>2
  <2>7. HttpTyped'
    BY <1>1, <1>2, <1>3, <2>1, <2>2, <2>3, <2>6 DEF HttpTyped
  <2>8. Placed'
    BY <1>1, <1>2, <1>3, <2>1 DEF Placed
  <2>9. Unsent'
    BY <1>2, <2>1, <2>6 DEF Unsent, Connection
  <2>10. Timing'
    BY <1>2, <1>3, <2>1, <2>2, <2>3 DEF Timing
  <2>11. Fresh'
    BY <1>2, <2>1, <2>2 DEF Fresh
  <2>12. Failed'
    BY <1>2, <1>4, <2>1, <2>2, <2>4, <2>5, <2>6 DEF Failed, Top, IsError, GetsStatus
  <2>13. Working'
    BY <1>2, <2>1 DEF Working
  <2>14. Answered'
    <3> SUFFICES ASSUME Proper, going = "out"
                 PROVE  /\ Len(said) = 1 /\ w.body = <<"answer">>
                        /\ IF StatusOf(said[1]) # {} THEN w.code # 0 /\ w.code \in StatusOf(said[1])
                           ELSE w.code = IF deadline = "passed" THEN 504 ELSE 0
                        /\ TypeOf(said[1]) # {} => type \in TypeOf(said[1])
      BY <1>2, <2>1, <2>2, <2>3, <2>5 DEF Answered, Proper, Top
    <3>1. /\ Len(said) = 1 /\ v.body = <<"answer">>
          /\ IF StatusOf(said[1]) # {} THEN v.code # 0 /\ v.code \in StatusOf(said[1]) ELSE v.code = 0
          /\ TypeOf(said[1]) # {} => type \in TypeOf(said[1])
      BY <1>4, <2>4 DEF Answered, Top
    <3> QED
      BY <2>6, <3>1 DEF GetsStatus
  <2> QED
    BY <2>7, <2>8, <2>9, <2>10, <2>11, <2>12, <2>13, <2>14
<1> QED
  BY <1>5, <1>6

LEMMA LeaveSessionKeeps ==
  ASSUME HttpInv, LeaveSession
  PROVE  HttpInv'
<1> USE DEF HttpInv
<1>1. PICK l : l = Len(Chain)
  OBVIOUS
<1>2. /\ l \in 6..8 /\ (at = 3 \/ (at = 6 /\ Inner /\ Timed)) /\ going \in {"out", "panic"}
      /\ at' = at - 1 /\ going' = going /\ at' \in {2, 5}
      /\ UNCHANGED <<req, todo, said, deadline, served, log>>
  <2>1. l \in 6..8 /\ (at = 3 \/ (at = 6 /\ Inner /\ Timed)) /\ going \in {"out", "panic"}
    BY <1>1, PathIs DEF LeaveSession, Back
  <2> QED
    BY <2>1 DEF LeaveSession
<1>3. Chain' = Chain /\ (Timed' <=> Timed) /\ (Inner' <=> Inner)
  BY <1>2, Still
<1>4. PICK n : n = IF at = 3 THEN 1 ELSE 2
  OBVIOUS
<1>5. /\ n \in {1, 2} /\ Depth = n + 1 /\ Depth' = n /\ (InTimeout' <=> InTimeout) /\ (n = 2 => InTimeout)
      /\ (n = 1 => ~ InTimeout) /\ (n = 1 <=> at = 3) /\ (n = 1 <=> at' = 2)
  BY <1>2, <1>3, <1>4 DEF Depth, InTimeout, Inside
<1>6. Len(writers) = n + 1 /\ writers \in Seq(Answers) /\ type \in Types
  BY <1>5 DEF HttpTyped
<1>7. /\ ~ req.upgrade => writers[n] = Empty
      /\ n = 1 => writers[1] = Empty
  <2>1. writers[1] = Empty
    BY <1>2 DEF Unsent, Connection
  <2>2. n = 2 /\ ~ req.upgrade => writers[2] = Empty
    BY <1>5 DEF Fresh
  <2> QED
    BY <1>5, <2>1, <2>2
<1>8. PICK v : v = writers[n + 1]
  OBVIOUS
<1>9. PICK w : w = writers'[n]
  OBVIOUS
<1>10. v = Top /\ w = Top'
  BY <1>5, <1>8, <1>9 DEF Top
(* What is the same, however the session middleware is left.               *)
<1>11. ASSUME writers' \in Seq(Answers), Len(writers') = n,
              n = 2 => writers'[1] = writers[1],
              n = 1 /\ going = "out" => w.code # 0,
              n = 1 /\ going = "panic" => writers'[1] = writers[1],
              type' \in Types, faults' \in 0..MaxFaults, faults' >= faults, faults' > 0 \/ faults' = faults
       PROVE  HttpTyped' /\ Placed' /\ Unsent' /\ Timing' /\ Fresh' /\ Working'
  <2>1. HttpTyped'
    BY <1>1, <1>2, <1>3, <1>5, <1>11 DEF HttpTyped
  <2>2. Placed'
    BY <1>1, <1>2, <1>3 DEF Placed
  <2>3. Unsent'
    BY <1>2, <1>5, <1>9, <1>11 DEF Unsent, Connection
  <2>4. Timing'
    BY <1>2, <1>3, <1>5 DEF Timing
  <2>5. Fresh'
    BY <1>2, <1>5 DEF Fresh
  <2>6. Working'
    BY <1>2 DEF Working
  <2> QED
    BY <2>1, <2>2, <2>3, <2>4, <2>5, <2>6
<1>12. CASE going = "out" /\ writers' = PassedOn(writers, type) /\ type' = type /\ faults' = faults
  <2>1. /\ Alike(writers, writers', n)
        /\ n = 1 => w.code # 0
        /\ writers[n] = Empty => /\ w.body = v.body
                                 /\ w.code = IF n = 1 /\ v.code = 0 THEN 200 ELSE v.code
                                 /\ w.type = IF n = 1 THEN type ELSE "none"
    <3>1. Passes(writers, writers', type, n)
      BY <1>5, <1>6, <1>12, PassedOnIs
    <3> QED
      BY <1>8, <1>9, <3>1 DEF Passes
  <2>2. writers' \in Seq(Answers) /\ Len(writers') = n /\ (n = 2 => writers'[1] = writers[1])
    BY <2>1 DEF Alike
  <2>3. faults' \in 0..MaxFaults /\ faults' >= faults
    BY <1>12, HttpAssumption DEF HttpTyped
  <2>4. HttpTyped' /\ Placed' /\ Unsent' /\ Timing' /\ Fresh' /\ Working'
    BY <1>6, <1>11, <1>12, <2>1, <2>2, <2>3
  <2>5. Failed'
    <3> SUFFICES ASSUME ~ req.upgrade, faults > 0
                 PROVE  IsError(w, n) /\ type = "text"
      BY <1>2, <1>5, <1>10, <1>12 DEF Failed
    <3>1. IsError(v, n + 1) /\ type = "text"
      BY <1>5, <1>10, <1>12 DEF Failed
    <3> QED
      BY <1>7, <2>1, <3>1 DEF IsError
  <2>6. Answered'
    <3> SUFFICES ASSUME Proper
                 PROVE  /\ Len(said) = 1 /\ w.body = <<"answer">>
                        /\ IF StatusOf(said[1]) # {} THEN w.code # 0 /\ w.code \in StatusOf(said[1])
                           ELSE w.code = IF deadline = "passed" /\ ~ InTimeout THEN 504
                                         ELSE IF n = 1 THEN 200 ELSE 0
                        /\ TypeOf(said[1]) # {} => type \in TypeOf(said[1]) /\ (n = 1 => w.type \in TypeOf(said[1]))
      BY <1>2, <1>5, <1>10, <1>12 DEF Answered, Proper
    <3>1. /\ Len(said) = 1 /\ v.body = <<"answer">>
          /\ IF StatusOf(said[1]) # {} THEN v.code # 0 /\ v.code \in StatusOf(said[1])
             ELSE v.code = IF deadline = "passed" /\ ~ InTimeout THEN 504 ELSE 0
          /\ TypeOf(said[1]) # {} => type \in TypeOf(said[1])
      BY <1>5, <1>10, <1>12 DEF Answered
    <3>2. ~ req.upgrade
      BY DEF Proper
    <3> QED
      BY <1>7, <2>1, <3>1, <3>2
  <2> QED
    BY <2>4, <2>5, <2>6
<1>13. CASE going = "panic" /\ writers' = Dropped(writers) /\ type' = type /\ faults' = faults
  <2>1. writers' \in Seq(Answers) /\ Len(writers') = n /\ \A i \in 1..n : writers'[i] = writers[i]
    BY <1>5, <1>6, <1>13, FrontOn DEF Dropped
  <2>2. writers'[1] = writers[1]
    BY <1>5, <2>1
  <2>3. faults' \in 0..MaxFaults /\ faults' >= faults
    BY <1>13, HttpAssumption DEF HttpTyped
  <2>4. HttpTyped' /\ Placed' /\ Unsent' /\ Timing' /\ Fresh' /\ Working'
    BY <1>6, <1>11, <1>13, <2>1, <2>2, <2>3
  <2>5. Failed' /\ Answered'
    BY <1>2, <1>13 DEF Failed, Answered
  <2> QED
    BY <2>4, <2>5
<1>14. CASE going = "out" /\ Fault /\ writers' = WithError(Front(writers)) /\ type' = "text"
  <2>1. PICK f : f = Front(writers)
    OBVIOUS
  <2>2. f \in Seq(Answers) /\ Len(f) = n /\ \A i \in 1..n : f[i] = writers[i]
    BY <1>5, <1>6, <2>1, FrontOn
  <2>3. /\ Alike(f, writers', n) /\ w.code # 0
        /\ f[n] = Empty => IsError(w, n)
    BY <1>5, <1>9, <1>14, <2>1, <2>2, ErrorOn
  <2>4. writers' \in Seq(Answers) /\ Len(writers') = n /\ (n = 2 => writers'[1] = writers[1])
    BY <2>2, <2>3 DEF Alike
  <2>5. faults' \in 0..MaxFaults /\ faults' > 0 /\ faults' # 0 /\ faults' >= faults
    <3>1. faults' \in 0..MaxFaults /\ faults' > 0 /\ faults' # 0
      BY <1>14, FaultIs DEF HttpTyped
    <3>2. faults' >= faults
      BY <1>14, HttpAssumption DEF Fault, HttpTyped
    <3> QED
      BY <3>1, <3>2
  <2>6. HttpTyped' /\ Placed' /\ Unsent' /\ Timing' /\ Fresh' /\ Working'
    BY <1>11, <1>14, <2>3, <2>4, <2>5 DEF Types
  <2>7. Failed'
    <3>1. f[n] = writers[n]
      BY <1>5, <2>2
    <3>2. ~ req.upgrade => IsError(w, n)
      BY <1>7, <2>3, <3>1
    <3> QED
      BY <1>2, <1>5, <1>10, <1>14, <3>2 DEF Failed
  <2>8. Answered'
    BY <2>5 DEF Answered, Proper
  <2> QED
    BY <2>6, <2>7, <2>8
<1> QED
  BY <1>2, <1>12, <1>13, <1>14 DEF LeaveSession

-----------------------------------------------------------------------------
LEMMA HttpInvInit ==
  ASSUME Init
  PROVE  HttpInv
<1>1. req \in Requests /\ req.route \in Routes
  BY HttpAssumption DEF Init
<1>2. PICK l : l = Len(Chain)
  OBVIOUS
<1>3. l \in 6..8 /\ 1 \in 0..l /\ 1 < l
  BY <1>1, <1>2, ChainIs
<1>4. Depth = 1 /\ ~ InTimeout
  BY DEF Init, Depth, InTimeout, Inside
<1>5. Empty \in Answers
  BY Words DEF Empty, Answers, Bodies
<1>6. writers \in Seq(Answers) /\ Len(writers) = 1 /\ writers[1] = Empty
  BY <1>5 DEF Init
<1>7. HttpTyped
  BY <1>1, <1>2, <1>3, <1>4, <1>6, DraftIs, HttpAssumption DEF HttpTyped, Init, Types
<1>8. Placed
  BY <1>2, <1>3 DEF Placed, Init
<1>9. Unsent
  BY <1>6 DEF Unsent, Connection, Init
<1>10. Timing
  BY <1>4 DEF Timing, Init
<1>11. Fresh
  BY <1>4, <1>6 DEF Fresh, Init
<1>12. Failed /\ Working /\ Answered
  BY DEF Failed, Working, Answered, Init
<1> QED
  BY <1>7, <1>8, <1>9, <1>10, <1>11, <1>12 DEF HttpInv

LEMMA HttpInvNext ==
  ASSUME HttpInv, [Next]_vars
  PROVE  HttpInv'
<1>1. CASE UNCHANGED vars \/ WriteTimeout \/ Deliver \/ Finish
  <2>1. UNCHANGED <<req, at, going, todo, said, writers, type, deadline, served, log, faults>>
    BY <1>1 DEF vars, WriteTimeout, Deliver, Finish
  <2>2. Chain' = Chain /\ (Timed' <=> Timed) /\ (Inner' <=> Inner)
    BY <2>1, Still
  <2>3. Depth' = Depth /\ (InTimeout' <=> InTimeout)
    BY <2>1, <2>2 DEF Depth, InTimeout, Inside
  <2>4. HttpTyped' /\ Placed' /\ Unsent' /\ Timing' /\ Fresh'
    BY <2>1, <2>2, <2>3 DEF HttpInv, HttpTyped, Placed, Unsent, Connection, Timing, Fresh
  <2>5. Failed' /\ Working' /\ Answered'
    BY <2>1, <2>2, <2>3 DEF HttpInv, Failed, Working, Answered, Proper, Top, Left
  <2> QED
    BY <2>4, <2>5 DEF HttpInv
<1> QED
  BY <1>1, EnterPlainKeeps, EnterSessionKeeps, EnterCorsKeeps, EnterTimeoutKeeps, CallKeeps,
     WriteNextKeeps, ReturnKeeps, PanicKeeps, MissDeadlineKeeps, LeaveTimeoutKeeps,
     LeaveSessionKeeps, RecoverKeeps, LeavePlainKeeps, LogKeeps DEF Next

(* No middleware adds to what was sent.                                    *)
LEMMA ConnectionStays ==
  ASSUME HttpInv, [Next]_vars, Connection.code # 0
  PROVE  Connection' = Connection
<1>1. going = "out" /\ at <= 2
  BY DEF HttpInv, Unsent, Empty
<1>2. ~ EnterPlain /\ ~ EnterSession /\ ~ EnterCors /\ ~ EnterTimeout /\ ~ Call /\ ~ WriteNext
      /\ ~ Return /\ ~ Panic
  BY <1>1 DEF EnterPlain, EnterSession, EnterCors, EnterTimeout, Call, WriteNext, Return, Panic, Pass
<1>3. at \in {0, 1, 2}
  BY <1>1 DEF HttpInv, HttpTyped
<1>4. ~ LeaveTimeout /\ ~ LeaveSession /\ ~ LeavePlain
  <2>1. at # 0 => Here \in {"logger", "recoverer"}
    BY <1>3, PathIs
  <2> QED
    BY <1>3, <2>1 DEF LeaveTimeout, LeaveSession, LeavePlain, Back
<1>5. writers' = writers
  BY <1>1, <1>2, <1>4 DEF Next, vars, MissDeadline, Recover, Log, WriteTimeout, Deliver, Finish
<1> QED
  BY <1>5 DEF Connection

-----------------------------------------------------------------------------
(* The client has nothing, or has got what was written to the connection;  *)
(* all of it, if it was done in time.  A deadline that has passed finds a  *)
(* connection that takes nothing any more and that had nothing to send.    *)
WireInv ==
    /\ open \in BOOLEAN /\ finished \in BOOLEAN
    /\ client \in {Empty, HeadOf(Connection), Connection}
    /\ client # Empty => Connection.code # 0
    /\ finished => at = 0 /\ (open => client = Connection)
    /\ deadline = "passed" => ~ open /\ client = Empty

LEMMA ThroughIs ==
  ASSUME HttpInv, at = 0
  PROVE  going = "out" /\ Connection.code # 0
<1>1. going \in {"in", "working", "out", "panic"}
  BY DEF HttpInv, HttpTyped
<1>2. going # "working"
  BY HandlerIs DEF HttpInv, Placed
<1>3. going = "out"
  BY <1>1, <1>2 DEF HttpInv, Placed
<1> QED
  BY <1>3 DEF HttpInv, Unsent

LEMMA WireInvNext ==
  ASSUME HttpInv, WireInv, [Next]_vars
  PROVE  WireInv'
<1>1. Connection.code # 0 => Connection' = Connection
  BY ConnectionStays
<1>2. client # Empty => HeadOf(Connection)' = HeadOf(Connection) /\ Connection'.code # 0
  BY <1>1 DEF WireInv, HeadOf
<1>3. CASE UNCHANGED wire /\ ~ MissDeadline
  <2>1. UNCHANGED <<open, client, finished>>
    BY <1>3 DEF wire
  <2>2. deadline' = "passed" => deadline = "passed"
    BY <1>3 DEF Next, vars, EnterPlain, EnterSession, EnterCors, EnterTimeout, Call, WriteNext, Return,
       Panic, LeaveTimeout, LeaveSession, Recover, LeavePlain, Log, WriteTimeout, Deliver, Finish
  <2>3. client' \in {Empty, HeadOf(Connection)', Connection'} /\ (client' # Empty => Connection'.code # 0)
    BY <1>1, <1>2, <2>1 DEF WireInv
  <2>4. at = 0 => at' = 0
    <3>1. at = 0 => going \notin {"in", "working"}
      BY ThroughIs
    <3> QED
      BY <3>1 DEF Next, vars, EnterPlain, EnterSession, EnterCors, EnterTimeout, Call, WriteNext, Return,
         Panic, LeaveTimeout, LeaveSession, Recover, LeavePlain, Log, WriteTimeout, Deliver, Finish,
         Pass, Back, MissDeadline
  <2>5. finished' => at' = 0 /\ (open' => client' = Connection')
    <3>1. at = 0 => Connection.code # 0
      BY ThroughIs
    <3> QED
      BY <1>1, <2>1, <2>4, <3>1 DEF WireInv
  <2> QED
    BY <2>1, <2>2, <2>3, <2>5 DEF WireInv
<1>4. CASE MissDeadline
  <2>1. InTimeout
    BY <1>4 DEF MissDeadline, HttpInv, Timing
  <2>2. Connection = Empty
    BY <2>1 DEF InTimeout, Inside, HttpInv, HttpTyped, Unsent
  <2>3. client = Empty
    BY <2>2 DEF WireInv, Empty
  <2> QED
    BY <1>4, <2>3 DEF WireInv, MissDeadline, wire, Connection, HeadOf
<1>5. CASE WriteTimeout
  BY <1>5 DEF WireInv, WriteTimeout, Connection, HeadOf
<1>6. CASE Deliver
  BY <1>6 DEF WireInv, Deliver, Connection, HeadOf
<1>7. CASE Finish
  <2>1. Connection.code # 0
    BY <1>7, ThroughIs DEF Finish
  <2> QED
    BY <1>7, <2>1 DEF WireInv, Finish, Connection, HeadOf
<1>8. UNCHANGED wire \/ WriteTimeout \/ Deliver \/ Finish
  BY DEF Next, vars, EnterPlain, EnterSession, EnterCors, EnterTimeout, Call, WriteNext, Return,
     Panic, MissDeadline, LeaveTimeout, LeaveSession, Recover, LeavePlain, Log
<1> QED
  BY <1>3, <1>4, <1>5, <1>6, <1>7, <1>8

-----------------------------------------------------------------------------
(* What holds of Http, for all requests and any number of faults.  The     *)
(* invariant of TLC's runs and more: it says where what was written is, and*)
(* not only what the client has got in the end.                            *)
THEOREM HttpInvariance == Spec => [](HttpInv /\ WireInv)
<1>1. Init => HttpInv /\ WireInv
  <2>1. Init => WireInv
    BY DEF Init, WireInv
  <2> QED
    BY <2>1, HttpInvInit
<1>2. HttpInv /\ WireInv /\ [Next]_vars => (HttpInv /\ WireInv)'
  BY HttpInvNext, WireInvNext
<1> QED
  BY <1>1, <1>2, PTL DEF Spec

LEMMA BufferingIs ==
  ASSUME HttpInv
  PROVE  Len(writers) = 1 + Cardinality(Buffering)
<1>1. PICK l : l = Len(Chain)
  OBVIOUS
<1>2. l \in 6..8 /\ at \in 0..l /\ (Inner => l # 6)
  BY <1>1, PathIs DEF HttpInv, HttpTyped
<1>3. ASSUME NEW i \in 1..at
      PROVE  Chain[i] = "session" <=> i = 3 \/ (i = 6 /\ Inner)
  <2>1. /\ Chain[1] = "logger" /\ Chain[2] = "recoverer" /\ Chain[3] = "session"
        /\ Chain[4] = "cors" /\ Chain[l] = "handler"
        /\ \A k \in 5..(l - 1) : Chain[k] = "session" => k = 6
    BY <1>1, PathIs, ChainIs
  <2>2. i \in {1, 2, 3, 4} \/ i \in 5..(l - 1) \/ i = l
    BY <1>2
  <2> QED
    BY <1>2, <2>1, <2>2 DEF Inner
<1>4. Buffering = {i \in {3} : Inside(3)} \cup {i \in {6} : Inner /\ Inside(6)}
  <2>1. ASSUME NEW i \in 1..at
        PROVE  i \in Buffering <=> (i = 3 \/ (i = 6 /\ Inner)) /\ (i = at => going # "in")
    BY <1>3, <2>1 DEF Buffering
  <2>2. Inside(3) <=> 3 \in 1..at /\ (3 = at => going # "in")
    BY <1>2 DEF Inside
  <2>3. Inside(6) <=> 6 \in 1..at /\ (6 = at => going # "in")
    BY <1>2 DEF Inside
  <2>4. \A i \in Buffering : i \in 1..at
    BY DEF Buffering
  <2> QED
    BY <2>1, <2>2, <2>3, <2>4
<1>5. Inside(6) => Inside(3)
  BY <1>2 DEF Inside
<1>6. Cardinality(Buffering) = IF Inner /\ Inside(6) THEN 2 ELSE IF Inside(3) THEN 1 ELSE 0
  <2>1. CASE Inner /\ Inside(6)
    <3>1. Buffering = {3, 6}
      BY <1>4, <1>5, <2>1
    <3>2. Cardinality({3, 6}) = 2
      <4>1. IsFiniteSet({3}) /\ Cardinality({3}) = 1
        BY FS_Singleton
      <4>2. Cardinality({3} \cup {6}) = 1 + 1
        BY <4>1, FS_AddElement
      <4>3. {3} \cup {6} = {3, 6}
        OBVIOUS
      <4> QED
        BY <4>2, <4>3
    <3> QED
      BY <2>1, <3>1, <3>2
  <2>2. CASE ~ (Inner /\ Inside(6)) /\ Inside(3)
    <3>1. Buffering = {3}
      BY <1>4, <2>2
    <3> QED
      BY <2>2, <3>1, FS_Singleton
  <2>3. CASE ~ (Inner /\ Inside(6)) /\ ~ Inside(3)
    <3>1. Buffering = {}
      BY <1>4, <2>3
    <3> QED
      BY <2>3, <3>1, FS_EmptySet
  <2> QED
    BY <2>1, <2>2, <2>3
<1> QED
  BY <1>6 DEF HttpInv, HttpTyped, Depth

(* TypeOK: there is one buffer for each session middleware that the request*)
(* is in, on every way in and out of LoadAndSave.                          *)
THEOREM TypeCorrect == Spec => []TypeOK
<1>1. ASSUME HttpInv, WireInv PROVE TypeOK
  <2>1. req \in [route : Routes, upgrade : BOOLEAN, preflight : BOOLEAN]
    BY <1>1, HttpAssumption DEF HttpInv, HttpTyped
  <2>2. Connection.code \in {0, 200, 404, 422, 500, 504}
    BY <1>1, DepthIs DEF Answers
  <2>3. log \in Seq({0, 200, 404, 422, 500, 504})
    <3>1. PICK c : c = Connection.code
      OBVIOUS
    <3>2. <<c>> \in Seq({0, 200, 404, 422, 500, 504}) /\ <<>> \in Seq({0, 200, 404, 422, 500, 504})
      BY <2>2, <3>1
    <3> QED
      BY <1>1, <3>1, <3>2 DEF HttpInv, Unsent
  <2>4. client \in Answers
    <3>1. Connection \in Answers /\ Empty \in Answers
      BY <1>1, DepthIs, Words DEF Empty, Answers, Bodies
    <3>2. HeadOf(Connection) \in Answers
      <4>1. PICK C, T : Answers = [code : C, body : Bodies, type : T]
        BY Zenon DEF Answers, Bodies
      <4> QED
        BY <3>1, <4>1, Words DEF HeadOf
    <3> QED
      BY <1>1, <3>1, <3>2 DEF WireInv
  <2> QED
    BY <1>1, <2>1, <2>3, <2>4, BufferingIs DEF TypeOK, HttpInv, HttpTyped, Types, WireInv
<1> QED
  BY <1>1, HttpInvariance, PTL

LEMMA AnsweredIs ==
  ASSUME HttpInv, WireInv, IsAnswered
  PROVE  at = 0 /\ going = "out" /\ Depth = 1 /\ ~ InTimeout
<1>1. at = 0 /\ going = "out"
  BY ThroughIs DEF IsAnswered, WireInv
<1> QED
  BY <1>1 DEF Depth, Inside, InTimeout

(* The head of an answer differs in its body only.                         *)
LEMMA HeadIs ==
  ASSUME HttpInv, WireInv, IsAnswered
  PROVE  /\ Connection.code # 0
         /\ HeadOf(Connection) = [code |-> Connection.code, body |-> <<>>, type |-> Connection.type]
         /\ open => client = Connection
         /\ client # Empty => client = Connection \/ client = HeadOf(Connection)
<1>1. at = 0 /\ going = "out"
  BY AnsweredIs
<1>2. Connection \in Answers
  BY DepthIs
<1> QED
  BY <1>1, <1>2 DEF HttpInv, Unsent, WireInv, IsAnswered, HeadOf, Answers

(* Each request but a websocket's is logged once by loggerMiddleware, with *)
(* the status that the client got, if the connection took writes for long  *)
(* enough (serve.go's WriteTimeout) that it got one.                       *)
THEOREM LogTellsAnswer == Spec => []LoggedAsAnswered
<1>1. ASSUME HttpInv, WireInv, IsAnswered
      PROVE  /\ Len(log) = IF req.upgrade THEN 0 ELSE 1
             /\ open => client # Empty
             /\ ~ req.upgrade /\ client # Empty => log[1] = client.code
  <2>1. Connection.code # 0 /\ log = IF req.upgrade THEN <<>> ELSE <<Connection.code>>
    BY <1>1, AnsweredIs DEF HttpInv, Unsent
  <2>2. client # Empty => client.code = Connection.code
    BY <1>1, HeadIs
  <2>3. open => client # Empty
    BY <1>1, <2>1, HeadIs DEF Empty
  <2> QED
    BY <2>1, <2>2, <2>3
<1>2. HttpInv /\ WireInv => LoggedAsAnswered
  BY <1>1 DEF LoggedAsAnswered
<1> QED
  BY <1>2, HttpInvariance, PTL

(* A panic of the handler (recoverer) or a failure of the session's store  *)
(* (LoadAndSave) is answered by the error and nothing else, at whichever   *)
(* step of however many faults.                                            *)
THEOREM FailuresAreSaid == Spec => []FailureIsSaid
<1>1. ASSUME HttpInv, WireInv, IsAnswered, faults > 0, ~ req.upgrade
      PROVE  Gets([code |-> 500, body |-> <<"error">>, type |-> "text"])
  <2>1. at = 0 /\ going = "out" /\ Depth = 1
    BY <1>1, AnsweredIs
  <2>2. IsError(Connection, 1)
    BY <1>1, <2>1 DEF HttpInv, Failed, Top, Connection
  <2>3. Connection \in Answers
    BY <1>1, DepthIs
  <2>4. Connection = [code |-> 500, body |-> <<"error">>, type |-> "text"]
    BY <2>2, <2>3 DEF IsError, Answers
  <2>5. Gets(Connection)
    BY <1>1 DEF WireInv, Gets, IsAnswered
  <2> QED
    BY <2>4, <2>5
<1>2. HttpInv /\ WireInv => FailureIsSaid
  BY <1>1 DEF FailureIsSaid
<1> QED
  BY <1>2, HttpInvariance, PTL

(* Without faults the client gets the handler's status, body and type of   *)
(* content, all of it while the connection takes writes.  It never gets    *)
(* timeoutMiddleware's 504: behind the deadline it gets nothing.           *)
THEOREM AnswersAreSaid == Spec => []AnsweredAsSaid
<1>1. ASSUME HttpInv, WireInv, IsAnswered, Proper
      PROVE  /\ Len(said) = 1
             /\ client.body = <<"answer">> \/ (~ open /\ client.body = <<>>)
             /\ client # Empty =>
                   /\ deadline # "passed"
                   /\ client.code \in IF StatusOf(said[1]) # {} THEN StatusOf(said[1]) ELSE {200}
                   /\ TypeOf(said[1]) # {} => client.type \in TypeOf(said[1])
  <2>1. /\ Len(said) = 1 /\ Connection.body = <<"answer">>
        /\ IF StatusOf(said[1]) # {} THEN Connection.code \in StatusOf(said[1])
           ELSE Connection.code = IF deadline = "passed" THEN 504 ELSE 200
        /\ TypeOf(said[1]) # {} => Connection.type \in TypeOf(said[1])
    BY <1>1, AnsweredIs DEF HttpInv, Answered, Top, Connection
  <2>2. client # Empty => deadline # "passed"
    BY <1>1 DEF WireInv
  <2>3. client # Empty => client.code = Connection.code /\ client.type = Connection.type
                          /\ (client.body = Connection.body \/ client.body = <<>>)
    BY <1>1, HeadIs
  <2>4. open => client = Connection
    BY <1>1, HeadIs
  <2>5. client.body = <<"answer">> \/ (~ open /\ client.body = <<>>)
    BY <2>1, <2>3, <2>4 DEF Empty
  <2> QED
    BY <2>1, <2>2, <2>3, <2>5
<1>2. HttpInv /\ WireInv => AnsweredAsSaid
  BY <1>1 DEF AnsweredAsSaid, Proper
<1> QED
  BY <1>2, HttpInvariance, PTL

(* No middleware adds to what was sent.                                    *)
THEOREM AnswerIsWhole == Spec => SentInOnePiece
<1>1. HttpInv /\ [Next]_vars => [Connection.code # 0 => Connection' = Connection]_vars
  BY ConnectionStays
<1> QED
  BY <1>1, HttpInvariance, PTL DEF Spec, SentInOnePiece

-----------------------------------------------------------------------------
(* The writer of the access log.                                           *)

(* A pending flush has a timer or a callback that will do it.  Without it, *)
(* a Write that finds flushPending set could rely on nothing.              *)
Armed == cleanup = "none" /\ flushPending => timer \/ callbacks > 0

(* What waits in the buffer fits into it, which is what bufio.Writer's     *)
(* arithmetic needs; of a writer that is broken nothing waits.             *)
Fits == ~ broken => accepted - file <= Size

WriterInv == WriterTypeOK /\ Armed /\ FlushIsComing /\ Fits

(* bufio.Writer.Write passes on no more than it has, and what stays fits   *)
(* into the buffer.                                                        *)
LEMMA DrainedBounds ==
  ASSUME NEW buffered \in 0..Size, NEW n \in Nat
  PROVE  /\ Drained(buffered, n) \in 0..(buffered + n)
         /\ buffered + n - Drained(buffered, n) <= Size
BY WriterAssumption DEF Drained

(* A write to the file gets as far as its target, or it fails on the way.  *)
LEMMA ReachIs ==
  ASSUME file \in Nat, broken \in BOOLEAN, NEW target \in Nat, Reach(target)
  PROVE  /\ broken' \in BOOLEAN /\ file' \in Nat /\ file <= file'
         /\ file' = file \/ file' <= target
         /\ broken => broken'
         /\ ~ broken' => file' = file \/ file' = target
         /\ ~ broken' /\ file <= target => file' = target
<1>1. CASE broken \/ target <= file
  <2>1. file' = file /\ broken' = broken
    BY <1>1 DEF Reach
  <2>2. broken' \in BOOLEAN /\ (broken => broken') /\ (broken' => broken)
    BY <2>1, Zenon
  <2> QED
    BY <1>1, <2>1, <2>2
<1>2. CASE ~ broken /\ target > file
  <2>1. \/ file' = target /\ broken' = broken
        \/ file' \in file..(target - 1) /\ broken' = TRUE
    BY <1>2 DEF Reach
  <2>2. broken' \in BOOLEAN /\ (~ broken' => broken' = broken)
    BY <2>1, Zenon
  <2>3. file' = target \/ (file' \in file..(target - 1) /\ broken')
    BY <2>1, Zenon
  <2> QED
    BY <1>2, <2>2, <2>3
<1> QED
  BY <1>1, <1>2

LEMMA WriteIs ==
  ASSUME WriterTypeOK, Fits, NEW n \in 1..MaxWrite, Write(n)
  PROVE  /\ accepted' \in (accepted + 1)..MaxBytes
         /\ file' \in file..accepted' /\ broken' \in BOOLEAN
         /\ broken => broken'
         /\ Fits'
         /\ Immediate /\ ~ broken' => file' = accepted'
<1>1. /\ accepted' = accepted + n /\ accepted' <= MaxBytes /\ n \in Nat \ {0}
      /\ accepted \in Nat /\ file \in Nat /\ file <= accepted /\ Size \in Nat
      /\ broken \in BOOLEAN
  BY WriterAssumption DEF WriterTypeOK, Write
<1>2. PICK target : /\ target = (IF Immediate THEN accepted + n ELSE file + Drained(accepted - file, n))
                    /\ Reach(target)
  BY DEF Write
<1>3. ASSUME broken
      PROVE  accepted' \in (accepted + 1)..MaxBytes /\ file' \in file..accepted' /\ broken' \in BOOLEAN
             /\ broken' /\ Fits'
  <2>1. file' = file /\ broken' = broken
    BY <1>2, <1>3 DEF Reach
  <2>2. broken' \in BOOLEAN /\ broken'
    BY <1>3, <2>1, Zenon
  <2> QED
    BY <1>1, <2>1, <2>2 DEF Fits
<1>4. ASSUME ~ broken
      PROVE  accepted' \in (accepted + 1)..MaxBytes /\ file' \in file..accepted' /\ broken' \in BOOLEAN
             /\ Fits' /\ (Immediate /\ ~ broken' => file' = accepted')
  <2>1. accepted - file \in 0..Size
    BY <1>1, <1>4 DEF Fits
  <2>2. /\ Drained(accepted - file, n) \in 0..(accepted - file + n)
        /\ accepted - file + n - Drained(accepted - file, n) <= Size
    BY <1>1, <2>1, DrainedBounds
  <2>3. target \in Nat /\ file <= target /\ target <= accepted' /\ accepted' - target <= Size
        /\ (Immediate => target = accepted')
    BY <1>1, <1>2, <2>2
  <2>4. /\ broken' \in BOOLEAN /\ file' \in Nat /\ file <= file'
        /\ file' = file \/ file' <= target
        /\ ~ broken' => file' = target
    BY <1>1, <1>2, <2>3, ReachIs
  <2>5. accepted' \in (accepted + 1)..MaxBytes /\ file' \in file..accepted'
    BY <1>1, <2>3, <2>4, WriterAssumption
  <2>6. Fits'
    BY <2>3, <2>4 DEF Fits
  <2>7. Immediate /\ ~ broken' => file' = accepted'
    BY <2>3, <2>4
  <2> QED
    BY <2>4, <2>5, <2>6, <2>7
<1> QED
  BY <1>3, <1>4

LEMMA FlushIs ==
  ASSUME WriterTypeOK, Fits, DelayedFlush
  PROVE  /\ file' \in file..accepted /\ broken' \in BOOLEAN
         /\ broken => broken'
         /\ ~ broken' => file' = file \/ file' = accepted
         /\ ~ broken' /\ flushPending => file' = accepted
         /\ Fits'
<1>1. /\ accepted \in Nat /\ file \in Nat /\ file <= accepted /\ broken \in BOOLEAN
      /\ accepted' = accepted /\ Size \in Nat
  BY WriterAssumption DEF WriterTypeOK, DelayedFlush
<1>2. CASE flushPending
  <2>1. Reach(accepted)
    BY <1>2 DEF DelayedFlush
  <2> QED
    BY <1>1, <2>1, ReachIs DEF Fits
<1>3. CASE ~ flushPending
  BY <1>1, <1>3 DEF DelayedFlush, Fits
<1> QED
  BY <1>2, <1>3

LEMMA WriterInvInit == WriterInit => WriterInv
<1> SUFFICES ASSUME WriterInit
             PROVE  WriterInv
  OBVIOUS
<1>1. flushPending \in BOOLEAN /\ timer \in BOOLEAN /\ broken \in BOOLEAN
  BY Zenon DEF WriterInit
<1>2. /\ accepted = 0 /\ file = 0 /\ callbacks = 0 /\ cleanup = "none"
      /\ ~ flushPending
  BY Zenon DEF WriterInit
<1>3. WriterTypeOK
  BY <1>1, <1>2, WriterAssumption DEF WriterTypeOK
<1>4. Armed /\ FlushIsComing /\ Fits
  BY <1>2, WriterAssumption DEF Armed, FlushIsComing, Fits
<1> QED
  BY <1>3, <1>4 DEF WriterInv

LEMMA WriterInvNext == WriterInv /\ [WriterNext]_writerVars => WriterInv'
<1> SUFFICES ASSUME WriterInv, [WriterNext]_writerVars
             PROVE  WriterInv'
  OBVIOUS
<1> USE WriterAssumption DEF WriterInv
<1>1. ASSUME NEW n \in 1..MaxWrite, Write(n)
      PROVE  WriterInv'
  <2>1. /\ accepted' \in (accepted + 1)..MaxBytes /\ file' \in file..accepted'
        /\ broken' \in BOOLEAN /\ Fits'
        /\ Immediate /\ ~ broken' => file' = accepted'
    BY <1>1, WriteIs
  <2>2. /\ UNCHANGED <<callbacks, cleanup>>
        /\ IF Immediate \/ flushPending THEN UNCHANGED <<timer, flushPending>>
                                        ELSE timer' = TRUE /\ flushPending' = TRUE
    BY <1>1 DEF Write, Arm
  <2>3. WriterTypeOK'
    <3>1. flushPending' \in BOOLEAN /\ timer' \in BOOLEAN
      BY <2>2, Zenon DEF WriterTypeOK
    <3>2. accepted' \in 0..MaxBytes /\ file' \in 0..accepted'
      BY <2>1 DEF WriterTypeOK
    <3> QED
      BY <2>1, <2>2, <3>1, <3>2 DEF WriterTypeOK
  <2>4. Armed'
    BY <2>2 DEF Armed
  <2>5. FlushIsComing'
    <3>1. CASE Immediate
      BY <3>1, <2>1 DEF FlushIsComing, WriterTypeOK
    <3>2. CASE ~ Immediate
      BY <3>2, <2>2 DEF FlushIsComing, Armed
    <3> QED
      BY <3>1, <3>2
  <2> QED
    BY <2>1, <2>3, <2>4, <2>5
<1>2. CASE Expire
  <2>1. /\ callbacks < MaxCallbacks /\ callbacks' = callbacks + 1
        /\ UNCHANGED <<accepted, file, broken, cleanup>>
    BY <1>2 DEF Expire
  <2>2. /\ timer' \in BOOLEAN /\ flushPending' \in BOOLEAN
        /\ flushPending' <=> flushPending
    BY <1>2, Zenon DEF Expire, WriterTypeOK
  <2>3. callbacks' \in 0..MaxCallbacks /\ callbacks' > 0
    BY <2>1 DEF WriterTypeOK
  <2>4. WriterTypeOK'
    BY <2>1, <2>2, <2>3 DEF WriterTypeOK
  <2>5. Armed' /\ FlushIsComing'
    BY <2>1, <2>2, <2>3 DEF Armed, FlushIsComing
  <2>6. Fits'
    BY <2>1 DEF Fits
  <2> QED
    BY <2>4, <2>5, <2>6
<1>3. CASE DelayedFlush
  <2>1. /\ callbacks > 0 /\ callbacks' = callbacks - 1
        /\ UNCHANGED <<accepted, timer, cleanup>>
    BY <1>3 DEF DelayedFlush
  <2>2. ~ flushPending' /\ flushPending' \in BOOLEAN
    BY <1>3, Zenon DEF DelayedFlush, WriterTypeOK
  <2>3. /\ file' \in file..accepted /\ broken' \in BOOLEAN /\ (broken => broken') /\ Fits'
        /\ ~ broken' /\ flushPending => file' = accepted
        /\ ~ broken' => file' = file \/ file' = accepted
    BY <1>3, FlushIs
  <2>4. WriterTypeOK'
    BY <2>1, <2>2, <2>3 DEF WriterTypeOK
  <2>5. Armed' /\ FlushIsComing'
    BY <2>1, <2>2, <2>3 DEF Armed, FlushIsComing, WriterTypeOK
  <2> QED
    BY <2>3, <2>4, <2>5
<1>4. CASE Stop
  <2>1. /\ UNCHANGED <<accepted, file, broken, callbacks>>
        /\ cleanup = "none" /\ cleanup' = "stopped"
    BY <1>4 DEF Stop
  <2>2. flushPending' \in BOOLEAN /\ timer' \in BOOLEAN
    BY <1>4, Zenon DEF Stop
  <2>3. WriterTypeOK'
    BY <2>1, <2>2 DEF WriterTypeOK
  <2>4. Armed' /\ FlushIsComing' /\ Fits'
    BY <2>1 DEF Armed, FlushIsComing, Fits
  <2> QED
    BY <2>3, <2>4
<1>5. CASE Close
  BY <1>5 DEF Close, WriterTypeOK, Armed, FlushIsComing, Fits
<1>6. CASE UNCHANGED writerVars
  BY <1>6 DEF writerVars, WriterTypeOK, Armed, FlushIsComing, Fits
<1> QED
  BY <1>1, <1>2, <1>3, <1>4, <1>5, <1>6 DEF WriterNext

THEOREM WriterInvariance == WriterSpec => []WriterInv
BY WriterInvInit, WriterInvNext, PTL DEF WriterSpec

(* WriterTypeOK: no byte is written twice, whatever the sizes.             *)
THEOREM WriterTypeCorrect == WriterSpec => []WriterTypeOK
<1>1. WriterInv => WriterTypeOK
  BY DEF WriterInv
<1> QED
  BY <1>1, WriterInvariance, PTL

(* Until Stop or a failing write, buffered bytes have a timer or a callback*)
(* that will flush them (MaxLatencyWriter.Write, delayedFlush), for every  *)
(* buffer size and however late callbacks get the mutex.                   *)
THEOREM FlushComes == WriterSpec => []FlushIsComing
<1>1. WriterInv => FlushIsComing
  BY DEF WriterInv
<1> QED
  BY <1>1, WriterInvariance, PTL

(* The writer implements the safety part of WriteBehind: KeepsPromise      *)
(* without its fairness.                                                   *)
THEOREM WriterImplements == WriterSpec => Promise!Init /\ [][Promise!Next]_(Promise!vars)
<1>1. WriterInit => Promise!Init
  BY DEF WriterInit, Promise!Init
<1>2. WriterInv /\ [WriterNext]_writerVars => [Promise!Next]_(Promise!vars)
  <2> SUFFICES ASSUME WriterInv, [WriterNext]_writerVars
               PROVE  [Promise!Next]_(Promise!vars)
    OBVIOUS
  <2>1. ASSUME NEW n \in 1..MaxWrite, Write(n)
        PROVE  Promise!Accept
    <3>1. /\ accepted' \in (accepted + 1)..MaxBytes /\ file' \in file..accepted'
          /\ broken \in BOOLEAN /\ broken' \in BOOLEAN /\ (broken => broken')
      BY <2>1, WriteIs DEF WriterInv, WriterTypeOK
    <3>2. cleanup' = cleanup
      BY <2>1 DEF Write
    <3> QED
      BY <3>1, <3>2 DEF Promise!Accept
  <2>2. CASE Expire
    BY <2>2 DEF Expire, Promise!vars
  <2>3. CASE DelayedFlush
    <3>1. UNCHANGED <<accepted, cleanup>>
      BY <2>3 DEF DelayedFlush
    <3>2. /\ file' \in file..accepted /\ broken' \in BOOLEAN /\ (broken => broken')
          /\ ~ broken' => file' = file \/ file' = accepted
      BY <2>3, FlushIs DEF WriterInv
    <3>3. file \in Nat /\ accepted \in Nat /\ broken \in BOOLEAN
      BY WriterAssumption DEF WriterInv, WriterTypeOK
    <3>4. CASE broken' /\ ~ broken /\ cleanup = "none"
      BY <3>1, <3>2, <3>4 DEF Promise!Close, Promise!Next
    <3>5. CASE ~ (broken' /\ ~ broken /\ cleanup = "none")
      <4>1. (cleanup' = "none" /\ ~ broken') <=> (cleanup = "none" /\ ~ broken)
        BY <3>1, <3>2, <3>5
      <4>2. CASE file' = file
        BY <3>1, <4>1, <4>2 DEF Promise!vars
      <4>3. CASE file' # file
        <5>1. file' \in (file + 1)..accepted /\ (cleanup = "none" /\ ~ broken => file' = accepted)
          BY <3>2, <3>3, <4>1, <4>3
        <5> QED
          BY <3>1, <4>1, <5>1 DEF Promise!Persist, Promise!Next
      <4> QED
        BY <4>2, <4>3
    <3> QED
      BY <3>4, <3>5
  <2>4. CASE Stop
    <3>1. file \in Nat /\ accepted \in Nat /\ file <= accepted /\ broken \in BOOLEAN
      BY WriterAssumption DEF WriterInv, WriterTypeOK
    <3> QED
      BY <2>4, <3>1 DEF Stop, Promise!Close, Promise!Next, Promise!vars
  <2>5. CASE Close
    BY <2>5 DEF Close, Promise!vars
  <2>6. CASE UNCHANGED writerVars
    BY <2>6 DEF writerVars, Promise!vars
  <2> QED
    BY <2>1, <2>2, <2>3, <2>4, <2>5, <2>6 DEF WriterNext, Promise!Next
<1> QED
  BY <1>1, <1>2, WriterInvariance, PTL DEF WriterSpec
================================================================================
