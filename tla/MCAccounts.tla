----------------------------- MODULE MCAccounts -----------------------------
(* Instances of Accounts for TLC: two users of two browsers.               *)
EXTENDS Accounts, TLC

CONSTANTS b1, b2, admin, guest

RowsMC == [u \in Users |-> IF u = admin THEN [name |-> "root", password |-> "secret"]
                                        ELSE [name |-> "visitor", password |-> "words"]]

Login(b, name, password) ==
    [op |-> "login", browser |-> b, user |-> admin, name |-> name, password |-> password]
Logout(b) == [Login(b, "root", "secret") EXCEPT !.op = "logout"]
Visit(b)  == [Login(b, "root", "secret") EXCEPT !.op = "visit"]
Update(b, u, name, password) ==
    [op |-> "update", browser |-> b, user |-> u, name |-> name, password |-> password]

RequestsMC ==
    {Login(b1, "root", "secret"), Login(b1, "visitor", "words"),
     Login(b2, "root", "words"), Login(b1, "root", Blank),
     Logout(b1), Visit(b1), Visit(b2),
     Update(b2, admin, "visitor", "words"), Update(b2, admin, "root", Blank),
     Update(b1, guest, Blank, "words")}

TwoProcs == Permutations(Proc)
=============================================================================
