----------------------------- MODULE MCAccounts -----------------------------
(* Two users, a miner and one application with two possible codes. *)
EXTENDS Accounts, TLC

MCAddress == <<"zero", "reg", "app", "oth", "seed", "ann", "bob", "min">>
MCAppOf == [p \in {"pkg", "sys"} |-> IF p = "pkg" THEN "app" ELSE "oth"]
MCSeedOf == [p \in {"pkg", "sys"} |-> "seed"]
MCOrgOf == [p \in {"pkg", "sys"} |-> IF p = "pkg" THEN "org" ELSE "odax"]

MCMethod == {<<"genesis">>, <<"run">>, <<"hold">>, <<"free">>} \cup ({"register"} \X {"org", "odax"})

(* What is not offered by a code traps. *)
MCProgram ==
    [m \in {"regcode"} \X ({"register"} \X {"org", "odax"}) |->
        <<[op |-> "claim", slot |-> m[2][2]]>>]
    @@ (<<"c1", <<"genesis">>>> :> <<>>)
    @@ (<<"c2", <<"genesis">>>> :> <<[op |-> "insert", slot |-> "slot"]>>)
    @@ (<<"c1", <<"run">>>> :> <<[op |-> "insert", slot |-> "slot"],
                                 [op |-> "transfer", to |-> "bob", n |-> 1]>>)
    @@ (<<"c2", <<"run">>>> :> <<[op |-> "remove", slot |-> "slot"],
                                 [op |-> "balance", of |-> "ann"]>>)
    @@ [m \in {"c1", "c2"} \X {<<"hold">>} |-> <<[op |-> "reserve", n |-> 2]>>]
    @@ [m \in {"c1", "c2"} \X {<<"free">>} |-> <<[op |-> "unreserve", n |-> 1]>>]
    @@ [m \in {"regcode", "c1", "c2"} \X MCMethod |-> <<[op |-> "trap"]>>]

Pay(from, dest, price, fees, nonce) ==
    [kind |-> "payment", from |-> from, dest |-> dest, price |-> price,
     fees |-> fees, nonce |-> nonce]
Call(from, price, nonce, method) ==
    [kind |-> "call", from |-> from, app |-> "app", price |-> price,
     fees |-> 0, nonce |-> nonce, method |-> method]
Create(from, package, code) ==
    [kind |-> "create", from |-> from, price |-> 0, fees |-> 0,
     nonce |-> 1, package |-> package, code |-> code]
Data(from, kind) ==
    [kind |-> kind, from |-> from, app |-> "app", price |-> 0, fees |-> 1,
     nonce |-> 3]

Mined(coinbase, txs) == [coinbase |-> coinbase, txs |-> txs]

MCBlock ==
    {Mined("ann", <<Pay("ann", "bob", 2, 1, 1)>>),
     Mined("min", <<Pay("ann", "bob", 2, 1, 1), Call("bob", 0, 1, <<"run">>)>>),
     Mined("min", <<Pay("ann", "bob", 1, 1, 1), Pay("bob", "bob", 1, 0, 1)>>),
     Mined("ann", <<Create("ann", "pkg", "c1")>>),
     Mined("bob", <<Create("bob", "pkg", "c2")>>),
     Mined("bob", <<Create("bob", "sys", "c2")>>),
     Mined("min", <<Call("ann", 2, 2, <<"run">>)>>),
     Mined("min", <<Call("bob", 0, 2, <<"hold">>)>>),
     Mined("ann", <<Call("bob", 0, 2, <<"free">>)>>),
     Mined("min", <<Data("bob", "raw"), Data("bob", "raw")>>),
     Mined("min", <<Data("bob", "update")>>)}
=============================================================================
