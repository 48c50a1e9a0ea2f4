------------------------------- MODULE MCElite ------------------------------
(***************************************************************************)
(* Two Discord accounts, two players, the thread of the bot and two more;   *)
(* earlier runs have linked none, one or both of the accounts.             *)
(***************************************************************************)
EXTENDS Elite, TLC

EarlierFiles ==
    {<<>>} \cup {<<a>> : a \in Account} \cup
    {ab \in Account \X Account : ab[1].id # ab[2].id}

Interchangeable == Permutations(Id) \cup Permutations(Name) \cup Permutations(Thread)
=============================================================================
