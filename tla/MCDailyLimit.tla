---------------------------- MODULE MCDailyLimit ----------------------------
(* TLC instance of DailyLimit: amounts around every threshold.             *)
EXTENDS DailyLimit, TLC

CONSTANTS t1, t2, t3, t4, t5, u1, u2, EUR, CH, RU, john, johnson

Txn(user, amt, currency, country, tier, entries) ==
  [user_id |-> user, amount |-> amt, currency |-> currency,
   country |-> country, kyc_tier |-> tier, names |-> {john},
   watchlist_entries |-> entries]

(* With a single limit of 7, structuring from 6 and a daily limit of 12:   *)
(* two amounts that pass by themselves, one in the structuring band; one   *)
(* of another user below tier 3 in another currency; and one of nobody     *)
(* from a restricted country, with a namesake.                             *)
Transactions ==
  [t \in Txns |->
     CASE t = t1 -> Txn(u1, 3, USD, CH, 3, {})
       [] t = t2 -> Txn(u1, 4, USD, CH, 3, {})
       [] t = t3 -> Txn(u1, 6, USD, CH, 3, {})
       [] t = t4 -> Txn(u2, 5, EUR, CH, 2, {})
       [] t = t5 -> Txn(NoValue, 11, USD, RU, NoValue, {johnson})]

Substrings == {<<john, john>>, <<johnson, johnson>>, <<john, johnson>>}

(* One user's transactions at once; and others beside one of them.         *)
OneUserAndOthers == {{t1, t2, t3}, {t1, t4}, {t2, t5}}
=============================================================================
