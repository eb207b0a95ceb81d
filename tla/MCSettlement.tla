----------------------------- MODULE MCSettlement -----------------------------
(* Small instances of Settlement for TLC: one account with two top-ups, a wallet *)
(* bundle and a wallet skill that overlap, and orders paid through the provider  *)
(* for the same skill.                                                           *)
EXTENDS ClawbackWalk

CONSTANTS u1,                     \* the account
          t1, t2,                 \* top-ups
          w1, w2,                 \* wallet orders: a bundle of two, one skill
          m1, m2,                 \* orders paid through the provider
          s1, s2, usd

OneOwner    == [o \in Orders |-> u1]
OneAmount   == [o \in Orders |-> CASE o = t1 -> 3 [] o = t2 -> 2 [] o = w1 -> 3 [] OTHER -> 1]
OneCurrency == [o \in Orders |-> usd]
OneMembers  == [o \in Orders |-> CASE o \in Topups -> <<>>
                                   [] o = w1 -> <<s1, s2>>
                                   [] OTHER  -> <<s1>>]
===============================================================================
