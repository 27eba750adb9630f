------------------------------ MODULE MCWallets ------------------------------
(* Wallets for TLC: two wallets, the first on a chain whose reader returns    *)
(* the latest page, the second on one whose reader keeps a position.          *)
EXTENDS Wallets, TLC

CONSTANTS w1, w2, a1, a2, r1

TwoWatches == {w1, w2}
OnlyFirst  == {w1}
TwoAddr    == {a1, a2}
OneReq     == {r1}

(* 1 arrives on w1; 2, a fake, and 3 on w2. *)
MCOf    == [t \in 1..MaxTx |-> IF t = 1 THEN w1 ELSE w2]
MCClass == [t \in 1..MaxTx |-> IF t = 2 THEN "alarm" ELSE "ok"]

Set(tg, addr2, reader2) ==
    [tg     |-> tg,
     addr   |-> [w \in TwoWatches |-> IF w = w1 THEN a1 ELSE addr2],
     reader |-> [w \in TwoWatches |-> IF w = w1 THEN "page" ELSE reader2]]

(* A Bitcoin and a Solana address; one 0x address; two Bitcoin addresses of a *)
(* user without Telegram.                                                     *)
MCSettings == {Set(TRUE, a2, "sigs"), Set(TRUE, a1, "blocks"), Set(FALSE, a2, "page")}
==============================================================================
