------------------------------- MODULE RedeemMC -------------------------------
(* The instance of Redeem for TLC: up to six rows at a time, chunks of two. *)
EXTENDS Redeem

Row(id, cond, outcome, value, neg) ==
  [id |-> id, cond |-> cond, asset |-> <<cond, outcome, "pUSD">>, value |-> value, redeemable |-> TRUE, neg |-> neg]

Unreadable == [Row(1, BadId, 1, 20000, FALSE) EXCEPT !.asset = BadAsset]
Won == Row(2, 1, 2, 10000, FALSE)
WonNegRisk == Row(3, 2, 1, 20000, TRUE)
LostLeg == Row(4, 1, 1, 0, FALSE)
WonBridged == [Row(5, 1, 2, 10000, FALSE) EXCEPT !.asset = <<1, 2, "USDC.e">>]
Split == Row(6, 3, 1, 30000, FALSE)
Unreported == Row(7, 4, 1, 20000, FALSE)

Payouts4 == <<<<1, 0, 1>>, <<1, 1, 0>>, <<2, 1, 1>>, <<0, 0, 0>>>>
Tokens == [k \in {r.asset : r \in {Won, WonNegRisk, LostLeg, WonBridged, Split, Unreported}} |-> 40000]
Operator(adapter) == [kind |-> "operator", target |-> "CTF", of |-> adapter]
Operator2 == {Operator("Ctf"), Operator("NegRisk")}

Safe == [sigType |-> "PolyGnosisSafe", key |-> TRUE, funder |-> SafeOf(Me), auto |-> TRUE, x |-> 0, b |-> 0,
         deploy |-> 0, rows |-> {Won, WonNegRisk, Split}, late |-> {}, allowed |-> Operator2,
         deployed |-> {SafeOf(Me)}, balance |-> Tokens, payout |-> Payouts4, faults |-> 1]
DepositWallet == [Safe EXCEPT !.sigType = "Poly1271", !.funder = WalletOf(Me), !.deployed = {WalletOf(Me)}]

MCScenarios ==
  { [Safe EXCEPT !.rows = @ \cup {LostLeg, WonBridged, Unreadable}, !.late = {Split}, !.faults = 0],
    [Safe EXCEPT !.rows = {Won}, !.x = 1],
    [Safe EXCEPT !.auto = FALSE, !.x = 2, !.faults = 0],
    [DepositWallet EXCEPT !.allowed = {Operator("Ctf")}, !.faults = 0],
    [DepositWallet EXCEPT !.allowed = {}, !.rows = {WonNegRisk}, !.b = 1, !.faults = 0],
    [DepositWallet EXCEPT !.deployed = {}, !.deploy = 1, !.rows = {Split}, !.allowed = {}],
    [Safe EXCEPT !.funder = WalletOf(Me), !.x = 1],
    [Safe EXCEPT !.auto = FALSE, !.rows = {Won, WonNegRisk, Unreported}, !.x = 1, !.faults = 0],
    [Safe EXCEPT !.key = FALSE],
    [Safe EXCEPT !.sigType = "Eoa", !.x = 1, !.b = 1] }
===============================================================================
