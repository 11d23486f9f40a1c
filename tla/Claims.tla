-------------------------------- MODULE Claims --------------------------------
(* What a wallet may claim from resolved markets: the rows of the Data API and the
   balances on the chain (src/src/balances.rs), and the transactions that redeem
   them (src/src/redeem.rs).

   A row is a position as the Data API lists it; its currentValue is NotFinite when it
   is no number.  A token of a condition is <<condition, outcome, collateral>>, which
   stands for the hash position_id computes.  Amounts are whole micro-USDC. *)
EXTENDS Integers, FiniteSetsExt, SequencesExt

CONSTANTS
  RedeemChunk,   \* REDEEM_MULTISEND_CHUNK
  ApiRows        \* the rows the Data API serves at most: POSITIONS_MAX_OFFSET and a page

ASSUME ClaimsAssumption == RedeemChunk \in Nat \ {0} /\ ApiRows \in Nat \ {0}

NotFinite == -1
BadId == 0           \* a conditionId that is not 32 bytes of hex
BadAsset == <<>>     \* an asset id that does not parse

Outcomes == {1, 2}
Collaterals == {"USDC.e", "pUSD"}
Threshold == 10000   \* AUTO_REDEEM_CLAIMABLE_THRESHOLD_USDC

\* GET /positions?redeemable=true, page after page, up to the largest offset.
Fetched(listed) == {r \in listed : Cardinality({s \in listed : s.id < r.id}) < ApiRows}

-------------------------------------------------------------------------------
(* The claimable amount of the balance panel. *)

PositionIds(cond) == {<<cond, o, c>> : o \in Outcomes, c \in Collaterals}
IsOutcomeOne(token) == token[2] = 1

Finite(rows) == {r \in rows : r.redeemable /\ r.value # NotFinite}

Standard(rows) == {r \in Finite(rows) : ~r.neg /\ r.cond # BadId /\ r.asset # BadAsset}
Keys(rows) == {<<r.cond, r.asset>> : r \in Standard(rows)}
ApiValue(rows, key) == Max({r.value : r \in {s \in Standard(rows) : <<s.cond, s.asset>> = key}})

\* mutant of Slot
SlotOfOther(token, payout, balance) ==
  (balance * (IF IsOutcomeOne(token) THEN payout[3] ELSE payout[2])) \div payout[1]
\* payout is <<denominator, numerator of the first outcome, of the second>>
Slot(token, payout, balance) ==
  (balance * (IF IsOutcomeOne(token) THEN payout[2] ELSE payout[3])) \div payout[1]

\* What one token is worth: read from the chain where it can be, else the API's value.
Worth(key, apiValue, payout, balance) ==
  IF payout[1] = 0 \/ key[2] \notin PositionIds(key[1]) \/ Slot(key[2], payout, balance) = 0 THEN apiValue
  ELSE Slot(key[2], payout, balance)

\* One multicall: a call that fails reads as 0.
Read(call, value, failed) == IF call \in failed THEN 0 ELSE value
Payouts(chain, conds, failed) ==
  [c \in conds |-> [i \in 1..3 |-> Read(<<"payout", c, i>>, chain.payout[c][i], failed)]]
Balances(chain, tokens, failed) ==
  [t \in tokens |-> IF t \in DOMAIN chain.balance THEN Read(<<"token", t>>, chain.balance[t], failed) ELSE 0]
Calls(rows) ==
  {<<"cash", c>> : c \in Collaterals} \cup {<<"payout", k[1], i>> : k \in Keys(rows), i \in 1..3}
    \cup {<<"token", k[2]>> : k \in Keys(rows)}

ClaimStandard(rows, chain, failed) ==
  LET payouts == Payouts(chain, {k[1] : k \in Keys(rows)}, failed)
      balances == Balances(chain, {k[2] : k \in Keys(rows)}, failed)
  IN MapThenSumSet(LAMBDA k : Worth(k, ApiValue(rows, k), payouts[k[1]], balances[k[2]]), Keys(rows))

ClaimNegRisk(rows) == MapThenSumSet(LAMBDA r : r.value, {r \in Finite(rows) : r.neg})
ApiTotal(rows) == MapThenSumSet(LAMBDA r : r.value, Finite(rows))

\* mutant of Claimable
ClaimableOnChain(rows, chain, failed) == ClaimStandard(rows, chain, failed)
Claimable(rows, chain, failed) ==
  Max({ClaimStandard(rows, chain, failed) + ClaimNegRisk(rows), ApiTotal(rows)})

\* The payout of a token, as the Conditional Tokens contract computes it; nothing before
\* the outcome is reported.
Reported(payout) == payout[1] > 0
Pays(token, payout, balance) ==
  IF Reported(payout) THEN (balance * payout[token[2] + 1]) \div payout[1] ELSE 0

Cash(chain, failed) == MapThenSumSet(LAMBDA c : Read(<<"cash", c>>, chain.cash[c], failed), Collaterals)

-------------------------------------------------------------------------------
(* The transactions. *)

Adapters == {"Ctf", "NegRisk"}
Adapter(row) == IF row.neg THEN "NegRisk" ELSE "Ctf"

\* The rows that can be redeemed, are worth something and name their condition.
Usable(rows) == {r \in Finite(rows) : r.value > 0 /\ r.cond # BadId}
Sorted(S) == [i \in 1..Cardinality(S) |-> CHOOSE x \in S : Cardinality({y \in S : y < x}) = i - 1]

\* collect_redeem_ops: one call for each condition.
RedeemOps(rows) ==
  LET conds == Sorted({r.cond : r \in Usable(rows)})
      RowOf(c) == CHOOSE r \in Usable(rows) : r.cond = c /\ \A s \in Usable(rows) : s.cond = c => r.id <= s.id
  IN [i \in DOMAIN conds |-> [cond |-> conds[i], adapter |-> Adapter(RowOf(conds[i]))]]

NumChunks(ops) == (Len(ops) + RedeemChunk - 1) \div RedeemChunk
ChunkOf(ops, i) ==
  SubSeq(ops, (i - 1) * RedeemChunk + 1, IF i * RedeemChunk < Len(ops) THEN i * RedeemChunk ELSE Len(ops))

\* The calls of a transaction; encoded, and packed for MultiSend, in the order of ops.
RedeemCalls(ops) == {[kind |-> "redeem", target |-> ops[i].adapter, of |-> ops[i].cond] : i \in DOMAIN ops}

\* A Safe calls one adapter itself, several through MultiSend.
SafeTx(calls) ==
  IF Cardinality(calls) = 1
  THEN [to |-> (CHOOSE c \in calls : TRUE).target, calls |-> calls, operation |-> "call"]
  ELSE [to |-> "MultiSend", calls |-> calls, operation |-> "delegatecall"]

Spenders == {"CtfExchange", "NegRiskExchange"} \cup Adapters
AllowCalls(spenders) == [kind : {"approve"}, target : {"pUSD"}, of : spenders]
                        \cup [kind : {"operator"}, target : {"CTF"}, of : spenders]

-------------------------------------------------------------------------------
(* Wallets and signatures.  A CREATE2 address is its factory, salt and code. *)

Create2(factory, salt, code) == <<factory, salt, code>>
SafeOf(eoa) == Create2("SafeFactory", eoa, "Safe")
WalletOf(eoa) == Create2("WalletFactory", <<"WalletFactory", eoa>>, <<"ERC1967", "WalletFactory", eoa>>)

SafeDigest(safe, tx, nonce) ==
  [type |-> "SafeTx", contract |-> safe, to |-> tx.to, data |-> tx.calls, operation |-> tx.operation, nonce |-> nonce]
BatchDigest(wallet, calls, nonce) ==
  [type |-> "Batch", contract |-> wallet, data |-> calls, nonce |-> nonce]

\* sign_message prefixes the digest, sign_hash does not; a Safe tells them apart by v.
SignMessage(key, digest) == [key |-> key, digest |-> digest, prefixed |-> TRUE, v |-> 27]
SignHash(key, digest) == [key |-> key, digest |-> digest, prefixed |-> FALSE, v |-> 27]
PackSafe(sig) == [sig EXCEPT !.v = IF @ \in {0, 1} THEN @ + 31 ELSE @ + 4]

SafeAccepts(sig, owner, digest) ==
  sig.key = owner /\ sig.digest = digest /\ sig.prefixed = (sig.v > 30)
WalletAccepts(sig, owner, digest) ==
  sig.key = owner /\ sig.digest = digest /\ ~sig.prefixed
===============================================================================
