------------------------------- MODULE OrderSign -------------------------------
(* The signature of an order, symbolically: a hash is the term that is hashed, and a
   signature names the key and the hash.  The client signs the order for the exchange
   contract of its market and sends the fields next to the signature; the exchange
   recomputes the hash from the fields it received. *)
EXTENDS Integers, Sequences, FiniteSets, TLC

SigTypes == {"Eoa", "PolyProxy", "PolyGnosisSafe", "Poly1271"}

\* The key's own address, and the contract that holds the funds of any other type.
Funder(sigType) == IF sigType = "Eoa" THEN "eoa" ELSE "wallet"

Contract(negRisk) == IF negRisk THEN "NegRiskCtfExchangeV2" ELSE "CtfExchangeV2"

Domain(contract) ==
  [name |-> "Polymarket CTF Exchange", version |-> "2", chain |-> "Polygon", contract |-> contract]

Hash(x) == [hashOf |-> x]
Sign(digest) == [by |-> "eoa", digest |-> digest]

\* The key attests its own address, to be given API credentials.
ClobAuth(address) ==
  Sign(Hash(<<[name |-> "ClobAuthDomain", version |-> "1", chain |-> "Polygon"],
              [address |-> address, nonce |-> 0, message |-> "I control the given wallet"]>>))
AuthVerifies(signature) == signature.by = "eoa" /\ signature.digest.hashOf[2].address = "eoa"

\* A deposit wallet signs for itself; else the key signs for the funder.
\* mutant of Signer
SignerIsKey(sigType) == "eoa"
Signer(sigType) == IF sigType = "Poly1271" THEN Funder(sigType) ELSE "eoa"

\* The typed data of version 2: the expiration is no part of it.
Order(sigType, args, salt) ==
  [salt |-> salt, maker |-> Funder(sigType), signer |-> Signer(sigType), token |-> args.token,
   makerAmount |-> args.amounts[1], takerAmount |-> args.amounts[2], side |-> args.side,
   signatureType |-> sigType]

\* sign_poly1271_v2_order: maker and signer are the deposit wallet whatever the order says.
Contents(wallet, order) == [order EXCEPT !.maker = wallet, !.signer = wallet, !.signatureType = "Poly1271"]

TypedDataSign(wallet, contents) ==
  [contents |-> contents, name |-> "DepositWallet", version |-> "1", chain |-> "Polygon",
   contract |-> wallet, salt |-> 0]

Wrapped(wallet, order, contract) ==
  LET contents == Contents(wallet, order)
  IN  [inner |-> Sign(Hash(<<Domain(contract), TypedDataSign(wallet, contents)>>)),
       app |-> Hash(Domain(contract)), contents |-> Hash(contents)]

Signature(sigType, order, contract) ==
  IF sigType = "Poly1271" THEN Wrapped(Funder(sigType), order, contract)
  ELSE Sign(Hash(<<Domain(contract), order>>))

\* The JSON body: maker is the funder, signer the order's, amounts and side the order's.
Wire(sigType, args, salt, expiration) ==
  LET order == Order(sigType, args, salt)
  IN  [order |-> order, expiration |-> expiration,
       signature |-> Signature(sigType, order, Contract(args.negRisk))]

\* The exchange: the key owns the funder, the contract is the one of the market.
Verifies(wire, negRisk) ==
  LET order == wire.order
      domain == Domain(IF negRisk THEN "NegRiskCtfExchangeV2" ELSE "CtfExchangeV2")
  IN  CASE order.signatureType = "Eoa" ->
             order.maker = "eoa" /\ order.signer = "eoa" /\ wire.signature = Sign(Hash(<<domain, order>>))
        [] order.signatureType \in {"PolyProxy", "PolyGnosisSafe"} ->
             order.maker = "wallet" /\ order.signer = "eoa" /\ wire.signature = Sign(Hash(<<domain, order>>))
        [] order.signatureType = "Poly1271" ->
             /\ order.maker = "wallet" /\ order.signer = "wallet"
             /\ wire.signature.contents = Hash(order)
             /\ wire.signature.app = Hash(domain)
             /\ wire.signature.inner = Sign(Hash(<<domain, TypedDataSign("wallet", order)>>))
===============================================================================
