--------------------------- MODULE ProofSelection ---------------------------
(***************************************************************************)
(* The arithmetic of a send and of a Lightning payment: which proofs are   *)
(* taken, what the mint and the receiver charge, how much of the change    *)
(* comes back. Every behaviour is one send or one payment from one purse.  *)
(*                                                                         *)
(* A definition marked (mutant) is not part of the model: it is what a     *)
(* plausible bug would make of the definition that follows it.             *)
(***************************************************************************)
EXTENDS Naturals, Sequences, FiniteSets, FiniteSetsExt

CONSTANTS
  Denominations,           \* amounts of proofs, powers of two
  Keysets,
  Fees,                    \* input_fee_ppk a keyset may have
  MaxProofs,               \* bound on the proofs of the purse
  MaxAmount,               \* bound on the amount sent or paid
  MaxReserve               \* bound on the Lightning fee reserve

Bits == 0..30

\* A purse is worth 2^30 at most, the bound on all amounts.
ASSUME DenominationsAssumption ==
  \A d \in Denominations : (\E k \in Bits : d = 2^k) /\ MaxProofs * d <= 2^30
ASSUME FeesAssumption == Fees \subseteq Nat
ASSUME BoundsAssumption == MaxProofs \in Nat /\ MaxAmount \in Nat /\ MaxReserve \in Nat

VARIABLES
  purse,                   \* the unspent proofs, largest first
  ppk, active,             \* the mint's fee of each keyset, and its active keyset
  phase,
  wanted,                  \* amount requested, or amount of the melt quote
  reserve,                 \* fee_reserve of the melt quote
  chosen,                  \* the proofs selected
  sendFee, receiveFee,     \* cashu_send_fee and cashu_receive_fee; only sendFee for a payment
  token,                   \* the token: its value and the fee its proofs cost
  blanks,                  \* number_of_change_outputs
  outcome                  \* what the receiver nets, or what change is lost

selection == <<wanted, reserve, chosen, sendFee, receiveFee, blanks>>
vars == <<purse, ppk, active, phase, selection, token, outcome>>

Phases == {"idle", "prepared", "draft", "sent", "claimed", "refused", "rejected",
           "unclaimable", "quoted", "paid"}

Kinds == [amount : Denominations, keyset : Keysets]
Sorted(s) == \A i, j \in DOMAIN s : i < j => s[i].amount >= s[j].amount
Purses == UNION {{s \in [1..n -> Kinds] : Sorted(s)} : n \in 1..MaxProofs}

TypeOK ==
  /\ purse \in Seq(Kinds)
  /\ ppk \in [Keysets -> Fees] /\ active \in Keysets
  /\ phase \in Phases
  /\ {wanted, reserve, sendFee, receiveFee, blanks, outcome, token.value, token.fee} \subseteq Nat
  /\ chosen \subseteq DOMAIN purse

\* Proofs of one amount are listed in no particular order.
Init ==
  /\ purse \in Purses
  /\ ppk \in [Keysets -> Fees] /\ active \in Keysets
  /\ phase = "idle" /\ wanted = 0 /\ reserve = 0 /\ chosen = {}
  /\ sendFee = 0 /\ receiveFee = 0 /\ blanks = 0 /\ outcome = 0
  /\ token = [value |-> 0, fee |-> 0]

-----------------------------------------------------------------------------
(* Fees, splits and selection *)

Thousands(n) == (n + 999) \div 1000

Amounts == [i \in DOMAIN purse |-> purse[i].amount]
Prices == [i \in DOMAIN purse |-> ppk[purse[i].keyset]]

Total(I) == SumFunctionOnSet(Amounts, I)

\* compute_fee_for_proofs: rounded up once, for all proofs together.
Fee(I) == Thousands(SumFunctionOnSet(Prices, I))

Covers(I, target) == Total(I) >= target + Fee(I)

\* The bits of an amount: the proofs it splits into.
Parts(amount) == Cardinality({k \in Bits : (amount \div 2^k) % 2 = 1})

\* (mutant)
MoreThanEnough(target) == {n \in 1..Len(purse) : Total(1..n) > target + Fee(1..n)}

\* select_send_proofs: the largest proofs, until they pay for themselves too.
Enough(target) == {n \in 1..Len(purse) : Covers(1..n, target)}
Select(target) == 1..Min(Enough(target))

\* (mutant)
BlanksRoundedDown(n) == IF n <= 1 THEN n ELSE Max({k \in Bits : 2^k <= n})

\* number_of_change_blanks: the logarithm rounded up, but at least one.
Blanks(n) == IF n <= 1 THEN n ELSE Min({k \in Bits : 2^k >= n})

-----------------------------------------------------------------------------
(* Sending a token *)

\* (mutant)
NoEstimate == 0

\* The fee of one proof of the active keyset.
Estimate == Thousands(ppk[active])

Refuse(amount) ==
  /\ phase' = "refused" /\ wanted' = amount
  /\ UNCHANGED <<purse, ppk, active, reserve, chosen, sendFee, receiveFee, blanks, token, outcome>>

Prepared(amount, I, sFee, rFee) ==
  /\ phase' = "prepared" /\ wanted' = amount /\ chosen' = I
  /\ sendFee' = sFee /\ receiveFee' = rFee
  /\ UNCHANGED <<purse, ppk, active, reserve, blanks, token, outcome>>

\* prepare_proofs_and_fee: proofs that happen to be worth the amount and their own
\* fee, or else proofs for the amount, the receiver's fee and their own.
PrepareSend(amount) ==
  LET first == Select(amount)
      second == Select(amount + Estimate)
  IN  /\ phase = "idle"
      /\ \/ Enough(amount) = {} /\ Refuse(amount)
         \/ /\ Enough(amount) # {}
            /\ Total(first) = amount + Fee(first)
            /\ Prepared(amount, first, 0, Fee(first))
         \/ /\ Enough(amount) # {}
            /\ Total(first) # amount + Fee(first)
            /\ IF Enough(amount + Estimate) = {}
               THEN Refuse(amount)
               ELSE Prepared(amount, second, Fee(second), Estimate)

\* The keysets are fetched again before the outputs are made.
Rotate ==
  /\ phase = "prepared"
  /\ active' \in Keysets \ {active}
  /\ UNCHANGED <<purse, ppk, phase, selection, token, outcome>>

\* create: the proofs are the token, or a swap of the active keyset makes it.
CreateSend ==
  LET value == wanted + receiveFee
  IN  /\ phase = "prepared"
      /\ \/ /\ Total(chosen) = value
            /\ phase' = "sent"
            /\ token' = [value |-> value, fee |-> Fee(chosen)]
         \/ /\ Total(chosen) # value
            /\ phase' = IF Total(chosen) >= value + sendFee THEN "draft" ELSE "rejected"
            /\ token' = [value |-> value, fee |-> Thousands(Parts(value) * ppk[active])]
      /\ UNCHANGED <<purse, ppk, active, selection, outcome>>

\* The mint swaps when the outputs and its fee add up to the inputs.
MintSwap ==
  /\ phase = "draft"
  /\ LET change == Total(chosen) - (token.value + sendFee)
     IN  phase' = IF Total(chosen) = token.value + change + Fee(chosen) THEN "sent" ELSE "rejected"
  /\ UNCHANGED <<purse, ppk, active, selection, token, outcome>>

\* CashuReceiveSwapService::create, for whoever has been handed the token.
Claim ==
  /\ phase = "sent"
  /\ IF token.fee >= token.value
     THEN phase' = "unclaimable" /\ UNCHANGED outcome
     ELSE phase' = "claimed" /\ outcome' = token.value - token.fee
  /\ UNCHANGED <<purse, ppk, active, selection, token>>

-----------------------------------------------------------------------------
(* Paying an invoice *)

\* get_quote, with the mint's amount and reserve.
QuoteMelt(amount, feeReserve) ==
  LET I == Select(amount + feeReserve)
  IN  /\ phase = "idle"
      /\ reserve' = feeReserve /\ wanted' = amount
      /\ IF Enough(amount + feeReserve) = {}
         THEN phase' = "refused" /\ UNCHANGED <<chosen, sendFee, blanks>>
         ELSE /\ phase' = "quoted" /\ chosen' = I
              /\ sendFee' = Fee(I)
              /\ blanks' = Blanks(Total(I) - (amount + Fee(I)))
      /\ UNCHANGED <<purse, ppk, active, receiveFee, token, outcome>>

\* The mint pays, spends part of the reserve, and signs a blank for each part of
\* the rest: what has no blank is lost.
PayMelt(fee) ==
  LET change == Total(chosen) - (wanted + sendFee + fee)
  IN  /\ phase = "quoted" /\ fee <= reserve
      /\ phase' = "paid"
      /\ outcome' = IF Parts(change) > blanks THEN change ELSE 0
      /\ UNCHANGED <<purse, ppk, active, selection, token>>

Next ==
  \/ \E amount \in 1..MaxAmount :
       \/ PrepareSend(amount)
       \/ \E feeReserve \in 0..MaxReserve : QuoteMelt(amount, feeReserve)
  \/ Rotate \/ CreateSend \/ MintSwap \/ Claim
  \/ \E fee \in 0..MaxReserve : PayMelt(fee)

Spec == Init /\ [][Next]_vars

-----------------------------------------------------------------------------

Short(target) == ~ \E I \in SUBSET DOMAIN purse : Covers(I, target)

\* A proof that costs more to spend than it is worth is taken before one that
\* does not: it has the higher fee, and is not the smaller one.
TooDear(i) == Prices[i] > 1000 * Amounts[i]
DearFirst == \E i, j \in DOMAIN purse : i < j /\ TooDear(i) /\ ~ TooDear(j)

(* A send or a payment is refused only when no set of proofs of the purse pays *)
(* for it and for its own fee, although the selection is greedy and a send     *)
(* selects a second time. The exceptions are a purse whose first proofs eat    *)
(* up the others, and a send that cannot pay the receiver's fee besides when   *)
(* that is more than one. What was prepared is never refused afterwards.       *)
RefusedOnlyIfShort ==
  /\ phase = "refused" =>
       \/ Short(wanted + reserve) \/ DearFirst
       \/ Estimate > 1 /\ reserve = 0 /\ Short(wanted + Estimate)
  /\ phase # "rejected"

(* The receiver nets what the sender asked to send, at least. The exceptions   *)
(* are a token that a swap has split into several proofs, which cost more than *)
(* the one proof whose fee the sender added, and a keyset that became active   *)
(* after the fee was estimated. A token is worth no claim in the second case   *)
(* only, or when every proof of the split costs more than the least amount.    *)
ReceiverShortOnlyBySplit ==
  phase \in {"claimed", "unclaimable"} /\ outcome < wanted =>
    /\ token.fee > receiveFee
    /\ \/ Estimate > receiveFee
       \/ Parts(token.value) > 1 /\ (phase = "claimed" \/ ppk[active] > 1000)

(* However little of its reserve the mint needs, the blanks sent with a melt   *)
(* hold all of the change.                                                     *)
ChangeFitsBlanks ==
  phase = "paid" => outcome = 0
=============================================================================
