------------------------------- MODULE Rules -------------------------------
(***************************************************************************)
(* The pure rules that the portfolio of a client is read with:             *)
(* negotiation.ts, interaction.ts, health-score.ts, cashflow.ts,           *)
(* action-queue.ts, cockpit.ts and status.ts.                              *)
(*                                                                         *)
(* Money is in cents and percentages are whole.  Time is in ticks of half  *)
(* a day, so that a date may fall within a day: what rounds to whole days  *)
(* is modelled by its rounding.                                            *)
(***************************************************************************)
EXTENDS Integers, FiniteSets, FiniteSetsExt, Sequences, SequencesExt

DAY == 2

(* Whole days from one instant to another, rounded down.                     *)
DaysFrom(a, b) == (b - a) \div DAY

(* a / b rounded half up, for a natural a: round2, Math.round.               *)
HalfUp(a, b) == (2 * a + b) \div (2 * b)

Clamp(n, low, high) == Max({low, Min({high, n})})

Open == {"PENDING", "OVERDUE"}

(* Mutant of EffectiveInvoiceStatus: the stored status is trusted.             *)
StoredStatus(status, due, now) == status

(* A status as every screen shows it.                                        *)
EffectiveInvoiceStatus(status, due, now) ==
  IF status = "PENDING" /\ due < now THEN "OVERDUE" ELSE status

-----------------------------------------------------------------------------
(* Self-negotiation.                                                         *)

Discounts(rules) == rules.discountEnabled /\ rules.discountPercent > 0
Splits(rules) == rules.installmentsEnabled /\ rules.maxInstallments >= 2
Defers(rules) == rules.deferEnabled /\ rules.deferMaxDays >= 1

IsHesitating(opens, paid, threshold) == paid = 0 /\ opens >= threshold

Terms(type, value, installments, due) ==
  [type |-> type, finalValue |-> value, installments |-> installments,
   installmentValue |-> HalfUp(value, installments), due |-> due]

(* What the payer is shown.                                                  *)
ComputeOptions(rules, value, now) ==
  IF ~rules.enabled THEN {}
  ELSE UNION {
    IF Discounts(rules)
    THEN {Terms("discount", HalfUp(value * (100 - rules.discountPercent), 100), 1, now)}
    ELSE {},
    IF Splits(rules)
    THEN {Terms("installments", value, rules.maxInstallments, now)}
    ELSE {},
    IF Defers(rules)
    THEN {Terms("defer", HalfUp(value * (100 + rules.deferFeePercent), 100), 1,
                now + rules.deferMaxDays * DAY)}
    ELSE {}}

(* Mutant of ComputeTerms: an agreement to pay later costs nothing.           *)
TermsWithoutFee(rules, value, type, installments, now) ==
  {t \in {Terms("discount", HalfUp(value * (100 - rules.discountPercent), 100), 1, now),
          Terms("installments", value, installments, now),
          Terms("defer", value, 1, now + rules.deferMaxDays * DAY)} :
     /\ rules.enabled
     /\ t.type = type
     /\ \/ type = "discount" /\ Discounts(rules)
        \/ type = "installments" /\ Splits(rules) /\ installments \in 2 .. rules.maxInstallments
        \/ type = "defer" /\ Defers(rules)}

(* What the payer gets for a choice: at most one set of terms; none when the  *)
(* owner's rules do not allow it (NegotiationRuleError).                     *)
ComputeTerms(rules, value, type, installments, now) ==
  {t \in {Terms("discount", HalfUp(value * (100 - rules.discountPercent), 100), 1, now),
          Terms("installments", value, installments, now),
          Terms("defer", HalfUp(value * (100 + rules.deferFeePercent), 100), 1,
                now + rules.deferMaxDays * DAY)} :
     /\ rules.enabled
     /\ t.type = type
     /\ \/ type = "discount" /\ Discounts(rules)
        \/ type = "installments" /\ Splits(rules) /\ installments \in 2 .. rules.maxInstallments
        \/ type = "defer" /\ Defers(rules)}

-----------------------------------------------------------------------------
(* The radar: a score from what is known of a client.                        *)

SumSeq(s) == FoldSeq(LAMBDA x, y : x + y, 0, s)

(* The later half of the payments is more than two days later than the       *)
(* earlier half, on average.                                                 *)
IsTrendUp(late) ==
  LET n == Len(late)
      mid == n \div 2
  IN  /\ n >= 3
      /\ SumSeq(SubSeq(late, mid + 1, n)) * mid
           > (SumSeq(SubSeq(late, 1, mid)) + 2 * mid) * (n - mid)

HasHistory(input) ==
  \/ input.paidDaysLate # <<>>
  \/ input.openOverdueCount > 0
  \/ input.missedRecurring > 0
  \/ input.opens > 0
  \/ input.lostCases > 0

BandFor(score) ==
  CASE score >= 70 -> "healthy" [] score \in 40 .. 69 -> "watch" [] OTHER -> "at_risk"

(* Penalties in n-ths of a point, n the number of payments.                  *)
ComputeHealth(input) ==
  LET n == Max({1, Len(input.paidDaysLate)})
      late == SumSeq(input.paidDaysLate)
      whole == Clamp(8 * input.openOverdueCount, 0, 24) + Clamp(input.maxDaysOverdue, 0, 20)
               + Clamp(12 * input.missedRecurring, 0, 24) + Clamp(15 * input.lostCases, 0, 30)
               + (IF IsTrendUp(input.paidDaysLate) THEN 15 ELSE 0)
               + (IF input.opens > 0 /\ input.paysOrAttempts = 0 THEN 15 ELSE 0)
      score == Clamp(HalfUp((100 - whole) * n - Min({2 * late, 30 * n}), n), 0, 100)
  IN  IF HasHistory(input)
      THEN [score |-> score, band |-> BandFor(score), late10 |-> HalfUp(10 * late, n)]
      ELSE [score |-> 100, band |-> "healthy", late10 |-> 0]

-----------------------------------------------------------------------------
(* The forecast: what should come in, and what probably will, week by week.  *)

WEEK == 7

(* In per cent; late10 is the mean delay in tenths of a day.                  *)
PayProbability(band, late10) ==
  LET base == CASE band = "healthy" -> 95 [] band = "watch" -> 75
                [] band = "at_risk" -> 45 [] OTHER -> 80
  IN  HalfUp(base * Clamp(600 - late10, 240, 600), 600)

(* Mutant of BucketIndex: nothing gives what is overdue a bucket.            *)
BucketWithoutOverdue(now, due, count) ==
  Min({DaysFrom(now, due) \div WEEK, count - 1})

BucketIndex(now, due, count) ==
  IF DaysFrom(now, due) < 0 THEN 0 ELSE Min({DaysFrom(now, due) \div WEEK, count - 1})

(* items: a set of [id, amount, due, band, late10].                           *)
ProjectCashflow(items, now, days) ==
  LET count == Max({1, (days + WEEK - 1) \div WEEK})
      Bucket(b) == {it \in items : /\ it.due <= now + days * DAY
                                   /\ BucketIndex(now, it.due, count) = b}
  IN  [b \in 0 .. count - 1 |->
         [esperado |-> MapThenSumSet(LAMBDA it : it.amount, Bucket(b)),
          provavel |-> MapThenSumSet(
             LAMBDA it : HalfUp(it.amount * PayProbability(it.band, it.late10), 100),
             Bucket(b))]]

-----------------------------------------------------------------------------
(* The list of the day: what to act on first.                                *)

UPCOMING == 7

BandWeight(band) == CASE band = "at_risk" -> 100 [] band = "watch" -> 75 [] OTHER -> 50

ActionItem(c, now) ==
  LET days == DaysFrom(c.due, now)
      weight == c.value * BandWeight(c.band)
  IN  IF c.due < now
      THEN [id |-> c.id, value |-> c.value,
            kind |-> IF c.hasCase THEN "recuperar" ELSE "cobrar",
            priority |-> HalfUp(weight * (60 + Clamp(days, 0, 60)), 6000)]
      ELSE [id |-> c.id, value |-> c.value, kind |-> "a_vencer",
            priority |-> HalfUp(weight * 3, 1000)]

(* Those that fall due later than a week from now are not for today.         *)
ActionItems(candidates, now) ==
  {ActionItem(c, now) :
     c \in {x \in candidates : x.due < now \/ -DaysFrom(x.due, now) <= UPCOMING}}

RankDailyActions(candidates, now, limit) ==
  LET ranked == SetToSortSeq(ActionItems(candidates, now),
                             LAMBDA a, b : \/ a.priority > b.priority
                                           \/ a.priority = b.priority /\ a.id < b.id)
  IN  SubSeq(ranked, 1, Min({limit, Len(ranked)}))

-----------------------------------------------------------------------------
(* The cockpit.                                                              *)

AgingBucket(due, now) ==
  LET d == DaysFrom(due, now)
  IN  CASE d < 0 -> "aVencer" [] d \in 0 .. 30 -> "d0a30"
        [] d \in 31 .. 60 -> "d31a60" [] OTHER -> "d60mais"

Values(open) == MapThenSumSet(LAMBDA i : i.value, open)

SummarizeOpenInvoices(open, now) ==
  LET In(b) == Values({i \in open : AgingBucket(i.due, now) = b})
  IN  [aReceber |-> Values(open), aVencer |-> In("aVencer"),
       emAtraso |-> Values({i \in open : AgingBucket(i.due, now) # "aVencer"}),
       aging |-> [b \in {"aVencer", "d0a30", "d31a60", "d60mais"} |-> In(b)]]

DueWithinDays(open, now, days) == {i \in open : i.due \in now .. now + days * DAY}

-----------------------------------------------------------------------------
(* The discount of a retained subscription.                                  *)

IsDiscountActive(until, on) == on <= until

ApplyDiscount(amount, percent) ==
  IF percent \in 1 .. 100 THEN HalfUp(amount * (100 - percent), 100) ELSE amount
=============================================================================
