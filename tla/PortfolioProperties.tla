------------------------- MODULE PortfolioProperties -------------------------
(* What must hold of the screens, of the score and of the page of agreements. *)
EXTENDS Portfolio

(* An invoice that falls due at this very instant: half of the code counts it *)
(* with the overdue ones (floor(0) = 0 days), half with those to come.        *)
DueNow == \E i \in Ids : IsOpen(i) /\ invoice[i].due = now

(* The screens tell the same story, though each has its own rule for what is  *)
(* late: what the cockpit calls overdue (RN-CKP2) is what the list of the day  *)
(* asks for and what the list of invoices marks (spec 0034), which are the     *)
(* invoices that the radar holds against the client, whether the sweep of      *)
(* statuses has run or not and whatever the gateway says of a payment; and     *)
(* what is due this week is what the list of the day announces.               *)
ViewsAgree ==
  /\ PortfolioTypeOK
  /\ {i.id : i \in ShownOverdue} = Overdue(now)
  /\ LET view == Overview(365)
         items == ActionItems(ActionCandidates, now)
         late == {a \in items : a.kind # "a_vencer"}
     IN  ~DueNow =>
           /\ view.kpis.emAtraso = Values(late)
           /\ view.kpis.emAtraso = Values(ShownOverdue)
           /\ Values(view.week) = Values(items \ late)

(* The forecast counts all that is to come in the next 30 days once: every    *)
(* open invoice, however late, and the month the subscription has still to    *)
(* bill; but for a month whose day has come and whose run has not, which it   *)
(* leaves out, and one whose run is between its two writes, which it counts   *)
(* twice (findInputs, projectCashflow).                                       *)
ForecastCountsOnce ==
  LET weeks == Forecast(30)
      until == now + 30 * DAY
      open == Values({i \in OpenInvoices : i.due < until})
      coming == IF clientSubscription.status = "ACTIVE" /\ clientSubscription.nextRunDate < until
                THEN Amount(clientSubscription) ELSE 0
  IN  clientSubscription.nextRunDate >= now /\ ~billed =>
        /\ MapThenSumSet(LAMBDA b : weeks[b].esperado, DOMAIN weeks) = open + coming
        /\ \A b \in DOMAIN weeks : weeks[b].provavel <= weeks[b].esperado

Accepts(i) == agreement[i] = None /\ agreement'[i] # None

(* A payer who accepts what the page shows gets the terms it showed, counted  *)
(* from the day they accept, unless the owner changed the rules meanwhile;    *)
(* whatever the page showed, the terms are within the rules in force          *)
(* (computeOptions, computeTerms, RN-NEG2).                                   *)
ShownTermsAreHeld ==
  [][\A i \in Ids : Accepts(i) =>
       LET t == agreement'[i].terms
           new == invoice'[agreement'[i].new]
       IN  /\ new.value = t.finalValue /\ new.due = t.due
           /\ 100 * new.value + 50 >= invoice[i].value * (100 - rules.discountPercent)
           /\ new.due <= now + rules.deferMaxDays * DAY \/ new.due = now
           /\ page # None /\ page.id = i /\ page.rules = rules =>
                \A o \in page.options : o.type = t.type =>
                  /\ t.finalValue = o.finalValue
                  /\ t.due - now = o.due - page.at]_portfolioVars

(* The radar catches up: once nothing more happens to the client, the stored  *)
(* score comes to be, and stays, that of the data, whatever recomputation     *)
(* overtook another with an older read, failed or was skipped (RN-3505).      *)
ScoreCatchesUp == <>[](\E inputs \in {AggregateInputs(now)} : health = ComputeHealth(inputs))

-----------------------------------------------------------------------------
(* Why they hold: what is true whenever a step begins.                        *)

(* A recomputation that is about to write has its score.                      *)
ScoresAreHeld ==
  \A r \in Recomputers : recomputing[r] = "writing" => held[r] \in Scores

(* The payer's page shows what the rules it was made by offer for its invoice, *)
(* whose value does not change.                                               *)
PageIsTrue ==
  page # None =>
    /\ Exists(page.id)
    /\ page.options = ComputeOptions(page.rules, invoice[page.id].value, page.at)

(* The stored status may lag behind the day, and is never ahead of it.        *)
OverdueIsLate ==
  \A i \in Ids : invoice[i].status = "OVERDUE" => invoice[i].due < now

PortfolioIInv ==
  /\ PortfolioTypeOK
  /\ ScoresAreHeld
  /\ PageIsTrue
  /\ OverdueIsLate

=============================================================================
