------------------------------ MODULE Clients ------------------------------
(***************************************************************************)
(* The clients of a tenant as persons: how they come in (by hand, by an    *)
(* import, by a friend's link), the links they are given (the portal, the  *)
(* code of a referral), the reward for a friend who pays, and how they     *)
(* leave (deletion, anonymization).                                        *)
(*                                                                         *)
(* Every request reads and then writes, in two awaits or, an import, in    *)
(* one transaction at READ COMMITTED; what holds between the two is only   *)
(* what the keys of the tables hold: a telephone is unique, and so is the  *)
(* friend of a referral.                                                   *)
(***************************************************************************)
EXTENDS Naturals, FiniteSets, SequencesExt

CONSTANTS
  People,       \* who may be a client; each is known by a telephone
  MaxRows,      \* bound: Client rows ever made
  MaxLinks,     \* bound: codes and tokens ever drawn
  Requests,     \* HTTP requests, and follow-ups of payments, at the same time
  Setups,       \* the settings of the programme the owner may choose
  MaxAsked,     \* bound: requests ever made, changes of the settings included
  MaxFailures,  \* bound: requests that fail or die between two awaits
  None          \* "no value"

Settings == [enabled : BOOLEAN, rewardWho : {"both", "referrer", "referred"}]

ASSUME ClientsAssumption ==
  /\ IsFiniteSet(People) /\ None \notin People \cup Nat
  /\ {MaxRows, MaxLinks, MaxAsked, MaxFailures} \subseteq Nat
  /\ Setups \subseteq Settings

(* Rows, and links, in the order in which they are made.                     *)
Ids == 1 .. MaxRows
Links == 1 .. MaxLinks
Kinds == {"portal", "referral"}

VARIABLES
  client,    \* Client rows
  made,      \* how many there ever were
  referral,  \* Referral rows, by the friend's row
  credit,    \* referralCreditCents, in rewards
  setting,   \* ReferralSetting
  request,   \* what each request holds
  handed,    \* the links that were given to somebody
  drawn,     \* how many codes and tokens there ever were
  grants,    \* ghost: rewards granted for each person as a friend
  freed,     \* ghost: how often a row gave up each telephone
  readmitted, \* ghost: anonymized rows to which the owner wrote a telephone
  asked, failures

rows == <<client, made, referral, credit>>
ghosts == <<grants, freed, readmitted>>
vars == <<rows, setting, request, handed, drawn, ghosts, asked, failures>>

(* phone: None is the placeholder of an anonymized client; named: name and   *)
(* document are a person's, and stay so until the client is anonymized;      *)
(* email: there is one; links: portalToken and referralCode.                 *)
NoRow == [phone |-> None, named |-> FALSE, email |-> FALSE, anonymized |-> FALSE,
          links |-> [k \in Kinds |-> None], referredBy |-> None]
ClientRows ==
  {NoRow} \cup
  {row \in [phone : People \cup {None}, named : BOOLEAN, email : BOOLEAN, anonymized : BOOLEAN,
            links : [Kinds -> Links \cup {None}], referredBy : Ids \cup {None}] :
     row.named \/ row.anonymized}
NewRow(p, mail, by) ==
  [NoRow EXCEPT !.phone = p, !.named = TRUE, !.email = mail, !.referredBy = by]
There(i) == client[i] # NoRow

(* friend: ghost, the telephone that was captured.                           *)
NoReferral == [status |-> "none", referrer |-> None, friend |-> None]
ReferralRows == {NoReferral} \cup [status : {"pending", "converted"}, referrer : Ids, friend : People]

Idle == [op |-> "idle"]
Writes == People \cup {"name", "email", "no email"}

HeldOK(held) ==
  \/ held = Idle
  \/ held \in [op : {"creating"}, phone : People]
  \/ /\ held.op = "importing" /\ DOMAIN held.found \subseteq People
     /\ \A p \in DOMAIN held.found : held.found[p] \in Ids \cup {None}
  \/ held \in [op : {"updating"}, row : Ids, data : Writes]
  \/ held \in [op : {"anonymizing", "deleting"}, row : Ids]
  \/ held \in [op : {"linking"}, row : Ids, kind : Kinds]
  \/ held \in [op : {"capturing"}, referrer : Ids, phone : People]
  \/ held \in [op : {"referring"}, referrer : Ids, row : Ids, phone : People]
  \/ held \in [op : {"rewarding"}, row : Ids, gets : SUBSET {"referrer", "referred"}]

TypeOK ==
  /\ client \in [Ids -> ClientRows]
  /\ made \in 0 .. MaxRows /\ \A i \in Ids : There(i) => i <= made
  /\ referral \in [Ids -> ReferralRows]
  /\ credit \in [Ids -> Nat]
  /\ setting \in Settings
  /\ request = [r \in Requests |-> request[r]]
  /\ \A r \in Requests : HeldOK(request[r])
  /\ handed \subseteq [kind : Kinds, link : Links, row : Ids, contested : BOOLEAN]
  /\ drawn \in 0 .. MaxLinks
  /\ grants \in [People -> Nat] /\ freed \in [People -> Nat]
  /\ readmitted \subseteq Ids
  /\ asked \in 0 .. MaxAsked /\ failures \in 0 .. MaxFailures

Init ==
  /\ client = [i \in Ids |-> NoRow]
  /\ made = 0
  /\ referral = [i \in Ids |-> NoReferral]
  /\ credit = [i \in Ids |-> 0]
  /\ setting \in Setups
  /\ request = [r \in Requests |-> Idle]
  /\ handed = {}
  /\ drawn = 0
  /\ grants = [p \in People |-> 0]
  /\ freed = [p \in People |-> 0]
  /\ readmitted = {}
  /\ asked = 0
  /\ failures = 0

-----------------------------------------------------------------------------
(* Reads and writes.                                                         *)

Has(p) == {i \in Ids : There(i) /\ client[i].phone = p}
Taken(p) == Has(p) # {}

(* A request reads, and holds what it is going to write.                     *)
Ask ==
  /\ asked < MaxAsked
  /\ asked' = asked + 1

Read(r, what) ==
  /\ Ask
  /\ request[r] = Idle
  /\ request' = [request EXCEPT ![r] = what]
  /\ UNCHANGED <<rows, setting, handed, drawn, ghosts, failures>>

End(r) == request' = [request EXCEPT ![r] = Idle]

(* The database refuses the write: a telephone is taken, a row is gone.      *)
Conflict(held) ==
  CASE held.op \in {"creating", "capturing"} -> Taken(held.phone)
    [] held.op = "importing" ->
         \E p \in DOMAIN held.found :
           IF held.found[p] = None THEN Taken(p) ELSE ~There(held.found[p])
    [] held.op = "updating" ->
         \/ ~There(held.row)
         \/ held.data \in People /\ Has(held.data) \ {held.row} # {}
    [] held.op \in {"anonymizing", "deleting"} -> ~There(held.row)
    [] held.op = "linking" -> held.kind = "portal" /\ ~There(held.row)
    [] held.op = "referring" -> ~There(held.row) \/ ~There(held.referrer)
    [] OTHER -> FALSE

Refuse(r) ==
  /\ Conflict(request[r])
  /\ End(r)
  /\ UNCHANGED <<rows, setting, handed, drawn, ghosts, asked, failures>>

Write(r, op) ==
  /\ request[r].op = op
  /\ ~Conflict(request[r])

(* A row that takes another telephone, or ends, gives up the one it had.     *)
Free(i) == freed' = [p \in People |-> IF client[i].phone = p /\ client'[i].phone # p
                                      THEN freed[p] + 1 ELSE freed[p]]

-----------------------------------------------------------------------------
(* The owner's clients.                                                      *)

(* findByPhone; a telephone that is taken is refused.                        *)
StartCreate(r, p) ==
  /\ ~Taken(p)
  /\ Read(r, [op |-> "creating", phone |-> p])

Insert(new) ==
  /\ made + Len(new) <= MaxRows
  /\ made' = made + Len(new)

Create(r) ==
  /\ Write(r, "creating")
  /\ Insert(<<request[r].phone>>)
  /\ \E mail \in BOOLEAN :
       client' = [client EXCEPT ![made'] = NewRow(request[r].phone, mail, None)]
  /\ End(r)
  /\ UNCHANGED <<referral, credit, setting, handed, drawn, ghosts, asked, failures>>

(* importUpsert: its read, for a batch of which each telephone counts once.  *)
StartImport(r, batch) ==
  /\ batch # {}
  /\ Read(r, [op |-> "importing",
              found |-> [p \in batch |-> IF Taken(p) THEN CHOOSE i \in Has(p) : TRUE ELSE None]])

PlanImport(found) ==
  [toCreate |-> SetToSeq({p \in DOMAIN found : found[p] = None}),
   toUpdate |-> {found[p] : p \in DOMAIN found} \ {None}]

Imported(row, mail) == [row EXCEPT !.named = TRUE, !.email = @ \/ mail]

(* Its writes: createMany, and an update of each row that was found.  The    *)
(* lines of mails have an e-mail; the others leave the one there is.         *)
Import(r) ==
  LET fresh == PlanImport(request[r].found).toCreate
      known == PlanImport(request[r].found).toUpdate
  IN  /\ Write(r, "importing")
      /\ Insert(fresh)
      /\ \E mails \in SUBSET DOMAIN request[r].found :
           client' = [i \in Ids |->
             IF i \in known THEN Imported(client[i], \E p \in mails : request[r].found[p] = i)
             ELSE IF i \in made + 1 .. made' THEN NewRow(fresh[i - made], fresh[i - made] \in mails, None)
             ELSE client[i]]
      /\ End(r)
      /\ UNCHANGED <<referral, credit, setting, handed, drawn, ghosts, asked, failures>>

(* findById; what the owner writes is a name, another telephone or an e-mail, *)
(* or that there is none: also to a client who was anonymized.               *)
StartUpdate(r, i, data) ==
  /\ There(i)
  /\ Read(r, [op |-> "updating", row |-> i, data |-> data])

Update(r) ==
  LET i == request[r].row
      data == request[r].data
  IN  /\ Write(r, "updating")
      /\ client' = CASE data = "name" -> [client EXCEPT ![i].named = TRUE]
                     [] data \in {"email", "no email"} -> [client EXCEPT ![i].email = data = "email"]
                     [] OTHER -> [client EXCEPT ![i].phone = data]
      /\ Free(i)
      /\ readmitted' = IF data \in People /\ client[i].anonymized THEN readmitted \cup {i}
                       ELSE readmitted
      /\ End(r)
      /\ UNCHANGED <<made, referral, credit, setting, handed, drawn, grants, asked, failures>>

StartDelete(r, i) ==
  /\ There(i)
  /\ Read(r, [op |-> "deleting", row |-> i])

(* The referrals of a client go with it, on either side.                     *)
Delete(r) ==
  LET i == request[r].row
  IN  /\ Write(r, "deleting")
      /\ client' = [client EXCEPT ![i] = NoRow]
      /\ referral' = [j \in Ids |-> IF j = i \/ referral[j].referrer = i THEN NoReferral
                                    ELSE referral[j]]
      /\ credit' = [credit EXCEPT ![i] = 0]
      /\ Free(i)
      /\ End(r)
      /\ UNCHANGED <<made, setting, handed, drawn, grants, readmitted, asked, failures>>

(* A client who is anonymized already is left as it is.                      *)
StartAnonymize(r, i) ==
  /\ There(i)
  /\ ~client[i].anonymized
  /\ Read(r, [op |-> "anonymizing", row |-> i])

(* The e-mail stays.                                                         *)
AnonymizeAs(r, phone) ==
  LET i == request[r].row
  IN  /\ Write(r, "anonymizing")
      /\ client' = [client EXCEPT ![i].phone = phone, ![i].named = FALSE, ![i].anonymized = TRUE]
      /\ Free(i)
      /\ readmitted' = readmitted \ {i}
      /\ End(r)
      /\ UNCHANGED <<made, referral, credit, setting, handed, drawn, grants, asked, failures>>

(* Mutant of Anonymize: the telephone stays, to keep it unique.              *)
AnonymizeNameOnly(r) == AnonymizeAs(r, client[request[r].row].phone)

Anonymize(r) == AnonymizeAs(r, None)

-----------------------------------------------------------------------------
(* Links: ensurePortalToken, ensureCode.                                     *)

StartLinkIf(r, i, kind, wanted) ==
  /\ wanted
  /\ There(i) \/ (kind = "referral" /\ i <= made)
  /\ Read(r, [op |-> "linking", row |-> i, kind |-> kind])

(* Mutant of StartLink: each demand draws a link of its own.                 *)
StartLinkAlways(r, i, kind) == StartLinkIf(r, i, kind, TRUE)

(* A link there is, is given again; a code is drawn even for a client who    *)
(* is not there any more.                                                    *)
StartLink(r, i, kind) == StartLinkIf(r, i, kind, client[i].links[kind] = None)

(* Both are written over whatever is there by now.                           *)
SetLink(r) ==
  LET held == request[r]
  IN  /\ Write(r, "linking")
      /\ drawn < MaxLinks
      /\ drawn' = drawn + 1
      /\ client' = IF There(held.row) THEN [client EXCEPT ![held.row].links[held.kind] = drawn']
                   ELSE client
      /\ handed' = handed \cup
           {[kind |-> held.kind, link |-> drawn', row |-> held.row,
             contested |-> \E q \in Requests \ {r} : request[q] = held]}
      /\ End(r)
      /\ UNCHANGED <<made, referral, credit, setting, ghosts, asked, failures>>

(* Whom a link leads to: findByPortalToken, findByReferralCode.              *)
Opens(kind, link) == {i \in Ids : There(i) /\ client[i].links[kind] = link}

-----------------------------------------------------------------------------
(* Referrals.                                                                *)

UpdateSettings(s) ==
  /\ s # setting
  /\ Ask
  /\ setting' = s
  /\ UNCHANGED <<rows, request, handed, drawn, ghosts, failures>>

(* A friend opens the link and leaves a telephone: findByReferralCode, the   *)
(* settings, findClientByPhone.                                              *)
StartCapture(r, h, p) ==
  /\ h.kind = "referral"
  /\ setting.enabled
  /\ ~Taken(p)
  /\ \E i \in Opens("referral", h.link) : Read(r, [op |-> "capturing", referrer |-> i, phone |-> p])

CreateReferredClient(r) ==
  LET held == request[r]
  IN  /\ Write(r, "capturing")
      /\ Insert(<<held.phone>>)
      /\ client' = [client EXCEPT ![made'] = NewRow(held.phone, FALSE, held.referrer)]
      /\ request' = [request EXCEPT ![r] = [op |-> "referring", referrer |-> held.referrer,
                                            row |-> made', phone |-> held.phone]]
      /\ UNCHANGED <<referral, credit, setting, handed, drawn, ghosts, asked, failures>>

CreateReferral(r) ==
  LET held == request[r]
  IN  /\ Write(r, "referring")
      /\ referral' = [referral EXCEPT ![held.row] =
           [status |-> "pending", referrer |-> held.referrer, friend |-> held.phone]]
      /\ End(r)
      /\ UNCHANGED <<client, made, credit, setting, handed, drawn, ghosts, asked, failures>>

RewardFor(role) == setting.rewardWho \in {"both", role}

(* The follow-up of a payment, by webhook, of any invoice of client i.       *)
OnInvoicePaid(r, i) ==
  /\ setting.enabled
  /\ referral[i].status = "pending"
  /\ Read(r, [op |-> "rewarding", row |-> i,
              gets |-> {role \in {"referrer", "referred"} : RewardFor(role)}])

ConvertIf(r, fresh) ==
  LET i == request[r].row
      given == {IF role = "referrer" THEN referral[i].referrer ELSE i : role \in request[r].gets}
  IN  /\ Write(r, "rewarding")
      /\ IF fresh
         THEN /\ referral' = [referral EXCEPT ![i].status = "converted"]
              /\ credit' = [j \in Ids |-> IF j \in given THEN credit[j] + 1 ELSE credit[j]]
              /\ grants' = [grants EXCEPT ![referral[i].friend] = @ + 1]
         ELSE UNCHANGED <<referral, credit, grants>>
      /\ End(r)
      /\ UNCHANGED <<client, made, setting, handed, drawn, freed, readmitted, asked, failures>>

(* Mutant of Convert: that the referral was found pending is enough.         *)
ConvertAgain(r) == ConvertIf(r, referral[request[r].row] # NoReferral)

(* convertAndCredit: who turns it from pending grants the reward.            *)
Convert(r) == ConvertIf(r, referral[request[r].row].status = "pending")

-----------------------------------------------------------------------------
Fail(r) ==
  /\ request[r] # Idle
  /\ failures < MaxFailures
  /\ failures' = failures + 1
  /\ End(r)
  /\ UNCHANGED <<rows, setting, handed, drawn, ghosts, asked>>

Start(r) ==
  \/ \E p \in People : StartCreate(r, p)
  \/ \E batch \in SUBSET People : StartImport(r, batch)
  \/ \E i \in Ids, data \in Writes : StartUpdate(r, i, data)
  \/ \E i \in Ids : StartDelete(r, i) \/ StartAnonymize(r, i) \/ OnInvoicePaid(r, i)
  \/ \E i \in Ids, kind \in Kinds : StartLink(r, i, kind)
  \/ \E h \in handed, p \in People : StartCapture(r, h, p)

Finish(r) ==
  \/ Create(r) \/ Import(r) \/ Update(r) \/ Delete(r) \/ Anonymize(r)
  \/ SetLink(r) \/ CreateReferredClient(r) \/ CreateReferral(r) \/ Convert(r)
  \/ Refuse(r) \/ Fail(r)

Next ==
  \/ \E s \in Setups : UpdateSettings(s)
  \/ \E r \in Requests : Start(r) \/ Finish(r)

Spec == Init /\ [][Next]_vars
=============================================================================
