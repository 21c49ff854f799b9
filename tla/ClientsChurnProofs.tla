------------------------- MODULE ClientsChurnProofs -------------------------
(***************************************************************************)
(* Proofs about Clients, for any number of people, rows, links, requests   *)
(* and failures; and about Churn, for any number of subscriptions,         *)
(* cancellation requests, resolutions, sweeps and failures, and any days   *)
(* of waiting.  The two have nothing in common but this module.            *)
(***************************************************************************)
EXTENDS ClientsProperties, ChurnProperties, FiniteSetTheorems, TLAPS

-----------------------------------------------------------------------------
(***************************************************************************)
(* Clients.                                                                *)
(***************************************************************************)

(* What a request holds, by what it does.                                      *)
LEMMA RequestTypes ==
  ASSUME TypeOK, NEW r \in Requests
  PROVE  /\ Holds(r, "creating") => request[r].phone \in People
         /\ Holds(r, "importing") =>
              /\ DOMAIN request[r].found \subseteq People
              /\ \A p \in DOMAIN request[r].found : request[r].found[p] \in Ids \cup {None}
         /\ Holds(r, "updating") => request[r].row \in Ids /\ request[r].data \in Writes
         /\ Holds(r, "anonymizing") \/ Holds(r, "deleting") => request[r].row \in Ids
         /\ Holds(r, "linking") => /\ request[r].row \in Ids /\ request[r].kind \in Kinds
                                   /\ request[r] = [op |-> "linking", row |-> request[r].row, kind |-> request[r].kind]
         /\ Holds(r, "capturing") => request[r].referrer \in Ids /\ request[r].phone \in People
         /\ Holds(r, "referring") => /\ request[r].referrer \in Ids /\ request[r].row \in Ids
                                     /\ request[r].phone \in People
         /\ Holds(r, "rewarding") => request[r].row \in Ids /\ request[r].gets \in SUBSET {"referrer", "referred"}
         /\ Holds(r, "idle") => request[r] = Idle
  <1> DEFINE q == request[r]
  <1>1. HeldOK(q)
    BY DEF TypeOK
  <1> HIDE DEF q
  <1>2. /\ q.op = "creating" => q.phone \in People
        /\ q.op = "importing" =>
             /\ DOMAIN q.found \subseteq People
             /\ \A p \in DOMAIN q.found : q.found[p] \in Ids \cup {None}
        /\ q.op = "updating" => q.row \in Ids /\ q.data \in Writes
        /\ q.op \in {"anonymizing", "deleting"} => q.row \in Ids
        /\ q.op = "capturing" => q.referrer \in Ids /\ q.phone \in People
        /\ q.op = "referring" => q.referrer \in Ids /\ q.row \in Ids /\ q.phone \in People
        /\ q.op = "rewarding" => q.row \in Ids /\ q.gets \in SUBSET {"referrer", "referred"}
        /\ q.op = "idle" => q = Idle
    BY <1>1 DEF HeldOK, Idle
  <1>3. q.op = "linking" => /\ q.row \in Ids /\ q.kind \in Kinds
                            /\ q = [op |-> "linking", row |-> q.row, kind |-> q.kind]
    BY <1>1 DEF HeldOK, Idle
  <1> QED
    BY <1>2, <1>3 DEF q, Holds

(* The bounds, and the types of the rows.                                      *)
LEMMA Numbers ==
  /\ MaxRows \in Nat /\ MaxLinks \in Nat /\ MaxAsked \in Nat /\ MaxFailures \in Nat
  /\ None \notin People /\ None \notin Nat /\ None \notin Ids /\ None \notin Links
  /\ Ids \subseteq Nat /\ Links \subseteq Nat
  /\ IsFiniteSet(Ids)
  <1>1. /\ MaxRows \in Nat /\ MaxLinks \in Nat /\ MaxAsked \in Nat /\ MaxFailures \in Nat
        /\ None \notin People /\ None \notin Nat
    BY ClientsAssumption
  <1>2. IsFiniteSet(Ids)
    BY <1>1, FS_Interval DEF Ids
  <1> QED
    BY <1>1, <1>2 DEF Ids, Links

LEMMA Types ==
  ASSUME TypeOK
  PROVE  /\ client \in [Ids -> ClientRows] /\ made \in 0 .. MaxRows /\ made \in Nat
         /\ \A i \in Ids : There(i) => i <= made
         /\ referral \in [Ids -> ReferralRows] /\ credit \in [Ids -> Nat]
         /\ request = [r \in Requests |-> request[r]]
         /\ handed \subseteq [kind : Kinds, link : Links, row : Ids, contested : BOOLEAN]
         /\ drawn \in 0 .. MaxLinks /\ drawn \in Nat
         /\ grants \in [People -> Nat] /\ freed \in [People -> Nat] /\ readmitted \subseteq Ids
         /\ asked \in 0 .. MaxAsked /\ failures \in 0 .. MaxFailures /\ failures \in Nat
  BY Numbers DEF TypeOK

LEMMA NoRowType ==
  /\ NoRow \in ClientRows /\ NoRow.phone = None /\ NoRow.named = FALSE /\ NoRow.anonymized = FALSE
  /\ NoRow.referredBy = None /\ \A k \in Kinds : NoRow.links[k] = None
  BY DEF NoRow, ClientRows

(* What a row may hold, and which rows there are.                              *)
AnyRow == [phone : People \cup {None}, named : BOOLEAN, email : BOOLEAN, anonymized : BOOLEAN,
           links : [Kinds -> Links \cup {None}], referredBy : Ids \cup {None}]

LEMMA RowTypes ==
  /\ \A row \in ClientRows : row \in AnyRow /\ (row # NoRow => row.named \/ row.anonymized)
  /\ \A row \in AnyRow : row.named \/ row.anonymized => row \in ClientRows /\ row # NoRow
  <1>1. NoRow \in AnyRow /\ NoRow.named = FALSE /\ NoRow.anonymized = FALSE
    BY DEF NoRow, AnyRow
  <1>2. ClientRows = {NoRow} \cup {row \in AnyRow : row.named \/ row.anonymized}
    BY DEF ClientRows, AnyRow
  <1> QED
    BY <1>1, <1>2

(* A row that is made, of person p; and a row that is written, still of the    *)
(* client it was of.                                                           *)
IsNew(row, p, by) ==
  /\ row \in ClientRows /\ row # NoRow /\ row.phone = p /\ row.anonymized = FALSE
  /\ row.referredBy = by /\ row.links = NoRow.links
StaysOf(new, row) ==
  /\ new \in ClientRows /\ new # NoRow /\ new.phone = row.phone /\ new.anonymized = row.anonymized
  /\ new.referredBy = row.referredBy /\ new.links = row.links

LEMMA NewRowType ==
  ASSUME NEW p \in People, NEW by \in Ids \cup {None}
  PROVE  /\ \A mail \in BOOLEAN : IsNew(NewRow(p, mail, by), p, by)
         /\ \A row : IsNew(row, p, by) => \A k \in Kinds : row.links[k] = None
  <1>1. ASSUME NEW mail \in BOOLEAN PROVE IsNew(NewRow(p, mail, by), p, by)
    <2>1. PICK row : row = NewRow(p, mail, by)
      OBVIOUS
    <2>2. row \in AnyRow
      BY <2>1 DEF NewRow, NoRow, AnyRow
    <2>3. /\ row.phone = p /\ row.named = TRUE /\ row.anonymized = FALSE /\ row.referredBy = by
          /\ row.links = NoRow.links
      BY <2>1 DEF NewRow, NoRow
    <2>4. IsNew(row, p, by)
      BY <2>2, <2>3, RowTypes DEF IsNew
    <2> QED
      BY <2>1, <2>4
  <1> QED
    BY <1>1, NoRowType DEF IsNew

(* A line of an import that finds a row.                                       *)
LEMMA ImportedType ==
  ASSUME NEW row \in ClientRows
  PROVE  \A mail \in BOOLEAN : StaysOf(Imported(row, mail), row)
  <1> SUFFICES ASSUME NEW mail \in BOOLEAN PROVE StaysOf(Imported(row, mail), row)
    OBVIOUS
  <1>1. PICK new : new = Imported(row, mail)
    OBVIOUS
  <1>2. /\ new \in AnyRow
        /\ new.named = TRUE /\ new.phone = row.phone /\ new.anonymized = row.anonymized
        /\ new.links = row.links /\ new.referredBy = row.referredBy
    BY <1>1, RowTypes DEF Imported, AnyRow
  <1>3. StaysOf(new, row)
    BY <1>2, RowTypes DEF StaysOf
  <1> QED
    BY <1>1, <1>3

(* Before the first request there is nobody.                                   *)
LEMMA InitIInv == Init => ClientsIInv
  <1> SUFFICES ASSUME Init PROVE ClientsIInv
    OBVIOUS
  <1> USE DEF Init
  <1>1. /\ \A i \in Ids : ~There(i) /\ client[i] = NoRow /\ referral[i] = NoReferral
        /\ \A r \in Requests : request[r] = Idle
    BY DEF There
  <1>2. \A r \in Requests : request[r].op = "idle"
    BY <1>1 DEF Idle
  <1>3. TypeOK
    <2>1. client \in [Ids -> ClientRows]
      BY NoRowType
    <2>2. referral \in [Ids -> ReferralRows] /\ credit \in [Ids -> Nat]
      BY DEF ReferralRows
    <2>3. setting \in Settings
      BY ClientsAssumption
    <2>4. request = [r \in Requests |-> request[r]] /\ \A r \in Requests : HeldOK(request[r])
      BY DEF HeldOK
    <2>5. 0 \in 0 .. MaxRows /\ 0 \in 0 .. MaxLinks /\ 0 \in 0 .. MaxAsked /\ 0 \in 0 .. MaxFailures
      BY Numbers
    <2> QED
      BY <1>1, <2>1, <2>2, <2>3, <2>4, <2>5 DEF TypeOK
  <1>4. RowsAreMade /\ ReferralsAreTrue /\ LinksAreHanded
    BY <1>1, <1>2 DEF RowsAreMade, ReferralsAreTrue, LinksAreHanded, Holds
  <1>5. FriendsAccountedFor
    <2> SUFFICES ASSUME NEW p \in People
                 PROVE  grants[p] + Cardinality(Unrewarded(p)) <= freed[p] + IF Taken(p) THEN 1 ELSE 0
      BY DEF FriendsAccountedFor
    <2>1. Unrewarded(p) = {} /\ Taken(p) = FALSE
      BY <1>1, <1>2 DEF Unrewarded, Taken, Has, Holds, NoReferral
    <2> QED
      BY <2>1, FS_EmptySet
  <1>6. Cardinality(Unreferred) <= failures
    <2>1. Unreferred = {}
      BY <1>1 DEF Unreferred
    <2> QED
      BY <2>1, FS_EmptySet
  <1>7. NotFoundAgain
    BY <1>1, NoRowType DEF NotFoundAgain
  <1> QED
    BY <1>3, <1>4, <1>5, <1>6, <1>7 DEF ClientsIInv

-----------------------------------------------------------------------------
(* What the steps do.                                                          *)

(* A step of request r leaves the others as they are.                          *)
Sole(r) == /\ request' = [q \in Requests |-> request'[q]]
           /\ \A q \in Requests \ {r} : request'[q] = request[q]

LEMMA EndEffect ==
  ASSUME TypeOK, NEW r \in Requests, End(r)
  PROVE  Sole(r) /\ request'[r] = Idle /\ \A q \in Requests : HeldOK(request'[q])
  BY Types DEF Sole, End, HeldOK, TypeOK

LEMMA ReadEffect ==
  ASSUME TypeOK, NEW r \in Requests, NEW what, HeldOK(what), Read(r, what)
  PROVE  /\ request[r] = Idle /\ Sole(r) /\ request'[r] = what /\ \A q \in Requests : HeldOK(request'[q])
         /\ asked' \in 0 .. MaxAsked
         /\ UNCHANGED <<rows, setting, handed, drawn, ghosts, failures>>
  BY Types, Numbers DEF Sole, Read, Ask, TypeOK

(* A request that begins reads rows that are there, and no link where it asks  *)
(* for one.                                                                    *)
Begun(r) ==
  /\ request[r] = Idle /\ Sole(r) /\ \A q \in Requests : HeldOK(request'[q])
  /\ asked' \in 0 .. MaxAsked
  /\ UNCHANGED <<rows, setting, handed, drawn, ghosts, failures>>
  /\ request'[r].op # "referring"
  /\ request'[r].op = "linking" => /\ request'[r].row \in Ids /\ request'[r].row <= made
                                   /\ client[request'[r].row].links[request'[r].kind] = None
  /\ request'[r].op = "capturing" => request'[r].referrer <= made

LEMMA StartEffect ==
  ASSUME TypeOK, NEW r \in Requests, Start(r)
  PROVE  Begun(r)
  <1>1. ASSUME NEW what, HeldOK(what), Read(r, what), what.op \notin {"referring", "linking", "capturing"}
        PROVE  Begun(r)
    BY <1>1, ReadEffect DEF Begun
  <1>2. ASSUME NEW p \in People, StartCreate(r, p) PROVE Begun(r)
    <2>1. PICK what : what = [op |-> "creating", phone |-> p]
      OBVIOUS
    <2>2. HeldOK(what) /\ what.op = "creating"
      BY <2>1 DEF HeldOK
    <2> QED
      BY <1>1, <1>2, <2>1, <2>2 DEF StartCreate
  <1>3. ASSUME NEW batch \in SUBSET People, StartImport(r, batch) PROVE Begun(r)
    <2>1. PICK found : found = [p \in batch |-> IF Taken(p) THEN CHOOSE i \in Has(p) : TRUE ELSE None]
      OBVIOUS
    <2>2. DOMAIN found \subseteq People /\ \A p \in DOMAIN found : found[p] \in Ids \cup {None}
      BY <2>1 DEF Taken, Has
    <2>3. PICK what : what = [op |-> "importing", found |-> found]
      OBVIOUS
    <2>4. HeldOK(what) /\ what.op = "importing"
      BY <2>2, <2>3 DEF HeldOK
    <2> QED
      BY <1>1, <1>3, <2>1, <2>3, <2>4 DEF StartImport
  <1>4. ASSUME NEW i \in Ids, NEW data \in Writes, StartUpdate(r, i, data) PROVE Begun(r)
    <2>1. PICK what : what = [op |-> "updating", row |-> i, data |-> data]
      OBVIOUS
    <2>2. HeldOK(what) /\ what.op = "updating"
      BY <2>1 DEF HeldOK
    <2> QED
      BY <1>1, <1>4, <2>1, <2>2 DEF StartUpdate
  <1>5. ASSUME NEW i \in Ids, StartDelete(r, i) \/ StartAnonymize(r, i) PROVE Begun(r)
    <2>1. PICK what : /\ what \in {[op |-> "deleting", row |-> i], [op |-> "anonymizing", row |-> i]}
                      /\ Read(r, what)
      BY <1>5 DEF StartDelete, StartAnonymize
    <2>2. HeldOK(what) /\ what.op \in {"deleting", "anonymizing"}
      BY <2>1 DEF HeldOK
    <2> QED
      BY <1>1, <2>1, <2>2
  <1>6. ASSUME NEW i \in Ids, OnInvoicePaid(r, i) PROVE Begun(r)
    <2>1. PICK what : what = [op |-> "rewarding", row |-> i,
                              gets |-> {role \in {"referrer", "referred"} : RewardFor(role)}]
      OBVIOUS
    <2>2. HeldOK(what) /\ what.op = "rewarding"
      BY <2>1 DEF HeldOK
    <2> QED
      BY <1>1, <1>6, <2>1, <2>2 DEF OnInvoicePaid
  <1>7. ASSUME NEW i \in Ids, NEW kind \in Kinds, StartLink(r, i, kind) PROVE Begun(r)
    <2>1. PICK what : what = [op |-> "linking", row |-> i, kind |-> kind]
      OBVIOUS
    <2>2. HeldOK(what) /\ what.op = "linking" /\ what.row = i /\ what.kind = kind
      BY <2>1 DEF HeldOK
    <2>3. client[i].links[kind] = None /\ i <= made /\ Read(r, what)
      BY <1>7, <2>1, Types DEF StartLink, StartLinkIf
    <2> QED
      BY <2>2, <2>3, ReadEffect DEF Begun
  <1>8. ASSUME NEW h \in handed, NEW p \in People, StartCapture(r, h, p) PROVE Begun(r)
    <2>1. PICK i \in Opens("referral", h.link) : Read(r, [op |-> "capturing", referrer |-> i, phone |-> p])
      BY <1>8 DEF StartCapture
    <2>2. i \in Ids /\ i <= made
      BY Types DEF Opens
    <2>3. PICK what : what = [op |-> "capturing", referrer |-> i, phone |-> p]
      OBVIOUS
    <2>4. HeldOK(what) /\ what.op = "capturing" /\ what.referrer = i
      BY <2>2, <2>3 DEF HeldOK
    <2> QED
      BY <2>1, <2>2, <2>3, <2>4, ReadEffect DEF Begun
  <1> QED
    BY <1>2, <1>3, <1>4, <1>5, <1>6, <1>7, <1>8 DEF Start

(* What the database refuses.                                                  *)
LEMMA WriteEffect ==
  ASSUME NEW r \in Requests, NEW op, Write(r, op)
  PROVE  /\ Holds(r, op)
         /\ op = "creating" \/ op = "capturing" => ~Taken(request[r].phone)
         /\ op = "importing" => \A p \in DOMAIN request[r].found :
              request[r].found[p] # None => There(request[r].found[p])
         /\ op \in {"updating", "anonymizing", "deleting"} => There(request[r].row)
  BY DEF Write, Conflict, Holds

LEMMA RefuseEffect ==
  ASSUME TypeOK, NEW r \in Requests, Refuse(r)
  PROVE  /\ Sole(r) /\ request'[r] = Idle /\ \A q \in Requests : HeldOK(request'[q])
         /\ UNCHANGED <<rows, setting, handed, drawn, ghosts, asked, failures>>
         /\ Holds(r, "referring") => ~There(request[r].row) \/ ~There(request[r].referrer)
  <1>1. Conflict(request[r]) /\ End(r)
    BY DEF Refuse
  <1>2. Holds(r, "referring") => ~There(request[r].row) \/ ~There(request[r].referrer)
    BY <1>1 DEF Conflict, Holds
  <1> QED
    BY <1>1, <1>2, EndEffect DEF Refuse

LEMMA FailEffect ==
  ASSUME TypeOK, NEW r \in Requests, Fail(r)
  PROVE  /\ Sole(r) /\ request'[r] = Idle /\ \A q \in Requests : HeldOK(request'[q])
         /\ failures' = failures + 1 /\ failures' \in 0 .. MaxFailures
         /\ UNCHANGED <<rows, setting, handed, drawn, ghosts, asked>>
  BY Numbers, Types, EndEffect DEF Fail

(* A row that is made is the next one.                                         *)
LEMMA InsertEffect ==
  ASSUME TypeOK, NEW p \in People, NEW by \in Ids \cup {None}, NEW mail \in BOOLEAN, Insert(<<p>>),
         client' = [client EXCEPT ![made'] = NewRow(p, mail, by)]
  PROVE  /\ made' = made + 1 /\ made' \in Ids /\ made' \in 0 .. MaxRows /\ ~There(made')
         /\ client' \in [Ids -> ClientRows] /\ IsNew(client'[made'], p, by)
         /\ \A i \in Ids \ {made'} : client'[i] = client[i]
  <1>1. made' = made + 1 /\ made + 1 <= MaxRows
    BY DEF Insert
  <1>2. made' \in Ids /\ made' \in 0 .. MaxRows /\ ~There(made')
    BY <1>1, Types, Numbers DEF Ids
  <1>3. PICK row : row = NewRow(p, mail, by)
    OBVIOUS
  <1>4. IsNew(row, p, by)
    BY <1>3, NewRowType
  <1>5. client' = [client EXCEPT ![made'] = row] /\ row \in ClientRows
    BY <1>3, <1>4 DEF IsNew
  <1> QED
    BY <1>1, <1>2, <1>4, <1>5, Types

LEMMA CreateEffect ==
  ASSUME TypeOK, NEW r \in Requests, Create(r)
  PROVE  /\ Sole(r) /\ request'[r] = Idle /\ \A q \in Requests : HeldOK(request'[q])
         /\ Holds(r, "creating") /\ made' = made + 1 /\ made' \in Ids /\ made' \in 0 .. MaxRows /\ ~There(made')
         /\ client' \in [Ids -> ClientRows]
         /\ \E p \in People : IsNew(client'[made'], p, None)
         /\ \A i \in Ids \ {made'} : client'[i] = client[i]
         /\ UNCHANGED <<referral, credit, setting, handed, drawn, ghosts, asked, failures>>
  <1>1. Holds(r, "creating") /\ request[r].phone \in People
    BY RequestTypes, WriteEffect DEF Create
  <1>2. PICK p \in People : p = request[r].phone
    BY <1>1
  <1>3. PICK mail \in BOOLEAN :
          Insert(<<p>>) /\ client' = [client EXCEPT ![made'] = NewRow(p, mail, None)] /\ End(r)
    BY <1>2 DEF Create
  <1> QED
    BY <1>1, <1>3, InsertEffect, EndEffect DEF Create

LEMMA CaptureEffect ==
  ASSUME TypeOK, NEW r \in Requests, CreateReferredClient(r)
  PROVE  /\ Sole(r) /\ \A q \in Requests : HeldOK(request'[q])
         /\ Holds(r, "capturing") /\ made' = made + 1 /\ made' \in Ids /\ made' \in 0 .. MaxRows /\ ~There(made')
         /\ client' \in [Ids -> ClientRows]
         /\ request[r].phone \in People /\ request[r].referrer \in Ids /\ ~Taken(request[r].phone)
         /\ IsNew(client'[made'], request[r].phone, request[r].referrer)
         /\ request'[r].op = "referring" /\ request'[r].row = made'
         /\ request'[r].phone = request[r].phone /\ request'[r].referrer = request[r].referrer
         /\ \A i \in Ids \ {made'} : client'[i] = client[i]
         /\ UNCHANGED <<referral, credit, setting, handed, drawn, ghosts, asked, failures>>
  <1>1. /\ Holds(r, "capturing") /\ request[r].phone \in People /\ request[r].referrer \in Ids
        /\ ~Taken(request[r].phone)
    BY RequestTypes, WriteEffect DEF CreateReferredClient
  <1>2. PICK p \in People, by \in Ids : p = request[r].phone /\ by = request[r].referrer
    BY <1>1
  <1>3. /\ Insert(<<p>>) /\ client' = [client EXCEPT ![made'] = NewRow(p, FALSE, by)]
        /\ request' = [request EXCEPT ![r] = [op |-> "referring", referrer |-> by, row |-> made', phone |-> p]]
    BY <1>2 DEF CreateReferredClient
  <1>4. /\ made' = made + 1 /\ made' \in Ids /\ made' \in 0 .. MaxRows /\ ~There(made')
        /\ client' \in [Ids -> ClientRows] /\ IsNew(client'[made'], p, by)
        /\ \A i \in Ids \ {made'} : client'[i] = client[i]
    BY <1>3, InsertEffect
  <1>5. PICK what : what = [op |-> "referring", referrer |-> by, row |-> made', phone |-> p]
    OBVIOUS
  <1>6. HeldOK(what) /\ what.op = "referring" /\ what.row = made' /\ what.phone = p /\ what.referrer = by
    BY <1>4, <1>5 DEF HeldOK
  <1>7. Sole(r) /\ request'[r] = what /\ \A q \in Requests : HeldOK(request'[q])
    BY <1>3, <1>5, <1>6, Types DEF Sole, TypeOK
  <1> QED
    BY <1>1, <1>2, <1>4, <1>6, <1>7 DEF CreateReferredClient

(* What createMany is given: each person once.                                 *)
LEMMA SequenceOfPeople ==
  ASSUME NEW P \in SUBSET People
  PROVE  SetToSeq(P) \in [1 .. Cardinality(P) -> P] /\ Cardinality(P) \in Nat /\ Len(SetToSeq(P)) = Cardinality(P)
  <1>1. IsFiniteSet(P)
    BY ClientsAssumption, FS_Subset
  <1>2. Cardinality(P) \in Nat /\ ExistsBijection(1 .. Cardinality(P), P)
    BY <1>1, FS_CardinalityType
  <1>3. \E f \in [1 .. Cardinality(P) -> P] : IsInjective(f)
    BY <1>2 DEF ExistsBijection, Bijection, Injection
  <1>4. SetToSeq(P) \in [1 .. Cardinality(P) -> P]
    BY <1>3 DEF SetToSeq
  <1> QED
    BY <1>2, <1>4

LEMMA ImportEffect ==
  ASSUME TypeOK, NEW r \in Requests, Import(r)
  PROVE  /\ Sole(r) /\ request'[r] = Idle /\ \A q \in Requests : HeldOK(request'[q])
         /\ Holds(r, "importing") /\ made <= made' /\ made' \in 0 .. MaxRows
         /\ client' \in [Ids -> ClientRows]
         /\ \A i \in Ids : \/ client'[i] = client[i]
                           \/ /\ There(i) /\ StaysOf(client'[i], client[i])
                              /\ \E p \in DOMAIN request[r].found : request[r].found[p] = i
                           \/ /\ i > made /\ i <= made'
                              /\ \E p \in People : IsNew(client'[i], p, None)
         /\ UNCHANGED <<referral, credit, setting, handed, drawn, ghosts, asked, failures>>
  <1> DEFINE found == request[r].found
             P == {p \in DOMAIN found : found[p] = None}
             known == {found[p] : p \in DOMAIN found} \ {None}
             fresh == SetToSeq(P)
  <1>1. /\ Holds(r, "importing") /\ DOMAIN found \subseteq People
        /\ \A p \in DOMAIN found : found[p] \in Ids \cup {None} /\ (found[p] # None => There(found[p]))
    BY RequestTypes, WriteEffect DEF Import
  <1>2. /\ Insert(fresh) /\ End(r)
        /\ \E mails \in SUBSET DOMAIN found :
             client' = [i \in Ids |->
               IF i \in known THEN Imported(client[i], \E p \in mails : found[p] = i)
               ELSE IF i \in made + 1 .. made' THEN NewRow(fresh[i - made], fresh[i - made] \in mails, None)
               ELSE client[i]]
    BY DEF Import, PlanImport
  <1>3. PICK mails \in SUBSET DOMAIN found :
          client' = [i \in Ids |->
            IF i \in known THEN Imported(client[i], \E p \in mails : found[p] = i)
            ELSE IF i \in made + 1 .. made' THEN NewRow(fresh[i - made], fresh[i - made] \in mails, None)
            ELSE client[i]]
    BY <1>2
  <1>4. /\ P \in SUBSET People /\ known \in SUBSET Ids /\ \A i \in known : There(i)
        /\ \A i \in known : \E p \in DOMAIN found : found[p] = i
    BY <1>1
  <1>5. fresh \in [1 .. Len(fresh) -> P] /\ Len(fresh) \in Nat
    BY <1>4, SequenceOfPeople
  <1> HIDE DEF found, P, known, fresh
  <1>6. made' = made + Len(fresh) /\ made' \in 0 .. MaxRows /\ made \in Nat
    BY <1>2, <1>5, Types, Numbers DEF Insert
  <1>7. ASSUME NEW i \in Ids
        PROVE  /\ \/ client'[i] = client[i]
                  \/ /\ There(i) /\ StaysOf(client'[i], client[i])
                     /\ \E p \in DOMAIN found : found[p] = i
                  \/ /\ i > made /\ i <= made'
                     /\ \E p \in People : IsNew(client'[i], p, None)
               /\ client'[i] \in ClientRows
    <2>1. client[i] \in ClientRows /\ i \in Nat
      BY Types, Numbers
    <2>2. CASE i \in known
      <3>1. client'[i] = Imported(client[i], \E p \in mails : found[p] = i)
        BY <1>3, <2>2
      <3>2. (\E p \in mails : found[p] = i) \in BOOLEAN
        OBVIOUS
      <3>3. StaysOf(client'[i], client[i])
        BY <2>1, <3>1, <3>2, ImportedType
      <3> QED
        BY <1>4, <2>2, <3>3 DEF StaysOf
    <2>3. CASE i \notin known /\ i \in made + 1 .. made'
      <3>1. i - made \in 1 .. Len(fresh)
        BY <1>5, <1>6, <2>1, <2>3
      <3>2. PICK p \in People : p = fresh[i - made]
        BY <1>4, <1>5, <3>1
      <3>3. client'[i] = NewRow(p, p \in mails, None)
        BY <1>3, <2>3, <3>2
      <3>4. i > made /\ i <= made'
        BY <1>5, <1>6, <2>1, <2>3
      <3>5. (p \in mails) \in BOOLEAN
        OBVIOUS
      <3>6. IsNew(client'[i], p, None)
        BY <3>3, <3>5, NewRowType
      <3> QED
        BY <3>4, <3>6 DEF IsNew
    <2>4. CASE i \notin known /\ i \notin made + 1 .. made'
      BY <1>3, <2>1, <2>4
    <2> QED
      BY <2>2, <2>3, <2>4
  <1>8. client' \in [Ids -> ClientRows]
    BY <1>3, <1>7
  <1> QED
    <2>1. UNCHANGED <<referral, credit, setting, handed, drawn, ghosts, asked, failures>>
      BY DEF Import
    <2>2. made <= made'
      BY <1>5, <1>6
    <2>3. Sole(r) /\ request'[r] = Idle /\ \A q \in Requests : HeldOK(request'[q])
      BY <1>2, EndEffect
    <2>4. \A i \in Ids : \/ client'[i] = client[i]
                         \/ /\ There(i) /\ StaysOf(client'[i], client[i])
                            /\ \E p \in DOMAIN request[r].found : request[r].found[p] = i
                         \/ /\ i > made /\ i <= made'
                            /\ \E p \in People : IsNew(client'[i], p, None)
      BY <1>7 DEF found
    <2> QED
      BY <1>1, <1>6, <1>8, <2>1, <2>2, <2>3, <2>4

(* Row i is written, and no other; a telephone it gives up is counted.         *)
RowWritten(i) ==
  /\ i \in Ids /\ There(i) /\ client' \in [Ids -> ClientRows]
  /\ \A j \in Ids \ {i} : client'[j] = client[j]
  /\ freed' \in [People -> Nat]
  /\ \A p \in People : /\ freed'[p] >= freed[p]
                       /\ client[i].phone = p /\ client'[i].phone # p => freed'[p] = freed[p] + 1

LEMMA RowIsWritten ==
  ASSUME TypeOK, NEW i \in Ids, There(i), NEW row \in ClientRows, client' = [client EXCEPT ![i] = row],
         Free(i) \/ (freed' = freed /\ row.phone = client[i].phone)
  PROVE  RowWritten(i) /\ client'[i] = row
  <1>1. client \in [Ids -> ClientRows] /\ freed \in [People -> Nat]
    BY Types
  <1>2. client'[i] = row /\ client' \in [Ids -> ClientRows] /\ \A j \in Ids \ {i} : client'[j] = client[j]
    BY <1>1
  <1>3. /\ freed' \in [People -> Nat]
        /\ \A p \in People : /\ freed'[p] >= freed[p]
                             /\ client[i].phone = p /\ client'[i].phone # p => freed'[p] = freed[p] + 1
    BY <1>1, <1>2 DEF Free
  <1> QED
    BY <1>2, <1>3 DEF RowWritten

LEMMA UpdateEffect ==
  ASSUME TypeOK, NEW r \in Requests, Update(r)
  PROVE  /\ Sole(r) /\ request'[r] = Idle /\ \A q \in Requests : HeldOK(request'[q])
         /\ Holds(r, "updating") /\ RowWritten(request[r].row)
         /\ client'[request[r].row] # NoRow
         /\ client'[request[r].row].links = client[request[r].row].links
         /\ client'[request[r].row].referredBy = client[request[r].row].referredBy
         /\ client'[request[r].row].anonymized = client[request[r].row].anonymized
         /\ readmitted' \subseteq Ids /\ readmitted \subseteq readmitted'
         /\ \/ client'[request[r].row].phone = client[request[r].row].phone
            \/ client[request[r].row].anonymized => request[r].row \in readmitted'
         /\ UNCHANGED <<made, referral, credit, setting, handed, drawn, grants, asked, failures>>
  <1>1. Holds(r, "updating") /\ request[r].row \in Ids /\ There(request[r].row) /\ request[r].data \in Writes
    BY RequestTypes, WriteEffect DEF Update
  <1>2. PICK i \in Ids, data \in Writes : i = request[r].row /\ data = request[r].data
    BY <1>1
  <1>3. /\ End(r) /\ Free(i)
        /\ UNCHANGED <<made, referral, credit, setting, handed, drawn, grants, asked, failures>>
        /\ client' = CASE data = "name" -> [client EXCEPT ![i].named = TRUE]
                       [] data \in {"email", "no email"} -> [client EXCEPT ![i].email = data = "email"]
                       [] OTHER -> [client EXCEPT ![i].phone = data]
        /\ readmitted' = IF data \in People /\ client[i].anonymized THEN readmitted \cup {i} ELSE readmitted
    BY <1>2 DEF Update
  <1>4. /\ client[i] \in ClientRows /\ client \in [Ids -> ClientRows] /\ There(i) /\ readmitted \subseteq Ids
        /\ client[i] \in AnyRow
        /\ client[i].named \/ client[i].anonymized
    BY <1>1, <1>2, Types, RowTypes DEF There
  <1>5. PICK row \in ClientRows :
          /\ client' = [client EXCEPT ![i] = row] /\ row # NoRow
          /\ row.links = client[i].links /\ row.referredBy = client[i].referredBy
          /\ row.anonymized = client[i].anonymized
          /\ row.phone = client[i].phone \/ data \in People
    <2>1. CASE data = "name"
      <3>1. PICK row : row = [client[i] EXCEPT !.named = TRUE]
        OBVIOUS
      <3>2. client' = [client EXCEPT ![i] = row]
        BY <1>3, <1>4, <2>1, <3>1
      <3>3. /\ row \in AnyRow /\ (row.named \/ row.anonymized)
            /\ row.links = client[i].links /\ row.referredBy = client[i].referredBy
            /\ row.anonymized = client[i].anonymized /\ row.phone = client[i].phone
        BY <1>4, <3>1 DEF AnyRow
      <3> QED
        BY <3>2, <3>3, RowTypes
    <2>2. CASE data # "name" /\ data \in {"email", "no email"}
      <3>1. PICK mail \in BOOLEAN : mail = (data = "email")
        OBVIOUS
      <3>2. PICK row : row = [client[i] EXCEPT !.email = mail]
        OBVIOUS
      <3>3. client' = [client EXCEPT ![i].email = mail]
        BY <1>3, <2>2, <3>1
      <3>4. client' = [client EXCEPT ![i] = row]
        BY <1>4, <3>2, <3>3
      <3>5. /\ row \in AnyRow /\ (row.named \/ row.anonymized)
            /\ row.links = client[i].links /\ row.referredBy = client[i].referredBy
            /\ row.anonymized = client[i].anonymized /\ row.phone = client[i].phone
        BY <1>4, <3>2 DEF AnyRow
      <3> QED
        BY <3>4, <3>5, RowTypes
    <2>3. CASE data \notin {"name", "email", "no email"}
      <3>1. data \in People
        BY <2>3 DEF Writes
      <3>2. PICK row : row = [client[i] EXCEPT !.phone = data]
        OBVIOUS
      <3>3. client' = [client EXCEPT ![i] = row]
        BY <1>3, <1>4, <2>3, <3>2
      <3>4. /\ row \in AnyRow /\ (row.named \/ row.anonymized)
            /\ row.links = client[i].links /\ row.referredBy = client[i].referredBy
            /\ row.anonymized = client[i].anonymized
        BY <1>4, <3>1, <3>2 DEF AnyRow
      <3> QED
        BY <3>1, <3>3, <3>4, RowTypes
    <2> QED
      BY <2>1, <2>2, <2>3
  <1>6. RowWritten(i) /\ client'[i] = row
    BY <1>1, <1>2, <1>3, <1>5, RowIsWritten
  <1>7. client'[i] # NoRow
    BY <1>5, <1>6
  <1>8. /\ readmitted' \subseteq Ids /\ readmitted \subseteq readmitted'
        /\ data \in People /\ client[i].anonymized => i \in readmitted'
    BY <1>3, <1>4
  <1> QED
    BY <1>1, <1>2, <1>3, <1>5, <1>6, <1>7, <1>8, EndEffect

LEMMA AnonymizeEffect ==
  ASSUME TypeOK, NEW r \in Requests, Anonymize(r)
  PROVE  /\ Sole(r) /\ request'[r] = Idle /\ \A q \in Requests : HeldOK(request'[q])
         /\ Holds(r, "anonymizing") /\ RowWritten(request[r].row)
         /\ client'[request[r].row] # NoRow
         /\ client'[request[r].row].links = client[request[r].row].links
         /\ client'[request[r].row].referredBy = client[request[r].row].referredBy
         /\ client'[request[r].row].anonymized = TRUE
         /\ client'[request[r].row].phone = None /\ client'[request[r].row].named = FALSE
         /\ readmitted' \subseteq Ids /\ readmitted \subseteq readmitted' \cup {request[r].row}
         /\ UNCHANGED <<made, referral, credit, setting, handed, drawn, grants, asked, failures>>
  <1>1. Holds(r, "anonymizing") /\ request[r].row \in Ids /\ There(request[r].row)
    BY RequestTypes, WriteEffect DEF Anonymize, AnonymizeAs
  <1>2. PICK i \in Ids : i = request[r].row
    BY <1>1
  <1>3. /\ End(r) /\ Free(i)
        /\ client' = [client EXCEPT ![i].phone = None, ![i].named = FALSE, ![i].anonymized = TRUE]
        /\ UNCHANGED <<made, referral, credit, setting, handed, drawn, grants, asked, failures>>
        /\ readmitted' = readmitted \ {i}
    BY <1>2 DEF Anonymize, AnonymizeAs
  <1>4. /\ client[i] \in ClientRows /\ client \in [Ids -> ClientRows] /\ readmitted \subseteq Ids
        /\ client[i] \in AnyRow
    BY Types, RowTypes
  <1>5. PICK row : row = [client[i] EXCEPT !.phone = None, !.named = FALSE, !.anonymized = TRUE]
    OBVIOUS
  <1>6. /\ row.links = client[i].links /\ row.referredBy = client[i].referredBy
        /\ row.anonymized = TRUE /\ row.phone = None /\ row.named = FALSE
        /\ row \in AnyRow
    BY <1>4, <1>5 DEF AnyRow
  <1>7. row \in ClientRows
    BY <1>6, RowTypes
  <1>8. row # NoRow
    BY <1>6, NoRowType
  <1>9. client' = [client EXCEPT ![i] = row]
    BY <1>3, <1>4, <1>5
  <1>10. RowWritten(i) /\ client'[i] = row
    BY <1>1, <1>2, <1>3, <1>7, <1>9, RowIsWritten
  <1>11. client'[i] # NoRow
    BY <1>8, <1>10
  <1> QED
    BY <1>1, <1>2, <1>3, <1>4, <1>6, <1>10, <1>11, EndEffect

LEMMA DeleteEffect ==
  ASSUME TypeOK, NEW r \in Requests, Delete(r)
  PROVE  /\ Sole(r) /\ request'[r] = Idle /\ \A q \in Requests : HeldOK(request'[q])
         /\ Holds(r, "deleting") /\ RowWritten(request[r].row) /\ client'[request[r].row] = NoRow
         /\ referral' \in [Ids -> ReferralRows]
         /\ \A j \in Ids : referral'[j] = IF j = request[r].row \/ referral[j].referrer = request[r].row
                                          THEN NoReferral ELSE referral[j]
         /\ credit' \in [Ids -> Nat]
         /\ UNCHANGED <<made, setting, handed, drawn, grants, readmitted, asked, failures>>
  <1>1. Holds(r, "deleting") /\ request[r].row \in Ids /\ There(request[r].row)
    BY RequestTypes, WriteEffect DEF Delete
  <1>2. PICK i \in Ids : i = request[r].row
    BY <1>1
  <1>3. /\ End(r) /\ Free(i) /\ client' = [client EXCEPT ![i] = NoRow]
        /\ referral' = [j \in Ids |-> IF j = i \/ referral[j].referrer = i THEN NoReferral ELSE referral[j]]
        /\ credit' = [credit EXCEPT ![i] = 0]
        /\ UNCHANGED <<made, setting, handed, drawn, grants, readmitted, asked, failures>>
    BY <1>2 DEF Delete
  <1>4. RowWritten(i) /\ client'[i] = NoRow
    BY <1>1, <1>2, <1>3, NoRowType, RowIsWritten
  <1>5. referral' \in [Ids -> ReferralRows] /\ credit' \in [Ids -> Nat]
    BY <1>3, Types DEF ReferralRows
  <1> QED
    BY <1>1, <1>2, <1>3, <1>4, <1>5, EndEffect

LEMMA SetLinkEffect ==
  ASSUME TypeOK, NEW r \in Requests, SetLink(r)
  PROVE  /\ Sole(r) /\ request'[r] = Idle /\ \A q \in Requests : HeldOK(request'[q])
         /\ Holds(r, "linking") /\ request[r].row \in Ids /\ request[r].kind \in Kinds
         /\ drawn' = drawn + 1 /\ drawn' \in 0 .. MaxLinks /\ drawn' \in Links
         /\ handed' = handed \cup {[kind |-> request[r].kind, link |-> drawn', row |-> request[r].row,
                                    contested |-> \E q \in Requests \ {r} : request[q] = request[r]]}
         /\ handed' \subseteq [kind : Kinds, link : Links, row : Ids, contested : BOOLEAN]
         /\ client' \in [Ids -> ClientRows]
         /\ \A j \in Ids \ {request[r].row} : client'[j] = client[j]
         /\ client'[request[r].row] # NoRow <=> There(request[r].row)
         /\ There(request[r].row) =>
              client'[request[r].row] = [client[request[r].row] EXCEPT !.links[request[r].kind] = drawn']
         /\ UNCHANGED <<made, referral, credit, setting, ghosts, asked, failures>>
  <1>1. Holds(r, "linking") /\ request[r].row \in Ids /\ request[r].kind \in Kinds
    BY RequestTypes, WriteEffect DEF SetLink
  <1>2. PICK i \in Ids, k \in Kinds : i = request[r].row /\ k = request[r].kind
    BY <1>1
  <1>3. /\ drawn < MaxLinks /\ drawn' = drawn + 1 /\ End(r)
        /\ client' = IF There(i) THEN [client EXCEPT ![i].links[k] = drawn'] ELSE client
        /\ handed' = handed \cup {[kind |-> k, link |-> drawn', row |-> i,
                                   contested |-> \E q \in Requests \ {r} : request[q] = request[r]]}
        /\ UNCHANGED <<made, referral, credit, setting, ghosts, asked, failures>>
    BY <1>2 DEF SetLink
  <1>4. client[i] \in ClientRows /\ client \in [Ids -> ClientRows]
    BY Types
  <1>5. drawn' \in Links /\ drawn' \in 0 .. MaxLinks /\ drawn' # None
    BY <1>3, Types, Numbers DEF Links
  <1>6. handed' \subseteq [kind : Kinds, link : Links, row : Ids, contested : BOOLEAN]
    <2>1. PICK c \in BOOLEAN : c = \E q \in Requests \ {r} : request[q] = request[r]
      OBVIOUS
    <2>2. [kind |-> k, link |-> drawn', row |-> i, contested |-> c] \in
            [kind : Kinds, link : Links, row : Ids, contested : BOOLEAN]
      BY <1>5
    <2>3. handed' = handed \cup {[kind |-> k, link |-> drawn', row |-> i, contested |-> c]}
      BY <1>3, <2>1
    <2> QED
      BY <2>2, <2>3, Types
  <1>7. CASE There(i)
    <2>1. PICK l \in Links : l = drawn'
      BY <1>5
    <2>2. /\ client[i] \in AnyRow
          /\ client[i].named \/ client[i].anonymized
      BY <1>4, <1>7, RowTypes DEF There
    <2>3. [client[i].links EXCEPT ![k] = l] \in [Kinds -> Links \cup {None}]
      BY <2>2 DEF AnyRow
    <2>4. [client[i] EXCEPT !.links[k] = l] \in ClientRows
      <3>1. PICK row : row = [client[i] EXCEPT !.links[k] = l]
        OBVIOUS
      <3>2. row \in AnyRow
        BY <2>2, <2>3, <3>1 DEF AnyRow
      <3>3. row.named \/ row.anonymized
        BY <2>2, <3>1 DEF AnyRow
      <3> QED
        BY <3>1, <3>2, <3>3, RowTypes
    <2>5. client'[i] = [client[i] EXCEPT !.links[k] = l] /\ client' = [client EXCEPT ![i].links[k] = l]
      BY <1>3, <1>4, <1>7, <2>1
    <2>6. client'[i].links[k] = l
      BY <2>2, <2>5 DEF AnyRow
    <2>7. client'[i] # NoRow
      BY <1>5, <2>1, <2>6, NoRowType
    <2>8. client' \in [Ids -> ClientRows] /\ \A j \in Ids \ {i} : client'[j] = client[j]
      BY <1>4, <2>4, <2>5
    <2> QED
      BY <1>1, <1>2, <1>3, <1>5, <1>6, <1>7, <2>1, <2>5, <2>7, <2>8, EndEffect DEF There
  <1>8. CASE ~There(i)
    BY <1>1, <1>2, <1>3, <1>4, <1>5, <1>6, <1>8, EndEffect DEF There
  <1> QED
    BY <1>7, <1>8

LEMMA CreateReferralEffect ==
  ASSUME TypeOK, NEW r \in Requests, CreateReferral(r)
  PROVE  /\ Sole(r) /\ request'[r] = Idle /\ \A q \in Requests : HeldOK(request'[q])
         /\ Holds(r, "referring") /\ request[r].row \in Ids /\ request[r].phone \in People
         /\ request[r].referrer \in Ids
         /\ referral' \in [Ids -> ReferralRows]
         /\ \A j \in Ids \ {request[r].row} : referral'[j] = referral[j]
         /\ referral'[request[r].row] # NoReferral /\ referral'[request[r].row].status = "pending"
         /\ referral'[request[r].row].referrer = request[r].referrer
         /\ referral'[request[r].row].friend = request[r].phone
         /\ UNCHANGED <<client, made, credit, setting, handed, drawn, ghosts, asked, failures>>
  <1>1. /\ Holds(r, "referring") /\ request[r].row \in Ids /\ request[r].phone \in People
        /\ request[r].referrer \in Ids
    BY RequestTypes, WriteEffect DEF CreateReferral
  <1>2. PICK i \in Ids, p \in People, by \in Ids :
          i = request[r].row /\ p = request[r].phone /\ by = request[r].referrer
    BY <1>1
  <1>3. /\ End(r) /\ referral' = [referral EXCEPT ![i] = [status |-> "pending", referrer |-> by, friend |-> p]]
        /\ UNCHANGED <<client, made, credit, setting, handed, drawn, ghosts, asked, failures>>
    BY <1>2 DEF CreateReferral
  <1>4. PICK row \in ReferralRows : row = [status |-> "pending", referrer |-> by, friend |-> p]
    BY DEF ReferralRows
  <1>5. /\ referral' \in [Ids -> ReferralRows] /\ \A j \in Ids \ {i} : referral'[j] = referral[j]
        /\ referral'[i] = row
    BY <1>3, <1>4, Types
  <1>6. row.status = "pending" /\ row.referrer = by /\ row.friend = p
    BY <1>4
  <1>7. row # NoReferral
    BY <1>6 DEF NoReferral
  <1> QED
    BY <1>1, <1>2, <1>3, <1>5, <1>6, <1>7, EndEffect

LEMMA ConvertEffect ==
  ASSUME TypeOK, NEW r \in Requests, Convert(r)
  PROVE  /\ Sole(r) /\ request'[r] = Idle /\ \A q \in Requests : HeldOK(request'[q])
         /\ Holds(r, "rewarding") /\ request[r].row \in Ids
         /\ credit' \in [Ids -> Nat] /\ grants' \in [People -> Nat] /\ referral' \in [Ids -> ReferralRows]
         /\ \A j \in Ids \ {request[r].row} : referral'[j] = referral[j]
         /\ \/ referral' = referral /\ grants' = grants
            \/ /\ referral[request[r].row].status = "pending"
               /\ referral[request[r].row].friend \in People
               /\ referral'[request[r].row].status = "converted"
               /\ referral'[request[r].row].referrer = referral[request[r].row].referrer
               /\ grants' = [grants EXCEPT ![referral[request[r].row].friend] = @ + 1]
         /\ UNCHANGED <<client, made, setting, handed, drawn, freed, readmitted, asked, failures>>
  <1>1. Holds(r, "rewarding") /\ request[r].row \in Ids
    BY RequestTypes, WriteEffect DEF Convert, ConvertIf
  <1>2. PICK i \in Ids : i = request[r].row
    BY <1>1
  <1> DEFINE given == {IF role = "referrer" THEN referral[i].referrer ELSE i : role \in request[r].gets}
  <1>3. /\ End(r)
        /\ IF referral[i].status = "pending"
           THEN /\ referral' = [referral EXCEPT ![i].status = "converted"]
                /\ credit' = [j \in Ids |-> IF j \in given THEN credit[j] + 1 ELSE credit[j]]
                /\ grants' = [grants EXCEPT ![referral[i].friend] = @ + 1]
           ELSE UNCHANGED <<referral, credit, grants>>
        /\ UNCHANGED <<client, made, setting, handed, drawn, freed, readmitted, asked, failures>>
    BY <1>2 DEF Convert, ConvertIf
  <1> HIDE DEF given
  <1>4. referral \in [Ids -> ReferralRows] /\ credit \in [Ids -> Nat] /\ grants \in [People -> Nat]
    BY Types
  <1>5. CASE referral[i].status = "pending"
    <2>1. referral[i] \in [status : {"pending", "converted"}, referrer : Ids, friend : People]
      BY <1>4, <1>5 DEF ReferralRows, NoReferral
    <2>2. [referral[i] EXCEPT !.status = "converted"] \in [status : {"pending", "converted"}, referrer : Ids, friend : People]
      BY <2>1
    <2>3. PICK row \in ReferralRows : /\ row = [referral[i] EXCEPT !.status = "converted"]
                                      /\ row.status = "converted" /\ row.referrer = referral[i].referrer
      BY <2>1, <2>2 DEF ReferralRows
    <2>4. /\ referral'[i] = row /\ referral' \in [Ids -> ReferralRows]
          /\ \A j \in Ids \ {i} : referral'[j] = referral[j]
      BY <1>3, <1>4, <1>5, <2>3
    <2>5. credit' \in [Ids -> Nat]
      BY <1>3, <1>4, <1>5
    <2>6. referral[i].friend \in People /\ grants' \in [People -> Nat]
      BY <1>3, <1>4, <1>5, <2>1
    <2> QED
      BY <1>1, <1>2, <1>3, <1>5, <2>3, <2>4, <2>5, <2>6, EndEffect
  <1>6. CASE referral[i].status # "pending"
    BY <1>1, <1>2, <1>3, <1>4, <1>6, EndEffect
  <1> QED
    BY <1>5, <1>6

-----------------------------------------------------------------------------
(* The parts of the invariant, step by step.                                   *)

LEMMA StepsThereAre ==
  ASSUME [Next]_vars
  PROVE  \/ \E r \in Requests :
              \/ Start(r) \/ Refuse(r) \/ Fail(r)
              \/ Create(r) \/ CreateReferredClient(r) \/ Import(r)
              \/ Update(r) \/ Anonymize(r) \/ Delete(r)
              \/ SetLink(r) \/ CreateReferral(r) \/ Convert(r)
         \/ \E s \in Setups : UpdateSettings(s)
         \/ UNCHANGED vars
  BY DEF Next, Finish

(* A step that leaves the rows alone.                                          *)
LEMMA SettingsEffect ==
  ASSUME TypeOK, (\E s \in Setups : UpdateSettings(s)) \/ UNCHANGED vars
  PROVE  /\ UNCHANGED <<rows, request, handed, drawn, ghosts, failures>>
         /\ setting' \in Settings /\ asked' \in 0 .. MaxAsked
  BY ClientsAssumption, Numbers, Types DEF UpdateSettings, Ask, vars, TypeOK

(* A friend comes: the row that is made is of a capture.                       *)
Captured(i, by) ==
  \E r \in Requests : /\ Holds(r, "capturing") /\ by = request[r].referrer
                      /\ request'[r].op = "referring" /\ request'[r].row = i

(* What becomes of a row: its referrer stays, and a row that was not there is  *)
(* a new one.                                                                  *)
RowStep(i) ==
  /\ There(i) /\ client'[i] # NoRow => client'[i].referredBy = client[i].referredBy
  /\ ~There(i) /\ client'[i] # NoRow =>
       /\ i > made /\ i <= made' /\ client'[i].links = NoRow.links /\ client'[i].anonymized = FALSE
       /\ client'[i].referredBy # None => Captured(i, client'[i].referredBy)

LEMMA NewRowStep ==
  ASSUME TypeOK, NEW i \in Ids, i > made, i <= made', NEW p \in People, NEW by \in Ids \cup {None},
         IsNew(client'[i], p, by),
         by # None => Captured(i, by)
  PROVE  RowStep(i)
  <1>1. ~There(i)
    BY Types, Numbers
  <1> QED
    BY <1>1 DEF RowStep, IsNew

LEMMA TypeStep ==
  ASSUME TypeOK, [Next]_vars
  PROVE  /\ TypeOK' /\ made \in Nat /\ made <= made' /\ made' \in Nat
         /\ \A i \in Ids : RowStep(i)
  <1> DEFINE Goal == TypeOK' /\ made \in Nat /\ made <= made' /\ made' \in Nat /\ \A i \in Ids : RowStep(i)
  <1>0. TypeOK /\ made \in Nat /\ Ids \subseteq Nat
    BY Types, Numbers
  <1>1. ASSUME client' \in [Ids -> ClientRows], made' \in 0 .. MaxRows, made <= made',
               \A i \in Ids : RowStep(i), referral' \in [Ids -> ReferralRows], credit' \in [Ids -> Nat],
               setting' \in Settings, request' = [q \in Requests |-> request'[q]],
               \A q \in Requests : HeldOK(request'[q]),
               handed' \subseteq [kind : Kinds, link : Links, row : Ids, contested : BOOLEAN],
               drawn' \in 0 .. MaxLinks, grants' \in [People -> Nat], freed' \in [People -> Nat],
               readmitted' \subseteq Ids, asked' \in 0 .. MaxAsked, failures' \in 0 .. MaxFailures
        PROVE  Goal
    <2>1. made' \in Nat
      BY <1>1, Numbers
    <2>2. \A i \in Ids : client'[i] # NoRow => i <= made'
      <3> SUFFICES ASSUME NEW i \in Ids, client'[i] # NoRow PROVE i <= made'
        OBVIOUS
      <3>1. i \in Nat /\ (There(i) => i <= made)
        BY <1>0, Types
      <3> QED
        BY <1>0, <1>1, <2>1, <3>1 DEF RowStep
    <2> QED
      BY <1>0, <1>1, <2>1, <2>2 DEF TypeOK, There
  <1>2. ASSUME client' = client, made' = made
        PROVE  client' \in [Ids -> ClientRows] /\ made' \in 0 .. MaxRows /\ made <= made' /\ \A i \in Ids : RowStep(i)
    BY <1>0, <1>2, Types DEF RowStep, There
  <1>3. ASSUME NEW r \in Requests, Start(r) \/ Refuse(r) \/ Fail(r) PROVE Goal
    <2>1. /\ Sole(r) /\ \A q \in Requests : HeldOK(request'[q])
          /\ UNCHANGED <<rows, setting, handed, drawn, ghosts>>
          /\ asked' \in 0 .. MaxAsked /\ failures' \in 0 .. MaxFailures
      BY <1>0, <1>3, StartEffect, RefuseEffect, FailEffect, Types DEF Begun
    <2> QED
      BY <1>0, <1>1, <1>2, <2>1, Types DEF Sole, rows, ghosts, TypeOK
  <1>4. ASSUME NEW r \in Requests, Create(r) PROVE Goal
    <2>1. /\ Sole(r) /\ \A q \in Requests : HeldOK(request'[q])
          /\ made' = made + 1 /\ made' \in Ids /\ made' \in 0 .. MaxRows /\ ~There(made')
          /\ client' \in [Ids -> ClientRows]
          /\ \A i \in Ids \ {made'} : client'[i] = client[i]
          /\ UNCHANGED <<referral, credit, setting, handed, drawn, ghosts, asked, failures>>
      BY <1>0, <1>4, CreateEffect
    <2>2. PICK p \in People : IsNew(client'[made'], p, None)
      BY <1>0, <1>4, CreateEffect
    <2>3. made' > made /\ made' <= made'
      BY <1>0, <2>1
    <2>4. RowStep(made')
      BY <1>0, <2>1, <2>2, <2>3, NewRowStep
    <2>5. \A i \in Ids \ {made'} : RowStep(i)
      BY <2>1 DEF RowStep, There
    <2> QED
      BY <1>0, <1>1, <2>1, <2>3, <2>4, <2>5, Types DEF Sole, ghosts, TypeOK
  <1>5. ASSUME NEW r \in Requests, CreateReferredClient(r) PROVE Goal
    <2>1. /\ Sole(r) /\ \A q \in Requests : HeldOK(request'[q])
          /\ made' = made + 1 /\ made' \in Ids /\ made' \in 0 .. MaxRows /\ ~There(made')
          /\ client' \in [Ids -> ClientRows] /\ Holds(r, "capturing")
          /\ \A i \in Ids \ {made'} : client'[i] = client[i]
          /\ UNCHANGED <<referral, credit, setting, handed, drawn, ghosts, asked, failures>>
      BY <1>0, <1>5, CaptureEffect
    <2>2. PICK p \in People, by \in Ids : IsNew(client'[made'], p, by) /\ by = request[r].referrer
      BY <1>0, <1>5, CaptureEffect
    <2>3. made' > made /\ made' <= made'
      BY <1>0, <2>1
    <2>4. Captured(made', by)
      BY <1>0, <1>5, <2>2, CaptureEffect DEF Captured
    <2>5. RowStep(made')
      BY <1>0, <2>1, <2>2, <2>3, <2>4, NewRowStep
    <2>6. \A i \in Ids \ {made'} : RowStep(i)
      BY <2>1 DEF RowStep, There
    <2> QED
      BY <1>0, <1>1, <2>1, <2>3, <2>5, <2>6, Types DEF Sole, ghosts, TypeOK
  <1>6. ASSUME NEW r \in Requests, Import(r) PROVE Goal
    <2>1. /\ Sole(r) /\ \A q \in Requests : HeldOK(request'[q])
          /\ made <= made' /\ made' \in 0 .. MaxRows
          /\ client' \in [Ids -> ClientRows]
          /\ UNCHANGED <<referral, credit, setting, handed, drawn, ghosts, asked, failures>>
      BY <1>0, <1>6, ImportEffect
    <2>2. ASSUME NEW i \in Ids PROVE RowStep(i)
      <3>1. \/ client'[i] = client[i]
            \/ There(i) /\ StaysOf(client'[i], client[i])
            \/ i > made /\ i <= made' /\ \E p \in People : IsNew(client'[i], p, None)
        BY <1>0, <1>6, ImportEffect
      <3>2. client[i] \in ClientRows /\ (There(i) => i <= made) /\ i \in Nat
        BY <1>0, Types
      <3>3. CASE client'[i] = client[i]
        BY <3>3 DEF RowStep, There
      <3>4. CASE There(i) /\ StaysOf(client'[i], client[i])
        BY <3>2, <3>4 DEF RowStep, StaysOf
      <3>5. CASE i > made /\ i <= made' /\ \E p \in People : IsNew(client'[i], p, None)
        BY <1>0, <3>5, NewRowStep
      <3> QED
        BY <3>1, <3>3, <3>4, <3>5
    <2> QED
      BY <1>0, <1>1, <2>1, <2>2, Types DEF Sole, ghosts, TypeOK
  <1>7. ASSUME NEW r \in Requests, Update(r) \/ Anonymize(r) \/ Delete(r) PROVE Goal
    <2>1. /\ Sole(r) /\ \A q \in Requests : HeldOK(request'[q])
          /\ RowWritten(request[r].row) /\ made' = made
          /\ \/ client'[request[r].row] = NoRow
             \/ client'[request[r].row].referredBy = client[request[r].row].referredBy
          /\ UNCHANGED <<setting, handed, drawn, grants, asked, failures>>
      BY <1>0, <1>7, UpdateEffect, AnonymizeEffect, DeleteEffect
    <2>2. referral' \in [Ids -> ReferralRows] /\ credit' \in [Ids -> Nat]
      BY <1>0, <1>7, UpdateEffect, AnonymizeEffect, DeleteEffect, Types
    <2>3. readmitted' \subseteq Ids
      BY <1>0, <1>7, <2>1, UpdateEffect, AnonymizeEffect, DeleteEffect, Types DEF RowWritten
    <2>4. \A i \in Ids : RowStep(i)
      BY <2>1 DEF RowWritten, RowStep, There
    <2> QED
      BY <1>0, <1>1, <2>1, <2>2, <2>3, <2>4, Types DEF Sole, RowWritten, TypeOK
  <1>8. ASSUME NEW r \in Requests, SetLink(r) PROVE Goal
    <2>1. /\ Sole(r) /\ \A q \in Requests : HeldOK(request'[q])
          /\ drawn' \in 0 .. MaxLinks /\ made' = made /\ request[r].row \in Ids /\ request[r].kind \in Kinds
          /\ handed' \subseteq [kind : Kinds, link : Links, row : Ids, contested : BOOLEAN]
          /\ client' \in [Ids -> ClientRows]
          /\ \A j \in Ids \ {request[r].row} : client'[j] = client[j]
          /\ client'[request[r].row] # NoRow <=> There(request[r].row)
          /\ There(request[r].row) =>
               client'[request[r].row] = [client[request[r].row] EXCEPT !.links[request[r].kind] = drawn']
          /\ UNCHANGED <<referral, credit, setting, ghosts, asked, failures>>
      BY <1>0, <1>8, SetLinkEffect
    <2>2. There(request[r].row) => client'[request[r].row].referredBy = client[request[r].row].referredBy
      BY <2>1, Types, RowTypes DEF AnyRow
    <2>3. \A i \in Ids : RowStep(i)
      BY <2>1, <2>2 DEF RowStep, There
    <2>4. made <= made' /\ made' \in 0 .. MaxRows
      BY <2>1, Types, Numbers
    <2> QED
      BY <1>0, <1>1, <2>1, <2>3, <2>4, Types DEF Sole, ghosts, TypeOK
  <1>9. ASSUME NEW r \in Requests, CreateReferral(r) \/ Convert(r) PROVE Goal
    <2>1. /\ Sole(r) /\ \A q \in Requests : HeldOK(request'[q])
          /\ UNCHANGED <<client, made, setting, handed, drawn, freed, readmitted, asked, failures>>
          /\ referral' \in [Ids -> ReferralRows]
      BY <1>0, <1>9, CreateReferralEffect, ConvertEffect DEF ghosts
    <2>2. credit' \in [Ids -> Nat] /\ grants' \in [People -> Nat]
      BY <1>0, <1>9, CreateReferralEffect, ConvertEffect, Types DEF ghosts
    <2> QED
      BY <1>0, <1>1, <1>2, <2>1, <2>2, Types DEF Sole, TypeOK
  <1>10. CASE (\E s \in Setups : UpdateSettings(s)) \/ UNCHANGED vars
    <2>1. /\ UNCHANGED <<rows, request, handed, drawn, ghosts, failures>>
          /\ setting' \in Settings /\ asked' \in 0 .. MaxAsked
      BY <1>0, <1>10, SettingsEffect
    <2> QED
      BY <1>0, <1>1, <1>2, <2>1, Types DEF rows, ghosts, TypeOK
  <1> QED
    BY <1>3, <1>4, <1>5, <1>6, <1>7, <1>8, <1>9, <1>10, StepsThereAre

(* What becomes of a request.                                                  *)
RequestStep(q) ==
  /\ request'[q].op = "linking" =>
       \/ request'[q] = request[q]
       \/ /\ request'[q].row \in Ids /\ request'[q].row <= made
          /\ client[request'[q].row].links[request'[q].kind] = None
  /\ request'[q].op = "capturing" => request'[q] = request[q] \/ request'[q].referrer <= made
  /\ request'[q].op = "referring" => request'[q] = request[q] \/ CreateReferredClient(q)
  /\ Holds(q, "referring") => request'[q] = request[q] \/ CreateReferral(q) \/ Refuse(q) \/ Fail(q)

LEMMA RequestSteps ==
  ASSUME TypeOK, [Next]_vars
  PROVE  \A q \in Requests : RequestStep(q)
  <1> DEFINE Goal == \A q \in Requests : RequestStep(q)
  <1>0. Idle.op = "idle"
    BY DEF Idle
  <1>1. ASSUME NEW r \in Requests, Sole(r), RequestStep(r) PROVE Goal
    BY <1>1 DEF Sole, RequestStep
  <1>2. ASSUME NEW r \in Requests, Start(r) PROVE Goal
    <2>1. Begun(r)
      BY <1>2, StartEffect
    <2>2. RequestStep(r)
      BY <1>0, <2>1 DEF Begun, RequestStep, Holds
    <2> QED
      BY <1>1, <2>1, <2>2 DEF Begun
  <1>3. ASSUME NEW r \in Requests, Refuse(r) \/ Fail(r) \/ CreateReferral(r) PROVE Goal
    <2>1. Sole(r) /\ request'[r] = Idle
      BY <1>3, RefuseEffect, FailEffect, CreateReferralEffect
    <2>2. RequestStep(r)
      BY <1>0, <1>3, <2>1 DEF RequestStep
    <2> QED
      BY <1>1, <2>1, <2>2
  <1>4. ASSUME NEW r \in Requests, CreateReferredClient(r) PROVE Goal
    <2>1. Sole(r) /\ request'[r].op = "referring" /\ Holds(r, "capturing")
      BY <1>4, CaptureEffect
    <2>2. RequestStep(r)
      BY <1>4, <2>1 DEF RequestStep, Holds
    <2> QED
      BY <1>1, <2>1, <2>2
  <1>5. ASSUME NEW r \in Requests,
               \/ Create(r) \/ Import(r) \/ Update(r) \/ Anonymize(r) \/ Delete(r) \/ SetLink(r) \/ Convert(r)
        PROVE  Goal
    <2>1. /\ Sole(r) /\ request'[r] = Idle
          /\ \/ Holds(r, "creating") \/ Holds(r, "importing") \/ Holds(r, "updating")
             \/ Holds(r, "anonymizing") \/ Holds(r, "deleting") \/ Holds(r, "linking") \/ Holds(r, "rewarding")
      BY <1>5, CreateEffect, ImportEffect, UpdateEffect, AnonymizeEffect, DeleteEffect, SetLinkEffect, ConvertEffect
    <2>2. RequestStep(r)
      BY <1>0, <2>1 DEF RequestStep, Holds
    <2> QED
      BY <1>1, <2>1, <2>2
  <1>6. CASE (\E s \in Setups : UpdateSettings(s)) \/ UNCHANGED vars
    <2>1. UNCHANGED request
      BY <1>6, SettingsEffect
    <2> QED
      BY <2>1 DEF RequestStep
  <1> QED
    BY <1>2, <1>3, <1>4, <1>5, <1>6, StepsThereAre

(* What becomes of a referral.                                                 *)
ReferralStep(j) ==
  \/ referral'[j] = referral[j]
  \/ /\ referral'[j] = NoReferral
     /\ client'[j] = NoRow \/ (referral[j].referrer \in Ids /\ client'[referral[j].referrer] = NoRow)
  \/ \E r \in Requests : CreateReferral(r) /\ request[r].row = j
  \/ /\ referral[j].status = "pending" /\ referral'[j].status = "converted"
     /\ referral'[j].referrer = referral[j].referrer

LEMMA ReferralSteps ==
  ASSUME TypeOK, [Next]_vars
  PROVE  \A j \in Ids : ReferralStep(j)
  <1> DEFINE Goal == \A j \in Ids : ReferralStep(j)
  <1>1. ASSUME referral' = referral PROVE Goal
    BY <1>1 DEF ReferralStep
  <1>2. ASSUME NEW r \in Requests,
               \/ Start(r) \/ Refuse(r) \/ Fail(r) \/ Create(r) \/ CreateReferredClient(r) \/ Import(r)
               \/ Update(r) \/ Anonymize(r) \/ SetLink(r)
        PROVE  Goal
    <2>1. referral' = referral
      BY <1>2, StartEffect, RefuseEffect, FailEffect, CreateEffect, CaptureEffect, ImportEffect, UpdateEffect,
         AnonymizeEffect, SetLinkEffect DEF Begun, rows
    <2> QED
      BY <1>1, <2>1
  <1>3. ASSUME NEW r \in Requests, Delete(r) PROVE Goal
    <2>1. PICK i \in Ids : i = request[r].row /\ client'[i] = NoRow
      BY <1>3, DeleteEffect DEF RowWritten
    <2>2. \A j \in Ids : referral'[j] = IF j = i \/ referral[j].referrer = i THEN NoReferral ELSE referral[j]
      BY <1>3, <2>1, DeleteEffect
    <2> QED
      BY <2>1, <2>2 DEF ReferralStep
  <1>4. ASSUME NEW r \in Requests, CreateReferral(r) PROVE Goal
    BY <1>4, CreateReferralEffect DEF ReferralStep
  <1>5. ASSUME NEW r \in Requests, Convert(r) PROVE Goal
    BY <1>5, ConvertEffect DEF ReferralStep
  <1>6. CASE (\E s \in Setups : UpdateSettings(s)) \/ UNCHANGED vars
    BY <1>1, <1>6, SettingsEffect DEF rows
  <1> QED
    BY <1>2, <1>3, <1>4, <1>5, <1>6, StepsThereAre

(* The link that is handed out.                                                *)
LEMMA LinkEffect ==
  ASSUME TypeOK, NEW r \in Requests, SetLink(r)
  PROVE  \E new : /\ handed' = handed \cup {new}
                  /\ new.kind = request[r].kind /\ new.row = request[r].row /\ new.link = drawn'
                  /\ ~new.contested => \A q \in Requests \ {r} : request[q] # request[r]
  <1>1. PICK c \in BOOLEAN : c <=> \E q \in Requests \ {r} : request[q] = request[r]
    OBVIOUS
  <1>2. PICK new : new = [kind |-> request[r].kind, link |-> drawn', row |-> request[r].row, contested |-> c]
    OBVIOUS
  <1>3. handed' = handed \cup {new}
    BY <1>1, <1>2 DEF SetLink
  <1>4. /\ new.kind = request[r].kind /\ new.row = request[r].row /\ new.link = drawn'
        /\ new.contested = c
    BY <1>2
  <1> QED
    BY <1>1, <1>3, <1>4

(* Only the writing of a link hands one out.                                   *)
LEMMA HandedStep ==
  ASSUME TypeOK, [Next]_vars
  PROVE  \/ UNCHANGED <<handed, drawn>>
         \/ \E r \in Requests : SetLink(r)
  <1>1. ASSUME NEW r \in Requests,
               \/ Start(r) \/ Refuse(r) \/ Fail(r) \/ Create(r) \/ CreateReferredClient(r) \/ Import(r)
               \/ Update(r) \/ Anonymize(r) \/ Delete(r) \/ CreateReferral(r) \/ Convert(r)
        PROVE  UNCHANGED <<handed, drawn>>
    BY <1>1, StartEffect, RefuseEffect, FailEffect, CreateEffect, CaptureEffect, ImportEffect, UpdateEffect,
       AnonymizeEffect, DeleteEffect, CreateReferralEffect, ConvertEffect DEF Begun
  <1> QED
    BY <1>1, SettingsEffect, StepsThereAre

LEMMA RowsAreMadeStep ==
  ASSUME TypeOK, RowsAreMade, [Next]_vars
  PROVE  RowsAreMade'
  <1>1. /\ TypeOK' /\ made \in Nat /\ made' \in Nat /\ made <= made' /\ Ids \subseteq Nat
        /\ \A i \in Ids : RowStep(i) /\ ReferralStep(i)
        /\ \A r \in Requests : RequestStep(r)
    BY TypeStep, RequestSteps, ReferralSteps, Numbers
  <1>7. \A x \in Ids : x <= made => x <= made'
    BY <1>1
  <1>2. ASSUME NEW i \in Ids, referral'[i] # NoReferral PROVE i <= made'
    <2>1. referral[i] # NoReferral \/ \E r \in Requests : CreateReferral(r) /\ request[r].row = i
      BY <1>1, <1>2 DEF ReferralStep, NoReferral
    <2>2. i <= made
      BY <2>1, CreateReferralEffect DEF RowsAreMade
    <2> QED
      BY <1>7, <2>2
  <1>3. ASSUME NEW i \in Ids, client'[i] # NoRow, client'[i].referredBy # None
        PROVE  client'[i].referredBy <= made'
    <2>1. client'[i].referredBy \in Ids
      BY <1>1, <1>3, Types, RowTypes DEF AnyRow, TypeOK
    <2>2. client'[i].referredBy <= made
      BY <1>1, <1>3 DEF RowStep, RowsAreMade, Captured
    <2> QED
      BY <1>7, <2>1, <2>2
  <1>4. ASSUME NEW h \in handed' PROVE h.row <= made'
    <2>1. h.row \in Ids
      BY <1>1 DEF TypeOK
    <2>2. h.row <= made
      <3>1. CASE h \in handed
        BY <3>1 DEF RowsAreMade
      <3>2. ASSUME NEW r \in Requests, SetLink(r), h \notin handed PROVE h.row <= made
        <4>1. Holds(r, "linking") /\ h.row = request[r].row
          <5>1. Holds(r, "linking")
            BY <3>2, SetLinkEffect
          <5>2. PICK new : handed' = handed \cup {new} /\ new.row = request[r].row
            BY <3>2, LinkEffect
          <5>3. h = new
            BY <1>4, <3>2, <5>2
          <5> QED
            BY <5>1, <5>2, <5>3
        <4> QED
          BY <4>1 DEF RowsAreMade
      <3> QED
        BY <1>4, <3>1, <3>2, HandedStep
    <2> QED
      BY <1>7, <2>1, <2>2
  <1>5. ASSUME NEW r \in Requests, request'[r].op \in {"linking", "referring"} PROVE request'[r].row <= made'
    <2>1. CASE request'[r].op = "linking"
      <3>1. request'[r].row <= made /\ request'[r].row \in Ids
        BY <1>1, <2>1, RequestTypes DEF RequestStep, RowsAreMade, Holds
      <3> QED
        BY <1>7, <3>1
    <2>2. CASE request'[r] = request[r] /\ Holds(r, "referring")
      <3>1. request'[r].row <= made /\ request'[r].row \in Ids
        BY <2>2, RequestTypes DEF RowsAreMade
      <3> QED
        BY <1>7, <3>1
    <2>3. CASE CreateReferredClient(r)
      BY <1>1, <2>3, CaptureEffect
    <2> QED
      BY <1>1, <1>5, <2>1, <2>2, <2>3 DEF RequestStep, Holds
  <1>6. ASSUME NEW r \in Requests, request'[r].op \in {"capturing", "referring"} PROVE request'[r].referrer <= made'
    <2>1. CASE request'[r].op = "capturing"
      <3>1. request'[r].referrer \in Ids
        BY <1>1, <2>1 DEF TypeOK, HeldOK, Idle
      <3>2. request'[r].referrer <= made
        BY <1>1, <2>1 DEF RequestStep, RowsAreMade, Holds
      <3> QED
        BY <1>7, <3>1, <3>2
    <2>2. CASE request'[r] = request[r] /\ Holds(r, "referring")
      <3>1. request'[r].referrer <= made /\ request'[r].referrer \in Ids
        BY <2>2, RequestTypes DEF RowsAreMade
      <3> QED
        BY <1>7, <3>1
    <2>3. CASE CreateReferredClient(r)
      <3>1. request'[r].referrer \in Ids /\ request'[r].referrer <= made
        BY <2>3, CaptureEffect DEF RowsAreMade
      <3> QED
        BY <1>7, <3>1
    <2> QED
      BY <1>1, <1>6, <2>1, <2>2, <2>3 DEF RequestStep, Holds
  <1> QED
    BY <1>2, <1>3, <1>4, <1>5, <1>6 DEF RowsAreMade, There, Holds

(* The row of a request to refer, before the step and after.                   *)
LEMMA ReferringStep ==
  ASSUME TypeOK, RowsAreMade, [Next]_vars, NEW r \in Requests, request'[r].op = "referring"
  PROVE  \/ /\ request'[r] = request[r] /\ Holds(r, "referring")
            /\ request[r].row \in Ids /\ request[r].row <= made
         \/ /\ CreateReferredClient(r) /\ Sole(r)
            /\ request'[r].row = made + 1 /\ made + 1 \in Ids /\ referral' = referral
            /\ referral[made + 1] = NoReferral
            /\ client'[made + 1] # NoRow /\ client'[made + 1].referredBy = request'[r].referrer
  <1>1. RequestStep(r)
    BY RequestSteps
  <1>2. CASE request'[r] = request[r]
    BY <1>2, RequestTypes DEF RowsAreMade, Holds
  <1>3. CASE CreateReferredClient(r)
    <2>1. /\ Sole(r) /\ request'[r].row = made' /\ made' = made + 1 /\ made' \in Ids /\ referral' = referral
          /\ request[r].phone \in People /\ request[r].referrer \in Ids
          /\ IsNew(client'[made'], request[r].phone, request[r].referrer)
          /\ request'[r].referrer = request[r].referrer
      BY <1>3, CaptureEffect
    <2>2. referral[made + 1] = NoReferral
      BY <2>1, Types, Numbers DEF RowsAreMade
    <2>3. PICK p \in People, by \in Ids \cup {None} : p = request[r].phone /\ by = request[r].referrer
      BY <2>1
    <2>4. IsNew(client'[made + 1], p, by) /\ request'[r].referrer = by
      BY <2>1, <2>3
    <2> QED
      BY <1>3, <2>1, <2>2, <2>4 DEF IsNew
  <1> QED
    BY <1>1, <1>2, <1>3 DEF RequestStep

LEMMA ReferralsAreTrueStep ==
  ASSUME TypeOK, RowsAreMade, ReferralsAreTrue, [Next]_vars
  PROVE  ReferralsAreTrue'
  <1>1. /\ made \in Nat /\ Ids \subseteq Nat
        /\ \A i \in Ids : RowStep(i) /\ ReferralStep(i)
        /\ \A r \in Requests : RequestStep(r)
    BY TypeStep, RequestSteps, ReferralSteps, Numbers
  <1>2. ASSUME NEW i \in Ids, client'[i] # NoRow, referral'[i] # NoReferral
        PROVE  client'[i].referredBy = referral'[i].referrer
    <2>1. referral[i] # NoReferral \/ \E r \in Requests : CreateReferral(r) /\ request[r].row = i
      BY <1>1, <1>2 DEF ReferralStep, NoReferral
    <2>2. i <= made
      BY <2>1, CreateReferralEffect DEF RowsAreMade
    <2>3. There(i) /\ client'[i].referredBy = client[i].referredBy
      BY <1>1, <1>2, <2>2 DEF RowStep
    <2>4. CASE \E r \in Requests : CreateReferral(r) /\ request[r].row = i
      <3>1. PICK r \in Requests : CreateReferral(r) /\ request[r].row = i
        BY <2>4
      <3>2. Holds(r, "referring") /\ referral'[i].referrer = request[r].referrer
        BY <3>1, CreateReferralEffect
      <3>3. client[i].referredBy = request[r].referrer
        BY <2>3, <3>1, <3>2 DEF ReferralsAreTrue
      <3> QED
        BY <2>3, <3>2, <3>3
    <2>5. CASE referral[i] # NoReferral /\ ~ \E r \in Requests : CreateReferral(r) /\ request[r].row = i
      <3>1. referral'[i].referrer = referral[i].referrer
        BY <1>1, <1>2, <2>5 DEF ReferralStep
      <3>2. client[i].referredBy = referral[i].referrer
        BY <2>3, <2>5 DEF ReferralsAreTrue
      <3> QED
        BY <2>3, <3>1, <3>2
    <2> QED
      BY <2>1, <2>4, <2>5
  <1>3. ASSUME NEW r \in Requests, request'[r].op = "referring"
        PROVE  /\ referral'[request'[r].row] = NoReferral
               /\ client'[request'[r].row] # NoRow => client'[request'[r].row].referredBy = request'[r].referrer
    <2>1. CASE /\ request'[r] = request[r] /\ Holds(r, "referring")
               /\ request[r].row \in Ids /\ request[r].row <= made
      <3>1. PICK i \in Ids : i = request[r].row /\ i <= made
        BY <2>1
      <3>2. referral[i] = NoReferral /\ (There(i) => client[i].referredBy = request[r].referrer)
        BY <2>1, <3>1 DEF ReferralsAreTrue
      <3>3. ASSUME NEW q \in Requests, CreateReferral(q), request[q].row = i PROVE FALSE
        <4>1. Holds(q, "referring") /\ request'[q] = Idle
          BY <3>3, CreateReferralEffect
        <4>2. q # r
          BY <1>3, <4>1 DEF Idle
        <4> QED
          BY <2>1, <3>1, <3>3, <4>1, <4>2 DEF ReferralsAreTrue
      <3>4. referral'[i] = NoReferral
        BY <1>1, <3>2, <3>3 DEF ReferralStep, NoReferral
      <3>5. client'[i] # NoRow => There(i) /\ client'[i].referredBy = client[i].referredBy
        BY <1>1, <3>1 DEF RowStep
      <3> QED
        BY <2>1, <3>1, <3>2, <3>4, <3>5
    <2>2. CASE CreateReferredClient(r)
      BY <1>3, <2>2, ReferringStep, RequestTypes, CaptureEffect DEF Holds
    <2> QED
      BY <1>3, <2>1, <2>2, ReferringStep
  <1>4. ASSUME NEW r \in Requests, request'[r].op = "referring",
               NEW q \in Requests \ {r}, request'[q].op = "referring"
        PROVE  request'[q].row # request'[r].row
    <2>1. CASE request'[r] = request[r] /\ request'[q] = request[q]
      BY <1>4, <2>1 DEF ReferralsAreTrue, Holds
    <2>2. ASSUME NEW a \in Requests, NEW b \in Requests \ {a}, CreateReferredClient(a),
                 request'[a].op = "referring", request'[b].op = "referring"
          PROVE  request'[b].row # request'[a].row
      <3>1. request'[a].row = made + 1 /\ Sole(a)
        BY <2>2, CaptureEffect
      <3>2. request'[b] = request[b]
        BY <3>1 DEF Sole
      <3>3. request[b].row \in Ids /\ request[b].row <= made
        BY <2>2, <3>2, RequestTypes DEF RowsAreMade, Holds
      <3> QED
        BY <1>1, <3>1, <3>2, <3>3
    <2> QED
      BY <1>4, <2>1, <2>2, ReferringStep
  <1> QED
    BY <1>2, <1>3, <1>4 DEF ReferralsAreTrue, There, Holds

(* A friend whom nobody is rewarded for is one whose capture failed.           *)
LEMMA UnreferredStep ==
  ASSUME TypeOK, RowsAreMade, ReferralsAreTrue, Cardinality(Unreferred) <= failures, [Next]_vars
  PROVE  Cardinality(Unreferred') <= failures'
  <1>1. /\ TypeOK' /\ made \in Nat /\ Ids \subseteq Nat /\ failures \in Nat
        /\ \A i \in Ids : RowStep(i) /\ ReferralStep(i)
        /\ \A r \in Requests : RequestStep(r)
    BY TypeStep, RequestSteps, ReferralSteps, Numbers, Types
  <1>2. IsFiniteSet(Unreferred) /\ Cardinality(Unreferred) \in Nat
    BY Numbers, FS_Subset, FS_CardinalityType DEF Unreferred
  <1>3. ASSUME NEW i \in Unreferred'
        PROVE  i \in Unreferred \/ \E r \in Requests : Fail(r) /\ i = request[r].row
    <2>1. /\ i \in Ids /\ client'[i] # NoRow /\ client'[i].referredBy # None
          /\ client'[client'[i].referredBy] # NoRow /\ referral'[i] = NoReferral
          /\ \A r \in Requests : request'[r] # Idle /\ request'[r].op = "referring" => request'[r].row # i
      BY <1>3 DEF Unreferred, There
    <2>2. There(i)
      <3>1. ~Captured(i, client'[i].referredBy)
        BY <2>1 DEF Captured, Idle
      <3> QED
        BY <1>1, <2>1, <3>1 DEF RowStep
    <2>3. PICK b \in Ids : b = client'[i].referredBy
      BY <1>1, <2>1, Types, RowTypes DEF AnyRow, TypeOK
    <2>4. client[i].referredBy = b /\ client'[b] # NoRow
      BY <1>1, <2>1, <2>2, <2>3 DEF RowStep
    <2>5. There(b)
      <3>1. b <= made
        BY <2>1, <2>2, <2>3, <2>4 DEF RowsAreMade
      <3> QED
        BY <1>1, <2>4, <3>1 DEF RowStep
    <2>6. referral[i] = NoReferral
      <3>1. referral[i] # NoReferral => referral[i].referrer = b
        BY <2>1, <2>2, <2>4 DEF ReferralsAreTrue
      <3>2. ~ \E r \in Requests : CreateReferral(r) /\ request[r].row = i
        BY <2>1, CreateReferralEffect
      <3>3. referral'[i].status # "converted"
        BY <2>1 DEF NoReferral
      <3>4. ASSUME referral[i] # NoReferral PROVE client'[referral[i].referrer] = NoRow
        BY <1>1, <2>1, <3>2, <3>3, <3>4 DEF ReferralStep
      <3> QED
        BY <2>4, <3>1, <3>4
    <2>7. ASSUME NEW r \in Requests, Holds(r, "referring"), request[r].row = i
          PROVE  Fail(r)
      <3>1. request'[r] # request[r]
        BY <2>1, <2>7 DEF Holds, Idle
      <3>2. ~CreateReferral(r)
        BY <2>1, <2>7, CreateReferralEffect
      <3>3. request[r].referrer = b
        BY <2>2, <2>4, <2>7 DEF ReferralsAreTrue
      <3>4. ~Refuse(r)
        BY <2>2, <2>5, <2>7, <3>3, RefuseEffect
      <3> QED
        BY <1>1, <2>7, <3>1, <3>2, <3>4 DEF RequestStep
    <2> QED
      BY <2>1, <2>2, <2>3, <2>4, <2>5, <2>6, <2>7 DEF Unreferred, Holds
  <1>4. CASE \E r \in Requests : Fail(r)
    <2>1. PICK r \in Requests : Fail(r)
      BY <1>4
    <2>2. failures' = failures + 1 /\ Sole(r)
      BY <2>1, FailEffect
    <2>0. PICK x : x = request[r].row
      OBVIOUS
    <2>3. Unreferred' \subseteq Unreferred \cup {x}
      <3>1. ASSUME NEW q \in Requests, Fail(q), q # r PROVE FALSE
        <4>1. request'[q] = request[q] /\ request'[q] = Idle /\ request[q] # Idle
          BY <2>2, <3>1, FailEffect DEF Sole, Fail
        <4> QED
          BY <4>1
      <3> QED
        BY <1>3, <2>0, <3>1
    <2>4. /\ IsFiniteSet(Unreferred \cup {x}) /\ Cardinality(Unreferred \cup {x}) \in Nat
          /\ Cardinality(Unreferred \cup {x}) <= Cardinality(Unreferred) + 1
      BY <1>2, FS_AddElement, FS_CardinalityType
    <2>5. IsFiniteSet(Unreferred') /\ Cardinality(Unreferred') \in Nat
          /\ Cardinality(Unreferred') <= Cardinality(Unreferred \cup {x})
      BY <2>3, <2>4, FS_Subset, FS_CardinalityType
    <2> QED
      BY <1>1, <1>2, <2>2, <2>4, <2>5
  <1>5. CASE ~ \E r \in Requests : Fail(r)
    <2>1. failures' = failures
      BY <1>5, StepsThereAre, StartEffect, RefuseEffect, CreateEffect, CaptureEffect, ImportEffect, UpdateEffect,
         AnonymizeEffect, DeleteEffect, SetLinkEffect, CreateReferralEffect, ConvertEffect, SettingsEffect DEF Begun
    <2>2. Unreferred' \subseteq Unreferred
      BY <1>3, <1>5
    <2>3. IsFiniteSet(Unreferred') /\ Cardinality(Unreferred') \in Nat
          /\ Cardinality(Unreferred') <= Cardinality(Unreferred)
      BY <1>2, <2>2, FS_Subset, FS_CardinalityType
    <2> QED
      BY <1>1, <1>2, <2>1, <2>3
  <1> QED
    BY <1>4, <1>5

(* A telephone is kept, or is given up by the one row that is written.         *)
LEMMA PhoneStep ==
  ASSUME TypeOK, [Next]_vars
  PROVE  \/ /\ freed' = freed
            /\ \A i \in Ids : There(i) => client'[i] # NoRow /\ client'[i].phone = client[i].phone
         \/ \E i \in Ids : RowWritten(i)
  <1> DEFINE Kept == /\ freed' = freed
                     /\ \A i \in Ids : There(i) => client'[i] # NoRow /\ client'[i].phone = client[i].phone
  <1>1. ASSUME freed' = freed, client' = client PROVE Kept
    BY <1>1 DEF There
  <1>2. ASSUME NEW r \in Requests, Start(r) \/ Refuse(r) \/ Fail(r) \/ CreateReferral(r) \/ Convert(r)
        PROVE  Kept
    <2>1. freed' = freed /\ client' = client
      BY <1>2, StartEffect, RefuseEffect, FailEffect, CreateReferralEffect, ConvertEffect DEF Begun, rows, ghosts
    <2> QED
      BY <1>1, <2>1
  <1>3. ASSUME NEW r \in Requests, Create(r) \/ CreateReferredClient(r) PROVE Kept
    <2>1. freed' = freed /\ ~There(made') /\ \A i \in Ids \ {made'} : client'[i] = client[i]
      BY <1>3, CreateEffect, CaptureEffect DEF ghosts
    <2> QED
      BY <2>1 DEF There
  <1>4. ASSUME NEW r \in Requests, Import(r) PROVE Kept
    <2>1. freed' = freed
      BY <1>4, ImportEffect DEF ghosts
    <2>2. ASSUME NEW i \in Ids, There(i) PROVE client'[i] # NoRow /\ client'[i].phone = client[i].phone
      <3>1. client[i] \in ClientRows /\ i \in Nat /\ i <= made /\ made \in Nat
        BY <2>2, Types, Numbers
      <3>2. client'[i] = client[i] \/ StaysOf(client'[i], client[i])
        BY <1>4, <3>1, ImportEffect
      <3> QED
        BY <2>2, <3>1, <3>2 DEF There, StaysOf
    <2> QED
      BY <2>1, <2>2
  <1>5. ASSUME NEW r \in Requests, SetLink(r) PROVE Kept
    <2>1. PICK i \in Ids, k \in Kinds : i = request[r].row /\ k = request[r].kind
      BY <1>5, SetLinkEffect
    <2>2. /\ freed' = freed /\ \A j \in Ids \ {i} : client'[j] = client[j]
          /\ There(i) => client'[i] # NoRow /\ client'[i] = [client[i] EXCEPT !.links[k] = drawn']
      BY <1>5, <2>1, SetLinkEffect DEF ghosts
    <2>3. There(i) => client'[i].phone = client[i].phone
      BY <2>2, Types, RowTypes DEF AnyRow
    <2> QED
      BY <2>2, <2>3 DEF There
  <1>6. ASSUME NEW r \in Requests, Update(r) \/ Anonymize(r) \/ Delete(r) PROVE \E i \in Ids : RowWritten(i)
    <2>1. RowWritten(request[r].row)
      BY <1>6, UpdateEffect, AnonymizeEffect, DeleteEffect
    <2> QED
      BY <2>1 DEF RowWritten
  <1>7. CASE (\E s \in Setups : UpdateSettings(s)) \/ UNCHANGED vars
    <2>1. freed' = freed /\ client' = client
      BY <1>7, SettingsEffect DEF rows, ghosts
    <2> QED
      BY <1>1, <2>1
  <1> QED
    BY <1>2, <1>3, <1>4, <1>5, <1>6, <1>7, StepsThereAre

(* How many rewards of a telephone its rows account for.                       *)
Covered(p) == freed[p] + IF Taken(p) THEN 1 ELSE 0

LEMMA CoverStep ==
  ASSUME TypeOK, [Next]_vars, NEW p \in People
  PROVE  /\ Covered(p) \in Nat /\ Covered(p)' \in Nat /\ Covered(p) <= Covered(p)'
         /\ freed[p] \in Nat /\ freed'[p] \in Nat /\ freed[p] <= freed'[p]
  <1>1. freed[p] \in Nat /\ freed'[p] \in Nat
    BY Types, TypeStep DEF TypeOK
  <1>2. PICK c \in {0, 1}, d \in {0, 1} : /\ c = IF Taken(p) THEN 1 ELSE 0
                                          /\ d = IF Taken(p)' THEN 1 ELSE 0
    OBVIOUS
  <1>3. Covered(p) = freed[p] + c /\ Covered(p)' = freed'[p] + d
    BY <1>2 DEF Covered
  <1>4. ASSUME NEW i \in Ids, client'[i] # NoRow, client'[i].phone = p PROVE Taken(p)'
    BY <1>4 DEF Taken, Has, There
  <1>5. freed[p] <= freed'[p] /\ (c = 1 /\ d = 0 => freed[p] + 1 <= freed'[p])
    <2>1. CASE ~Taken(p) \/ Taken(p)'
      <3>1. freed[p] <= freed'[p]
        BY <1>1, PhoneStep DEF RowWritten
      <3> QED
        BY <1>2, <2>1, <3>1
    <2>2. CASE Taken(p) /\ ~Taken(p)'
      <3>1. PICK i \in Ids : There(i) /\ client[i].phone = p
        BY <2>2 DEF Taken, Has
      <3>2. ~(client'[i] # NoRow /\ client'[i].phone = p)
        BY <1>4, <2>2
      <3>3. PICK j \in Ids : RowWritten(j)
        BY <3>1, <3>2, PhoneStep
      <3>4. j = i
        BY <3>1, <3>2, <3>3 DEF RowWritten, There
      <3>5. client'[i].phone # p
        BY <3>2, NoRowType, Numbers
      <3>6. freed'[p] = freed[p] + 1
        BY <3>1, <3>3, <3>4, <3>5 DEF RowWritten
      <3> QED
        BY <1>1, <3>6
    <2> QED
      BY <2>1, <2>2
  <1> QED
    BY <1>1, <1>2, <1>3, <1>5

LEMMA UnrewardedIsFinite ==
  ASSUME TypeOK, NEW p \in People
  PROVE  /\ IsFiniteSet(Unrewarded(p)) /\ Cardinality(Unrewarded(p)) \in Nat /\ grants[p] \in Nat
         /\ Unrewarded(p) \subseteq Ids
  BY Numbers, Types, FS_Subset, FS_CardinalityType DEF Unrewarded

(* Only a capture adds to the rewards that are to come, and a conversion takes *)
(* one from them.                                                              *)
LEMMA UnrewardedStep ==
  ASSUME TypeOK, RowsAreMade, ReferralsAreTrue, [Next]_vars, NEW p \in People, NEW i \in Unrewarded(p)'
  PROVE  \/ i \in Unrewarded(p)
         \/ \E r \in Requests : CreateReferredClient(r) /\ request[r].phone = p /\ i = made'
  <1>1. i \in Ids /\ ReferralStep(i)
    BY ReferralSteps DEF Unrewarded
  <1>2. CASE referral'[i].status = "pending" /\ referral'[i].friend = p
    <2>1. referral'[i] = referral[i] \/ \E r \in Requests : CreateReferral(r) /\ request[r].row = i
      BY <1>1, <1>2 DEF ReferralStep, NoReferral
    <2>2. ASSUME NEW r \in Requests, CreateReferral(r), request[r].row = i PROVE i \in Unrewarded(p)
      <3>1. Holds(r, "referring") /\ request[r].phone = p
        BY <1>2, <2>2, CreateReferralEffect
      <3> QED
        BY <1>1, <2>2, <3>1 DEF Unrewarded
    <2> QED
      BY <1>1, <1>2, <2>1, <2>2 DEF Unrewarded
  <1>3. CASE \E r \in Requests : request'[r].op = "referring" /\ request'[r].row = i /\ request'[r].phone = p
    <2>1. PICK r \in Requests : request'[r].op = "referring" /\ request'[r].row = i /\ request'[r].phone = p
      BY <1>3
    <2>2. CASE request'[r] = request[r]
      BY <1>1, <2>1, <2>2 DEF Unrewarded, Holds
    <2>3. CASE CreateReferredClient(r)
      BY <2>1, <2>3, CaptureEffect
    <2> QED
      BY <2>1, <2>2, <2>3, ReferringStep
  <1> QED
    BY <1>2, <1>3 DEF Unrewarded, Holds

LEMMA FriendsAccountedForStep ==
  ASSUME TypeOK, RowsAreMade, ReferralsAreTrue, FriendsAccountedFor, [Next]_vars
  PROVE  FriendsAccountedFor'
  <1> SUFFICES ASSUME NEW p \in People
               PROVE  grants'[p] + Cardinality(Unrewarded(p)') <= Covered(p)'
    BY DEF FriendsAccountedFor, Covered
  <1>0. TypeOK'
    BY TypeStep
  <1>1. /\ IsFiniteSet(Unrewarded(p)) /\ Cardinality(Unrewarded(p)) \in Nat /\ grants[p] \in Nat
        /\ Covered(p) \in Nat /\ Covered(p)' \in Nat /\ Covered(p) <= Covered(p)'
        /\ freed[p] \in Nat /\ freed'[p] \in Nat /\ freed[p] <= freed'[p]
    BY UnrewardedIsFinite, CoverStep
  <1>2. IsFiniteSet(Unrewarded(p)') /\ Cardinality(Unrewarded(p)') \in Nat /\ grants'[p] \in Nat
    <2>1. Unrewarded(p)' \subseteq Ids
      BY DEF Unrewarded
    <2> QED
      BY <1>0, <2>1, Numbers, FS_Subset, FS_CardinalityType DEF TypeOK
  <1>3. grants[p] + Cardinality(Unrewarded(p)) <= Covered(p)
    BY DEF FriendsAccountedFor, Covered
  <1>4. ASSUME grants'[p] = grants[p], Unrewarded(p)' \subseteq Unrewarded(p)
        PROVE  grants'[p] + Cardinality(Unrewarded(p)') <= Covered(p)'
    <2>1. Cardinality(Unrewarded(p)') <= Cardinality(Unrewarded(p))
      BY <1>1, <1>4, FS_Subset
    <2> QED
      BY <1>1, <1>2, <1>3, <1>4, <2>1
  <1>5. ASSUME NEW r \in Requests, CreateReferredClient(r), request[r].phone = p
        PROVE  grants'[p] + Cardinality(Unrewarded(p)') <= Covered(p)'
    <2>1. /\ ~Taken(p) /\ grants'[p] = grants[p] /\ made' \in Ids
          /\ \E by \in Ids : IsNew(client'[made'], p, by)
      BY <1>5, CaptureEffect DEF ghosts
    <2>2. Taken(p)'
      <3>1. PICK by \in Ids : IsNew(client'[made'], p, by)
        BY <2>1
      <3> QED
        BY <2>1, <3>1 DEF IsNew, Taken, Has, There
    <2>3. Covered(p) = freed[p] /\ Covered(p)' = freed'[p] + 1
      BY <1>1, <2>1, <2>2 DEF Covered
    <2>4. PICK x : x = made'
      OBVIOUS
    <2>5. Unrewarded(p)' \subseteq Unrewarded(p) \cup {x}
      <3>1. ASSUME NEW q \in Requests, CreateReferredClient(q) PROVE q = r
        <4>1. request'[q] # request[q] /\ Sole(r)
          BY <1>5, <3>1, CaptureEffect DEF Holds
        <4> QED
          BY <4>1 DEF Sole
      <3> QED
        BY <2>4, <3>1, UnrewardedStep
    <2>6. /\ IsFiniteSet(Unrewarded(p) \cup {x}) /\ Cardinality(Unrewarded(p) \cup {x}) \in Nat
          /\ Cardinality(Unrewarded(p) \cup {x}) <= Cardinality(Unrewarded(p)) + 1
      <3>1. PICK S : S = Unrewarded(p) /\ IsFiniteSet(S) /\ Cardinality(S) \in Nat
        BY <1>1
      <3>2. /\ IsFiniteSet(S \cup {x})
            /\ Cardinality(S \cup {x}) = Cardinality(S) \/ Cardinality(S \cup {x}) = Cardinality(S) + 1
        BY <3>1, FS_AddElement
      <3>3. Cardinality(S \cup {x}) \in Nat
        BY <3>2, FS_CardinalityType
      <3> QED
        BY <3>1, <3>2, <3>3
    <2>7. Cardinality(Unrewarded(p)') <= Cardinality(Unrewarded(p) \cup {x})
      BY <2>5, <2>6, FS_Subset
    <2> QED
      BY <1>1, <1>2, <1>3, <2>1, <2>3, <2>6, <2>7
  <1>6. ASSUME NEW r \in Requests, Convert(r), grants'[p] # grants[p]
        PROVE  grants'[p] + Cardinality(Unrewarded(p)') <= Covered(p)'
    <2>1. PICK i \in Ids : i = request[r].row
      BY <1>6, ConvertEffect
    <2>2. /\ referral[i].status = "pending" /\ referral'[i].status = "converted"
          /\ grants' = [grants EXCEPT ![referral[i].friend] = @ + 1] /\ Sole(r) /\ request'[r] = Idle
      BY <1>6, <2>1, ConvertEffect
    <2>3. referral[i].friend = p /\ grants'[p] = grants[p] + 1
      BY <1>6, <2>2, Types
    <2>4. i \in Unrewarded(p)
      BY <2>1, <2>2, <2>3 DEF Unrewarded
    <2>5. i \notin Unrewarded(p)'
      <3>1. referral[i] # NoReferral
        BY <2>2 DEF NoReferral
      <3>2. ASSUME NEW q \in Requests, request'[q].op = "referring", request'[q].row = i PROVE FALSE
        <4>1. request'[q] = request[q]
          BY <2>2, <3>2 DEF Sole, Idle
        <4> QED
          BY <3>1, <3>2, <4>1 DEF ReferralsAreTrue, Holds
      <3> QED
        BY <2>2, <3>2 DEF Unrewarded, Holds
    <2>6. Unrewarded(p)' \subseteq Unrewarded(p) \ {i}
      <3>1. ASSUME NEW q \in Requests, CreateReferredClient(q) PROVE FALSE
        <4>1. request'[q] # request[q] /\ request'[q] # Idle /\ Sole(q)
          BY <3>1, CaptureEffect DEF Holds, Idle
        <4> QED
          BY <2>2, <4>1 DEF Sole
      <3> QED
        BY <2>5, <3>1, UnrewardedStep
    <2>7. /\ IsFiniteSet(Unrewarded(p) \ {i}) /\ Cardinality(Unrewarded(p) \ {i}) \in Nat
          /\ Cardinality(Unrewarded(p) \ {i}) = Cardinality(Unrewarded(p)) - 1
      BY <1>1, <2>4, FS_RemoveElement, FS_CardinalityType
    <2>8. Cardinality(Unrewarded(p)') <= Cardinality(Unrewarded(p) \ {i})
      BY <2>6, <2>7, FS_Subset
    <2> QED
      BY <1>1, <1>2, <1>3, <2>3, <2>7, <2>8
  <1>7. grants'[p] = grants[p] \/ \E r \in Requests : Convert(r)
    BY StepsThereAre, StartEffect, RefuseEffect, FailEffect, CreateEffect, CaptureEffect, ImportEffect, UpdateEffect,
       AnonymizeEffect, DeleteEffect, SetLinkEffect, CreateReferralEffect, SettingsEffect DEF Begun, ghosts
  <1>8. CASE /\ grants'[p] = grants[p]
             /\ ~ \E r \in Requests : CreateReferredClient(r) /\ request[r].phone = p
    BY <1>4, <1>8, UnrewardedStep
  <1> QED
    BY <1>5, <1>6, <1>7, <1>8

(* A client keeps the links they have, but for the one that is written.        *)
LEMMA LinksStep ==
  ASSUME TypeOK, [Next]_vars, NEW i \in Ids, There(i), client'[i] # NoRow
  PROVE  \/ client'[i].links = client[i].links
         \/ \E r \in Requests :
              /\ SetLink(r) /\ request[r].row = i
              /\ client'[i].links = [client[i].links EXCEPT ![request[r].kind] = drawn']
  <1>0. client[i] \in ClientRows
    BY Types
  <1>1. ASSUME NEW r \in Requests, Create(r) \/ CreateReferredClient(r) PROVE client'[i].links = client[i].links
    BY <1>1, CreateEffect, CaptureEffect
  <1>2. ASSUME NEW r \in Requests, Import(r) PROVE client'[i].links = client[i].links
    <2>1. i \in Nat /\ i <= made /\ made \in Nat
      BY Types, Numbers
    <2>2. client'[i] = client[i] \/ StaysOf(client'[i], client[i])
      BY <1>2, <2>1, ImportEffect
    <2> QED
      BY <1>0, <2>2 DEF StaysOf
  <1>3. ASSUME NEW r \in Requests, Update(r) \/ Anonymize(r) \/ Delete(r) PROVE client'[i].links = client[i].links
    <2>1. /\ RowWritten(request[r].row)
          /\ \/ client'[request[r].row] = NoRow
             \/ client'[request[r].row].links = client[request[r].row].links
      BY <1>3, UpdateEffect, AnonymizeEffect, DeleteEffect
    <2> QED
      BY <2>1 DEF RowWritten
  <1>4. ASSUME NEW r \in Requests, SetLink(r)
        PROVE  \/ client'[i].links = client[i].links
               \/ /\ request[r].row = i
                  /\ client'[i].links = [client[i].links EXCEPT ![request[r].kind] = drawn']
    <2>1. CASE request[r].row # i
      BY <1>4, <2>1, SetLinkEffect
    <2>2. CASE request[r].row = i
      <3>1. PICK k : k = request[r].kind
        OBVIOUS
      <3>2. client'[i] = [client[i] EXCEPT !.links[k] = drawn']
        BY <1>4, <2>2, <3>1, SetLinkEffect
      <3>3. client'[i].links = [client[i].links EXCEPT ![k] = drawn']
        BY <1>0, <3>2, RowTypes DEF AnyRow
      <3> QED
        BY <2>2, <3>1, <3>3
    <2> QED
      BY <2>1, <2>2
  <1>5. ASSUME \/ \E r \in Requests : Start(r) \/ Refuse(r) \/ Fail(r) \/ CreateReferral(r) \/ Convert(r)
               \/ (\E s \in Setups : UpdateSettings(s)) \/ UNCHANGED vars
        PROVE  client'[i].links = client[i].links
    <2>1. client' = client
      BY <1>5, StartEffect, RefuseEffect, FailEffect, CreateReferralEffect, ConvertEffect, SettingsEffect
         DEF Begun, rows
    <2> QED
      BY <2>1
  <1> QED
    BY <1>1, <1>2, <1>3, <1>4, <1>5, StepsThereAre

LEMMA LinksAreHandedStep ==
  ASSUME TypeOK, RowsAreMade, LinksAreHanded, [Next]_vars
  PROVE  LinksAreHanded'
  <1>1. /\ TypeOK' /\ made \in Nat /\ drawn \in Nat /\ Ids \subseteq Nat
        /\ \A i \in Ids : RowStep(i)
        /\ \A r \in Requests : RequestStep(r)
        /\ client \in [Ids -> ClientRows]
    BY TypeStep, RequestSteps, Numbers, Types
  <1>2. ASSUME NEW h \in handed
        PROVE  /\ h.kind \in Kinds /\ h.link \in Nat /\ h.row \in Ids /\ h.link <= drawn /\ h.link # None
               /\ h \in handed'
               /\ client'[h.row] # NoRow => There(h.row)
    <2>1. h.kind \in Kinds /\ h.link \in Links /\ h.row \in Ids
      BY Types
    <2>2. h.link <= drawn /\ h.row <= made
      BY DEF LinksAreHanded, RowsAreMade
    <2>3. h \in handed'
      BY HandedStep, LinkEffect
    <2>4. client'[h.row] # NoRow => There(h.row)
      <3>1. PICK i \in Ids : i = h.row /\ i <= made
        BY <2>1, <2>2
      <3>2. RowStep(i) /\ ~(i > made)
        BY <1>1, <3>1
      <3> QED
        BY <3>1, <3>2 DEF RowStep
    <2> QED
      BY <2>1, <2>2, <2>3, <2>4, Numbers
  <1>3. ASSUME NEW r \in Requests, SetLink(r), NEW new, handed' = handed \cup {new}, new.link = drawn'
        PROVE  drawn' = drawn + 1 /\ new \notin handed /\ new.link # None
    <2>1. drawn' = drawn + 1 /\ drawn' \in Links
      BY <1>3, SetLinkEffect
    <2>2. new \notin handed
      BY <1>1, <1>2, <1>3, <2>1
    <2> QED
      BY <1>3, <2>1, <2>2, Numbers
  <1>4. ASSUME NEW h \in handed' PROVE h.link <= drawn'
    <2>1. CASE UNCHANGED <<handed, drawn>>
      BY <2>1, <1>2
    <2>2. ASSUME NEW r \in Requests, SetLink(r) PROVE h.link <= drawn'
      <3>1. PICK new : handed' = handed \cup {new} /\ new.link = drawn'
        BY <2>2, LinkEffect
      <3>2. drawn' = drawn + 1
        BY <2>2, SetLinkEffect
      <3>3. h \in handed \/ h = new
        BY <1>4, <3>1
      <3> QED
        BY <1>1, <1>2, <3>1, <3>2, <3>3
    <2> QED
      BY <2>1, <2>2, HandedStep
  <1>5. ASSUME NEW g \in handed', NEW h \in handed', g.link = h.link PROVE g = h
    <2>1. CASE UNCHANGED <<handed, drawn>>
      BY <1>5, <2>1 DEF LinksAreHanded
    <2>2. ASSUME NEW r \in Requests, SetLink(r) PROVE g = h
      <3>1. PICK new : handed' = handed \cup {new} /\ new.link = drawn'
        BY <2>2, LinkEffect
      <3>2. drawn' = drawn + 1
        BY <2>2, SetLinkEffect
      <3>3. (g \in handed \/ g = new) /\ (h \in handed \/ h = new)
        BY <3>1
      <3>4. \A f \in handed : f.link # new.link
        BY <1>1, <1>2, <3>1, <3>2
      <3> QED
        BY <1>5, <3>3, <3>4 DEF LinksAreHanded
    <2> QED
      BY <2>1, <2>2, HandedStep
  <1>6. ASSUME NEW i \in Ids, NEW k \in Kinds, client'[i] # NoRow, client'[i].links[k] # None
        PROVE  \E h \in handed' : h.kind = k /\ h.row = i /\ h.link = client'[i].links[k]
    <2>1. There(i)
      BY <1>1, <1>6, NoRowType DEF RowStep
    <2>2. CASE client'[i].links[k] = client[i].links[k]
      <3>1. PICK h \in handed : h.kind = k /\ h.row = i /\ h.link = client[i].links[k]
        BY <1>6, <2>1, <2>2 DEF LinksAreHanded
      <3> QED
        BY <1>2, <2>2, <3>1
    <2>3. ASSUME NEW r \in Requests, SetLink(r), request[r].row = i,
                 client'[i].links = [client[i].links EXCEPT ![request[r].kind] = drawn'],
                 client'[i].links[k] # client[i].links[k]
          PROVE  \E h \in handed' : h.kind = k /\ h.row = i /\ h.link = client'[i].links[k]
      <3>1. client[i].links \in [Kinds -> Links \cup {None}]
        BY <1>1, RowTypes DEF AnyRow
      <3>2. k = request[r].kind /\ client'[i].links[k] = drawn'
        BY <2>3, <3>1
      <3>3. PICK new : /\ handed' = handed \cup {new}
                       /\ new.kind = request[r].kind /\ new.row = request[r].row /\ new.link = drawn'
        BY <2>3, LinkEffect
      <3> QED
        BY <2>3, <3>2, <3>3
    <2> QED
      BY <1>6, <2>1, <2>2, <2>3, LinksStep
  <1>7. ASSUME NEW h \in handed, ~h.contested, client'[h.row] # NoRow
        PROVE  /\ client'[h.row].links[h.kind] = h.link
               /\ \A r \in Requests : request'[r].op = "linking" =>
                    request'[r].row # h.row \/ request'[r].kind # h.kind
    <2>1. There(h.row) /\ client[h.row].links[h.kind] = h.link
      BY <1>2, <1>7 DEF LinksAreHanded
    <2>2. ASSUME NEW r \in Requests, Holds(r, "linking"), request[r].row = h.row, request[r].kind = h.kind
          PROVE  FALSE
      BY <1>7, <2>1, <2>2 DEF LinksAreHanded
    <2>3. client'[h.row].links[h.kind] = h.link
      <3>1. CASE client'[h.row].links = client[h.row].links
        BY <2>1, <3>1
      <3>2. ASSUME NEW r \in Requests, SetLink(r), request[r].row = h.row,
                   client'[h.row].links = [client[h.row].links EXCEPT ![request[r].kind] = drawn']
            PROVE  client'[h.row].links[h.kind] = h.link
        <4>1. request[r].kind # h.kind
          BY <2>2, <3>2, SetLinkEffect
        <4>2. client[h.row].links \in [Kinds -> Links \cup {None}]
          <5>1. client[h.row] \in ClientRows
            BY <1>1, <1>2
          <5> QED
            BY <5>1, RowTypes DEF AnyRow
        <4> QED
          BY <1>2, <2>1, <3>2, <4>1, <4>2
      <3> QED
        BY <1>2, <1>7, <2>1, <3>1, <3>2, LinksStep
    <2>4. ASSUME NEW r \in Requests, request'[r].op = "linking",
                 request'[r].row = h.row, request'[r].kind = h.kind
          PROVE  FALSE
      <3>1. request'[r] = request[r] \/ client[h.row].links[h.kind] = None
        BY <1>1, <2>4 DEF RequestStep
      <3> QED
        BY <1>2, <2>1, <2>2, <2>4, <3>1 DEF Holds
    <2> QED
      BY <2>3, <2>4
  <1>8. ASSUME NEW r \in Requests, SetLink(r), NEW new,
               new.kind = request[r].kind, new.row = request[r].row, new.link = drawn',
               \A q \in Requests \ {r} : request[q] # request[r], client'[new.row] # NoRow
        PROVE  /\ client'[new.row].links[new.kind] = new.link
               /\ \A q \in Requests : request'[q].op = "linking" =>
                    request'[q].row # new.row \/ request'[q].kind # new.kind
    <2>1. PICK i \in Ids, k \in Kinds : i = request[r].row /\ k = request[r].kind
      BY <1>8, SetLinkEffect
    <2>2. There(i) /\ client'[i] = [client[i] EXCEPT !.links[k] = drawn']
      BY <1>8, <2>1, SetLinkEffect
    <2>3. client'[i].links[k] = drawn'
      BY <1>1, <2>1, <2>2, RowTypes DEF AnyRow
    <2>4. ASSUME NEW q \in Requests, request'[q].op = "linking",
                 request'[q].row = i, request'[q].kind = k
          PROVE  FALSE
      <3>4. Sole(r) /\ request'[r] = Idle /\ Idle.op = "idle"
        BY <1>8, SetLinkEffect DEF Idle
      <3>1. q # r /\ request'[q] = request[q]
        BY <2>4, <3>4 DEF Sole
      <3>2. request[q] = [op |-> "linking", row |-> i, kind |-> k]
        BY <2>4, <3>1, RequestTypes DEF Holds
      <3>3. request[r] = [op |-> "linking", row |-> i, kind |-> k]
        BY <1>8, <2>1, SetLinkEffect, RequestTypes
      <3> QED
        BY <1>8, <3>1, <3>2, <3>3
    <2> QED
      BY <1>8, <2>1, <2>3, <2>4
  <1>9. ASSUME NEW h \in handed', client'[h.row] # NoRow, ~h.contested
        PROVE  /\ client'[h.row].links[h.kind] = h.link
               /\ \A r \in Requests : request'[r].op = "linking" =>
                    request'[r].row # h.row \/ request'[r].kind # h.kind
    <2>1. CASE h \in handed
      BY <1>7, <1>9, <2>1
    <2>2. ASSUME NEW r \in Requests, SetLink(r), h \notin handed
          PROVE  /\ client'[h.row].links[h.kind] = h.link
                 /\ \A q \in Requests : request'[q].op = "linking" =>
                      request'[q].row # h.row \/ request'[q].kind # h.kind
      <3>1. PICK new : /\ handed' = handed \cup {new}
                       /\ new.kind = request[r].kind /\ new.row = request[r].row /\ new.link = drawn'
                       /\ ~new.contested => \A q \in Requests \ {r} : request[q] # request[r]
        BY <2>2, LinkEffect
      <3>2. h = new
        BY <2>2, <3>1
      <3> QED
        BY <1>8, <1>9, <2>2, <3>1, <3>2
    <2> QED
      BY <2>1, <2>2, HandedStep
  <1> QED
    BY <1>4, <1>5, <1>6, <1>9 DEF LinksAreHanded, There, Holds

(* A row is anonymized as it was, or is made so; who writes one that is is     *)
(* noted.                                                                      *)
LEMMA NotFoundAgainStep ==
  ASSUME TypeOK, NotFoundAgain, [Next]_vars
  PROVE  NotFoundAgain'
  <1> DEFINE Kept(i) == client'[i].anonymized = TRUE /\ i \notin readmitted' => client'[i].phone = None
  <1>1. ASSUME NEW i \in Ids, client'[i] = client[i], readmitted \subseteq readmitted' PROVE Kept(i)
    <2>1. client[i] \in ClientRows
      BY Types
    <2> QED
      BY <1>1, <2>1 DEF NotFoundAgain
  <1>2. ASSUME client' = client, readmitted' = readmitted PROVE \A i \in Ids : Kept(i)
    BY <1>1, <1>2
  <1>3. ASSUME NEW r \in Requests, Start(r) \/ Refuse(r) \/ Fail(r) \/ CreateReferral(r) \/ Convert(r)
        PROVE  \A i \in Ids : Kept(i)
    <2>1. client' = client /\ readmitted' = readmitted
      BY <1>3, StartEffect, RefuseEffect, FailEffect, CreateReferralEffect, ConvertEffect DEF Begun, rows, ghosts
    <2> QED
      BY <1>2, <2>1
  <1>4. ASSUME NEW r \in Requests, Create(r) \/ CreateReferredClient(r), NEW i \in Ids PROVE Kept(i)
    <2>1. /\ made' \in Ids /\ \A j \in Ids \ {made'} : client'[j] = client[j]
          /\ readmitted' = readmitted /\ ~There(made') /\ made' = made + 1 /\ made \in Nat
      BY <1>4, CreateEffect, CaptureEffect, Types DEF ghosts
    <2>2. client'[made'].anonymized = FALSE
      <3>1. ~There(made') /\ made' > made
        BY <2>1
      <3>2. PICK j \in Ids : j = made'
        BY <2>1
      <3>3. RowStep(j)
        BY TypeStep
      <3>4. client'[j] # NoRow => client'[j].anonymized = FALSE
        BY <3>1, <3>2, <3>3 DEF RowStep
      <3> QED
        BY <3>2, <3>4, NoRowType
    <2>3. CASE i = made'
      BY <2>2, <2>3
    <2>4. CASE i # made'
      BY <1>1, <2>1, <2>4
    <2> QED
      BY <2>3, <2>4
  <1>5. ASSUME NEW r \in Requests, Import(r), NEW i \in Ids PROVE Kept(i)
    <2>1. readmitted' = readmitted /\ client[i] \in ClientRows
      BY <1>5, ImportEffect, Types DEF ghosts
    <2>2. \/ client'[i] = client[i]
          \/ StaysOf(client'[i], client[i])
          \/ \E p \in People : IsNew(client'[i], p, None)
      BY <1>5, ImportEffect
    <2>3. CASE client'[i] = client[i]
      BY <1>1, <2>1, <2>3
    <2>4. CASE StaysOf(client'[i], client[i])
      BY <2>1, <2>4 DEF NotFoundAgain, StaysOf
    <2>5. CASE \E p \in People : IsNew(client'[i], p, None)
      BY <2>5 DEF IsNew
    <2> QED
      BY <2>2, <2>3, <2>4, <2>5
  <1>6. ASSUME NEW r \in Requests, Update(r) \/ Anonymize(r) \/ Delete(r), NEW i \in Ids PROVE Kept(i)
    <2>1. RowWritten(request[r].row)
      BY <1>6, UpdateEffect, AnonymizeEffect, DeleteEffect
    <2>2. PICK j \in Ids : j = request[r].row /\ \A k \in Ids \ {j} : client'[k] = client[k]
      BY <2>1 DEF RowWritten
    <2>3. \A k \in Ids \ {j} : k \in readmitted => k \in readmitted'
      BY <1>6, <2>2, UpdateEffect, AnonymizeEffect, DeleteEffect
    <2>4. CASE i # j
      BY <2>2, <2>3, <2>4, Types DEF NotFoundAgain
    <2>5. CASE i = j /\ Update(r)
      <3>1. /\ client'[i].anonymized = client[i].anonymized /\ readmitted \subseteq readmitted'
            /\ client'[i].phone = client[i].phone \/ (client[i].anonymized => i \in readmitted')
        BY <2>2, <2>5, UpdateEffect
      <3> QED
        BY <3>1 DEF NotFoundAgain
    <2>6. CASE i = j /\ Anonymize(r)
      <3>1. client'[i].phone = None
        BY <2>2, <2>6, AnonymizeEffect
      <3> QED
        BY <3>1
    <2>7. CASE i = j /\ Delete(r)
      <3>1. client'[i] = NoRow
        BY <2>2, <2>7, DeleteEffect
      <3> QED
        BY <3>1, NoRowType
    <2> QED
      BY <1>6, <2>4, <2>5, <2>6, <2>7
  <1>7. ASSUME NEW r \in Requests, SetLink(r), NEW i \in Ids PROVE Kept(i)
    <2>1. readmitted' = readmitted
      BY <1>7, SetLinkEffect DEF ghosts
    <2>2. CASE client'[i] = client[i]
      BY <1>1, <2>1, <2>2
    <2>3. CASE There(i) /\ i = request[r].row
      <3>1. PICK k : k = request[r].kind
        OBVIOUS
      <3>2. client'[i] = [client[i] EXCEPT !.links[k] = drawn']
        BY <1>7, <2>3, <3>1, SetLinkEffect
      <3>3. client[i] \in ClientRows
        BY Types
      <3>4. client'[i].anonymized = client[i].anonymized /\ client'[i].phone = client[i].phone
        BY <3>2, <3>3, RowTypes DEF AnyRow
      <3> QED
        BY <2>1, <3>4 DEF NotFoundAgain
    <2>4. CASE ~There(i) /\ i = request[r].row
      <3>1. client'[i] = NoRow
        BY <1>7, <2>4, SetLinkEffect
      <3> QED
        BY <3>1, NoRowType
    <2> QED
      BY <1>7, <2>2, <2>3, <2>4, SetLinkEffect
  <1> HIDE DEF Kept
  <1>8. ASSUME (\E s \in Setups : UpdateSettings(s)) \/ UNCHANGED vars PROVE \A i \in Ids : Kept(i)
    <2>1. client' = client /\ readmitted' = readmitted
      BY <1>8, SettingsEffect DEF rows, ghosts
    <2> QED
      BY <1>2, <2>1
  <1>9. \A i \in Ids : Kept(i)
    BY <1>3, <1>4, <1>5, <1>6, <1>7, <1>8, StepsThereAre
  <1>10. \A i \in Ids : client'[i].anonymized \in BOOLEAN
    BY TypeStep, RowTypes DEF AnyRow, TypeOK
  <1> QED
    BY <1>9, <1>10 DEF Kept, NotFoundAgain

(* Who gives an anonymized client a telephone, a name or an e-mail again.       *)
LEMMA BringBackStep ==
  ASSUME TypeOK, NotFoundAgain, [Next]_vars, NEW i \in Ids, Regains(i)
  PROVE  \E r \in Requests :
           /\ request'[r] = Idle
           /\ \/ request[r].op = "updating" /\ request[r].row = i
              \/ /\ request[r].op = "importing"
                 /\ i \in readmitted \/ OutOfDate(request[r], i)
  <1> DEFINE Goal == \E r \in Requests :
                       /\ request'[r] = Idle
                       /\ \/ request[r].op = "updating" /\ request[r].row = i
                          \/ /\ request[r].op = "importing"
                             /\ i \in readmitted \/ OutOfDate(request[r], i)
  <1>1. /\ client[i] \in ClientRows /\ i \in Nat /\ made \in Nat /\ (There(i) => i <= made)
        /\ client[i].anonymized /\ client'[i] # client[i] /\ client'[i] # NoRow
    BY Types, Numbers, RowTypes DEF AnyRow, Regains, There
  <1>2. There(i)
    BY <1>1, NoRowType DEF There
  <1>3. ASSUME NEW r \in Requests, Import(r) PROVE Goal
    <2>1. /\ Holds(r, "importing") /\ request'[r] = Idle
          /\ DOMAIN request[r].found \subseteq People
      BY <1>3, ImportEffect, RequestTypes
    <2>2. PICK p \in DOMAIN request[r].found : request[r].found[p] = i
      BY <1>1, <1>2, <1>3, ImportEffect
    <2>3. i \in readmitted \/ client[i].phone # p
      BY <1>1, <2>1, <2>2, Numbers DEF NotFoundAgain
    <2>4. i \in readmitted \/ OutOfDate(request[r], i)
      BY <2>2, <2>3 DEF OutOfDate
    <2> QED
      BY <2>1, <2>4 DEF Holds
  <1>4. ASSUME NEW r \in Requests, Update(r) PROVE Goal
    <2>1. Holds(r, "updating") /\ request'[r] = Idle /\ RowWritten(request[r].row)
      BY <1>4, UpdateEffect
    <2>2. request[r].row = i
      BY <1>1, <2>1 DEF RowWritten
    <2> QED
      BY <2>1, <2>2 DEF Holds
  <1>5. ASSUME NEW r \in Requests, Create(r) \/ CreateReferredClient(r) PROVE FALSE
    BY <1>1, <1>2, <1>5, CreateEffect, CaptureEffect
  <1>6. ASSUME NEW r \in Requests, Anonymize(r) PROVE FALSE
    <2>1. PICK row : row = client[i]
      OBVIOUS
    <2>2. AnonymizeAs(r, None) /\ client \in [Ids -> ClientRows]
      BY <1>6, Types DEF Anonymize
    <2>3. /\ request[r].row = i /\ client'[i].phone = None /\ client'[i].named = FALSE
      BY <1>1, <1>6, AnonymizeEffect DEF RowWritten
    <2>4. client' = [client EXCEPT ![i].phone = None, ![i].named = FALSE, ![i].anonymized = TRUE]
      BY <2>2, <2>3 DEF AnonymizeAs
    <2>5. client'[i] = [row EXCEPT !.phone = None, !.named = FALSE, !.anonymized = TRUE]
      BY <2>1, <2>2, <2>4
    <2>6. client'[i].email = row.email
      BY <1>1, <2>1, <2>5, RowTypes DEF AnyRow
    <2> QED
      BY <2>1, <2>3, <2>6 DEF Regains
  <1>7. ASSUME NEW r \in Requests, Delete(r) PROVE FALSE
    BY <1>1, <1>7, DeleteEffect DEF RowWritten
  <1>8. ASSUME NEW r \in Requests, SetLink(r) PROVE FALSE
    <2>1. request[r].row = i
      BY <1>1, <1>8, SetLinkEffect
    <2>2. PICK k : k = request[r].kind
      OBVIOUS
    <2>3. client'[i] = [client[i] EXCEPT !.links[k] = drawn']
      BY <1>2, <1>8, <2>1, <2>2, SetLinkEffect
    <2>4. /\ client'[i].phone = client[i].phone /\ client'[i].named = client[i].named
          /\ client'[i].email = client[i].email
      BY <1>1, <2>3, RowTypes DEF AnyRow
    <2> QED
      BY <2>4 DEF Regains
  <1>9. ASSUME \/ \E r \in Requests : Start(r) \/ Refuse(r) \/ Fail(r) \/ CreateReferral(r) \/ Convert(r)
               \/ \E s \in Setups : UpdateSettings(s)
               \/ UNCHANGED vars
        PROVE  FALSE
    <2>1. client' = client
      BY <1>9, StartEffect, RefuseEffect, FailEffect, CreateReferralEffect, ConvertEffect, SettingsEffect DEF Begun, rows, vars
    <2> QED
      BY <1>1, <2>1
  <1> QED
    BY <1>3, <1>4, <1>5, <1>6, <1>7, <1>8, <1>9, StepsThereAre

-----------------------------------------------------------------------------
(* The invariant, and the three properties it is for.                          *)

(* The parts of ClientsIInv hold in every state a tenant's clients can be in.  *)
THEOREM ClientsInvariance == Spec => []ClientsIInv
  <1>1. Init => ClientsIInv
    BY InitIInv
  <1>2. ClientsIInv /\ [Next]_vars => ClientsIInv'
    <2> SUFFICES ASSUME ClientsIInv, [Next]_vars PROVE ClientsIInv'
      OBVIOUS
    <2>1. /\ TypeOK /\ RowsAreMade /\ ReferralsAreTrue /\ FriendsAccountedFor
          /\ Cardinality(Unreferred) <= failures /\ LinksAreHanded /\ NotFoundAgain
      BY DEF ClientsIInv
    <2>2. /\ TypeOK' /\ RowsAreMade' /\ ReferralsAreTrue' /\ FriendsAccountedFor'
          /\ LinksAreHanded' /\ NotFoundAgain'
      BY <2>1, TypeStep, RowsAreMadeStep, ReferralsAreTrueStep, FriendsAccountedForStep, LinksAreHandedStep,
         NotFoundAgainStep
    <2>3. Cardinality(Unreferred') <= failures'
      BY <2>1, UnreferredStep
    <2> QED
      BY <2>2, <2>3 DEF ClientsIInv
  <1> QED
    BY <1>1, <1>2, PTL DEF Spec

(* A friend is rewarded once for a telephone, and once more only when a row    *)
(* gave it up, whatever requests and follow-ups overlap; and a friend whom     *)
(* nobody is rewarded for is one whose capture failed half way.                *)
THEOREM FriendsCountOnce == Spec => []FriendsAreCounted
  <1>1. ClientsIInv => FriendsAreCounted
    <2> SUFFICES ASSUME ClientsIInv PROVE FriendsAreCounted
      OBVIOUS
    <2>1. TypeOK /\ FriendsAccountedFor /\ Cardinality(Unreferred) <= failures
      BY DEF ClientsIInv
    <2>2. ASSUME NEW p \in People PROVE grants[p] <= 1 + freed[p]
      <3>1. grants[p] \in Nat /\ freed[p] \in Nat /\ Cardinality(Unrewarded(p)) \in Nat
        BY <2>1, UnrewardedIsFinite, Types
      <3>2. grants[p] + Cardinality(Unrewarded(p)) <= freed[p] + IF Taken(p) THEN 1 ELSE 0
        BY <2>1 DEF FriendsAccountedFor
      <3> QED
        BY <3>1, <3>2
    <2> QED
      BY <2>1, <2>2 DEF FriendsAreCounted
  <1> QED
    BY <1>1, ClientsInvariance, PTL

(* A link leads to the client it was given to and to nobody else, for as long  *)
(* as the client is there, unless it was given while another request for the   *)
(* same link was under way.                                                    *)
THEOREM LinksLeadToTheirClient == Spec => []LinksOpen
  <1>1. ClientsIInv => LinksOpen
    <2> SUFFICES ASSUME ClientsIInv, NEW h \in handed
                 PROVE  /\ Opens(h.kind, h.link) \subseteq {h.row}
                        /\ There(h.row) /\ ~h.contested => h.row \in Opens(h.kind, h.link)
      BY DEF LinksOpen
    <2>1. TypeOK /\ LinksAreHanded
      BY DEF ClientsIInv
    <2>2. h.kind \in Kinds /\ h.link \in Links /\ h.row \in Ids /\ h.link # None
      BY <2>1, Types, Numbers
    <2>3. ASSUME NEW i \in Opens(h.kind, h.link) PROVE i = h.row
      <3>1. i \in Ids /\ There(i) /\ client[i].links[h.kind] = h.link
        BY DEF Opens
      <3>2. PICK g \in handed : g.row = i /\ g.link = h.link
        BY <2>1, <2>2, <3>1 DEF LinksAreHanded
      <3>3. g = h
        BY <2>1, <3>2 DEF LinksAreHanded
      <3> QED
        BY <3>2, <3>3
    <2>4. There(h.row) /\ ~h.contested => h.row \in Opens(h.kind, h.link)
      BY <2>1, <2>2 DEF LinksAreHanded, Opens
    <2> QED
      BY <2>3, <2>4
  <1> QED
    BY <1>1, ClientsInvariance, PTL

(* The data of an anonymized client come back by the owner's own writes to     *)
(* that client, or by an import that had found the client before, and by no    *)
(* other request: whoever comes again under that telephone is somebody new.    *)
THEOREM OldImportsBringBack == Spec => OnlyOldImportsBringBack
  <1>1. ClientsIInv /\ [Next]_vars =>
          [\A i \in Ids : Regains(i) =>
             \E r \in Requests :
               /\ request'[r] = Idle
               /\ \/ request[r].op = "updating" /\ request[r].row = i
                  \/ /\ request[r].op = "importing"
                     /\ i \in readmitted \/ OutOfDate(request[r], i)]_vars
    BY BringBackStep DEF ClientsIInv
  <1> QED
    BY <1>1, ClientsInvariance, PTL DEF Spec, OnlyOldImportsBringBack

-----------------------------------------------------------------------------
(***************************************************************************)
(* Churn.                                                                  *)
(***************************************************************************)

(* The constants are numbers, and nobody is a subscription or a request.       *)
LEMMA ChurnNumbers ==
  /\ DaysAfter \in Nat /\ MaxFailedCalls \in Nat /\ MaxCrashes \in Nat
  /\ Nobody \notin Subs /\ Nobody \notin CancellationRequests
  BY ChurnAssumption

(* What a resolution holds: the request was made, for a subscription.          *)
LEMMA ResolutionTypes ==
  ASSUME ChurnTypeOK, ReadersSawItOpen, NEW r \in Resolvers, resolver[r] # NoResolution
  PROVE  /\ resolver[r].id \in CancellationRequests
         /\ resolver[r].seen.sub \in Subs
         /\ resolver[r].outcome \in Outcomes
         /\ resolver[r].offer \in Offers \cup {"none"}
         /\ resolver[r].seen.status = "open"
         /\ cancellationRequest[resolver[r].id] \in
              [status : {"open"} \cup Outcomes, sub : Subs, offer : Offers \cup {"none"}]
  <1>1. resolver[r] \in [id : CancellationRequests, seen : RequestRows, outcome : Outcomes,
                         offer : Offers \cup {"none"}]
    BY DEF ChurnTypeOK, Resolutions
  <1>2. resolver[r].seen.status = "open" /\ cancellationRequest[resolver[r].id] # NoRequest
    BY DEF ReadersSawItOpen
  <1>3. resolver[r].seen \in RequestRows
    BY <1>1
  <1>4. resolver[r].seen.sub \in Subs
    BY <1>2, <1>3 DEF RequestRows, NoRequest
  <1>5. cancellationRequest[resolver[r].id] \in RequestRows
    BY <1>1 DEF ChurnTypeOK
  <1> QED
    BY <1>1, <1>2, <1>4, <1>5 DEF RequestRows

(* A sweep that has work to do on a return has one in hand, and the state it    *)
(* keeps is of its type.                                                       *)
LEMMA SweepTypes ==
  ASSUME ChurnTypeOK, OneSweepHandles, NEW w \in Sweeps
  PROVE  /\ sweep[w] \in [label : Labels, found : SUBSET Subs, due : SUBSET Subs,
                          skip : SUBSET Subs, now : Subs \cup {Nobody}]
         /\ sweep[w].label \in BeforeCharge \cup AfterCharge => sweep[w].now \in Subs
         /\ sweep[w].label \in {"idle", "enrolling", "looping"} => sweep[w].now = Nobody
  <1>1. sweep[w] \in [label : Labels, found : SUBSET Subs, due : SUBSET Subs,
                      skip : SUBSET Subs, now : Subs \cup {Nobody}]
    BY DEF ChurnTypeOK
  <1>2. sweep[w].now # Nobody <=> sweep[w].label \in BeforeCharge \cup AfterCharge
    BY DEF OneSweepHandles
  <1> QED
    BY <1>1, <1>2 DEF BeforeCharge, AfterCharge

-----------------------------------------------------------------------------
(* The owner's steps: nothing of the sweeps changes.                          *)

LEMMA OwnerKeepsInvariant ==
  ASSUME ChurnIInv, OwnerStep
  PROVE  ChurnIInv'
  <1>0. ChurnTypeOK /\ OneSweepHandles /\ ChargesAreKnown /\ ReadersSawItOpen
    BY DEF ChurnIInv
  <1>1. UNCHANGED <<case, returns, sweeps>>
    BY DEF OwnerStep, UpdateSubscription, UpdateClient, OpenRequest, ReadRequest, ReadThen,
           Resolve, ResolveTo, ResolveFails
  <1>2. OneSweepHandles' /\ ChargesAreKnown'
    BY <1>0, <1>1 DEF OneSweepHandles, ChargesAreKnown, Handling, returns, sweeps
  <1>3. CASE \E s \in Subs, new \in Statuses : UpdateSubscription(s, new)
    <2>1. PICK s \in Subs, new \in Statuses : UpdateSubscription(s, new)
      BY <1>3
    <2>2. ChurnTypeOK'
      BY <1>0, <2>1 DEF ChurnTypeOK, UpdateSubscription, returns, sweeps, requests
    <2>3. ReadersSawItOpen'
      BY <1>0, <2>1 DEF ReadersSawItOpen, UpdateSubscription, requests
    <2> QED
      BY <1>2, <2>2, <2>3 DEF ChurnIInv
  <1>4. CASE \E s \in Subs : UpdateClient(s)
    <2>1. PICK s \in Subs : UpdateClient(s)
      BY <1>4
    <2>2. ChurnTypeOK'
      BY <1>0, <2>1 DEF ChurnTypeOK, UpdateClient, returns, sweeps, requests
    <2>3. ReadersSawItOpen'
      BY <1>0, <2>1 DEF ReadersSawItOpen, UpdateClient, requests
    <2> QED
      BY <1>2, <2>2, <2>3 DEF ChurnIInv
  <1>5. CASE \E q \in CancellationRequests, s \in Subs : OpenRequest(q, s)
    <2>1. PICK q \in CancellationRequests, s \in Subs : OpenRequest(q, s)
      BY <1>5
    <2> DEFINE row == [status |-> "open", sub |-> s, offer |-> "none"]
    <2>2. row \in RequestRows /\ row # NoRequest
      BY DEF RequestRows, NoRequest
    <2>3. cancellationRequest' = [cancellationRequest EXCEPT ![q] = row]
      BY <2>1 DEF OpenRequest
    <2> HIDE DEF row
    <2>4. cancellationRequest' \in [CancellationRequests -> RequestRows]
      BY <1>0, <2>2, <2>3 DEF ChurnTypeOK
    <2>5. UNCHANGED <<subscriptions, resolver, case, returns, sweeps>>
      BY <2>1 DEF OpenRequest
    <2>6. ChurnTypeOK'
      BY <1>0, <2>4, <2>5 DEF ChurnTypeOK, returns, sweeps, subscriptions
    <2>7. ReadersSawItOpen'
      <3> SUFFICES ASSUME NEW r \in Resolvers, resolver[r] # NoResolution
                   PROVE  resolver[r].seen.status = "open" /\ cancellationRequest'[resolver[r].id] # NoRequest
        BY <2>5 DEF ReadersSawItOpen
      <3>1. resolver[r].id \in CancellationRequests /\ resolver[r].seen.status = "open"
        BY <1>0, ResolutionTypes
      <3>2. cancellationRequest[resolver[r].id] # NoRequest
        BY <1>0 DEF ReadersSawItOpen
      <3>3. cancellationRequest'[resolver[r].id] \in {row, cancellationRequest[resolver[r].id]}
        BY <1>0, <2>3, <3>1 DEF ChurnTypeOK
      <3> QED
        BY <2>2, <3>1, <3>2, <3>3
    <2> QED
      BY <1>2, <2>6, <2>7 DEF ChurnIInv
  <1>6. CASE \E r \in Resolvers, q \in CancellationRequests, outcome \in Outcomes,
                offer \in Offers \cup {"none"} : ReadRequest(r, q, outcome, offer)
    <2>1. PICK r \in Resolvers, q \in CancellationRequests, outcome \in Outcomes,
               offer \in Offers \cup {"none"} : ReadRequest(r, q, outcome, offer)
      BY <1>6
    <2> DEFINE res == [id |-> q, seen |-> cancellationRequest[q], outcome |-> outcome, offer |-> offer]
    <2>2. cancellationRequest[q] \in RequestRows /\ cancellationRequest[q].status = "open"
      BY <1>0, <2>1 DEF ChurnTypeOK, ReadRequest
    <2>3. res \in Resolutions /\ res.id = q /\ res.seen.status = "open"
      BY <2>2 DEF Resolutions
    <2>4. cancellationRequest[q] # NoRequest
      BY <2>2 DEF NoRequest
    <2>5. /\ resolver' = [resolver EXCEPT ![r] = res]
          /\ UNCHANGED <<subscriptions, cancellationRequest, case, returns, sweeps>>
      BY <2>1 DEF ReadRequest, ReadThen
    <2> HIDE DEF res
    <2>6. ChurnTypeOK'
      BY <1>0, <2>3, <2>5 DEF ChurnTypeOK, returns, sweeps, subscriptions
    <2>7. \A o \in Resolvers : resolver'[o] = IF o = r THEN res ELSE resolver[o]
      BY <1>0, <2>5 DEF ChurnTypeOK
    <2>8. ReadersSawItOpen'
      BY <1>0, <2>3, <2>4, <2>5, <2>7 DEF ReadersSawItOpen
    <2> QED
      BY <1>2, <2>6, <2>8 DEF ChurnIInv
  <1>7. CASE \E r \in Resolvers : Resolve(r)
    <2>1. PICK r \in Resolvers : Resolve(r)
      BY <1>7
    <2> DEFINE res == resolver[r]
               q == res.id
               row == [cancellationRequest[q] EXCEPT !.status = res.outcome, !.offer = res.offer]
    <2>2. /\ res # NoResolution
          /\ status' = [status EXCEPT ![res.seen.sub] = IF res.outcome = "cancelled" THEN "CANCELED"
                                     ELSE IF res.offer = "pause" THEN "PAUSED" ELSE @]
          /\ discounted' = IF res.offer = "discount" THEN discounted \cup {res.seen.sub} ELSE discounted
          /\ resolver' = [resolver EXCEPT ![r] = NoResolution]
          /\ UNCHANGED <<silent, case, returns, sweeps>>
      BY <2>1 DEF Resolve, ResolveTo
    <2>3. /\ q \in CancellationRequests /\ res.seen.sub \in Subs
          /\ res.outcome \in Outcomes /\ res.offer \in Offers \cup {"none"}
          /\ cancellationRequest[q] \in [status : {"open"} \cup Outcomes, sub : Subs, offer : Offers \cup {"none"}]
      BY <1>0, <2>2, ResolutionTypes
    <2>4. cancellationRequest' = [cancellationRequest EXCEPT ![q] = row]
      BY <1>0, <2>1, <2>3 DEF Resolve, ResolveTo, ChurnTypeOK
    <2>5. row \in [status : {"open"} \cup Outcomes, sub : Subs, offer : Offers \cup {"none"}]
      BY <2>3
    <2>6. row \in RequestRows /\ row # NoRequest
      <3>1. row.status \in {"open"} \cup Outcomes
        BY <2>5
      <3> HIDE DEF row
      <3> QED
        BY <2>5, <3>1 DEF RequestRows, NoRequest, Outcomes
    <2>7. status' \in [Subs -> Statuses] /\ discounted' \subseteq Subs
      BY <1>0, <2>2, <2>3 DEF ChurnTypeOK, Statuses
    <2>8. resolver' \in [Resolvers -> Resolutions]
      BY <1>0, <2>2 DEF ChurnTypeOK, Resolutions
    <2> HIDE DEF row
    <2>9. cancellationRequest' \in [CancellationRequests -> RequestRows]
      BY <1>0, <2>3, <2>4, <2>6 DEF ChurnTypeOK
    <2>10. ChurnTypeOK'
      BY <1>0, <2>2, <2>7, <2>8, <2>9 DEF ChurnTypeOK, returns, sweeps
    <2>11. ReadersSawItOpen'
      <3> SUFFICES ASSUME NEW o \in Resolvers, resolver'[o] # NoResolution
                   PROVE  /\ resolver'[o].seen.status = "open"
                          /\ cancellationRequest'[resolver'[o].id] # NoRequest
        BY DEF ReadersSawItOpen
      <3>1. resolver'[o] = resolver[o]
        BY <1>0, <2>2 DEF ChurnTypeOK
      <3>2. /\ resolver[o].seen.status = "open" /\ resolver[o].id \in CancellationRequests
            /\ cancellationRequest[resolver[o].id] # NoRequest
        BY <1>0, <3>1, ResolutionTypes DEF ReadersSawItOpen
      <3>3. cancellationRequest'[resolver[o].id] \in {row, cancellationRequest[resolver[o].id]}
        BY <1>0, <2>4, <3>2 DEF ChurnTypeOK
      <3> QED
        BY <2>6, <3>1, <3>2, <3>3
    <2> QED
      BY <1>2, <2>10, <2>11 DEF ChurnIInv
  <1>8. CASE \E r \in Resolvers : ResolveFails(r)
    <2>1. PICK r \in Resolvers : ResolveFails(r)
      BY <1>8
    <2>2. /\ resolver' = [resolver EXCEPT ![r] = NoResolution]
          /\ UNCHANGED <<subscriptions, cancellationRequest, case, returns, sweeps>>
      BY <2>1 DEF ResolveFails
    <2>3. ChurnTypeOK'
      BY <1>0, <2>2 DEF ChurnTypeOK, Resolutions, returns, sweeps, subscriptions
    <2>4. \A o \in Resolvers : resolver'[o] = IF o = r THEN NoResolution ELSE resolver[o]
      BY <1>0, <2>2 DEF ChurnTypeOK
    <2>5. ReadersSawItOpen'
      BY <1>0, <2>2, <2>4 DEF ReadersSawItOpen
    <2> QED
      BY <1>2, <2>3, <2>5 DEF ChurnIInv
  <1> QED
    BY <1>3, <1>4, <1>5, <1>6, <1>7, <1>8 DEF OwnerStep

-----------------------------------------------------------------------------
(* The steps of a sweep.                                                      *)

(* The list of who left is read: no return is taken in hand.                 *)
LEMMA StartSweepKeeps ==
  ASSUME ChurnIInv, NEW w \in Sweeps, StartSweep(w)
  PROVE  ChurnIInv'
  <1>0. ChurnTypeOK /\ OneSweepHandles /\ ChargesAreKnown /\ ReadersSawItOpen
    BY DEF ChurnIInv
  <1> DEFINE found == {s \in Subs : status[s] = "CANCELED" /\ case[s].status = "none"}
  <1>a. /\ sweep[w].label = "idle" /\ found \in SUBSET Subs
        /\ sweep' = [sweep EXCEPT ![w].label = "enrolling", ![w].found = found]
        /\ UNCHANGED <<Elsewhere, case, returns, ran, failedCalls, crashes>>
    BY DEF StartSweep, At
  <1> HIDE DEF found
  <1> DEFINE new == [sweep[w] EXCEPT !.label = "enrolling", !.found = found]
  <1>b. /\ new \in [label : Labels, found : SUBSET Subs, due : SUBSET Subs,
                   skip : SUBSET Subs, now : Subs \cup {Nobody}]
        /\ new.label = "enrolling" /\ new.now = sweep[w].now /\ sweep[w].now = Nobody
    BY <1>0, <1>a, SweepTypes DEF Labels
  <1>c. sweep' = [sweep EXCEPT ![w] = new]
    BY <1>0, <1>a DEF ChurnTypeOK
  <1> HIDE DEF new
  <1>1. ChurnTypeOK'
    BY <1>0, <1>a, <1>b, <1>c DEF ChurnTypeOK, Elsewhere, subscriptions, requests, returns
  <1>d. \A v \in Sweeps : sweep'[v] = IF v = w THEN new ELSE sweep[v]
    BY <1>0, <1>c DEF ChurnTypeOK
  <1>2. OneSweepHandles'
    <2>1. \A v \in Sweeps : sweep'[v].now # Nobody <=> sweep'[v].label \in BeforeCharge \cup AfterCharge
      BY <1>0, <1>b, <1>d DEF OneSweepHandles, BeforeCharge, AfterCharge
    <2>2. \A v \in Sweeps : sweep'[v].now = sweep[v].now
      BY <1>b, <1>d
    <2>3. \A u, v \in Sweeps, s \in Subs : Handling(u, s)' /\ Handling(v, s)' => u = v
      BY <1>0, <2>2 DEF OneSweepHandles, Handling
    <2>4. \A v \in Sweeps, s \in Subs : Handling(v, s)' => case'[s].status \in {"sending", "skipped"}
      BY <1>0, <1>a, <2>2 DEF OneSweepHandles, Handling
    <2> QED
      BY <2>1, <2>3, <2>4 DEF OneSweepHandles, BeforeCharge, AfterCharge
  <1>3. ChargesAreKnown'
    BY <1>0, <1>a, ChurnNumbers, SweepTypes
    DEF ChurnTypeOK, OneSweepHandles, ChargesAreKnown, Handling, returns, BeforeCharge, AfterCharge
  <1>4. ReadersSawItOpen'
    BY <1>0 DEF ReadersSawItOpen, StartSweep, Elsewhere, requests
  <1> QED
    BY <1>1, <1>2, <1>3, <1>4 DEF ChurnIInv

(* A case is made for who has none, which nobody has in hand.                *)
LEMMA EnrollKeeps ==
  ASSUME ChurnIInv, NEW w \in Sweeps, NEW s \in Subs, Enroll(w, s)
  PROVE  ChurnIInv'
  <1>0. ChurnTypeOK /\ OneSweepHandles /\ ChargesAreKnown /\ ReadersSawItOpen
    BY DEF ChurnIInv
  <1>1. ChurnTypeOK'
    BY <1>0, ChurnNumbers, SweepTypes
    DEF ChurnTypeOK, Enroll, At, Elsewhere, subscriptions, requests, returns, CaseStatuses, Labels
  <1>2. OneSweepHandles'
    BY <1>0, ChurnNumbers, SweepTypes
    DEF ChurnTypeOK, OneSweepHandles, Handling, Enroll, At, BeforeCharge, AfterCharge
  <1>3. ChargesAreKnown'
    BY <1>0, ChurnNumbers, SweepTypes
    DEF ChurnTypeOK, OneSweepHandles, ChargesAreKnown, Handling, Enroll, At, returns, BeforeCharge,
        AfterCharge
  <1>4. ReadersSawItOpen'
    BY <1>0 DEF ReadersSawItOpen, Enroll, Elsewhere, requests
  <1> QED
    BY <1>1, <1>2, <1>3, <1>4 DEF ChurnIInv

(* The list of due cases is read: no return is taken in hand.                *)
LEMMA FindDueCasesKeeps ==
  ASSUME ChurnIInv, NEW w \in Sweeps, FindDueCases(w)
  PROVE  ChurnIInv'
  <1>0. ChurnTypeOK /\ OneSweepHandles /\ ChargesAreKnown /\ ReadersSawItOpen
    BY DEF ChurnIInv
  <1> DEFINE due == {s \in Subs : Due(s)}
             skip == {s \in silent : Due(s)}
  <1>a. /\ sweep[w].label = "enrolling" /\ due \in SUBSET Subs /\ skip \in SUBSET Subs
        /\ sweep' = [sweep EXCEPT ![w].label = "looping", ![w].due = due, ![w].skip = skip]
        /\ UNCHANGED <<Elsewhere, case, returns, ran, failedCalls, crashes>>
    BY <1>0 DEF FindDueCases, At, ChurnTypeOK
  <1> HIDE DEF due, skip
  <1> DEFINE new == [sweep[w] EXCEPT !.label = "looping", !.due = due, !.skip = skip]
  <1>b. /\ new \in [label : Labels, found : SUBSET Subs, due : SUBSET Subs,
                   skip : SUBSET Subs, now : Subs \cup {Nobody}]
        /\ new.label = "looping" /\ new.now = sweep[w].now /\ sweep[w].now = Nobody
    BY <1>0, <1>a, SweepTypes DEF Labels
  <1>c. sweep' = [sweep EXCEPT ![w] = new]
    BY <1>0, <1>a DEF ChurnTypeOK
  <1> HIDE DEF new
  <1>1. ChurnTypeOK'
    BY <1>0, <1>a, <1>b, <1>c DEF ChurnTypeOK, Elsewhere, subscriptions, requests, returns
  <1>d. \A v \in Sweeps : sweep'[v] = IF v = w THEN new ELSE sweep[v]
    BY <1>0, <1>c DEF ChurnTypeOK
  <1>2. OneSweepHandles'
    <2>1. \A v \in Sweeps : sweep'[v].now # Nobody <=> sweep'[v].label \in BeforeCharge \cup AfterCharge
      BY <1>0, <1>b, <1>d DEF OneSweepHandles, BeforeCharge, AfterCharge
    <2>2. \A v \in Sweeps : sweep'[v].now = sweep[v].now
      BY <1>b, <1>d
    <2>3. \A u, v \in Sweeps, s \in Subs : Handling(u, s)' /\ Handling(v, s)' => u = v
      BY <1>0, <2>2 DEF OneSweepHandles, Handling
    <2>4. \A v \in Sweeps, s \in Subs : Handling(v, s)' => case'[s].status \in {"sending", "skipped"}
      BY <1>0, <1>a, <2>2 DEF OneSweepHandles, Handling
    <2> QED
      BY <2>1, <2>3, <2>4 DEF OneSweepHandles, BeforeCharge, AfterCharge
  <1>3. ChargesAreKnown'
    BY <1>0, <1>a, ChurnNumbers, SweepTypes
    DEF ChurnTypeOK, OneSweepHandles, ChargesAreKnown, Handling, returns, BeforeCharge, AfterCharge
  <1>4. ReadersSawItOpen'
    BY <1>0 DEF ReadersSawItOpen, FindDueCases, Elsewhere, requests
  <1> QED
    BY <1>1, <1>2, <1>3, <1>4 DEF ChurnIInv

(* A case is skipped, though another sweep may have it in hand by now.       *)
LEMMA SkipKeeps ==
  ASSUME ChurnIInv, NEW w \in Sweeps, NEW s \in Subs, Skip(w, s)
  PROVE  ChurnIInv'
  <1>0. ChurnTypeOK /\ OneSweepHandles /\ ChargesAreKnown /\ ReadersSawItOpen
    BY DEF ChurnIInv
  <1>1. ChurnTypeOK'
    BY <1>0, ChurnNumbers, SweepTypes
    DEF ChurnTypeOK, Skip, At, Elsewhere, subscriptions, requests, returns, CaseStatuses
  <1>2. OneSweepHandles'
    BY <1>0, ChurnNumbers, SweepTypes
    DEF ChurnTypeOK, OneSweepHandles, Handling, Skip, At, BeforeCharge, AfterCharge
  <1>3. ChargesAreKnown'
    BY <1>0, ChurnNumbers, SweepTypes
    DEF ChurnTypeOK, OneSweepHandles, ChargesAreKnown, Handling, Skip, At, returns, BeforeCharge,
        AfterCharge
  <1>4. ReadersSawItOpen'
    BY <1>0 DEF ReadersSawItOpen, Skip, Elsewhere, requests
  <1> QED
    BY <1>1, <1>2, <1>3, <1>4 DEF ChurnIInv

(* A pending case is in nobody's hands, and is claimed; another one is left. *)
LEMMA ClaimKeeps ==
  ASSUME ChurnIInv, NEW w \in Sweeps, NEW s \in Subs, Claim(w, s)
  PROVE  ChurnIInv'
  <1>0. ChurnTypeOK /\ OneSweepHandles /\ ChargesAreKnown /\ ReadersSawItOpen
    BY DEF ChurnIInv
  <1> DEFINE rest == sweep[w].due \ {s}
  <1>a. /\ sweep[w].label = "looping" /\ sweep[w].now = Nobody /\ rest \in SUBSET Subs
        /\ UNCHANGED <<Elsewhere, returns, ran, failedCalls, crashes>>
    BY <1>0, SweepTypes DEF Claim, ClaimIf, At, ChurnTypeOK
  <1> CASE case[s].status # "pending"
    <2>1. case' = case /\ sweep' = [sweep EXCEPT ![w].due = rest]
      BY <1>0 DEF Claim, ClaimIf, ChurnTypeOK
    <2> HIDE DEF rest
    <2>2. ChurnTypeOK'
      BY <1>0, <1>a, <2>1 DEF ChurnTypeOK, Elsewhere, subscriptions, requests, returns
    <2>3. OneSweepHandles' /\ ChargesAreKnown'
      BY <1>0, <1>a, <2>1 DEF ChurnTypeOK, OneSweepHandles, ChargesAreKnown, Handling, returns
    <2>4. ReadersSawItOpen'
      BY <1>0, <1>a DEF ReadersSawItOpen, Elsewhere, requests
    <2> QED
      BY <2>2, <2>3, <2>4 DEF ChurnIInv
  <1> SUFFICES ASSUME case[s].status = "pending"
               PROVE  ChurnIInv'
    OBVIOUS
  <1>b. /\ case' = [case EXCEPT ![s].status = "sending"]
        /\ sweep' = [sweep EXCEPT ![w].due = rest, ![w].label = "claimed", ![w].now = s]
    BY DEF Claim, ClaimIf
  <1>c. \A v \in Sweeps : ~Handling(v, s)
    BY <1>0 DEF OneSweepHandles
  <1> HIDE DEF rest
  <1>1. ChurnTypeOK'
    BY <1>0, <1>a, <1>b DEF ChurnTypeOK, Elsewhere, subscriptions, requests, returns, Labels, CaseStatuses
  <1>2. OneSweepHandles'
    BY <1>0, <1>a, <1>b, <1>c, ChurnNumbers
    DEF ChurnTypeOK, OneSweepHandles, Handling, BeforeCharge, AfterCharge
  <1>3. ChargesAreKnown'
    BY <1>0, <1>a, <1>b, <1>c, ChurnNumbers
    DEF ChurnTypeOK, OneSweepHandles, ChargesAreKnown, Handling, returns, BeforeCharge, AfterCharge
  <1>4. ReadersSawItOpen'
    BY <1>0 DEF ReadersSawItOpen, Claim, ClaimIf, Elsewhere, requests
  <1> QED
    BY <1>1, <1>2, <1>3, <1>4 DEF ChurnIInv

(* The charge to come gets its invoice.                                      *)
LEMMA ReserveInvoiceKeeps ==
  ASSUME ChurnIInv, NEW w \in Sweeps, ReserveInvoice(w)
  PROVE  ChurnIInv'
  <1>0. ChurnTypeOK /\ OneSweepHandles /\ ChargesAreKnown /\ ReadersSawItOpen
    BY DEF ChurnIInv
  <1>a. /\ sweep[w].now \in Subs
        /\ reserved' = [reserved EXCEPT ![sweep[w].now] = @ + 1]
        /\ sweep' = [sweep EXCEPT ![w].label = "reserved"]
        /\ UNCHANGED <<Elsewhere, case, attached, charges, lost, messages, ran, failedCalls, crashes>>
    BY <1>0, SweepTypes DEF ReserveInvoice, At, To, BeforeCharge
  <1>b. reserved' \in [Subs -> Nat]
    <2> DEFINE s == sweep[w].now
    <2>1. s \in Subs /\ reserved' = [reserved EXCEPT ![s] = @ + 1]
      BY <1>a
    <2> HIDE DEF s
    <2> QED
      BY <1>0, <2>1 DEF ChurnTypeOK
  <1>d. sweep' \in [Sweeps -> [label : Labels, found : SUBSET Subs, due : SUBSET Subs,
                             skip : SUBSET Subs, now : Subs \cup {Nobody}]]
    BY <1>0, <1>a DEF ChurnTypeOK, Labels
  <1>1. ChurnTypeOK'
    BY <1>0, <1>a, <1>b, <1>d DEF ChurnTypeOK, Elsewhere, subscriptions, requests
  <1>2. OneSweepHandles'
    BY <1>0, ChurnNumbers, SweepTypes
    DEF ChurnTypeOK, OneSweepHandles, Handling, ReserveInvoice, At, To, BeforeCharge, AfterCharge
  <1>3. ChargesAreKnown'
    BY <1>0, ChurnNumbers, SweepTypes
    DEF ChurnTypeOK, OneSweepHandles, ChargesAreKnown, Handling, ReserveInvoice, At, To,
        BeforeCharge, AfterCharge
  <1>4. ReadersSawItOpen'
    BY <1>0 DEF ReadersSawItOpen, ReserveInvoice, Elsewhere, requests
  <1> QED
    BY <1>1, <1>2, <1>3, <1>4 DEF ChurnIInv

(* The one charge beside the lost ones.                                      *)
LEMMA CreateChargeKeeps ==
  ASSUME ChurnIInv, NEW w \in Sweeps, CreateCharge(w)
  PROVE  ChurnIInv'
  <1>0. ChurnTypeOK /\ OneSweepHandles /\ ChargesAreKnown /\ ReadersSawItOpen
    BY DEF ChurnIInv
  <1>a. /\ sweep[w].now \in Subs
        /\ charges' = [charges EXCEPT ![sweep[w].now] = @ + 1]
        /\ sweep' = [sweep EXCEPT ![w].label = "charged"]
        /\ UNCHANGED <<Elsewhere, case, reserved, attached, lost, messages, ran, failedCalls, crashes>>
    BY <1>0, SweepTypes DEF CreateCharge, At, To, BeforeCharge
  <1>b. charges' \in [Subs -> Nat]
    <2> DEFINE s == sweep[w].now
    <2>1. s \in Subs /\ charges' = [charges EXCEPT ![s] = @ + 1]
      BY <1>a
    <2> HIDE DEF s
    <2> QED
      BY <1>0, <2>1 DEF ChurnTypeOK
  <1>d. sweep' \in [Sweeps -> [label : Labels, found : SUBSET Subs, due : SUBSET Subs,
                             skip : SUBSET Subs, now : Subs \cup {Nobody}]]
    BY <1>0, <1>a DEF ChurnTypeOK, Labels
  <1>1. ChurnTypeOK'
    BY <1>0, <1>a, <1>b, <1>d DEF ChurnTypeOK, Elsewhere, subscriptions, requests
  <1>2. OneSweepHandles'
    BY <1>0, ChurnNumbers, SweepTypes
    DEF ChurnTypeOK, OneSweepHandles, Handling, CreateCharge, At, To, BeforeCharge, AfterCharge
  <1>3. ChargesAreKnown'
    BY <1>0, ChurnNumbers, SweepTypes
    DEF ChurnTypeOK, OneSweepHandles, ChargesAreKnown, Handling, CreateCharge, At, To,
        BeforeCharge, AfterCharge
  <1>4. ReadersSawItOpen'
    BY <1>0 DEF ReadersSawItOpen, CreateCharge, Elsewhere, requests
  <1> QED
    BY <1>1, <1>2, <1>3, <1>4 DEF ChurnIInv

(* The invoice was reserved by this sweep, and is there.                     *)
LEMMA AttachChargeKeeps ==
  ASSUME ChurnIInv, NEW w \in Sweeps, AttachCharge(w)
  PROVE  ChurnIInv'
  <1>0. ChurnTypeOK /\ OneSweepHandles /\ ChargesAreKnown /\ ReadersSawItOpen
    BY DEF ChurnIInv
  <1>a. /\ sweep[w].label = "charged" /\ sweep[w].now \in Subs
        /\ reserved' = [reserved EXCEPT ![sweep[w].now] = @ - 1]
        /\ attached' = [attached EXCEPT ![sweep[w].now] = @ + 1]
        /\ sweep' = [sweep EXCEPT ![w].label = "attached"]
        /\ UNCHANGED <<Elsewhere, case, charges, lost, messages, ran, failedCalls, crashes>>
    BY <1>0, SweepTypes DEF AttachCharge, At, To, AfterCharge
  <1>b. reserved[sweep[w].now] > 0
    BY <1>0, <1>a DEF ChargesAreKnown, Handling
  <1>c. reserved' \in [Subs -> Nat] /\ attached' \in [Subs -> Nat]
    BY <1>0, <1>a, <1>b DEF ChurnTypeOK
  <1>d. sweep' \in [Sweeps -> [label : Labels, found : SUBSET Subs, due : SUBSET Subs,
                             skip : SUBSET Subs, now : Subs \cup {Nobody}]]
    BY <1>0, <1>a DEF ChurnTypeOK, Labels
  <1>1. ChurnTypeOK'
    BY <1>0, <1>a, <1>c, <1>d DEF ChurnTypeOK, Elsewhere, subscriptions, requests
  <1>2. OneSweepHandles'
    BY <1>0, ChurnNumbers, SweepTypes
    DEF ChurnTypeOK, OneSweepHandles, Handling, AttachCharge, At, To, BeforeCharge, AfterCharge
  <1>3. ChargesAreKnown'
    BY <1>0, ChurnNumbers, SweepTypes
    DEF ChurnTypeOK, OneSweepHandles, ChargesAreKnown, Handling, AttachCharge, At, To,
        BeforeCharge, AfterCharge
  <1>4. ReadersSawItOpen'
    BY <1>0 DEF ReadersSawItOpen, AttachCharge, Elsewhere, requests
  <1> QED
    BY <1>1, <1>2, <1>3, <1>4 DEF ChurnIInv

(* The offer is published, its charge made.                                  *)
LEMMA PublishOfferKeeps ==
  ASSUME ChurnIInv, NEW w \in Sweeps, PublishOffer(w)
  PROVE  ChurnIInv'
  <1>0. ChurnTypeOK /\ OneSweepHandles /\ ChargesAreKnown /\ ReadersSawItOpen
    BY DEF ChurnIInv
  <1>1. ChurnTypeOK'
    BY <1>0, ChurnNumbers, SweepTypes
    DEF ChurnTypeOK, PublishOffer, At, To, Elsewhere, subscriptions, requests, Labels,
        BeforeCharge, AfterCharge
  <1>2. OneSweepHandles'
    BY <1>0, ChurnNumbers, SweepTypes
    DEF ChurnTypeOK, OneSweepHandles, Handling, PublishOffer, At, To, BeforeCharge, AfterCharge
  <1>3. ChargesAreKnown'
    BY <1>0, ChurnNumbers, SweepTypes
    DEF ChurnTypeOK, OneSweepHandles, ChargesAreKnown, Handling, PublishOffer, At, To,
        BeforeCharge, AfterCharge
  <1>4. ReadersSawItOpen'
    BY <1>0 DEF ReadersSawItOpen, PublishOffer, Elsewhere, requests
  <1> QED
    BY <1>1, <1>2, <1>3, <1>4 DEF ChurnIInv

(* The case says that there is a charge, and is let go.                      *)
LEMMA MarkSentKeeps ==
  ASSUME ChurnIInv, NEW w \in Sweeps, MarkSent(w)
  PROVE  ChurnIInv'
  <1>0. ChurnTypeOK /\ OneSweepHandles /\ ChargesAreKnown /\ ReadersSawItOpen
    BY DEF ChurnIInv
  <1>1. ChurnTypeOK'
    BY <1>0, ChurnNumbers, SweepTypes
    DEF ChurnTypeOK, MarkSent, At, Elsewhere, subscriptions, requests, returns, Labels,
        CaseStatuses, BeforeCharge, AfterCharge
  <1>2. OneSweepHandles'
    BY <1>0, ChurnNumbers, SweepTypes
    DEF ChurnTypeOK, OneSweepHandles, Handling, MarkSent, At, BeforeCharge, AfterCharge
  <1>3. ChargesAreKnown'
    BY <1>0, ChurnNumbers, SweepTypes
    DEF ChurnTypeOK, OneSweepHandles, ChargesAreKnown, Handling, MarkSent, At, returns,
        BeforeCharge, AfterCharge
  <1>4. ReadersSawItOpen'
    BY <1>0 DEF ReadersSawItOpen, MarkSent, Elsewhere, requests
  <1> QED
    BY <1>1, <1>2, <1>3, <1>4 DEF ChurnIInv

(* A case without a charge is given back.                                    *)
LEMMA RevertToPendingKeeps ==
  ASSUME ChurnIInv, NEW w \in Sweeps, RevertToPending(w)
  PROVE  ChurnIInv'
  <1>0. ChurnTypeOK /\ OneSweepHandles /\ ChargesAreKnown /\ ReadersSawItOpen
    BY DEF ChurnIInv
  <1>1. ChurnTypeOK'
    BY <1>0, ChurnNumbers, SweepTypes
    DEF ChurnTypeOK, RevertToPending, At, Elsewhere, subscriptions, requests, returns, Labels,
        CaseStatuses, BeforeCharge, AfterCharge
  <1>2. OneSweepHandles'
    BY <1>0, ChurnNumbers, SweepTypes
    DEF ChurnTypeOK, OneSweepHandles, Handling, RevertToPending, At, BeforeCharge, AfterCharge
  <1>3. ChargesAreKnown'
    BY <1>0, ChurnNumbers, SweepTypes
    DEF ChurnTypeOK, OneSweepHandles, ChargesAreKnown, Handling, RevertToPending, At, returns,
        BeforeCharge, AfterCharge
  <1>4. ReadersSawItOpen'
    BY <1>0 DEF ReadersSawItOpen, RevertToPending, Elsewhere, requests
  <1> QED
    BY <1>1, <1>2, <1>3, <1>4 DEF ChurnIInv

(* A sweep ends with nothing in hand.                                        *)
LEMMA EndSweepKeeps ==
  ASSUME ChurnIInv, NEW w \in Sweeps, EndSweep(w)
  PROVE  ChurnIInv'
  <1>0. ChurnTypeOK /\ OneSweepHandles /\ ChargesAreKnown /\ ReadersSawItOpen
    BY DEF ChurnIInv
  <1>1. ChurnTypeOK'
    BY <1>0, ChurnNumbers, SweepTypes
    DEF ChurnTypeOK, EndSweep, At, Elsewhere, subscriptions, requests, returns, Resting, Labels
  <1>2. OneSweepHandles'
    BY <1>0, ChurnNumbers, SweepTypes
    DEF ChurnTypeOK, OneSweepHandles, Handling, EndSweep, At, Resting, BeforeCharge, AfterCharge
  <1>3. ChargesAreKnown'
    BY <1>0, ChurnNumbers, SweepTypes
    DEF ChurnTypeOK, OneSweepHandles, ChargesAreKnown, Handling, EndSweep, At, returns, Resting,
        BeforeCharge, AfterCharge
  <1>4. ReadersSawItOpen'
    BY <1>0 DEF ReadersSawItOpen, EndSweep, Elsewhere, requests
  <1> QED
    BY <1>1, <1>2, <1>3, <1>4 DEF ChurnIInv

(* Neither a charge nor a lost one.                                          *)
LEMMA ChargeFailsKeeps ==
  ASSUME ChurnIInv, NEW w \in Sweeps, ChargeFails(w)
  PROVE  ChurnIInv'
  <1>0. ChurnTypeOK /\ OneSweepHandles /\ ChargesAreKnown /\ ReadersSawItOpen
    BY DEF ChurnIInv
  <1>1. ChurnTypeOK'
    BY <1>0, ChurnNumbers, SweepTypes
    DEF ChurnTypeOK, ChargeFails, At, FailTo, To, Elsewhere, subscriptions, requests, Labels,
        BeforeCharge, AfterCharge
  <1>2. OneSweepHandles'
    BY <1>0, ChurnNumbers, SweepTypes
    DEF ChurnTypeOK, OneSweepHandles, Handling, ChargeFails, At, FailTo, To, BeforeCharge,
        AfterCharge
  <1>3. ChargesAreKnown'
    BY <1>0, ChurnNumbers, SweepTypes
    DEF ChurnTypeOK, OneSweepHandles, ChargesAreKnown, Handling, ChargeFails, At, FailTo, To,
        BeforeCharge, AfterCharge
  <1>4. ReadersSawItOpen'
    BY <1>0 DEF ReadersSawItOpen, ChargeFails, FailTo, Elsewhere, requests
  <1> QED
    BY <1>1, <1>2, <1>3, <1>4 DEF ChurnIInv

(* A charge, and it is a lost one.                                           *)
LEMMA AnswerLostKeeps ==
  ASSUME ChurnIInv, NEW w \in Sweeps, AnswerLost(w)
  PROVE  ChurnIInv'
  <1>0. ChurnTypeOK /\ OneSweepHandles /\ ChargesAreKnown /\ ReadersSawItOpen
    BY DEF ChurnIInv
  <1>1. ChurnTypeOK'
    BY <1>0, ChurnNumbers, SweepTypes
    DEF ChurnTypeOK, AnswerLost, At, FailTo, To, Elsewhere, subscriptions, requests, Labels,
        BeforeCharge, AfterCharge
  <1>2. OneSweepHandles'
    BY <1>0, ChurnNumbers, SweepTypes
    DEF ChurnTypeOK, OneSweepHandles, Handling, AnswerLost, At, FailTo, To, BeforeCharge,
        AfterCharge
  <1>3. ChargesAreKnown'
    BY <1>0, ChurnNumbers, SweepTypes
    DEF ChurnTypeOK, OneSweepHandles, ChargesAreKnown, Handling, AnswerLost, At, FailTo, To,
        BeforeCharge, AfterCharge
  <1>4. ReadersSawItOpen'
    BY <1>0 DEF ReadersSawItOpen, AnswerLost, FailTo, Elsewhere, requests
  <1> QED
    BY <1>1, <1>2, <1>3, <1>4 DEF ChurnIInv

(* The charge exists; the sweep goes on to mark its case.                    *)
LEMMA AfterworkFailsKeeps ==
  ASSUME ChurnIInv, NEW w \in Sweeps, AfterworkFails(w)
  PROVE  ChurnIInv'
  <1>0. ChurnTypeOK /\ OneSweepHandles /\ ChargesAreKnown /\ ReadersSawItOpen
    BY DEF ChurnIInv
  <1>1. ChurnTypeOK'
    BY <1>0, ChurnNumbers, SweepTypes
    DEF ChurnTypeOK, AfterworkFails, At, FailTo, To, Elsewhere, subscriptions, requests, Labels
  <1>2. OneSweepHandles'
    BY <1>0, ChurnNumbers, SweepTypes
    DEF ChurnTypeOK, OneSweepHandles, Handling, AfterworkFails, At, FailTo, To, BeforeCharge,
        AfterCharge
  <1>3. ChargesAreKnown'
    BY <1>0, ChurnNumbers, SweepTypes
    DEF ChurnTypeOK, OneSweepHandles, ChargesAreKnown, Handling, AfterworkFails, At, FailTo, To,
        BeforeCharge, AfterCharge
  <1>4. ReadersSawItOpen'
    BY <1>0 DEF ReadersSawItOpen, AfterworkFails, FailTo, Elsewhere, requests
  <1> QED
    BY <1>1, <1>2, <1>3, <1>4 DEF ChurnIInv

(* The case stays claimed, and is in nobody's hands.                         *)
LEMMA CatchFailsKeeps ==
  ASSUME ChurnIInv, NEW w \in Sweeps, CatchFails(w)
  PROVE  ChurnIInv'
  <1>0. ChurnTypeOK /\ OneSweepHandles /\ ChargesAreKnown /\ ReadersSawItOpen
    BY DEF ChurnIInv
  <1>1. ChurnTypeOK'
    BY <1>0, ChurnNumbers, SweepTypes
    DEF ChurnTypeOK, CatchFails, At, Elsewhere, subscriptions, requests, returns, Labels,
        BeforeCharge, AfterCharge
  <1>2. OneSweepHandles'
    BY <1>0, ChurnNumbers, SweepTypes
    DEF ChurnTypeOK, OneSweepHandles, Handling, CatchFails, At, BeforeCharge, AfterCharge
  <1>3. ChargesAreKnown'
    BY <1>0, ChurnNumbers, SweepTypes
    DEF ChurnTypeOK, OneSweepHandles, ChargesAreKnown, Handling, CatchFails, At, returns,
        BeforeCharge, AfterCharge
  <1>4. ReadersSawItOpen'
    BY <1>0 DEF ReadersSawItOpen, CatchFails, Elsewhere, requests
  <1> QED
    BY <1>1, <1>2, <1>3, <1>4 DEF ChurnIInv

(* What the sweep had in hand stays claimed.                                 *)
LEMMA CrashSweepKeeps ==
  ASSUME ChurnIInv, NEW w \in Sweeps, CrashSweep(w)
  PROVE  ChurnIInv'
  <1>0. ChurnTypeOK /\ OneSweepHandles /\ ChargesAreKnown /\ ReadersSawItOpen
    BY DEF ChurnIInv
  <1>1. ChurnTypeOK'
    BY <1>0, ChurnNumbers, SweepTypes
    DEF ChurnTypeOK, CrashSweep, At, Elsewhere, subscriptions, requests, returns, Resting, Labels
  <1>2. OneSweepHandles'
    BY <1>0, ChurnNumbers, SweepTypes
    DEF ChurnTypeOK, OneSweepHandles, Handling, CrashSweep, At, Resting, BeforeCharge, AfterCharge
  <1>3. ChargesAreKnown'
    BY <1>0, ChurnNumbers, SweepTypes
    DEF ChurnTypeOK, OneSweepHandles, ChargesAreKnown, Handling, CrashSweep, At, returns, Resting,
        BeforeCharge, AfterCharge
  <1>4. ReadersSawItOpen'
    BY <1>0 DEF ReadersSawItOpen, CrashSweep, Elsewhere, requests
  <1> QED
    BY <1>1, <1>2, <1>3, <1>4 DEF ChurnIInv

(* A new day: all sweeps are at rest, and the cases keep their status.          *)
LEMMA NextDayKeeps ==
  ASSUME ChurnIInv, NextDay
  PROVE  ChurnIInv'
  <1>0. ChurnTypeOK /\ OneSweepHandles /\ ChargesAreKnown /\ ReadersSawItOpen
    BY DEF ChurnIInv
  <1>1. UNCHANGED <<status, silent, requests, returns, sweep, failedCalls, crashes>> /\ ran' = {}
    BY DEF NextDay
  <1>2. \A s \in Subs : case'[s].status = case[s].status
    BY <1>0 DEF NextDay, ChurnTypeOK
  <1>3. case' \in [Subs -> [status : CaseStatuses, age : 0 .. DaysAfter]]
    <2> SUFFICES ASSUME NEW s \in Subs
                 PROVE  case'[s] \in [status : CaseStatuses, age : 0 .. DaysAfter]
      BY DEF NextDay
    <2> DEFINE c == case[s]
    <2>1. c \in [status : CaseStatuses, age : 0 .. DaysAfter]
      BY <1>0 DEF ChurnTypeOK
    <2>2. case'[s] = IF c.status = "none" \/ c.age = DaysAfter THEN c ELSE [c EXCEPT !.age = c.age + 1]
      BY DEF NextDay
    <2> HIDE DEF c
    <2>3. CASE c.status = "none" \/ c.age = DaysAfter
      BY <2>1, <2>2, <2>3
    <2>4. CASE ~(c.status = "none" \/ c.age = DaysAfter)
      <3>1. c.age \in 0 .. DaysAfter /\ c.age # DaysAfter
        BY <2>1, <2>4
      <3>2. c.age + 1 \in 0 .. DaysAfter
        BY <3>1, ChurnNumbers
      <3> QED
        BY <2>1, <2>2, <2>4, <3>2
    <2> QED
      BY <2>3, <2>4
  <1>4. discounted' \subseteq Subs
    BY <1>0 DEF NextDay, ChurnTypeOK
  <1>5. ChurnTypeOK'
    BY <1>0, <1>1, <1>3, <1>4 DEF ChurnTypeOK, requests, returns
  <1>6. OneSweepHandles' /\ ChargesAreKnown'
    BY <1>0, <1>1, <1>2 DEF OneSweepHandles, ChargesAreKnown, Handling, returns
  <1>7. ReadersSawItOpen'
    BY <1>0, <1>1 DEF ReadersSawItOpen, requests
  <1> QED
    BY <1>5, <1>6, <1>7 DEF ChurnIInv

-----------------------------------------------------------------------------
(* The theorems.                                                              *)

LEMMA ChurnInitInvariant ==
  ASSUME ChurnInit
  PROVE  ChurnIInv
  <1>1. ChurnTypeOK
    BY ChurnNumbers DEF ChurnInit, ChurnTypeOK, Statuses, RequestRows, Resolutions, CaseStatuses, Labels, Resting
  <1>2. OneSweepHandles
    BY ChurnNumbers DEF ChurnInit, OneSweepHandles, Handling, Resting, BeforeCharge, AfterCharge
  <1>3. ChargesAreKnown
    BY ChurnNumbers DEF ChurnInit, ChargesAreKnown, Handling, Resting
  <1>4. ReadersSawItOpen
    BY DEF ChurnInit, ReadersSawItOpen
  <1> QED
    BY <1>1, <1>2, <1>3, <1>4 DEF ChurnIInv

(* What the code keeps at every step: one sweep at most has a return in hand,   *)
(* charges and cases agree, and a resolution has read its request open.        *)
THEOREM ChurnInvariance == ChurnSpec => []ChurnIInv
  <1>1. ChurnInit => ChurnIInv
    BY ChurnInitInvariant
  <1>2. ChurnIInv /\ [ChurnNext]_churnVars => ChurnIInv'
    <2> SUFFICES ASSUME ChurnIInv, [ChurnNext]_churnVars
                 PROVE  ChurnIInv'
      OBVIOUS
    <2>1. CASE OwnerStep
      BY <2>1, OwnerKeepsInvariant
    <2>2. CASE \E w \in Sweeps : SweepStep(w)
      BY <2>2, StartSweepKeeps, EnrollKeeps, SkipKeeps, ClaimKeeps, FindDueCasesKeeps, ReserveInvoiceKeeps,
         CreateChargeKeeps, AttachChargeKeeps, PublishOfferKeeps, MarkSentKeeps, RevertToPendingKeeps,
         EndSweepKeeps DEF SweepStep
    <2>3. CASE \E w \in Sweeps : Fault(w)
      BY <2>3, ChargeFailsKeeps, AnswerLostKeeps, AfterworkFailsKeeps, CatchFailsKeeps, CrashSweepKeeps DEF Fault
    <2>4. CASE NextDay
      BY <2>4, NextDayKeeps
    <2>5. CASE UNCHANGED churnVars
      BY <2>5 DEF ChurnIInv, ChurnTypeOK, OneSweepHandles, ChargesAreKnown, ReadersSawItOpen, Handling,
                  churnVars, subscriptions, requests, returns, sweeps
    <2> QED
      BY <2>1, <2>2, <2>3, <2>4, <2>5 DEF ChurnNext
  <1> QED
    BY <1>1, <1>2, PTL DEF ChurnSpec

(* RN-4502: sweeps that overlap, die or fail charge a return once, and once     *)
(* more for each charge whose answer was lost; the case follows the charge.    *)
THEOREM ReturnsAreChargedOnce == ChurnSpec => []ReturnChargedOnce
  <1>1. ChurnIInv => ReturnChargedOnce
    <2> SUFFICES ASSUME ChurnIInv, NEW s \in Subs
                 PROVE  /\ charges[s] <= 1 + lost[s]
                        /\ case[s].status = "sent" => charges[s] > 0
                        /\ case[s].status \in {"none", "pending"} => charges[s] = lost[s]
      BY DEF ReturnChargedOnce, ChurnIInv
    <2>1. charges[s] \in Nat /\ lost[s] \in Nat
      BY DEF ChurnIInv, ChurnTypeOK
    <2>2. /\ charges[s] \in {lost[s], lost[s] + 1}
          /\ case[s].status \in {"none", "pending"} => charges[s] = lost[s]
          /\ case[s].status = "sent" => charges[s] = lost[s] + 1
      BY DEF ChurnIInv, ChargesAreKnown
    <2> QED
      BY <2>1, <2>2
  <1> QED
    BY <1>1, ChurnInvariance, PTL

(* RetentionRepository.resolve tests nothing, but only somebody who read the    *)
(* request while it was open gets there.                                       *)
THEOREM OnlyStaleReadersResolveAgain == ChurnSpec => ResolvedAgainByStaleReader
  <1> DEFINE Stale(q) == \E r \in Resolvers : resolver[r].id = q /\ resolver[r].seen.status = "open"
             Step == \A q \in CancellationRequests :
               cancellationRequest[q].status \in Outcomes /\ cancellationRequest'[q] # cancellationRequest[q]
                 => Stale(q)
  <1>1. ChurnIInv /\ [ChurnNext]_churnVars => [Step]_churnVars
    <2> SUFFICES ASSUME ChurnIInv, [ChurnNext]_churnVars, NEW q \in CancellationRequests,
                        cancellationRequest[q].status \in Outcomes,
                        cancellationRequest'[q] # cancellationRequest[q]
                 PROVE  Stale(q)
      OBVIOUS
    <2>0. ChurnTypeOK /\ ReadersSawItOpen
      BY DEF ChurnIInv
    <2>1. cancellationRequest' # cancellationRequest
      OBVIOUS
    <2>2. ~NextDay /\ ~UNCHANGED churnVars
      BY <2>1 DEF NextDay, churnVars, requests
    <2>3. \A w \in Sweeps : ~SweepStep(w) /\ ~Fault(w)
      BY <2>1 DEF SweepStep, Fault, StartSweep, Enroll, Skip, Claim, ClaimIf, FindDueCases, ReserveInvoice,
                  CreateCharge, AttachCharge, PublishOffer, MarkSent, RevertToPending, EndSweep, ChargeFails,
                  AnswerLost, AfterworkFails, CatchFails, CrashSweep, FailTo, Elsewhere, requests
    <2>4. OwnerStep
      BY <2>2, <2>3 DEF ChurnNext
    <2>5. ~\E p \in CancellationRequests, s \in Subs : OpenRequest(p, s)
      BY <2>0 DEF OpenRequest, ChurnTypeOK, NoRequest, Outcomes
    <2>6. PICK r \in Resolvers : Resolve(r)
      BY <2>1, <2>4, <2>5 DEF OwnerStep, UpdateSubscription, UpdateClient, ReadRequest, ReadThen, ResolveFails, requests
    <2>7. /\ resolver[r] # NoResolution
          /\ cancellationRequest' = [cancellationRequest EXCEPT ![resolver[r].id].status = resolver[r].outcome,
                                                                ![resolver[r].id].offer = resolver[r].offer]
      BY <2>6 DEF Resolve, ResolveTo
    <2>8. resolver[r].id = q
      BY <2>0, <2>7 DEF ChurnTypeOK
    <2> QED
      BY <2>0, <2>7, <2>8 DEF ReadersSawItOpen
  <1>2. ResolvedAgainByStaleReader <=> [][Step]_churnVars
    BY DEF ResolvedAgainByStaleReader
  <1> QED
    BY <1>1, <1>2, ChurnInvariance, PTL DEF ChurnSpec

=============================================================================
