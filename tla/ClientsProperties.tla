------------------------- MODULE ClientsProperties -------------------------
(* What must hold of a tenant's clients, of their links and their friends.   *)
EXTENDS Clients

(* Clients who came by a friend's link and for whom nobody is rewarded.       *)
Unreferred ==
  {i \in Ids : /\ There(i) /\ client[i].referredBy # None
               /\ There(client[i].referredBy)
               /\ referral[i] = NoReferral
               /\ \A r \in Requests : request[r] # Idle /\ request[r].op = "referring" => request[r].row # i}

(* A friend counts once: however often the link is used and payments and      *)
(* their follow-ups overlap, a person earns one reward, and one more only     *)
(* when the row with their telephone gave it up; and every friend counts, but *)
(* for a capture that failed between its two writes, which nothing repeats    *)
(* (capture, convertAndCredit, RN-4602, RN-4603).                             *)
FriendsAreCounted ==
  /\ TypeOK
  /\ \A p \in People : grants[p] <= 1 + freed[p]
  /\ Cardinality(Unreferred) <= failures

(* A link that was given to somebody keeps leading to its client for as long  *)
(* as there is one, unless another request for the same link had found none   *)
(* before this one was stored, and stores its own over it (ensureCode,        *)
(* ensurePortalToken, RN-4601, RN-2701); and it never leads to anybody else.  *)
LinksOpen ==
  \A h \in handed :
    /\ Opens(h.kind, h.link) \subseteq {h.row}
    /\ There(h.row) /\ ~h.contested => h.row \in Opens(h.kind, h.link)

(* Personal data that a step writes to the row of an anonymized client.       *)
Regains(i) ==
  /\ client[i].anonymized /\ There(i)'
  /\ \/ client[i].phone = None /\ client'[i].phone # None
     \/ ~client[i].named /\ client'[i].named
     \/ ~client[i].email /\ client'[i].email

(* The import has found the row by a telephone the client no longer has.      *)
OutOfDate(held, i) == \E p \in DOMAIN held.found : held.found[p] = i /\ client[i].phone # p

(* The data of a client who was anonymized come back only because the owner   *)
(* writes to that very client, or gave it a telephone again by which an       *)
(* import finds it, or by an import that had found it before its telephone    *)
(* was removed: a later import, a capture or a registration of the same       *)
(* person makes another client, whatever overlaps (anonymize, importUpsert,   *)
(* RN-L2, RN-L3).                                                             *)
OnlyOldImportsBringBack ==
  [][\A i \in Ids : Regains(i) =>
       \E r \in Requests :
         /\ request'[r] = Idle
         /\ \/ request[r].op = "updating" /\ request[r].row = i
            \/ /\ request[r].op = "importing"
               /\ i \in readmitted \/ OutOfDate(request[r], i)]_vars

-----------------------------------------------------------------------------
(* Why they hold: an inductive invariant, part by part.                       *)

Holds(r, op) == request[r].op = op

(* Whatever names a row names one that was made; a row that is gone does not  *)
(* come back, for numbers are not used again.                                 *)
RowsAreMade ==
  /\ \A i \in Ids : /\ referral[i] # NoReferral => i <= made
                    /\ There(i) /\ client[i].referredBy # None => client[i].referredBy <= made
  /\ \A h \in handed : h.row <= made
  /\ \A r \in Requests :
       /\ Holds(r, "linking") \/ Holds(r, "referring") => request[r].row <= made
       /\ Holds(r, "capturing") \/ Holds(r, "referring") => request[r].referrer <= made

(* A referral is of the friend's row, and is written once.                    *)
ReferralsAreTrue ==
  /\ \A i \in Ids : There(i) /\ referral[i] # NoReferral => client[i].referredBy = referral[i].referrer
  /\ \A r \in Requests : Holds(r, "referring") =>
       /\ referral[request[r].row] = NoReferral
       /\ There(request[r].row) => client[request[r].row].referredBy = request[r].referrer
       /\ \A q \in Requests \ {r} : Holds(q, "referring") => request[q].row # request[r].row

(* The captures of a telephone whose reward is still to come.  Each took the  *)
(* telephone when nobody had it, so that all rows but the last gave it up.    *)
Unrewarded(p) ==
  {i \in Ids : \/ referral[i].status = "pending" /\ referral[i].friend = p
               \/ \E r \in Requests : /\ Holds(r, "referring")
                                      /\ request[r].row = i /\ request[r].phone = p}

FriendsAccountedFor ==
  \A p \in People :
    grants[p] + Cardinality(Unrewarded(p)) <= freed[p] + IF Taken(p) THEN 1 ELSE 0

(* A link is drawn for one client and one kind, and what a client carries was *)
(* handed out; who asks for a link that an uncontested one has been stored    *)
(* for finds it.                                                              *)
LinksAreHanded ==
  /\ \A h \in handed : h.link <= drawn
  /\ \A g, h \in handed : g.link = h.link => g = h
  /\ \A i \in Ids, k \in Kinds : There(i) /\ client[i].links[k] # None =>
       \E h \in handed : h.kind = k /\ h.row = i /\ h.link = client[i].links[k]
  /\ \A h \in handed : There(h.row) /\ ~h.contested =>
       /\ client[h.row].links[h.kind] = h.link
       /\ \A r \in Requests : Holds(r, "linking") => request[r].row # h.row \/ request[r].kind # h.kind

(* An anonymized client has no telephone, but one the owner wrote later.      *)
NotFoundAgain ==
  \A i \in Ids : client[i].anonymized /\ i \notin readmitted => client[i].phone = None

ClientsIInv ==
  /\ TypeOK
  /\ RowsAreMade
  /\ ReferralsAreTrue
  /\ FriendsAccountedFor
  /\ Cardinality(Unreferred) <= failures
  /\ LinksAreHanded
  /\ NotFoundAgain

=============================================================================
