------------------------- MODULE QuickBooksContacts -------------------------
(***************************************************************************)
(* Partners exported to QuickBooks (models/res_partner.py).  QuickBooks    *)
(* keeps customers, vendors and employees under one list of display names: *)
(* a name taken by any of them is refused with code 6240, and the export   *)
(* then looks for what took it.  An object is known by its name here.      *)
(*                                                                         *)
(* A request exports partners one after the other.  Each POST is a step,   *)
(* and so is each commit, as the code commits partner by partner.  An      *)
(* exception, a serialization failure or a dead worker ends the request    *)
(* (LoseContact); what it posted stays in QuickBooks.                      *)
(***************************************************************************)
EXTENDS Naturals, Sequences

CONSTANTS
    Clerks,      \* requests
    Contacts,    \* partners of type contact
    NoContact,
    DisplayNames,
    NoName,
    AddressBooks        \* the address books: see AddressBook

(* What an address book says of its partners: the company they belong to,  *)
(* who has the rank of a customer and of a supplier, the name, and the     *)
(* first word of it (GivenName), if that is a name as well.                *)
AddressBook == [parent : [Contacts -> Contacts \cup {NoContact}],
                customer : SUBSET Contacts, supplier : SUBSET Contacts,
                name : [Contacts -> DisplayNames],
                given : [Contacts -> DisplayNames \cup {NoName}]]

ASSUME BooksAssumption ==
    /\ NoContact \notin Contacts /\ NoName \notin DisplayNames
    /\ \A b \in AddressBooks :
          /\ b \in AddressBook /\ b.customer \cup b.supplier = Contacts
          /\ \A p \in Contacts : b.parent[p] # p

VARIABLES
    book,       \* the address book, which stays as it is
    contact,    \* committed rows: the ids and the flag x_quickbooks_exported
    listed,     \* QuickBooks: what has taken each name
    call        \* per request: where it is and what its transaction sees

contactvars == <<book, contact, listed, call>>

Lists == {"customer", "vendor"}
Other(l) == IF l = "customer" THEN "vendor" ELSE "customer"
Ranked(l) == IF l = "customer" THEN book.customer ELSE book.supplier

Unlinked == [customer |-> NoName, vendor |-> NoName, exported |-> FALSE]
NoLinks   == [p \in Contacts |-> Unlinked]
NoCall     == [at |-> "idle", partner |-> NoContact, todo |-> <<>>, answer |-> NoName,
             rows |-> <<>>, base |-> <<>>]

ContactTypeOK ==
    /\ book \in AddressBooks
    /\ contact \in [Contacts -> [customer : DisplayNames \cup {NoName},
                                 vendor : DisplayNames \cup {NoName}, exported : BOOLEAN]]
    /\ listed \in [DisplayNames -> Lists \cup {"free", "other"}]
    /\ \A c \in Clerks : call[c].at \in {"idle", "export", "parent", "own", "more"}

ContactInit ==
    /\ book \in AddressBooks
    /\ contact = NoLinks
    /\ listed \in [DisplayNames -> {"free", "customer", "other"}]
    /\ call = [c \in Clerks |-> NoCall]

Partner(c) == call[c].partner
Parent(c)  == book.parent[Partner(c)]

(* exportPartner: customers go first, a partner with both ranks is one.    *)
Role(p) == IF p \in book.customer THEN "customer" ELSE "vendor"

(* prepareDictStructure sends to the list of each rank of the partner that *)
(* is exported, also when the data is its parent's.                        *)
SendTo(p) == IF p \notin book.customer THEN <<"vendor">>
             ELSE IF p \notin book.supplier THEN <<"customer">> ELSE <<"customer", "vendor">>

(***************************************************************************)
(* Transactions.                                                           *)
(***************************************************************************)
Dirty(c, rows) == {p \in Contacts : rows[p] # call[c].base[p]}

(* A row that another request committed since cannot be updated.           *)
CanCommit(c, rows) == \A p \in Dirty(c, rows) : contact[p] = call[c].base[p]
LinksWith(c, rows) == [p \in Contacts |-> IF p \in Dirty(c, rows) THEN rows[p] ELSE contact[p]]

LoseContact(c) ==
    /\ call[c].at # "idle"
    /\ call' = [call EXCEPT ![c] = NoCall]
    /\ UNCHANGED <<book, contact, listed>>

(* The request goes on, at a place of its code, without a commit.          *)
Go(c, new) == call' = [call EXCEPT ![c] = new] /\ UNCHANGED <<book, contact>>

(* It commits rows and goes on with a new transaction.                     *)
CommitAndGo(c, rows, new) ==
    /\ CanCommit(c, rows)
    /\ contact' = LinksWith(c, rows)
    /\ call' = [call EXCEPT ![c] =
                  IF new = NoCall THEN NoCall ELSE [new EXCEPT !.rows = contact', !.base = contact']]
    /\ UNCHANGED book

(***************************************************************************)
(* checkPartnerInQuickbooks: the name among the vendors, for a supplier,   *)
(* and then among the customers.                                           *)
(***************************************************************************)
NameFound(p) ==
    \/ p \in book.supplier /\ listed[book.name[p]] = "vendor"
    \/ listed[book.name[p]] = "customer"

(* createParentInQuickbooks: the ids that checkPartner stores on q.        *)
Adopted(rows, q, id) ==
    [rows EXCEPT ![q].customer = IF q \in book.customer THEN id ELSE @,
                 ![q].vendor   = IF q \in book.supplier THEN id ELSE @,
                 ![q].exported = TRUE]

(* A successful POST flags the parent of the partner, or the partner.      *)
FamilyFlagged(rows, p) ==
    IF book.parent[p] = NoContact
    THEN [rows EXCEPT ![p].exported = TRUE]
    ELSE [rows EXCEPT ![book.parent[p]].exported = TRUE]

(***************************************************************************)
(* exportCustomer and exportVendor.                                        *)
(***************************************************************************)
BeginContact(c, p) ==
    /\ call[c].at \in {"idle", "more"}
    /\ Go(c, IF call[c].at = "idle"
             THEN [NoCall EXCEPT !.at = "export", !.partner = p, !.rows = contact, !.base = contact]
             ELSE [call[c] EXCEPT !.at = "export", !.partner = p])
    /\ UNCHANGED listed

KnownContact(c) ==
    LET row == call[c].rows[Partner(c)]
    IN  row.exported \/ row[Role(Partner(c))] # NoName

(* updateExistingCustomer and updateExistingVendor: the object is read by  *)
(* the stored id and its details are sent, if the company allows updates.  *)
(* No id is stored here, whatever the answer.                              *)
UpdateContact(c) ==
    /\ call[c].at = "export" /\ KnownContact(c)
    /\ Go(c, [call[c] EXCEPT !.at = "more"])
    /\ UNCHANGED listed

CheckParent(c) ==
    /\ call[c].at = "export" /\ ~KnownContact(c) /\ Parent(c) # NoContact
    /\ Go(c, [call[c] EXCEPT !.at = IF NameFound(Parent(c)) THEN "own" ELSE "parent",
                             !.todo = SendTo(Partner(c)), !.answer = NoName])
    /\ UNCHANGED listed

ExportAlone(c) ==
    /\ call[c].at = "export" /\ ~KnownContact(c) /\ Parent(c) = NoContact
    /\ Go(c, [call[c] EXCEPT !.at = "own", !.todo = SendTo(Partner(c)), !.answer = NoName])
    /\ UNCHANGED listed

(* The partner whose data is sent.                                         *)
Data(c) == IF call[c].at = "parent" THEN Parent(c) ELSE Partner(c)

SendingContact(c) == call[c].at \in {"parent", "own"} /\ call[c].todo # <<>>

(* A customer below a parent that QuickBooks knows as a vendor is refused: *)
(* the reference names no customer.                                        *)
BadParent(c) ==
    /\ call[c].at = "own" /\ Parent(c) # NoContact /\ Head(call[c].todo) = "customer"
    /\ listed[book.name[Parent(c)]] # "customer"

(* The next send; the last answer counts.                                  *)
Answered(c, id) == [call[c] EXCEPT !.todo = Tail(@), !.answer = id]

(* sendDataToQuickbook and sendVendorDataToQuickbook, status 200.          *)
PostContact(c) ==
    /\ SendingContact(c) /\ ~BadParent(c)
    /\ LET n == book.name[Data(c)]
       IN  /\ listed[n] = "free"
           /\ listed' = [listed EXCEPT ![n] = Head(call[c].todo)]
           /\ Go(c, [Answered(c, n) EXCEPT !.rows = FamilyFlagged(@, Partner(c))])

(* Another status is logged.                                               *)
RefuseContact(c) ==
    /\ SendingContact(c) /\ BadParent(c)
    /\ Go(c, Answered(c, NoName))
    /\ UNCHANGED listed

(* Mutant of Namesakes: the refused name is not looked up.                 *)
NoNamesakes(l, p) == {}

(* The partners of the rank whose name is the first word of the refused.   *)
Namesakes(l, p) == {q \in Ranked(l) : book.name[q] = book.given[p]}

(* Mutant of TakenBy: the id of what was refused, for its namesake.        *)
TakenByData(c, q) == book.name[Data(c)]

TakenBy(c, q) == book.name[q]

(* Status 400 with code 6240.  One namesake is looked up in QuickBooks, or *)
(* made there when its name is free, and linked; this is committed.  Then  *)
(* the refusal of a vendor is raised.  (Several namesakes, or one whose    *)
(* name is taken by neither kind, end in an exception: LoseContact.)       *)
Duplicate(c) ==
    /\ SendingContact(c) /\ ~BadParent(c)
    /\ listed[book.name[Data(c)]] # "free"
    /\ LET l == Head(call[c].todo)
           M == Namesakes(l, Data(c))
           new == IF l = "vendor" THEN NoCall ELSE Answered(c, NoName)
       IN  \/ /\ M = {} /\ l = "customer"
              /\ Go(c, new) /\ UNCHANGED listed
           \/ \E q \in Contacts :
                 /\ M = {q} /\ NameFound(q)
                 /\ CommitAndGo(c, [call[c].rows EXCEPT ![q][l] = TakenBy(c, q)], new)
                 /\ UNCHANGED listed
           \/ \E q \in Contacts :
                 /\ M = {q} /\ listed[book.name[q]] = "free" /\ Len(SendTo(Partner(c))) = 1
                 /\ listed' = [listed EXCEPT ![book.name[q]] = l]
                 /\ CommitAndGo(c, [Adopted(FamilyFlagged(call[c].rows, Partner(c)), q, book.name[q])
                                       EXCEPT ![q][l] = TakenBy(c, q)], new)

(* checkPartnerInQuickbooks returns to the export of the child.            *)
StoreParent(c) ==
    /\ call[c].at = "parent" /\ call[c].todo = <<>>
    /\ Go(c, IF call[c].answer = NoName
             THEN [call[c] EXCEPT !.at = "more"]
             ELSE [call[c] EXCEPT !.at = "own", !.todo = SendTo(Partner(c)), !.answer = NoName,
                                  !.rows = Adopted(@, Parent(c), call[c].answer)])
    /\ UNCHANGED listed

StoreContact(c) ==
    /\ call[c].at = "own" /\ call[c].todo = <<>>
    /\ LET p == Partner(c)
           done == [call[c] EXCEPT !.at = "more"]
       IN  IF call[c].answer = NoName
           THEN Go(c, done)
           ELSE CommitAndGo(c, [call[c].rows EXCEPT ![p][Role(p)] = call[c].answer,
                                                    ![p].exported = TRUE], done)
    /\ UNCHANGED listed

EndContact(c) ==
    /\ call[c].at = "more"
    /\ CommitAndGo(c, call[c].rows, NoCall)
    /\ UNCHANGED listed

ContactNext ==
    \E c \in Clerks :
        \/ \E p \in Contacts : BeginContact(c, p)
        \/ UpdateContact(c) \/ CheckParent(c) \/ ExportAlone(c)
        \/ PostContact(c) \/ RefuseContact(c) \/ Duplicate(c)
        \/ StoreParent(c) \/ StoreContact(c) \/ EndContact(c) \/ LoseContact(c)

ContactSpec == ContactInit /\ [][ContactNext]_contactvars

(***************************************************************************)
(* Properties.                                                             *)
(***************************************************************************)
Children(p) == {q \in Contacts : book.parent[q] = p}
Family(p)   == {p} \cup Children(p) \cup ({book.parent[p]} \ {NoContact})

(* A family with both ranks may be sent to the wrong list.                 *)
OneRank(p) == \E l \in Lists : Family(p) \subseteq Ranked(l) \ Ranked(Other(l))

(* A stored id is that of the object with the partner's own name, in the   *)
(* list of its rank, though a refusal links another partner than the one   *)
(* that is exported, and requests overlap (res_partner.py:479, 1062).  A   *)
(* vendor may get the id of a customer that has its name.                  *)
TrueLinks ==
    \A p \in Contacts, l \in Lists :
        contact[p][l] # NoName /\ OneRank(p)
            => /\ contact[p][l] = book.name[p]
               /\ listed[book.name[p]] \in {l, "customer"}

(* The flag says that an id is stored: a flagged partner without id is     *)
(* never exported again and its invoices are refused.  A child whose       *)
(* parent was found by its name flags the parent without one, and so does  *)
(* a refusal that makes a namesake, for the one refused.                   *)
FlaggedLinked ==
    \A p \in Contacts :
        contact[p].exported /\ OneRank(p) /\ Family(p) = {p}
        /\ (\A q \in Contacts : book.name[q] = book.given[p] => q = p)
            => contact[p][Role(p)] # NoName

(* A customer whose POST was done by a request that was lost, or who was   *)
(* in QuickBooks before, is linked by the next export that ends, if it has *)
(* a name of one word (the search compares it with the first word only).   *)
RetryLinks ==
    \A c \in Clerks :
        LET p == Partner(c)
        IN  /\ call[c].at = "more" /\ Role(p) = "customer" /\ OneRank(p) /\ Family(p) = {p}
            /\ book.given[p] = book.name[p]
            /\ \A q \in Contacts \ {p} : book.name[q] # book.name[p]
            /\ listed[book.name[p]] # "other"
            => call[c].rows[p].customer # NoName

(* What Odoo knows of the partners in QuickBooks is right, and a lost      *)
(* export is made up for, as stated part by part above.                    *)
QbContacts == TrueLinks /\ FlaggedLinked /\ RetryLinks
=============================================================================
