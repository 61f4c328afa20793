SPECIFICATION MCSpec
CONSTANTS
    Procs = {p1, p2}
    t1 = t1
    t2 = t2
    r1 = r1
    r2 = r2
    sku = sku
    Txs = {t1, t2}
    Slow = {t1}
    Refunds = {r1}
    Amount <- MCAmount
    Items <- MCItems
    InvoiceTotal = 3
    Clerks = {p1, p2}
    Contacts = {"p1", "p2", "p3"}
    NoContact = NoContact
    DisplayNames = {"Acme Ltd", "Ann", "Ann Lee"}
    NoName = NoName
    AddressBooks <- MCBooks
    Desks = {p1, p2}
    Goods = {"g1", "g2"}
    Skus = {"g2"}
    Ledgers = {"a1", "a2"}
    Levies = {"t1", "t2"}
    NoLevy = NoLevy
    LedgerOf <- MCLedgerOf
    Papers <- MCPapers
    Forms <- MCForms
    NoMove = NoMove
    Payloads <- MCPayloads
    ListPrice <- MCListPrice
    Fulfilments = {"f1", "f2"}
    NoSale = NoSale
    Parties = {p1, p2}
    Feeds <- MCFeeds
    Email <- MCEmail
    Newcomer = "c3"
    Lower <- MCLower
    Null = Null
    MaxPeople = 9
SYMMETRY Symmetric
INVARIANTS
    BilledOnce
    RefundedOnce
    CreditAfterSettlement
    QbContacts
    QbDocuments
    QbLines
    OrderLines
    ContactsRight
CHECK_DEADLOCK FALSE
