--------------------------- MODULE CatalogProofs ---------------------------
(* The price catalogue keeps its ledgers, its names and its codes, and loses *)
(* no update, for any number of items, references, administrators and rows   *)
(* of the source file: the bounds of the model are only read as guards.      *)
EXTENDS Catalog, FiniteSetTheorems, SequenceTheorems, TLAPS

-----------------------------------------------------------------------------
(* The invariant: the rows, what a form and a plan still know of them, and   *)
(* the parts of the two properties, over all rows.                           *)

AnyName == STRING \cup {"none"}

RefRows == [kind : {"company", "category", "serviceCategory", "injection", "none"},
            name : AnyName, status : {"ACTIVE", "ARCHIVED", "DELETED"}]

ItemRows == [kind : {"product", "service", "none"}, company : Nat, category : Nat,
             code : AnyName, price : AnyPrice, status : {"ACTIVE", "ARCHIVED", "DELETED"},
             version : Nat]

KeptItems == { i \in ItemRows : Kept(i) => i.kind # "none" /\ i.version > 0 }

PriceChanges == [old : AnyPrice, new : AnyPrice]

CatalogTypeOK ==
    /\ refs \in Seq(RefRows)
    /\ \A r \in 1..Len(refs) : Kept(refs[r]) => refs[r].kind # "none"
    /\ items \in Seq(KeptItems)
    /\ history \in Seq(Seq(PriceChanges))
    /\ Len(history) = Len(items)

\* A form shows an item as it was at a version; a row at that version is the row.
FormIsOfAVersion(e) ==
    \/ editing[e] = NotEditing
    \/ /\ editing[e] = [id |-> editing[e].id, seen |-> editing[e].seen]
       /\ editing[e].id \in 1..Len(items)
       /\ editing[e].seen \in KeptItems
       /\ LET now == items[editing[e].id] IN
          Kept(now) => /\ editing[e].seen.version <= now.version
                       /\ editing[e].seen.version = now.version => editing[e].seen = now

Forms ==
    /\ editing = [e \in Editors |-> editing[e]]
    /\ \A e \in Editors : FormIsOfAVersion(e)

\* What an import found is as it was, unless it is gone; and it found different
\* rows under different names.
PlanOK ==
    /\ import.made \in BOOLEAN
    /\ import.made =>
          /\ import.rows \in SUBSET (1..Len(ImportFile))
          /\ \A k, l \in import.rows : k # l => ~SameCode(ImportFile[k], ImportFile[l])
          /\ import.found \in [UNION { NamesIn(ImportFile[k]) : k \in import.rows } -> 0..Len(refs)]
          /\ \A name \in DOMAIN import.found : import.found[name] # NoRef =>
                /\ Kept(refs[import.found[name]]) => refs[import.found[name]].kind = name[1]
                /\ \A other \in DOMAIN import.found :
                      import.found[other] = import.found[name] => other = name

Ledger(entries, price) ==
    /\ price = IF entries = <<>> THEN NoPrice ELSE Last(entries).new
    /\ \A k \in DOMAIN entries :
          /\ entries[k].old = IF k = 1 THEN NoPrice ELSE entries[k - 1].new
          /\ entries[k].new # entries[k].old

Ledgers == \A i \in 1..Len(items) : Kept(items[i]) => Ledger(history[i], items[i].price)

IsA(kind, r) == r \in 1..Len(refs) /\ Kept(refs[r]) /\ refs[r].kind = kind

NamesRefs(item) ==
    /\ IsA(CategoryKind(item.kind), item.category)
    /\ item.kind = "product" => IsA("company", item.company)

Clash(a, b) == a.kind = b.kind /\ a.company = b.company /\ a.code = b.code

ItemsNameRefs == \A i \in 1..Len(items) : Kept(items[i]) => NamesRefs(items[i])

CodesApart ==
    \A i, j \in 1..Len(items) :
        i # j /\ Kept(items[i]) /\ Kept(items[j]) => ~Clash(items[i], items[j])

SameName(a, b) == a.kind = b.kind /\ a.name = b.name

NamesApart ==
    \A r, s \in 1..Len(refs) :
        r # s /\ Kept(refs[r]) /\ Kept(refs[s]) => ~SameName(refs[r], refs[s])

CatalogInv ==
    /\ CatalogTypeOK /\ Forms /\ PlanOK
    /\ Ledgers /\ ItemsNameRefs /\ CodesApart /\ NamesApart

\* The tables are sequences over their rows, and history is as long as items.
LEMMA CatalogLengths ==
    ASSUME CatalogInv
    PROVE  /\ Len(refs) \in Nat /\ DOMAIN refs = 1..Len(refs)
           /\ Len(items) \in Nat /\ DOMAIN items = 1..Len(items)
           /\ Len(history) = Len(items) /\ DOMAIN history = 1..Len(items)
           /\ \A r \in 1..Len(refs) : refs[r] \in RefRows
           /\ \A i \in 1..Len(items) : items[i] \in KeptItems /\ history[i] \in Seq(PriceChanges)
BY LenProperties, ElementOfSeq DEF CatalogInv, CatalogTypeOK

\* The two properties, in the form in which they are kept.
LEMMA CatalogProperties == CatalogInv => PriceHistoryIsLedger /\ CatalogHoldsTogether
<1> SUFFICES ASSUME CatalogInv PROVE PriceHistoryIsLedger /\ CatalogHoldsTogether
  OBVIOUS
<1>1. /\ DOMAIN refs = 1..Len(refs) /\ DOMAIN items = 1..Len(items)
  BY CatalogLengths
<1>2. PriceHistoryIsLedger
  BY <1>1 DEF CatalogInv, Ledgers, Ledger, PriceHistoryIsLedger
<1>3. ASSUME NEW i \in DOMAIN items, Kept(items[i])
      PROVE  /\ Kept(refs[items[i].category])
             /\ refs[items[i].category].kind = CategoryKind(items[i].kind)
             /\ items[i].kind = "product" =>
                   Kept(refs[items[i].company]) /\ refs[items[i].company].kind = "company"
             /\ CodeFree(items[i], i)
  <2>1. NamesRefs(items[i])
    BY <1>1, <1>3 DEF CatalogInv, ItemsNameRefs
  <2>2. CodeFree(items[i], i)
    BY <1>1, <1>3 DEF CatalogInv, CodesApart, Clash, CodeFree
  <2> QED
    BY <2>1, <2>2 DEF NamesRefs, IsA
<1>4. ASSUME NEW r \in DOMAIN refs, Kept(refs[r])
      PROVE  RefNameFree(refs[r].kind, refs[r].name, r)
  BY <1>1, <1>4 DEF CatalogInv, NamesApart, SameName, RefNameFree, RefsNamed
<1>5. CatalogHoldsTogether
  BY <1>3, <1>4 DEF CatalogHoldsTogether
<1> QED
  BY <1>2, <1>5

\* A new item starts a ledger that ends in its price.
LEMMA OpeningLedger ==
    ASSUME NEW price \in AnyPrice
    PROVE  OpeningPrice(price) \in Seq(PriceChanges) /\ Ledger(OpeningPrice(price), price)
<1>1. CASE price = NoPrice
  <2>1. OpeningPrice(price) = <<>>
    BY <1>1 DEF OpeningPrice
  <2>2. <<>> \in Seq(PriceChanges) /\ DOMAIN (<<>>) = {}
    BY EmptySeq
  <2> QED
    BY <1>1, <2>1, <2>2 DEF Ledger
<1>2. CASE price # NoPrice
  <2>1. PICK e : e = [old |-> NoPrice, new |-> price]
    OBVIOUS
  <2>2. e \in PriceChanges /\ e.old = NoPrice /\ e.new = price
    BY <2>1 DEF PriceChanges, AnyPrice
  <2>3. OpeningPrice(price) = <<e>>
    BY <1>2, <2>1 DEF OpeningPrice
  <2>4. <<e>> \in Seq(PriceChanges) /\ Len(<<e>>) = 1 /\ DOMAIN <<e>> = {1} /\ (<<e>>)[1] = e /\ <<e>> # <<>>
    BY <2>2
  <2> QED
    BY <1>2, <2>2, <2>3, <2>4 DEF Ledger, Last
<1> QED
  BY <1>1, <1>2

\* A ledger goes on from its last price.
LEMMA NextLedger ==
    ASSUME NEW entries \in Seq(PriceChanges), NEW old \in AnyPrice, NEW new \in AnyPrice,
           Ledger(entries, old), new # old,
           NEW next, next = Append(entries, [old |-> old, new |-> new])
    PROVE  next \in Seq(PriceChanges) /\ Ledger(next, new)
<1>1. PICK e : e = [old |-> old, new |-> new]
  OBVIOUS
<1>2. e \in PriceChanges /\ e.old = old /\ e.new = new
  BY <1>1 DEF PriceChanges
<1>3. /\ next \in Seq(PriceChanges)
      /\ next # <<>>
      /\ Len(next) = Len(entries) + 1
      /\ \A i \in 1..Len(entries) : next[i] = entries[i]
      /\ next[Len(entries) + 1] = e
  BY <1>1, <1>2, AppendProperties
<1>4. Len(entries) \in Nat /\ DOMAIN entries = 1..Len(entries) /\ (entries # <<>> => Len(entries) > 0)
  BY LenProperties, EmptySeq
<1>5. DOMAIN next = 1..Len(entries) + 1
  BY <1>3, LenProperties
<1>6. Last(next) = e
  BY <1>3 DEF Last
<1>7. ASSUME NEW k \in 1..Len(entries)
      PROVE  /\ next[k].old = IF k = 1 THEN NoPrice ELSE next[k - 1].new
             /\ next[k].new # next[k].old
  <2>1. next[k] = entries[k] /\ (k # 1 => next[k - 1] = entries[k - 1])
    BY <1>3, <1>4
  <2> QED
    BY <1>4, <2>1 DEF Ledger
<1>8. next[Len(entries) + 1].old = IF Len(entries) + 1 = 1 THEN NoPrice
                                   ELSE next[(Len(entries) + 1) - 1].new
  <2>1. CASE entries = <<>>
    <3>1. Len(entries) = 0
      BY <2>1, EmptySeq
    <3> QED
      BY <1>2, <1>3, <2>1, <3>1 DEF Ledger
  <2>2. CASE entries # <<>>
    <3>1. old = Last(entries).new /\ Last(entries) = entries[Len(entries)]
      BY <2>2 DEF Ledger, Last
    <3>2. (Len(entries) + 1) - 1 = Len(entries) /\ Len(entries) + 1 # 1 /\ Len(entries) \in 1..Len(entries)
      BY <1>4, <2>2
    <3> QED
      BY <1>2, <1>3, <3>1, <3>2
  <2> QED
    BY <2>1, <2>2
<1>9. \A k \in 1..Len(entries) + 1 : k \in 1..Len(entries) \/ k = Len(entries) + 1
  BY <1>4
<1>10. \A k \in DOMAIN next : /\ next[k].old = IF k = 1 THEN NoPrice ELSE next[k - 1].new
                              /\ next[k].new # next[k].old
  BY <1>2, <1>3, <1>5, <1>7, <1>8, <1>9
<1> QED
  BY <1>2, <1>3, <1>6, <1>10 DEF Ledger

\* Plans and forms outlive what others change: rows only grow in number, a row
\* that is gone stays gone, and an item that changes has a higher version.
LEMMA PlanSurvives ==
    ASSUME PlanOK, UNCHANGED import, Len(refs) \in Nat, Len(refs') \in Nat,
           Len(refs) <= Len(refs'),
           \A r \in 1..Len(refs) : Kept(refs'[r]) => Kept(refs[r]) /\ refs'[r].kind = refs[r].kind
    PROVE  PlanOK'
<1>1. CASE ~import.made
  BY <1>1 DEF PlanOK
<1>2. CASE import.made
  <2>1. /\ import.found \in [UNION { NamesIn(ImportFile[k]) : k \in import.rows } -> 0..Len(refs)]
        /\ \A name \in DOMAIN import.found : import.found[name] # NoRef =>
                /\ Kept(refs[import.found[name]]) => refs[import.found[name]].kind = name[1]
                /\ \A other \in DOMAIN import.found :
                      import.found[other] = import.found[name] => other = name
    BY <1>2 DEF PlanOK
  <2>2. import.found \in [UNION { NamesIn(ImportFile[k]) : k \in import.rows } -> 0..Len(refs')]
    BY <2>1
  <2>3. \A name \in DOMAIN import.found : import.found[name] # NoRef =>
           (Kept(refs'[import.found[name]]) => refs'[import.found[name]].kind = name[1])
    <3> TAKE name \in DOMAIN import.found
    <3> HAVE import.found[name] # NoRef
    <3>1. import.found[name] \in 1..Len(refs)
      BY <2>1 DEF NoRef
    <3> QED
      BY <2>1, <3>1
  <2> QED
    BY <1>2, <2>1, <2>2, <2>3 DEF PlanOK
<1> QED
  BY <1>1, <1>2

\* An open form stays a picture of a version: items only get newer or go.
LEMMA FormsSurvive ==
    ASSUME CatalogInv, Len(items') \in Nat, Len(items) <= Len(items'),
           items' \in Seq(KeptItems),
           editing' = [e \in Editors |-> editing'[e]],
           \A e \in Editors : editing'[e] = editing[e] \/ editing'[e] = NotEditing,
           \A i \in 1..Len(items) : Kept(items'[i]) =>
              /\ Kept(items[i])
              /\ items'[i] = items[i] \/ items'[i].version > items[i].version
    PROVE  Forms'
<1> SUFFICES ASSUME NEW e \in Editors
             PROVE  FormIsOfAVersion(e)'
  BY DEF Forms
<1>1. CASE editing'[e] = NotEditing
  BY <1>1 DEF FormIsOfAVersion
<1>2. CASE editing'[e] # NotEditing
  <2>1. PICK f : f = editing[e]
    OBVIOUS
  <2>2. editing'[e] = f /\ f # NotEditing
    BY <1>2, <2>1
  <2>3. FormIsOfAVersion(e)
    BY DEF CatalogInv, Forms
  <2>4. /\ f = [id |-> f.id, seen |-> f.seen]
        /\ f.id \in 1..Len(items)
        /\ f.seen \in KeptItems
        /\ Kept(items[f.id]) => /\ f.seen.version <= items[f.id].version
                                /\ f.seen.version = items[f.id].version => f.seen = items[f.id]
    BY <2>1, <2>2, <2>3 DEF FormIsOfAVersion
  <2>5. f.id \in 1..Len(items')
    BY <2>4, CatalogLengths
  <2>6. items[f.id].version \in Nat /\ items'[f.id].version \in Nat /\ f.seen.version \in Nat
    <3>1. items[f.id] \in KeptItems
      BY <2>4, CatalogLengths
    <3>2. items'[f.id] \in KeptItems
      BY <2>5, ElementOfSeq
    <3>3. \A x \in KeptItems : x.version \in Nat
      BY DEF KeptItems, ItemRows
    <3> QED
      BY <2>4, <3>1, <3>2, <3>3
  <2>7. Kept(items'[f.id]) => /\ f.seen.version <= items'[f.id].version
                              /\ f.seen.version = items'[f.id].version => f.seen = items'[f.id]
    BY <2>4, <2>6
  <2> QED
    BY <2>2, <2>4, <2>5, <2>7 DEF FormIsOfAVersion
<1> QED
  BY <1>1, <1>2

\* Reference rows that are still named keep their kind.
LEMMA RefsStep ==
    ASSUME CatalogInv, UNCHANGED <<items, history, editing, import>>,
           refs' \in Seq(RefRows), Len(refs) <= Len(refs'),
           \A r \in 1..Len(refs') : Kept(refs'[r]) => refs'[r].kind # "none",
           \A r \in 1..Len(refs) : Kept(refs'[r]) => Kept(refs[r]) /\ refs'[r].kind = refs[r].kind,
           \A r \in 1..Len(refs) : Kept(refs[r]) /\ ~Kept(refs'[r]) =>
              \A i \in 1..Len(items) : Kept(items[i]) =>
                 items[i].category # r /\ (items[i].kind = "product" => items[i].company # r),
           NamesApart'
    PROVE  CatalogInv'
<1>1. Len(refs) \in Nat /\ Len(refs') \in Nat
  BY CatalogLengths, LenProperties
<1>2. CatalogTypeOK'
  BY DEF CatalogInv, CatalogTypeOK
<1>3. Forms'
  BY DEF CatalogInv, Forms, FormIsOfAVersion
<1>4. PlanOK'
  <2>1. PlanOK
    BY DEF CatalogInv
  <2> QED
    BY <1>1, <2>1, PlanSurvives
<1>5. Ledgers' /\ CodesApart'
  BY DEF CatalogInv, Ledgers, CodesApart
<1>6. ItemsNameRefs'
  <2> SUFFICES ASSUME NEW i \in 1..Len(items), Kept(items[i])
               PROVE  NamesRefs(items[i])'
    BY DEF ItemsNameRefs
  <2>1. NamesRefs(items[i])
    BY DEF CatalogInv, ItemsNameRefs
  <2>2. ASSUME NEW kind, NEW r, IsA(kind, r), Kept(refs[r]) => Kept(refs'[r])
        PROVE  IsA(kind, r)'
    BY <1>1, <2>2 DEF IsA
  <2>3. IsA(CategoryKind(items[i].kind), items[i].category)'
    BY <2>1, <2>2 DEF NamesRefs, IsA
  <2>4. items[i].kind = "product" => IsA("company", items[i].company)'
    BY <2>1, <2>2 DEF NamesRefs, IsA
  <2> QED
    BY <2>3, <2>4 DEF NamesRefs
<1> QED
  BY <1>2, <1>3, <1>4, <1>5, <1>6 DEF CatalogInv

\* One item changes, with its history.
LEMMA ItemStep ==
    ASSUME CatalogInv, UNCHANGED <<refs, import>>,
           NEW i \in 1..Len(items), NEW row \in KeptItems, NEW entries \in Seq(PriceChanges),
           items' = [items EXCEPT ![i] = row], history' = [history EXCEPT ![i] = entries],
           editing' = [e \in Editors |-> editing'[e]],
           \A e \in Editors : editing'[e] = editing[e] \/ editing'[e] = NotEditing,
           Kept(row) => /\ Kept(items[i]) /\ row.version > items[i].version
                        /\ NamesRefs(row) /\ CodeFree(row, i) /\ Ledger(entries, row.price)
    PROVE  CatalogInv'
<1>1. /\ items' \in Seq(KeptItems) /\ Len(items') = Len(items)
      /\ items'[i] = row /\ \A j \in 1..Len(items) \ {i} : items'[j] = items[j]
  BY ExceptSeq DEF CatalogInv, CatalogTypeOK
<1>2. /\ history' \in Seq(Seq(PriceChanges)) /\ Len(history') = Len(items)
      /\ history'[i] = entries /\ \A j \in 1..Len(items) \ {i} : history'[j] = history[j]
  BY ExceptSeq DEF CatalogInv, CatalogTypeOK
<1>3. Len(items) \in Nat /\ DOMAIN items = 1..Len(items)
  BY CatalogLengths
<1>4. CatalogTypeOK'
  BY <1>1, <1>2 DEF CatalogInv, CatalogTypeOK
<1>5. Forms'
  <2>1. \A j \in 1..Len(items) : Kept(items'[j]) =>
              /\ Kept(items[j])
              /\ items'[j] = items[j] \/ items'[j].version > items[j].version
    BY <1>1
  <2> QED
    BY <1>1, <1>3, <2>1, FormsSurvive
<1>6. PlanOK'
  BY DEF CatalogInv, PlanOK
<1>7. Ledgers'
  BY <1>1, <1>2 DEF CatalogInv, Ledgers
<1>8. ItemsNameRefs'
  <2>1. \A j \in 1..Len(items') : Kept(items'[j]) => NamesRefs(items'[j])
    BY <1>1 DEF CatalogInv, ItemsNameRefs
  <2> QED
    BY <2>1 DEF ItemsNameRefs, NamesRefs, IsA
<1>9. CodesApart'
  <2> SUFFICES ASSUME NEW j \in 1..Len(items), NEW k \in 1..Len(items), j # k,
                      Kept(items'[j]), Kept(items'[k])
               PROVE  ~Clash(items'[j], items'[k])
    BY <1>1 DEF CodesApart
  <2>1. CASE j = i
    BY <1>1, <1>3, <2>1 DEF CodeFree, Clash
  <2>2. CASE k = i
    BY <1>1, <1>3, <2>2 DEF CodeFree, Clash
  <2>3. CASE j # i /\ k # i
    BY <1>1, <2>3 DEF CatalogInv, CodesApart
  <2> QED
    BY <2>1, <2>2, <2>3
<1>10. NamesApart'
  BY DEF CatalogInv, NamesApart
<1> QED
  BY <1>4, <1>5, <1>6, <1>7, <1>8, <1>9, <1>10 DEF CatalogInv

\* New reference rows, and new items that name them and older ones.
LEMMA Growth ==
    ASSUME CatalogInv, UNCHANGED editing, PlanOK',
           NEW created \in Seq(RefRows), NEW more \in Seq(KeptItems),
           NEW opening \in Seq(Seq(PriceChanges)), Len(opening) = Len(more),
           refs' = refs \o created, items' = items \o more, history' = history \o opening,
           \A r \in 1..Len(created) :
              /\ Kept(created[r]) /\ created[r].kind # "none"
              /\ \A s \in 1..Len(refs) : Kept(refs[s]) => ~SameName(created[r], refs[s])
              /\ \A s \in 1..Len(created) : s # r => ~SameName(created[r], created[s]),
           \A k \in 1..Len(more) :
              /\ NamesRefs(more[k])'
              /\ Ledger(opening[k], more[k].price)
              /\ \A i \in 1..Len(items) : Kept(items[i]) => ~Clash(more[k], items[i])
              /\ \A l \in 1..Len(more) : l # k => ~Clash(more[k], more[l])
    PROVE  CatalogInv'
<1>1. PICK m, n, a, b : m = Len(items) /\ n = Len(more) /\ a = Len(refs) /\ b = Len(created)
  OBVIOUS
<1>2. m \in Nat /\ n \in Nat /\ a \in Nat /\ b \in Nat
  BY <1>1, CatalogLengths, LenProperties
<1>3. /\ items' \in Seq(KeptItems) /\ Len(items') = m + n
      /\ \A i \in 1..m : items'[i] = items[i]
      /\ \A k \in 1..n : items'[m + k] = more[k]
  <2>1. /\ items \o more \in Seq(KeptItems) /\ Len(items \o more) = Len(items) + Len(more)
        /\ \A i \in 1..Len(items) + Len(more) :
              (items \o more)[i] = IF i <= Len(items) THEN items[i] ELSE more[i - Len(items)]
    BY ConcatProperties DEF CatalogInv, CatalogTypeOK
  <2>2. \A i \in 1..m : i \in 1..m + n /\ i <= m
    BY <1>2
  <2>3. \A k \in 1..n : m + k \in 1..m + n /\ ~(m + k <= m) /\ (m + k) - m = k
    BY <1>2
  <2> QED
    BY <1>1, <2>1, <2>2, <2>3
<1>4. /\ history' \in Seq(Seq(PriceChanges)) /\ Len(history') = m + n
      /\ \A i \in 1..m : history'[i] = history[i]
      /\ \A k \in 1..n : history'[m + k] = opening[k]
  <2>1. PICK S : S = Seq(PriceChanges)
    OBVIOUS
  <2>2. history \in Seq(S) /\ opening \in Seq(S)
    BY <2>1 DEF CatalogInv, CatalogTypeOK
  <2>9. Len(history) = m /\ Len(opening) = n
    BY <1>1 DEF CatalogInv, CatalogTypeOK
  <2>3. /\ history \o opening \in Seq(S)
        /\ Len(history \o opening) = Len(history) + Len(opening)
        /\ \A i \in 1..Len(history) + Len(opening) :
              (history \o opening)[i] =
                 IF i <= Len(history) THEN history[i] ELSE opening[i - Len(history)]
    <3>1. history \o opening \in Seq(S)
      BY <2>2, ConcatProperties
    <3>2. Len(history \o opening) = Len(history) + Len(opening)
      BY <2>2, ConcatProperties
    <3>3. \A i \in 1..Len(history) + Len(opening) :
            (history \o opening)[i] =
               IF i <= Len(history) THEN history[i] ELSE opening[i - Len(history)]
      BY <2>2, ConcatProperties
    <3> QED
      BY <3>1, <3>2, <3>3
  <2>4. \A i \in 1..m : i \in 1..m + n /\ i <= m
    BY <1>2
  <2>5. \A k \in 1..n : m + k \in 1..m + n /\ ~(m + k <= m) /\ (m + k) - m = k
    BY <1>2
  <2>6. /\ history' \in Seq(Seq(PriceChanges)) /\ Len(history') = m + n
        /\ \A i \in 1..m + n : history'[i] = IF i <= m THEN history[i] ELSE opening[i - m]
    BY <2>1, <2>3, <2>9
  <2>7. \A i \in 1..m : history'[i] = history[i]
    BY <2>4, <2>6
  <2>8. \A k \in 1..n : history'[m + k] = opening[k]
    BY <2>5, <2>6
  <2> QED
    BY <2>6, <2>7, <2>8
<1>5. /\ refs' \in Seq(RefRows) /\ Len(refs') = a + b
      /\ \A r \in 1..a : refs'[r] = refs[r]
      /\ \A r \in 1..b : refs'[a + r] = created[r]
  <2>1. /\ refs \o created \in Seq(RefRows) /\ Len(refs \o created) = Len(refs) + Len(created)
        /\ \A i \in 1..Len(refs) + Len(created) :
              (refs \o created)[i] = IF i <= Len(refs) THEN refs[i] ELSE created[i - Len(refs)]
    BY ConcatProperties DEF CatalogInv, CatalogTypeOK
  <2>2. \A i \in 1..a : i \in 1..a + b /\ i <= a
    BY <1>2
  <2>3. \A k \in 1..b : a + k \in 1..a + b /\ ~(a + k <= a) /\ (a + k) - a = k
    BY <1>2
  <2> QED
    BY <1>1, <2>1, <2>2, <2>3
<1>6. \A i \in 1..m + n : i \in 1..m \/ \E k \in 1..n : i = m + k
  <2> TAKE i \in 1..m + n
  <2>1. i \in 1..m \/ (i - m \in 1..n /\ i = m + (i - m))
    BY <1>2
  <2> QED
    BY <2>1
<1>7. \A r \in 1..a + b : r \in 1..a \/ \E k \in 1..b : r = a + k
  <2> TAKE r \in 1..a + b
  <2>1. r \in 1..a \/ (r - a \in 1..b /\ r = a + (r - a))
    BY <1>2
  <2> QED
    BY <2>1
<1>8. CatalogTypeOK'
  <2>1. \A r \in 1..a + b : Kept(refs'[r]) => refs'[r].kind # "none"
    BY <1>1, <1>5, <1>7 DEF CatalogInv, CatalogTypeOK
  <2> QED
    BY <1>3, <1>4, <1>5, <2>1 DEF CatalogTypeOK
<1>9. Forms'
  <2>1. Len(items') \in Nat /\ Len(items) <= Len(items')
    BY <1>1, <1>2, <1>3
  <2>2. editing' = [e \in Editors |-> editing'[e]]
    BY DEF CatalogInv, Forms
  <2>3. \A i \in 1..Len(items) : items'[i] = items[i]
    BY <1>1, <1>3
  <2> QED
    BY <1>3, <2>1, <2>2, <2>3, FormsSurvive
<1>10. Ledgers'
  <2> SUFFICES ASSUME NEW i \in 1..m + n, Kept(items'[i])
               PROVE  Ledger(history'[i], items'[i].price)
    BY <1>3 DEF Ledgers
  <2>1. CASE i \in 1..m
    BY <1>1, <1>3, <1>4, <2>1 DEF CatalogInv, Ledgers
  <2>2. CASE \E k \in 1..n : i = m + k
    BY <1>1, <1>3, <1>4, <2>2
  <2> QED
    BY <1>6, <2>1, <2>2
<1>11. ItemsNameRefs'
  <2> SUFFICES ASSUME NEW i \in 1..m + n, Kept(items'[i])
               PROVE  NamesRefs(items[i])'
    BY <1>3 DEF ItemsNameRefs
  <2>1. CASE i \in 1..m
    <3>1. NamesRefs(items[i]) /\ items'[i] = items[i]
      BY <1>1, <1>3, <2>1 DEF CatalogInv, ItemsNameRefs
    <3>2. ASSUME NEW kind, NEW r, IsA(kind, r)
          PROVE  r \in 1..Len(refs') /\ Kept(refs'[r]) /\ refs'[r].kind = kind
      BY <1>1, <1>2, <1>5, <3>2 DEF IsA
    <3> QED
      BY <3>1, <3>2 DEF NamesRefs, IsA
  <2>2. CASE \E k \in 1..n : i = m + k
    <3>1. PICK k \in 1..n : i = m + k
      BY <2>2
    <3>2. NamesRefs(more[k])' /\ items'[i] = more[k]
      BY <1>1, <1>3, <3>1
    <3> QED
      BY <3>2 DEF NamesRefs, IsA
  <2> QED
    BY <1>6, <2>1, <2>2
<1>12. CodesApart'
  <2> SUFFICES ASSUME NEW i \in 1..m + n, NEW j \in 1..m + n, i # j,
                      Kept(items'[i]), Kept(items'[j])
               PROVE  ~Clash(items'[i], items'[j])
    BY <1>3 DEF CodesApart
  <2>1. CASE i \in 1..m /\ j \in 1..m
    BY <1>1, <1>3, <2>1 DEF CatalogInv, CodesApart
  <2>2. CASE i \in 1..m /\ \E k \in 1..n : j = m + k
    BY <1>1, <1>3, <2>2 DEF Clash
  <2>3. CASE j \in 1..m /\ \E k \in 1..n : i = m + k
    BY <1>1, <1>3, <2>3 DEF Clash
  <2>4. CASE (\E k \in 1..n : i = m + k) /\ (\E k \in 1..n : j = m + k)
    <3>1. PICK k \in 1..n, l \in 1..n : i = m + k /\ j = m + l
      BY <2>4
    <3> QED
      BY <1>1, <1>3, <3>1
  <2> QED
    BY <1>6, <2>1, <2>2, <2>3, <2>4
<1>13. NamesApart'
  <2> SUFFICES ASSUME NEW r \in 1..a + b, NEW s \in 1..a + b, r # s,
                      Kept(refs'[r]), Kept(refs'[s])
               PROVE  ~SameName(refs'[r], refs'[s])
    BY <1>5 DEF NamesApart
  <2>1. CASE r \in 1..a /\ s \in 1..a
    BY <1>1, <1>5, <2>1 DEF CatalogInv, NamesApart
  <2>2. CASE r \in 1..a /\ \E k \in 1..b : s = a + k
    BY <1>1, <1>5, <2>2 DEF SameName
  <2>3. CASE s \in 1..a /\ \E k \in 1..b : r = a + k
    BY <1>1, <1>5, <2>3 DEF SameName
  <2>4. CASE (\E k \in 1..b : r = a + k) /\ (\E k \in 1..b : s = a + k)
    <3>1. PICK k \in 1..b, l \in 1..b : r = a + k /\ s = a + l
      BY <2>4
    <3> QED
      BY <1>1, <1>5, <3>1
  <2> QED
    BY <1>7, <2>1, <2>2, <2>3, <2>4
<1> QED
  BY <1>8, <1>9, <1>10, <1>11, <1>12, <1>13 DEF CatalogInv

\* What a create or an update locked ACTIVE is a row of that kind.
LEMMA ActiveIsA ==
    ASSUME CatalogInv, NEW r, NEW kind, AssertRefActive(r, kind)
    PROVE  IsA(kind, r) /\ r \in Nat
BY CatalogLengths DEF AssertRefActive, IsA, Kept

\* The row that a form or a line of the file becomes.
LEMMA ItemOfForm ==
    ASSUME NEW kind \in {"product", "service"}, NEW company \in Nat, NEW category \in Nat,
           NEW code \in AnyName, NEW price \in AnyPrice
    PROVE  /\ Item(kind, company, category, code, price) \in KeptItems
           /\ Kept(Item(kind, company, category, code, price))
BY DEF Item, KeptItems, ItemRows, Kept

\* An insert is growth by one item.
LEMMA InsertKeeps ==
    ASSUME CatalogInv, NEW item \in KeptItems, NamesRefs(item), item.price \in AnyPrice,
           Insert(item)
    PROVE  CatalogInv'
<1>1. PICK more, opening, none : more = <<item>> /\ opening = <<OpeningPrice(item.price)>> /\ none = <<>>
  OBVIOUS
<1>2. /\ more \in Seq(KeptItems) /\ Len(more) = 1 /\ more[1] = item
  BY <1>1
<1>3. OpeningPrice(item.price) \in Seq(PriceChanges) /\ Ledger(OpeningPrice(item.price), item.price)
  BY OpeningLedger
<1>4. /\ opening \in Seq(Seq(PriceChanges)) /\ Len(opening) = 1
      /\ opening[1] = OpeningPrice(item.price)
  <2>1. PICK o : o = OpeningPrice(item.price)
    OBVIOUS
  <2>2. <<o>> \in Seq(Seq(PriceChanges)) /\ Len(<<o>>) = 1 /\ (<<o>>)[1] = o
    BY <1>3, <2>1
  <2> QED
    BY <1>1, <2>1, <2>2
<1>5. none \in Seq(RefRows) /\ 1..Len(none) = {}
  BY <1>1, EmptySeq
<1>6. items' = items \o more
  <2>1. Append(items, item) = items \o <<item>>
    BY AppendIsConcat DEF CatalogInv, CatalogTypeOK
  <2> QED
    BY <1>1, <2>1 DEF Insert
<1>7. history' = history \o opening
  <2>1. PICK o, S : o = OpeningPrice(item.price) /\ S = Seq(PriceChanges)
    OBVIOUS
  <2>2. o \in S /\ history \in Seq(S)
    BY <1>3, <2>1 DEF CatalogInv, CatalogTypeOK
  <2>3. Append(history, o) = history \o <<o>>
    BY <2>2, AppendIsConcat
  <2> QED
    BY <1>1, <2>1, <2>3 DEF Insert
<1>8. refs' = refs \o none
  <2>1. refs \o <<>> = refs
    BY ConcatEmptySeq DEF CatalogInv, CatalogTypeOK
  <2> QED
    BY <1>1, <2>1 DEF Insert
<1>9. UNCHANGED <<refs, editing, import>>
  BY DEF Insert
<1>10. PlanOK'
  BY <1>9 DEF CatalogInv, PlanOK
<1>11. \A i \in 1..Len(items) : Kept(items[i]) => ~Clash(item, items[i])
  <2>1. DOMAIN items \ {NoRef} = 1..Len(items)
    BY CatalogLengths DEF NoRef
  <2> QED
    BY <2>1 DEF Insert, CodeFree, Clash
<1>12. NamesRefs(item)'
  BY <1>9 DEF NamesRefs, IsA
<1>13. \A k \in 1..Len(more) : k = 1 /\ more[k] = item
  BY <1>2
<1>14. \A k \in 1..Len(more) : NamesRefs(more[k])'
  BY <1>12, <1>13 DEF NamesRefs, IsA
<1>15. \A k \in 1..Len(more) : Ledger(opening[k], more[k].price)
  BY <1>3, <1>4, <1>13
<1>16. \A k \in 1..Len(more) :
          /\ \A i \in 1..Len(items) : Kept(items[i]) => ~Clash(more[k], items[i])
          /\ \A l \in 1..Len(more) : l # k => ~Clash(more[k], more[l])
  BY <1>11, <1>13
<1>17. Len(opening) = Len(more)
  BY <1>2, <1>4
<1> QED
  BY <1>2, <1>4, <1>5, <1>6, <1>7, <1>8, <1>9, <1>10, <1>14, <1>15, <1>16, <1>17, Growth

\* createProduct and createService.
LEMMA CreateKeeps ==
    ASSUME CatalogInv, NEW c, NEW g, NEW code \in Codes, NEW price \in AnyPrice,
           CreateProduct(c, g, code, price) \/ CreateService(g, code, price)
    PROVE  CatalogInv'
<1>1. CASE CreateProduct(c, g, code, price)
  <2>1. PICK item : item = Item("product", c, g, code, price)
    OBVIOUS
  <2>2. IsA("company", c) /\ c \in Nat /\ IsA("category", g) /\ g \in Nat
    BY <1>1, ActiveIsA DEF CreateProduct
  <2>3. item \in KeptItems
    BY <2>1, <2>2, ItemOfForm, CatalogRows DEF AnyName
  <2>4. NamesRefs(item) /\ item.price = price
    BY <2>1, <2>2 DEF NamesRefs, Item, CategoryKind
  <2>5. Insert(item)
    BY <1>1, <2>1 DEF CreateProduct
  <2> QED
    BY <2>3, <2>4, <2>5, InsertKeeps
<1>2. CASE CreateService(g, code, price)
  <2>1. PICK item : item = Item("service", NoRef, g, code, price)
    OBVIOUS
  <2>2. IsA("serviceCategory", g) /\ g \in Nat /\ NoRef \in Nat
    BY <1>2, ActiveIsA DEF CreateService, NoRef
  <2>3. item \in KeptItems
    BY <2>1, <2>2, ItemOfForm, CatalogRows DEF AnyName
  <2>4. NamesRefs(item) /\ item.price = price
    BY <2>1, <2>2 DEF NamesRefs, Item, CategoryKind
  <2>5. Insert(item)
    BY <1>2, <2>1 DEF CreateService
  <2> QED
    BY <2>3, <2>4, <2>5, InsertKeeps
<1> QED
  BY <1>1, <1>2

\* Reading an item into a form, and leaving the form.
LEMMA OpenKeeps ==
    ASSUME CatalogInv, NEW e \in Editors, NEW i,
           (i \in DOMAIN items /\ OpenForEditing(e, i)) \/ GiveUpEditing(e)
    PROVE  CatalogInv'
<1>1. UNCHANGED <<refs, items, history, import>>
  BY DEF OpenForEditing, GiveUpEditing, itemVars
<1>2. PICK row : row = items[i]
  OBVIOUS
<1>3. i \in DOMAIN items => row \in KeptItems /\ row.version \in Nat /\ i \in 1..Len(items)
  BY <1>2, CatalogLengths DEF KeptItems, ItemRows
<1>4. editing = [d \in Editors |-> editing[d]]
  BY DEF CatalogInv, Forms
<1>5. Forms'
  <2>1. CASE i \in DOMAIN items /\ OpenForEditing(e, i)
    <3>1. PICK f : f = [id |-> i, seen |-> row]
      OBVIOUS
    <3>2. f.id = i /\ f.seen = row /\ f = [id |-> f.id, seen |-> f.seen]
      BY <3>1
    <3>3. editing' = [editing EXCEPT ![e] = f]
      BY <1>2, <2>1, <3>1 DEF OpenForEditing
    <3>4. /\ editing' = [d \in Editors |-> editing'[d]]
          /\ editing'[e] = f /\ \A d \in Editors \ {e} : editing'[d] = editing[d]
      BY <1>4, <3>3
    <3>5. FormIsOfAVersion(e)'
      BY <1>1, <1>2, <1>3, <2>1, <3>2, <3>4 DEF FormIsOfAVersion
    <3>6. ASSUME NEW d \in Editors \ {e}
          PROVE  FormIsOfAVersion(d)'
      BY <1>1, <3>4 DEF CatalogInv, Forms, FormIsOfAVersion
    <3> QED
      BY <3>4, <3>5, <3>6 DEF Forms
  <2>2. CASE GiveUpEditing(e)
    <3>1. editing' = [editing EXCEPT ![e] = NotEditing]
      BY <2>2 DEF GiveUpEditing
    <3>2. /\ editing' = [d \in Editors |-> editing'[d]]
          /\ editing'[e] = NotEditing /\ \A d \in Editors \ {e} : editing'[d] = editing[d]
      BY <1>4, <3>1
    <3>3. ASSUME NEW d \in Editors
          PROVE  FormIsOfAVersion(d)'
      BY <1>1, <3>2 DEF CatalogInv, Forms, FormIsOfAVersion
    <3> QED
      BY <3>2, <3>3 DEF Forms
  <2> QED
    BY <2>1, <2>2
<1>6. CatalogTypeOK' /\ PlanOK' /\ Ledgers' /\ ItemsNameRefs' /\ CodesApart' /\ NamesApart'
  BY <1>1 DEF CatalogInv, CatalogTypeOK, PlanOK, Ledgers, ItemsNameRefs, NamesRefs, IsA,
              CodesApart, NamesApart
<1> QED
  BY <1>5, <1>6 DEF CatalogInv

\* What is saved replaces the item that was on the screen.
LEMMA SavedIsSeen ==
    ASSUME CatalogInv, NEW e \in Editors, editing[e] # NotEditing, Current(e)
    PROVE  /\ editing[e].id \in 1..Len(items)
           /\ items[editing[e].id] = editing[e].seen
<1>1. FormIsOfAVersion(e)
  BY DEF CatalogInv, Forms
<1> QED
  BY <1>1 DEF FormIsOfAVersion, Current

\* An update: the ledger goes on exactly when the price changes.
LEMMA ReplaceKeeps ==
    ASSUME CatalogInv, NEW e \in Editors, NEW kind \in {"product", "service"},
           NEW new \in KeptItems, new.kind = kind, new.price \in AnyPrice,
           Replace(e, kind, new)
    PROVE  CatalogInv'
<1>1. PICK i : i = editing[e].id
  OBVIOUS
<1>2. PICK old : old = items[i]
  OBVIOUS
<1>3. i \in 1..Len(items)
  BY <1>1, SavedIsSeen DEF Replace
<1>4. /\ old \in KeptItems /\ old.version \in Nat /\ old.price \in AnyPrice
      /\ old.status \in {"ACTIVE", "ARCHIVED", "DELETED"}
      /\ history[i] \in Seq(PriceChanges)
  BY <1>2, <1>3, CatalogLengths DEF KeptItems, ItemRows
<1>5. /\ Kept(old) /\ old.kind = kind
      /\ new.category # old.category => AssertRefActive(new.category, CategoryKind(kind))
      /\ new.company # old.company => AssertRefActive(new.company, "company")
      /\ CodeFree(new, i)
  BY <1>1, <1>2 DEF Replace, Current
<1>6. PICK row : row = Saved(new, old)
  OBVIOUS
<1>7. /\ row.kind = kind /\ row.company = new.company /\ row.category = new.category
      /\ row.code = new.code /\ row.price = new.price /\ row.status = old.status
      /\ row.version = old.version + 1
      /\ row = [kind |-> row.kind, company |-> row.company, category |-> row.category,
                code |-> row.code, price |-> row.price, status |-> row.status,
                version |-> row.version]
  BY <1>6 DEF Saved, KeptItems, ItemRows
<1>8. row \in KeptItems
  <2>1. /\ new.company \in Nat /\ new.category \in Nat /\ new.code \in AnyName
    BY DEF KeptItems, ItemRows
  <2>2. row \in ItemRows
    BY <1>4, <1>7, <2>1 DEF ItemRows
  <2> QED
    BY <1>4, <1>7, <2>2 DEF KeptItems
<1>9. PICK entries : entries = IF new.price = old.price THEN history[i]
                               ELSE Append(history[i], [old |-> old.price, new |-> new.price])
  OBVIOUS
<1>10. Ledger(history[i], old.price)
  BY <1>2, <1>3, <1>5 DEF CatalogInv, Ledgers
<1>11. entries \in Seq(PriceChanges) /\ Ledger(entries, new.price)
  BY <1>4, <1>9, <1>10, NextLedger
<1>12. items' = [items EXCEPT ![i] = row]
  BY <1>1, <1>2, <1>6 DEF Replace
<1>13. history' = [history EXCEPT ![i] = entries]
  <2>1. CASE new.price = old.price
    <3>1. history' = history /\ entries = history[i]
      BY <1>1, <1>2, <1>9, <2>1 DEF Replace
    <3>2. history \in [1..Len(items) -> Seq(PriceChanges)]
      BY LenProperties DEF CatalogInv, CatalogTypeOK
    <3> QED
      BY <3>1, <3>2
  <2>2. CASE new.price # old.price
    <3>1. history' = [history EXCEPT ![i] = Append(history[i], [old |-> old.price, new |-> new.price])]
      BY <1>1, <1>2, <2>2 DEF Replace
    <3> QED
      BY <1>9, <2>2, <3>1
  <2> QED
    BY <2>1, <2>2
<1>14. /\ UNCHANGED <<refs, import>>
       /\ editing' = [d \in Editors |-> editing'[d]]
       /\ \A d \in Editors : editing'[d] = editing[d] \/ editing'[d] = NotEditing
  BY DEF Replace, CatalogInv, Forms
<1>15. NamesRefs(row)
  <2>1. NamesRefs(old)
    BY <1>2, <1>3, <1>5 DEF CatalogInv, ItemsNameRefs
  <2>2. IsA(CategoryKind(kind), new.category)
    BY <1>5, <2>1, ActiveIsA DEF NamesRefs
  <2>3. kind = "product" => IsA("company", new.company)
    BY <1>5, <2>1, ActiveIsA DEF NamesRefs
  <2> QED
    BY <1>7, <2>2, <2>3 DEF NamesRefs
<1>16. CodeFree(row, i)
  BY <1>5, <1>7 DEF CodeFree
<1>17. row.version > old.version
  BY <1>4, <1>7
<1> QED
  BY <1>2, <1>3, <1>5, <1>7, <1>8, <1>11, <1>12, <1>13, <1>14, <1>15, <1>16, <1>17, ItemStep

\* updateProduct and updateService.
LEMMA UpdateKeeps ==
    ASSUME CatalogInv, NEW e \in Editors, NEW c \in DOMAIN refs, NEW g \in DOMAIN refs,
           NEW code \in Codes, NEW price \in AnyPrice,
           UpdateProduct(e, c, g, code, price) \/ UpdateService(e, g, code, price)
    PROVE  CatalogInv'
<1>1. c \in Nat /\ g \in Nat /\ NoRef \in Nat /\ code \in AnyName
  BY CatalogLengths, CatalogRows DEF NoRef, AnyName
<1>2. CASE UpdateProduct(e, c, g, code, price)
  <2>1. PICK item : item = Item("product", c, g, code, price)
    OBVIOUS
  <2>2. item \in KeptItems /\ item.kind = "product" /\ item.price = price
    <3>1. item \in KeptItems
      BY <1>1, <2>1, ItemOfForm
    <3> QED
      BY <2>1, <3>1 DEF Item
  <2>3. Replace(e, "product", item)
    BY <1>2, <2>1 DEF UpdateProduct
  <2> QED
    BY <2>2, <2>3, ReplaceKeeps
<1>3. CASE UpdateService(e, g, code, price)
  <2>1. PICK item : item = Item("service", NoRef, g, code, price)
    OBVIOUS
  <2>2. item \in KeptItems /\ item.kind = "service" /\ item.price = price
    <3>1. item \in KeptItems
      BY <1>1, <2>1, ItemOfForm
    <3> QED
      BY <2>1, <3>1 DEF Item
  <2>3. Replace(e, "service", item)
    BY <1>3, <2>1 DEF UpdateService
  <2> QED
    BY <2>2, <2>3, ReplaceKeeps
<1> QED
  BY <1>2, <1>3

\* Archiving and activating give the item a newer version.
LEMMA StatusKeeps ==
    ASSUME CatalogInv, NEW i \in DOMAIN items, SetItemStatus(i)
    PROVE  CatalogInv'
<1>1. PICK old : old = items[i]
  OBVIOUS
<1>2. /\ i \in 1..Len(items) /\ old \in KeptItems /\ Kept(old) /\ old.version \in Nat
      /\ history[i] \in Seq(PriceChanges)
  BY <1>1, CatalogLengths DEF SetItemStatus, KeptItems, ItemRows
<1>3. PICK row : row = [old EXCEPT !.status = Toggled(old.status), !.version = old.version + 1]
  OBVIOUS
<1>4. /\ row.kind = old.kind /\ row.company = old.company /\ row.category = old.category
      /\ row.code = old.code /\ row.price = old.price /\ row.status = Toggled(old.status)
      /\ row.version = old.version + 1
      /\ row = [kind |-> row.kind, company |-> row.company, category |-> row.category,
                code |-> row.code, price |-> row.price, status |-> row.status,
                version |-> row.version]
  BY <1>2, <1>3 DEF KeptItems, ItemRows
<1>5. Toggled(old.status) \in {"ACTIVE", "ARCHIVED"}
  BY DEF Toggled
<1>6. row \in KeptItems
  <2>1. row \in ItemRows
    BY <1>2, <1>4, <1>5 DEF KeptItems, ItemRows
  <2> QED
    BY <1>2, <1>4, <2>1 DEF KeptItems
<1>7. items' = [items EXCEPT ![i] = row]
  BY <1>1, <1>3 DEF SetItemStatus
<1>8. history' = [history EXCEPT ![i] = history[i]]
  <2>1. history \in [1..Len(items) -> Seq(PriceChanges)]
    BY LenProperties DEF CatalogInv, CatalogTypeOK
  <2> QED
    BY <1>2, <2>1 DEF SetItemStatus
<1>9. /\ UNCHANGED <<refs, import>> /\ editing' = editing
      /\ editing' = [d \in Editors |-> editing'[d]]
  BY DEF SetItemStatus, CatalogInv, Forms
<1>10. NamesRefs(row)
  BY <1>1, <1>2, <1>4 DEF CatalogInv, ItemsNameRefs, NamesRefs
<1>11. CodeFree(row, i)
  <2>1. CodeFree(old, i)
    BY <1>1, <1>2, CatalogLengths DEF CatalogInv, CodesApart, Clash, CodeFree
  <2> QED
    BY <1>4, <2>1 DEF CodeFree
<1>12. Ledger(history[i], row.price)
  BY <1>1, <1>2, <1>4 DEF CatalogInv, Ledgers
<1>13. row.version > old.version
  BY <1>2, <1>4
<1> QED
  BY <1>1, <1>2, <1>6, <1>7, <1>8, <1>9, <1>10, <1>11, <1>12, <1>13, ItemStep

\* A deleted item leaves no history and frees its code.
LEMMA DeleteItemKeeps ==
    ASSUME CatalogInv, NEW i \in DOMAIN items, DeleteItem(i)
    PROVE  CatalogInv'
<1>1. i \in 1..Len(items)
  BY CatalogLengths
<1>2. GoneItem \in KeptItems /\ ~Kept(GoneItem)
  <2>1. NoPrice \in AnyPrice /\ NoRef \in Nat
    BY DEF AnyPrice, NoRef
  <2>2. GoneItem.status = "DELETED"
    BY DEF GoneItem
  <2>3. GoneItem \in ItemRows
    BY <2>1 DEF GoneItem, ItemRows, AnyName
  <2> QED
    BY <2>2, <2>3 DEF KeptItems, Kept
<1>3. PICK row, entries : row = GoneItem /\ entries = <<>>
  OBVIOUS
<1>4. entries \in Seq(PriceChanges)
  BY <1>3, EmptySeq
<1>5. /\ items' = [items EXCEPT ![i] = row] /\ history' = [history EXCEPT ![i] = entries]
      /\ UNCHANGED <<refs, editing, import>>
  BY <1>3 DEF DeleteItem
<1>6. editing' = [d \in Editors |-> editing'[d]]
  BY <1>5 DEF CatalogInv, Forms
<1> QED
  BY <1>1, <1>2, <1>3, <1>4, <1>5, <1>6, ItemStep

\* One reference row changes: it keeps its kind, or nothing names it any more.
LEMMA SetRefKeeps ==
    ASSUME CatalogInv, NEW r \in 1..Len(refs), NEW row \in RefRows, Kept(refs[r]),
           SetRef(r, row),
           Kept(row) => row.kind = refs[r].kind /\ RefNameFree(row.kind, row.name, r),
           ~Kept(row) => \A i \in 1..Len(items) : Kept(items[i]) =>
                 items[i].category # r /\ (items[i].kind = "product" => items[i].company # r)
    PROVE  CatalogInv'
<1>1. refs' = [refs EXCEPT ![r] = row] /\ UNCHANGED <<items, history, editing, import>>
  BY DEF SetRef, itemVars
<1>2. /\ refs' \in Seq(RefRows) /\ Len(refs') = Len(refs)
      /\ refs'[r] = row /\ \A s \in 1..Len(refs) \ {r} : refs'[s] = refs[s]
  BY <1>1, ExceptSeq DEF CatalogInv, CatalogTypeOK
<1>3. Len(refs) \in Nat /\ DOMAIN refs = 1..Len(refs)
  BY CatalogLengths
<1>4. \A s \in 1..Len(refs) : Kept(refs[s]) => refs[s].kind # "none"
  BY DEF CatalogInv, CatalogTypeOK
<1>5. \A s \in 1..Len(refs') : Kept(refs'[s]) => refs'[s].kind # "none"
  BY <1>2, <1>4
<1>6. \A s \in 1..Len(refs) : Kept(refs'[s]) => Kept(refs[s]) /\ refs'[s].kind = refs[s].kind
  BY <1>2
<1>7. \A s \in 1..Len(refs) : Kept(refs[s]) /\ ~Kept(refs'[s]) =>
         \A i \in 1..Len(items) : Kept(items[i]) =>
            items[i].category # s /\ (items[i].kind = "product" => items[i].company # s)
  BY <1>2
<1>8. NamesApart'
  <2> SUFFICES ASSUME NEW s \in 1..Len(refs), NEW t \in 1..Len(refs), s # t,
                      Kept(refs'[s]), Kept(refs'[t])
               PROVE  ~SameName(refs'[s], refs'[t])
    BY <1>2 DEF NamesApart
  <2>1. ASSUME NEW q \in 1..Len(refs), q # r, Kept(refs[q]), Kept(row)
        PROVE  ~SameName(row, refs[q])
    BY <1>3, <2>1 DEF RefNameFree, RefsNamed, SameName
  <2>2. CASE s = r
    BY <1>2, <2>1, <2>2
  <2>3. CASE t = r
    BY <1>2, <2>1, <2>3 DEF SameName
  <2>4. CASE s # r /\ t # r
    BY <1>2, <2>4 DEF CatalogInv, NamesApart
  <2> QED
    BY <2>2, <2>3, <2>4
<1> QED
  BY <1>1, <1>2, <1>3, <1>5, <1>6, <1>7, <1>8, RefsStep

\* A kept reference row: its kind is real and its name is its own.
LEMMA RefRowOf ==
    ASSUME CatalogInv, NEW r \in DOMAIN refs
    PROVE  /\ r \in 1..Len(refs) /\ refs[r] \in RefRows
           /\ refs[r] = [kind |-> refs[r].kind, name |-> refs[r].name, status |-> refs[r].status]
           /\ Kept(refs[r]) => refs[r].kind \in {"company", "category", "serviceCategory", "injection"}
           /\ Kept(refs[r]) => RefNameFree(refs[r].kind, refs[r].name, r)
<1>1. r \in 1..Len(refs) /\ refs[r] \in RefRows /\ DOMAIN refs = 1..Len(refs)
  BY CatalogLengths
<1>2. Kept(refs[r]) => refs[r].kind # "none"
  BY <1>1 DEF CatalogInv, CatalogTypeOK
<1>3. Kept(refs[r]) => RefNameFree(refs[r].kind, refs[r].name, r)
  BY <1>1 DEF CatalogInv, NamesApart, SameName, RefNameFree, RefsNamed
<1>4. /\ refs[r] = [kind |-> refs[r].kind, name |-> refs[r].name, status |-> refs[r].status]
      /\ refs[r].kind \in {"company", "category", "serviceCategory", "injection", "none"}
  BY <1>1 DEF RefRows
<1> QED
  BY <1>1, <1>2, <1>3, <1>4

\* createReference and createInjection.
LEMMA CreateReferenceKeeps ==
    ASSUME CatalogInv, NEW kind \in {"company", "category", "serviceCategory", "injection"},
           NEW name \in RefNames, CreateReference(kind, name)
    PROVE  CatalogInv'
<1>1. PICK row, n : row = Reference(kind, name) /\ n = Len(refs)
  OBVIOUS
<1>2. row \in RefRows /\ Kept(row) /\ row.kind = kind /\ row.name = name
  BY <1>1, CatalogRows DEF Reference, RefRows, Kept, AnyName
<1>3. refs' = Append(refs, row) /\ UNCHANGED <<items, history, editing, import>>
  BY <1>1 DEF CreateReference, itemVars
<1>4. n \in Nat /\ DOMAIN refs = 1..n
  BY <1>1, CatalogLengths
<1>5. /\ refs' \in Seq(RefRows) /\ Len(refs') = n + 1
      /\ \A s \in 1..n : refs'[s] = refs[s]
      /\ refs'[n + 1] = row
  BY <1>1, <1>2, <1>3, AppendProperties DEF CatalogInv, CatalogTypeOK
<1>6. \A s \in 1..n + 1 : s \in 1..n \/ s = n + 1
  BY <1>4
<1>7. \A s \in 1..Len(refs') : Kept(refs'[s]) => refs'[s].kind # "none"
  BY <1>1, <1>2, <1>5, <1>6 DEF CatalogInv, CatalogTypeOK
<1>8. NamesApart'
  <2> SUFFICES ASSUME NEW s \in 1..n + 1, NEW t \in 1..n + 1, s # t,
                      Kept(refs'[s]), Kept(refs'[t])
               PROVE  ~SameName(refs'[s], refs'[t])
    BY <1>5 DEF NamesApart
  <2>1. ASSUME NEW q \in 1..n, Kept(refs[q])
        PROVE  ~SameName(row, refs[q])
    <3>1. q # NoRef
      BY <1>4 DEF NoRef
    <3> QED
      BY <1>2, <1>4, <2>1, <3>1 DEF CreateReference, RefNameFree, RefsNamed, SameName
  <2>2. CASE s = n + 1
    BY <1>5, <1>6, <2>1, <2>2
  <2>3. CASE t = n + 1
    BY <1>5, <1>6, <2>1, <2>3 DEF SameName
  <2>4. CASE s \in 1..n /\ t \in 1..n
    BY <1>1, <1>5, <2>4 DEF CatalogInv, NamesApart
  <2> QED
    BY <1>6, <2>2, <2>3, <2>4
<1>9. Len(refs) <= Len(refs')
  BY <1>1, <1>4, <1>5
<1>10. \A s \in 1..Len(refs) : refs'[s] = refs[s]
  BY <1>1, <1>5
<1> QED
  BY <1>3, <1>5, <1>7, <1>8, <1>9, <1>10, RefsStep

\* No item counted is no item that names the row.
LEMMA NotInUse ==
    ASSUME CatalogInv, NEW r, CountInUse(r) = 0
    PROVE  \A i \in 1..Len(items) : Kept(items[i]) => items[i].category # r /\ items[i].company # r
<1>1. PICK users : users = { i \in DOMAIN items :
                                Kept(items[i]) /\ r \in {items[i].company, items[i].category} }
  OBVIOUS
<1>2. Len(items) \in Nat /\ DOMAIN items = 1..Len(items)
  BY CatalogLengths
<1>3. IsFiniteSet(1..Len(items))
  BY <1>2, FS_Interval
<1>4. IsFiniteSet(users)
  BY <1>1, <1>2, <1>3, FS_Subset
<1>5. Cardinality(users) = 0
  BY <1>1 DEF CountInUse
<1>6. users = {}
  BY <1>4, <1>5, FS_EmptySet
<1> QED
  BY <1>1, <1>2, <1>6

\* Renaming, archiving and deleting reference rows.
LEMMA ReferenceKeeps ==
    ASSUME CatalogInv, NEW r \in DOMAIN refs, NEW name,
           \/ name \in RefNames /\ (UpdateReference(r, name) \/ UpdateInjection(r, name))
           \/ SetReferenceStatus(r) \/ SetInjectionStatus(r)
           \/ DeleteReference(r) \/ DeleteInjection(r)
    PROVE  CatalogInv'
<1>1. PICK old : old = refs[r]
  OBVIOUS
<1>2. /\ r \in 1..Len(refs) /\ old \in RefRows
      /\ old = [kind |-> old.kind, name |-> old.name, status |-> old.status]
      /\ old.status \in {"ACTIVE", "ARCHIVED", "DELETED"} /\ old.name \in AnyName
      /\ Kept(old) => old.kind \in {"company", "category", "serviceCategory", "injection"}
      /\ Kept(old) => RefNameFree(old.kind, old.name, r)
  BY <1>1, RefRowOf DEF RefRows
<1>3. CASE name \in RefNames /\ (UpdateReference(r, name) \/ UpdateInjection(r, name))
  <2>1. PICK row : row = [old EXCEPT !.name = name]
    OBVIOUS
  <2>2. row.kind = old.kind /\ row.name = name /\ row.status = old.status
    BY <1>2, <2>1
  <2>3. row \in RefRows
    BY <1>2, <1>3, <2>1, CatalogRows DEF RefRows, AnyName
  <2>4. Kept(old) /\ RefNameFree(old.kind, name, r) /\ SetRef(r, row)
    BY <1>1, <1>3, <2>1 DEF UpdateReference, UpdateInjection
  <2>5. Kept(row)
    BY <2>2, <2>4 DEF Kept
  <2> QED
    BY <1>1, <1>2, <2>2, <2>3, <2>4, <2>5, SetRefKeeps
<1>4. CASE SetReferenceStatus(r) \/ SetInjectionStatus(r)
  <2>1. PICK row : row = [old EXCEPT !.status = Toggled(old.status)]
    OBVIOUS
  <2>2. row.kind = old.kind /\ row.name = old.name /\ row.status = Toggled(old.status)
    BY <1>2, <2>1
  <2>3. Toggled(old.status) \in {"ACTIVE", "ARCHIVED"}
    BY DEF Toggled
  <2>4. row \in RefRows
    BY <1>2, <2>1, <2>3 DEF RefRows
  <2>5. Kept(old) /\ SetRef(r, row)
    BY <1>1, <1>4, <2>1 DEF SetReferenceStatus, SetInjectionStatus
  <2>6. Kept(row)
    BY <2>2, <2>3 DEF Kept
  <2> QED
    BY <1>1, <1>2, <2>2, <2>4, <2>5, <2>6, SetRefKeeps
<1>5. CASE DeleteReference(r) \/ DeleteInjection(r)
  <2>1. Kept(old) /\ SetRef(r, GoneRef)
    BY <1>1, <1>5 DEF DeleteReference, DeleteInjection
  <2>2. GoneRef \in RefRows /\ ~Kept(GoneRef)
    BY DEF GoneRef, RefRows, Kept, AnyName
  <2>3. \A i \in 1..Len(items) : Kept(items[i]) =>
           items[i].category # r /\ (items[i].kind = "product" => items[i].company # r)
    <3>1. CASE DeleteReference(r)
      BY <3>1, NotInUse DEF DeleteReference
    <3>2. CASE DeleteInjection(r)
      <4>1. old.kind = "injection"
        BY <1>1, <3>2 DEF DeleteInjection
      <4>2. \A kind : CategoryKind(kind) # "injection"
        BY DEF CategoryKind
      <4> QED
        BY <1>1, <4>1, <4>2 DEF CatalogInv, ItemsNameRefs, NamesRefs, IsA
    <3> QED
      BY <1>5, <3>1, <3>2
  <2> QED
    BY <1>1, <1>2, <2>1, <2>2, <2>3, SetRefKeeps
<1> QED
  BY <1>3, <1>4, <1>5

\* Kinds under which the import looks names up.
FileKinds == {"company", "category", "serviceCategory"}

\* A name of the file is a kind and a text.
LEMMA NamesArePairs ==
    ASSUME NEW row, NEW name \in NamesIn(row)
    PROVE  name = <<name[1], name[2]>> /\ name[1] \in FileKinds
           /\ name[2] \in {row.company, row.category}
<1>1. \/ name = <<CategoryKind(row.kind), row.category>>
      \/ name = <<"company", row.company>>
  BY DEF NamesIn
<1>2. CategoryKind(row.kind) \in FileKinds /\ "company" \in FileKinds
  BY DEF CategoryKind, FileKinds
<1> QED
  BY <1>1, <1>2

\* What the import finds under a name is a kept row of that name.
LEMMA FoundRow ==
    ASSUME CatalogInv, NEW name
    PROVE  /\ Found(name) \in 0..Len(refs)
           /\ Found(name) # NoRef =>
                 /\ Found(name) \in 1..Len(refs) /\ Kept(refs[Found(name)])
                 /\ refs[Found(name)].kind = name[1] /\ refs[Found(name)].name = name[2]
<1>1. PICK rows : rows = RefsNamed(name[1], name[2])
  OBVIOUS
<1>2. Len(refs) \in Nat /\ DOMAIN refs = 1..Len(refs)
  BY CatalogLengths
<1>3. CASE rows = {}
  <2>1. Found(name) = NoRef
    BY <1>1, <1>3 DEF Found
  <2> QED
    BY <1>2, <2>1 DEF NoRef
<1>4. CASE rows # {}
  <2>1. PICK r \in rows : r = Found(name)
    BY <1>1, <1>4 DEF Found
  <2>2. r \in 1..Len(refs) /\ Kept(refs[r]) /\ refs[r].kind = name[1] /\ refs[r].name = name[2]
    BY <1>1, <1>2, <2>1 DEF RefsNamed
  <2> QED
    BY <1>2, <2>1, <2>2
<1> QED
  BY <1>3, <1>4

\* The plan of an import, against the snapshot it reads.
LEMMA StartImportKeeps ==
    ASSUME CatalogInv, StartImport
    PROVE  CatalogInv'
<1>1. PICK rows, named, found :
         /\ rows = { k \in DOMAIN ImportFile :
                       /\ ~Known(ImportFile[k])
                       /\ \A l \in 1..k - 1 : ~SameCode(ImportFile[l], ImportFile[k]) }
         /\ named = UNION { NamesIn(ImportFile[k]) : k \in rows }
         /\ found = [name \in named |-> Found(name)]
  OBVIOUS
<1>2. import' = [made |-> TRUE, rows |-> rows, found |-> found]
  BY <1>1 DEF StartImport, BuildPlan
<1>3. import'.made = TRUE /\ import'.rows = rows /\ import'.found = found
  BY <1>2
<1>4. UNCHANGED <<refs, items, history, editing>>
  BY DEF StartImport, itemVars
<1>5. DOMAIN ImportFile = 1..Len(ImportFile) /\ Len(ImportFile) \in Nat
  BY CatalogRows, LenProperties
<1>6. \A k, l \in rows : k # l => ~SameCode(ImportFile[k], ImportFile[l])
  <2> SUFFICES ASSUME NEW k \in rows, NEW l \in rows, k # l
               PROVE  ~SameCode(ImportFile[k], ImportFile[l])
    OBVIOUS
  <2>1. k \in 1..Len(ImportFile) /\ l \in 1..Len(ImportFile)
    BY <1>1, <1>5
  <2>2. CASE k < l
    <3>1. k \in 1..l - 1
      BY <1>5, <2>1, <2>2
    <3> QED
      BY <1>1, <3>1
  <2>3. CASE l < k
    <3>1. l \in 1..k - 1
      BY <1>5, <2>1, <2>3
    <3>2. ~SameCode(ImportFile[l], ImportFile[k])
      BY <1>1, <3>1
    <3> QED
      BY <3>2 DEF SameCode
  <2> QED
    BY <1>5, <2>1, <2>2, <2>3
<1>7. \A name \in named : \E k \in rows : name \in NamesIn(ImportFile[k])
  BY <1>1
<1>8. \A name \in named : name = <<name[1], name[2]>>
  BY <1>7, NamesArePairs
<1>9. DOMAIN found = named /\ \A name \in named : found[name] = Found(name)
  BY <1>1
<1>10. found \in [named -> 0..Len(refs)]
  BY <1>1, FoundRow
<1>11. \A name \in named : found[name] # NoRef =>
          /\ refs[found[name]].kind = name[1]
          /\ \A other \in named : found[other] = found[name] => other = name
  <2> SUFFICES ASSUME NEW name \in named, found[name] # NoRef
               PROVE  /\ refs[found[name]].kind = name[1]
                      /\ \A other \in named : found[other] = found[name] => other = name
    OBVIOUS
  <2>1. refs[found[name]].kind = name[1] /\ refs[found[name]].name = name[2]
    BY <1>9, FoundRow
  <2>2. ASSUME NEW other \in named, found[other] = found[name]
        PROVE  other = name
    <3>1. refs[found[other]].kind = other[1] /\ refs[found[other]].name = other[2]
      BY <1>9, <2>2, FoundRow
    <3>2. other[1] = name[1] /\ other[2] = name[2]
      BY <2>1, <2>2, <3>1
    <3> QED
      BY <1>8, <3>2
  <2> QED
    BY <2>1, <2>2
<1>12. rows \in SUBSET (1..Len(ImportFile))
  BY <1>1, <1>5
<1>13. PlanOK'
  <2>1. /\ import'.made \in BOOLEAN
        /\ import'.rows \in SUBSET (1..Len(ImportFile))
        /\ \A k, l \in import'.rows : k # l => ~SameCode(ImportFile[k], ImportFile[l])
    BY <1>3, <1>6, <1>12
  <2>2. import'.found \in [UNION { NamesIn(ImportFile[k]) : k \in import'.rows } -> 0..Len(refs')]
    BY <1>1, <1>3, <1>4, <1>10
  <2>3. \A name \in DOMAIN import'.found : import'.found[name] # NoRef =>
           /\ Kept(refs'[import'.found[name]]) => refs'[import'.found[name]].kind = name[1]
           /\ \A other \in DOMAIN import'.found :
                 import'.found[other] = import'.found[name] => other = name
    BY <1>3, <1>4, <1>9, <1>11
  <2> QED
    BY <2>1, <2>2, <2>3 DEF PlanOK
<1>14. CatalogTypeOK' /\ Forms' /\ Ledgers' /\ ItemsNameRefs' /\ CodesApart' /\ NamesApart'
  BY <1>4 DEF CatalogInv, CatalogTypeOK, Forms, FormIsOfAVersion, Ledgers, ItemsNameRefs,
              NamesRefs, IsA, CodesApart, NamesApart
<1> QED
  BY <1>13, <1>14 DEF CatalogInv

\* A finite set as a sequence: every element, once.
LEMMA SetListed ==
    ASSUME NEW S, IsFiniteSet(S)
    PROVE  \E n \in Nat :
              /\ SetToSeq(S) \in [1..n -> S]
              /\ \A k, l \in 1..n : SetToSeq(S)[k] = SetToSeq(S)[l] => k = l
              /\ \A x \in S : \E k \in 1..n : SetToSeq(S)[k] = x
<1>1. PICK n : n = Cardinality(S)
  OBVIOUS
<1>2. n \in Nat /\ ExistsBijection(1..n, S)
  BY <1>1, FS_CardinalityType
<1>3. PICK b : b \in [1..n -> S] /\ IsInjective(b)
  BY <1>2 DEF ExistsBijection, Bijection, Injection
<1>4. PICK f : f = SetToSeq(S)
  OBVIOUS
<1>5. f \in [1..n -> S] /\ IsInjective(f)
  BY <1>1, <1>3, <1>4 DEF SetToSeq
<1>6. f \in Injection(1..n, S)
  BY <1>5 DEF Injection
<1>7. IsFiniteSet(1..n) /\ Cardinality(1..n) = n
  <2>1. IsFiniteSet(1..n) /\ Cardinality(1..n) = IF 1 > n THEN 0 ELSE n - 1 + 1
    BY <1>2, FS_Interval
  <2> QED
    BY <1>2, <2>1
<1>8. f \in Surjection(1..n, S)
  BY <1>1, <1>6, <1>7, FS_Injection
<1>9. \A x \in S : \E k \in 1..n : f[k] = x
  BY <1>8 DEF Surjection
<1>10. \A k, l \in 1..n : f[k] = f[l] => k = l
  BY <1>5 DEF IsInjective
<1> QED
  BY <1>2, <1>4, <1>5, <1>9, <1>10

\* The columns of a row of the file.
LEMMA FileRow ==
    ASSUME NEW k \in 1..Len(ImportFile)
    PROVE  /\ ImportFile[k].kind \in {"product", "service"}
           /\ ImportFile[k].company \in AnyName /\ ImportFile[k].category \in AnyName
           /\ ImportFile[k].code \in AnyName /\ ImportFile[k].price \in AnyPrice
<1>1. PICK S : S = [kind : {"product", "service"}, company : STRING, category : STRING,
                    code : STRING, price : Prices \cup {NoPrice}]
  OBVIOUS
<1>2. ImportFile \in Seq(S)
  BY <1>1, CatalogRows
<1>3. ImportFile[k] \in S
  BY <1>2, ElementOfSeq
<1> QED
  BY <1>1, <1>3 DEF AnyName, AnyPrice

\* A file names finitely many references.
LEMMA NamesFinite ==
    ASSUME NEW rows \in SUBSET (1..Len(ImportFile))
    PROVE  IsFiniteSet(rows) /\ IsFiniteSet(UNION { NamesIn(ImportFile[k]) : k \in rows })
<1>1. Len(ImportFile) \in Nat
  BY CatalogRows, LenProperties
<1>2. IsFiniteSet(rows)
  <2>1. IsFiniteSet(1..Len(ImportFile))
    BY <1>1, FS_Interval
  <2> QED
    BY <2>1, FS_Subset
<1>3. PICK T, f : T = { NamesIn(ImportFile[k]) : k \in rows }
                  /\ f = [k \in rows |-> NamesIn(ImportFile[k])]
  OBVIOUS
<1>4. f \in Surjection(rows, T)
  BY <1>3 DEF Surjection
<1>5. IsFiniteSet(T)
  BY <1>2, <1>4, FS_Surjection
<1>6. ASSUME NEW k \in rows
      PROVE  IsFiniteSet(NamesIn(ImportFile[k]))
  <2>1. PICK a, b, P : /\ a = <<CategoryKind(ImportFile[k].kind), ImportFile[k].category>>
                       /\ b = <<"company", ImportFile[k].company>>
                       /\ P = {a, b}
    OBVIOUS
  <2>2. P = {a} \cup {b} /\ NamesIn(ImportFile[k]) \in SUBSET P
    BY <2>1 DEF NamesIn
  <2>3. IsFiniteSet(P)
    BY <2>2, FS_Singleton, FS_Union
  <2> QED
    BY <2>2, <2>3, FS_Subset
<1>7. \A s \in T : IsFiniteSet(s)
  BY <1>3, <1>6
<1>8. IsFiniteSet(UNION T)
  BY <1>5, <1>7, FS_UNION
<1> QED
  BY <1>2, <1>3, <1>8

\* A function on 1..n is a sequence.
LEMMA ListIsSeq ==
    ASSUME NEW S, NEW n \in Nat, NEW f \in [1..n -> S]
    PROVE  f \in Seq(S) /\ Len(f) = n
<1>1. f \in Seq(S)
  BY SeqDef
<1>2. DOMAIN f = 1..n
  OBVIOUS
<1>3. Len(f) \in Nat /\ DOMAIN f = 1..Len(f)
  BY <1>1, LenProperties
<1> QED
  BY <1>1, <1>2, <1>3

CreatedRefs == [k \in DOMAIN Created |-> Reference(Created[k][1], Created[k][2])]
FileNames == DOMAIN import.found
Ids == [name \in FileNames |-> IdOf(name)]

\* What the planned rows of the file become: new references, each with its name,
\* and an id for every name, different ids under different names of a kind.
LEMMA ImportedRefs ==
    ASSUME CatalogInv, import.made, Insertable,
           NEW created, created = CreatedRefs, NEW named, named = FileNames, NEW id, id = Ids
    PROVE  /\ created \in Seq(RefRows)
           /\ \A r \in 1..Len(created) :
                 /\ Kept(created[r]) /\ created[r].kind # "none"
                 /\ \A s \in 1..Len(refs) : Kept(refs[s]) => ~SameName(created[r], refs[s])
                 /\ \A s \in 1..Len(created) : s # r => ~SameName(created[r], created[s])
           /\ \A name \in named :
                 \/ id[name] \in 1..Len(refs) /\ Kept(refs[id[name]])
                    /\ refs[id[name]].kind = name[1]
                 \/ \E r \in 1..Len(created) :
                       id[name] = Len(refs) + r /\ created[r].kind = name[1]
           /\ \A name, other \in named : id[name] = id[other] => name = other
<1>1. /\ import.rows \in SUBSET (1..Len(ImportFile))
      /\ import.found \in [UNION { NamesIn(ImportFile[k]) : k \in import.rows } -> 0..Len(refs)]
      /\ \A name \in named : import.found[name] # NoRef =>
            /\ Kept(refs[import.found[name]]) => refs[import.found[name]].kind = name[1]
            /\ \A other \in named : import.found[other] = import.found[name] => other = name
  BY DEF CatalogInv, PlanOK, FileNames
<1>2. PICK found : found = import.found
  OBVIOUS
<1>3. named = UNION { NamesIn(ImportFile[k]) : k \in import.rows } /\ found \in [named -> 0..Len(refs)]
  BY <1>1, <1>2 DEF FileNames
<1>4. ASSUME NEW name \in named
      PROVE  name = <<name[1], name[2]>> /\ name[1] \in FileKinds /\ name[2] \in AnyName
  <2>1. PICK k \in import.rows : name \in NamesIn(ImportFile[k])
    BY <1>3
  <2>2. ImportFile[k].company \in AnyName /\ ImportFile[k].category \in AnyName
    BY <1>1, FileRow
  <2> QED
    BY <2>1, <2>2, NamesArePairs
<1>5. NewNames = { name \in named : found[name] = NoRef }
  BY <1>2 DEF NewNames, FileNames
<1>6. IsFiniteSet(NewNames)
  <2>1. IsFiniteSet(named)
    BY <1>1, <1>3, NamesFinite
  <2> QED
    BY <1>5, <2>1, FS_Subset
<1>7. PICK c \in Nat :
         /\ Created \in [1..c -> NewNames]
         /\ \A k, l \in 1..c : Created[k] = Created[l] => k = l
         /\ \A x \in NewNames : \E k \in 1..c : Created[k] = x
  BY <1>6, SetListed DEF Created
<1>8. PICK a, names : a = Len(refs) /\ names = Created
  OBVIOUS
<1>9. /\ names \in [1..c -> NewNames]
      /\ \A k, l \in 1..c : names[k] = names[l] => k = l
      /\ \A x \in NewNames : \E k \in 1..c : names[k] = x
  BY <1>7, <1>8
<1>10. a \in Nat /\ DOMAIN refs = 1..a
  BY <1>8, CatalogLengths
<1>11. created = [k \in 1..c |-> Reference(names[k][1], names[k][2])]
  BY <1>8, <1>9 DEF CreatedRefs
<1>12. ASSUME NEW k \in 1..c
       PROVE  /\ created[k] \in RefRows /\ Kept(created[k]) /\ created[k].kind # "none"
              /\ names[k] \in named /\ found[names[k]] = NoRef
              /\ created[k].kind = names[k][1] /\ created[k].name = names[k][2]
  <2>1. names[k] \in named /\ found[names[k]] = NoRef
    BY <1>5, <1>9
  <2>2. PICK kind, text : kind = names[k][1] /\ text = names[k][2]
    OBVIOUS
  <2>3. created[k] = [kind |-> kind, name |-> text, status |-> "ACTIVE"]
    BY <1>11, <2>2 DEF Reference
  <2>4. kind \in FileKinds /\ text \in AnyName
    BY <1>4, <2>1, <2>2
  <2> QED
    BY <2>1, <2>2, <2>3, <2>4 DEF FileKinds, RefRows, Kept
<1>13. created \in Seq(RefRows) /\ Len(created) = c
  <2>1. created \in [1..c -> RefRows]
    BY <1>11, <1>12
  <2> QED
    BY <2>1, ListIsSeq
<1>14. \A name \in NewNames : RefNameFree(name[1], name[2], NoRef)
  BY DEF Insertable
<1>15. ASSUME NEW r \in 1..c, NEW s \in 1..a, Kept(refs[s])
       PROVE  ~SameName(created[r], refs[s])
  <2>1. RefNameFree(names[r][1], names[r][2], NoRef)
    BY <1>9, <1>14
  <2>2. s # NoRef
    BY <1>10 DEF NoRef
  <2> QED
    BY <1>10, <1>12, <1>15, <2>1, <2>2 DEF RefNameFree, RefsNamed, SameName
<1>16. ASSUME NEW r \in 1..c, NEW s \in 1..c, s # r
       PROVE  ~SameName(created[r], created[s])
  <2>1. names[r] # names[s]
    BY <1>9, <1>16
  <2>2. names[r] = <<names[r][1], names[r][2]>> /\ names[s] = <<names[s][1], names[s][2]>>
    BY <1>4, <1>12
  <2> QED
    BY <1>12, <2>1, <2>2 DEF SameName
<1>17. ASSUME NEW name \in named, found[name] # NoRef
       PROVE  /\ id[name] = found[name] /\ id[name] \in 1..a /\ Kept(refs[id[name]])
              /\ refs[id[name]].kind = name[1]
  <2>1. id[name] = found[name]
    BY <1>2, <1>17 DEF IdOf, Ids
  <2>2. found[name] \in 1..a
    BY <1>3, <1>8, <1>10, <1>17 DEF NoRef
  <2>3. Kept(refs[found[name]])
    BY <1>2, <1>5, <1>17 DEF Insertable, FileNames
  <2> QED
    BY <1>1, <1>2, <1>17, <2>1, <2>2, <2>3
<1>18. ASSUME NEW name \in named, found[name] = NoRef
       PROVE  \E k \in 1..c : names[k] = name /\ id[name] = a + k
  <2>1. name \in NewNames /\ DOMAIN names = 1..c
    BY <1>5, <1>9, <1>18
  <2>2. \E k \in DOMAIN names : names[k] = name
    BY <1>9, <2>1
  <2>3. PICK k : k = CHOOSE l \in DOMAIN names : names[l] = name
    OBVIOUS
  <2>4. k \in DOMAIN names /\ names[k] = name
    BY <2>2, <2>3
  <2>5. id[name] = a + k
    BY <1>2, <1>8, <1>18, <2>3 DEF IdOf, Ids
  <2> QED
    BY <2>1, <2>4, <2>5
<1>19. \A name \in named :
          \/ id[name] \in 1..a /\ Kept(refs[id[name]]) /\ refs[id[name]].kind = name[1]
          \/ \E r \in 1..c : id[name] = a + r /\ created[r].kind = name[1]
  <2> TAKE name \in named
  <2>1. CASE found[name] # NoRef
    BY <1>17, <2>1
  <2>2. CASE found[name] = NoRef
    <3>1. PICK k \in 1..c : names[k] = name /\ id[name] = a + k
      BY <1>18, <2>2
    <3>2. created[k].kind = name[1]
      BY <1>12, <3>1
    <3> QED
      BY <3>1, <3>2
  <2> QED
    BY <2>1, <2>2
<1>20. ASSUME NEW name \in named, NEW other \in named, id[name] = id[other]
       PROVE  name = other
  <2>1. CASE found[name] # NoRef /\ found[other] # NoRef
    <3>1. id[name] = found[name] /\ id[other] = found[other]
      BY <1>17, <2>1
    <3>2. \A x \in named : found[name] = found[x] => x = name
      BY <1>1, <1>2, <2>1
    <3> QED
      BY <1>20, <3>1, <3>2
  <2>2. CASE found[name] = NoRef /\ found[other] = NoRef
    <3>1. PICK k \in 1..c, l \in 1..c : /\ names[k] = name /\ id[name] = a + k
                                        /\ names[l] = other /\ id[other] = a + l
      BY <1>18, <2>2
    <3>2. a + k = a + l
      BY <1>20, <3>1
    <3>3. k = l
      BY <1>10, <3>2
    <3> QED
      BY <3>1, <3>3
  <2>3. CASE found[name] # NoRef /\ found[other] = NoRef
    <3>1. PICK l \in 1..c : id[other] = a + l
      BY <1>18, <2>3
    <3>2. id[name] \in 1..a
      BY <1>17, <2>3
    <3> QED
      BY <1>10, <1>20, <3>1, <3>2
  <2>4. CASE found[name] = NoRef /\ found[other] # NoRef
    <3>1. PICK k \in 1..c : id[name] = a + k
      BY <1>18, <2>4
    <3>2. id[other] \in 1..a
      BY <1>17, <2>4
    <3> QED
      BY <1>10, <1>20, <3>1, <3>2
  <2> QED
    BY <2>1, <2>2, <2>3, <2>4
<1> QED
  BY SMTT(60), <1>8, <1>12, <1>13, <1>15, <1>16, <1>19, <1>20

\* The import grows the tables by its plan, or changes nothing.
LEMMA ApplyImportKeeps ==
    ASSUME CatalogInv, ApplyImport
    PROVE  CatalogInv'
<1>1. import.made /\ import' = NoPlan /\ UNCHANGED editing
  BY DEF ApplyImport
<1>2. import'.made = FALSE
  BY <1>1 DEF NoPlan
<1>3. PlanOK'
  BY <1>2 DEF PlanOK
<1>4. CASE ~Insertable
  <2>1. UNCHANGED <<refs, items, history, editing>>
    BY <1>1, <1>4 DEF ApplyImport, itemVars
  <2>2. CatalogTypeOK' /\ Forms' /\ Ledgers' /\ ItemsNameRefs' /\ CodesApart' /\ NamesApart'
    BY <2>1 DEF CatalogInv, CatalogTypeOK, Forms, FormIsOfAVersion, Ledgers, ItemsNameRefs,
                NamesRefs, IsA, CodesApart, NamesApart
  <2> QED
    BY <1>3, <2>2 DEF CatalogInv
<1>5. CASE Insertable
  <2>1. PICK created, planned, more, opening, named, id, rows, a :
          /\ created = CreatedRefs
          /\ planned = Planned
          /\ more = [k \in DOMAIN planned |-> Imported(ImportFile[planned[k]])]
          /\ opening = [k \in DOMAIN planned |-> OpeningPrice(ImportFile[planned[k]].price)]
          /\ named = FileNames
          /\ id = Ids
          /\ rows = import.rows
          /\ a = Len(refs)
    OBVIOUS
  <2>2. refs' = refs \o created /\ items' = items \o more /\ history' = history \o opening
    BY <1>5, <2>1 DEF ApplyImport, CreatedRefs
  <2>3. /\ created \in Seq(RefRows)
        /\ \A r \in 1..Len(created) :
              /\ Kept(created[r]) /\ created[r].kind # "none"
              /\ \A s \in 1..Len(refs) : Kept(refs[s]) => ~SameName(created[r], refs[s])
              /\ \A s \in 1..Len(created) : s # r => ~SameName(created[r], created[s])
        /\ \A name \in named :
              \/ id[name] \in 1..a /\ Kept(refs[id[name]]) /\ refs[id[name]].kind = name[1]
              \/ \E r \in 1..Len(created) : id[name] = a + r /\ created[r].kind = name[1]
        /\ \A name, other \in named : id[name] = id[other] => name = other
    <3>1. created = CreatedRefs /\ named = FileNames /\ id = Ids
      BY <2>1
    <3>4. a = Len(refs)
      BY <2>1
    <3>5. /\ created \in Seq(RefRows)
          /\ \A r \in 1..Len(created) :
                /\ Kept(created[r]) /\ created[r].kind # "none"
                /\ \A s \in 1..Len(refs) : Kept(refs[s]) => ~SameName(created[r], refs[s])
                /\ \A s \in 1..Len(created) : s # r => ~SameName(created[r], created[s])
          /\ \A name \in named :
                \/ id[name] \in 1..Len(refs) /\ Kept(refs[id[name]])
                   /\ refs[id[name]].kind = name[1]
                \/ \E r \in 1..Len(created) :
                      id[name] = Len(refs) + r /\ created[r].kind = name[1]
          /\ \A name, other \in named : id[name] = id[other] => name = other
      BY <1>1, <1>5, <3>1, ImportedRefs
    <3> QED
      BY <3>4, <3>5
  <2>4. PICK b : b = Len(created)
    OBVIOUS
  <2>5. a \in Nat /\ b \in Nat /\ DOMAIN refs = 1..a
    BY <2>1, <2>3, <2>4, CatalogLengths, LenProperties
  <2>6. /\ rows \in SUBSET (1..Len(ImportFile))
        /\ \A k, l \in rows : k # l => ~SameCode(ImportFile[k], ImportFile[l])
        /\ named = UNION { NamesIn(ImportFile[k]) : k \in rows }
    BY <1>1, <2>1 DEF CatalogInv, PlanOK, FileNames
  <2>7. PICK n \in Nat :
           /\ planned \in [1..n -> rows]
           /\ \A k, l \in 1..n : planned[k] = planned[l] => k = l
    <3>1. IsFiniteSet(rows)
      BY <2>6, NamesFinite
    <3>2. planned = SetToSeq(rows)
      BY <2>1 DEF Planned
    <3> QED
      BY <3>1, <3>2, SetListed
  <2>8. \A name \in named : id[name] \in Nat
    BY <2>3, <2>4, <2>5
  <2>9. ASSUME NEW name \in named
        PROVE  IsA(name[1], id[name])'
    <3>1. /\ Len(refs \o created) = a + b
          /\ \A i \in 1..a + b : (refs \o created)[i] = IF i <= a THEN refs[i] ELSE created[i - a]
      <4>1. refs \in Seq(RefRows)
        BY DEF CatalogInv, CatalogTypeOK
      <4> QED
        BY <2>1, <2>3, <2>4, <4>1, ConcatProperties
    <3>2. Len(refs') = a + b /\ \A i \in 1..a + b : refs'[i] = IF i <= a THEN refs[i] ELSE created[i - a]
      BY <2>2, <3>1
    <3>3. CASE id[name] \in 1..a /\ Kept(refs[id[name]]) /\ refs[id[name]].kind = name[1]
      <4>1. id[name] \in 1..a + b /\ id[name] <= a
        BY <2>5, <3>3
      <4> QED
        BY <3>2, <3>3, <4>1 DEF IsA
    <3>4. CASE \E r \in 1..b : id[name] = a + r /\ created[r].kind = name[1]
      <4>1. PICK r \in 1..b : id[name] = a + r /\ created[r].kind = name[1]
        BY <3>4
      <4>2. a + r \in 1..a + b /\ ~(a + r <= a) /\ (a + r) - a = r
        BY <2>5
      <4>3. Kept(created[r])
        BY <2>3, <2>4
      <4> QED
        BY <3>2, <4>1, <4>2, <4>3 DEF IsA
    <3> QED
      BY <2>3, <2>4, <3>3, <3>4
  <2>10. ASSUME NEW k \in rows
         PROVE  /\ <<CategoryKind(ImportFile[k].kind), ImportFile[k].category>> \in named
                /\ ImportFile[k].kind = "product" => <<"company", ImportFile[k].company>> \in named
    <3>1. \A name \in NamesIn(ImportFile[k]) : name \in named
      BY <2>6
    <3> QED
      BY <3>1 DEF NamesIn
  <2>11. ASSUME NEW k \in rows, NEW row, row = ImportFile[k]
         PROVE  /\ Imported(row) \in KeptItems /\ Kept(Imported(row))
                /\ Imported(row).kind = row.kind /\ Imported(row).code = row.code
                /\ Imported(row).price = row.price /\ row.price \in AnyPrice
                /\ Imported(row).category = id[<<CategoryKind(row.kind), row.category>>]
                /\ row.kind = "product" => Imported(row).company = id[<<"company", row.company>>]
    <3>1. PICK company, category :
             /\ company = IF row.kind = "product" THEN IdOf(<<"company", row.company>>) ELSE NoRef
             /\ category = IdOf(<<CategoryKind(row.kind), row.category>>)
      OBVIOUS
    <3>2. Imported(row) = Item(row.kind, company, category, row.code, row.price)
      BY <3>1 DEF Imported
    <3>3. /\ category = id[<<CategoryKind(row.kind), row.category>>]
          /\ row.kind = "product" => company = id[<<"company", row.company>>]
          /\ row.kind # "product" => company = NoRef
      BY <2>1, <2>10, <2>11, <3>1 DEF Ids
    <3>4. category \in Nat /\ company \in Nat
      BY <2>8, <2>10, <2>11, <3>3 DEF NoRef
    <3>5. /\ row.kind \in {"product", "service"} /\ row.code \in AnyName /\ row.price \in AnyPrice
      BY <2>6, <2>11, FileRow
    <3>6. Imported(row) \in KeptItems /\ Kept(Imported(row))
      BY <3>2, <3>4, <3>5, ItemOfForm
    <3>7. /\ Imported(row).kind = row.kind /\ Imported(row).code = row.code
          /\ Imported(row).price = row.price
          /\ Imported(row).company = company /\ Imported(row).category = category
      BY <3>2 DEF Item
    <3> QED
      BY <3>3, <3>5, <3>6, <3>7
  <2>12. ASSUME NEW k \in 1..n
         PROVE  planned[k] \in rows /\ more[k] = Imported(ImportFile[planned[k]])
                /\ opening[k] = OpeningPrice(ImportFile[planned[k]].price)
    BY <2>1, <2>7
  <2>13. more \in Seq(KeptItems) /\ Len(more) = n
    <3>1. more \in [1..n -> KeptItems]
      BY <2>1, <2>7, <2>11
    <3> QED
      BY <3>1, ListIsSeq
  <2>14. \A k \in 1..n : opening[k] \in Seq(PriceChanges) /\ Ledger(opening[k], more[k].price)
    <3> TAKE k \in 1..n
    <3>1. more[k].price = ImportFile[planned[k]].price /\ ImportFile[planned[k]].price \in AnyPrice
      BY <2>11, <2>12
    <3> QED
      BY <2>12, <3>1, OpeningLedger
  <2>15. opening \in Seq(Seq(PriceChanges)) /\ Len(opening) = n
    <3>1. opening \in [1..n -> Seq(PriceChanges)]
      BY <2>1, <2>7, <2>14
    <3> QED
      BY <3>1, ListIsSeq
  <2>16. ASSUME NEW k \in 1..n
         PROVE  NamesRefs(more[k])'
    <3>1. PICK row : row = ImportFile[planned[k]]
      OBVIOUS
    <3>2. /\ more[k].kind = row.kind
          /\ more[k].category = id[<<CategoryKind(row.kind), row.category>>]
          /\ row.kind = "product" => more[k].company = id[<<"company", row.company>>]
      BY <2>11, <2>12, <3>1
    <3>3. /\ <<CategoryKind(row.kind), row.category>> \in named
          /\ row.kind = "product" => <<"company", row.company>> \in named
      BY <2>10, <2>12, <3>1
    <3>4. IsA(CategoryKind(more[k].kind), more[k].category)'
      BY <2>9, <3>2, <3>3 DEF IsA
    <3>5. more[k].kind = "product" => IsA("company", more[k].company)'
      BY <2>9, <3>2, <3>3 DEF IsA
    <3> QED
      BY <3>4, <3>5 DEF NamesRefs
  <2>17. ASSUME NEW k \in 1..n, NEW i \in 1..Len(items), Kept(items[i])
         PROVE  ~Clash(more[k], items[i])
    <3>1. CodeFree(more[k], NoRef)
      BY <1>5, <2>1, <2>12 DEF Insertable
    <3>2. i \in DOMAIN items \ {NoRef}
      BY CatalogLengths DEF NoRef
    <3> QED
      BY <2>17, <3>1, <3>2 DEF CodeFree, Clash
  <2>19. \A k \in 1..n :
            /\ more[k].kind = ImportFile[planned[k]].kind
            /\ more[k].code = ImportFile[planned[k]].code
            /\ ImportFile[planned[k]].kind = "product" =>
                  more[k].company = id[<<"company", ImportFile[planned[k]].company>>]
    <3> TAKE k \in 1..n
    <3>1. PICK row : row = ImportFile[planned[k]]
      OBVIOUS
    <3>2. more[k] = Imported(row) /\ planned[k] \in rows
      BY <2>12, <3>1
    <3> QED
      BY <2>11, <3>1, <3>2
  <2>18. ASSUME NEW k \in 1..n, NEW l \in 1..n, l # k
         PROVE  ~Clash(more[k], more[l])
    <3>1. PICK row, other : row = ImportFile[planned[k]] /\ other = ImportFile[planned[l]]
      OBVIOUS
    <3>2. ~SameCode(row, other)
      BY <2>6, <2>7, <2>18, <3>1
    <3>3. /\ more[k].kind = row.kind /\ more[k].code = row.code
          /\ row.kind = "product" => more[k].company = id[<<"company", row.company>>]
      BY <2>19, <3>1
    <3>5. /\ more[l].kind = other.kind /\ more[l].code = other.code
          /\ other.kind = "product" => more[l].company = id[<<"company", other.company>>]
      BY <2>19, <3>1
    <3>4. ASSUME row.kind = "product", other.kind = "product", row.company # other.company
          PROVE  more[k].company # more[l].company
      <4>1. PICK p, q : p = <<"company", row.company>> /\ q = <<"company", other.company>>
        OBVIOUS
      <4>2. p \in named /\ q \in named /\ p # q
        BY <2>10, <2>12, <3>1, <3>4, <4>1
      <4>3. id[p] # id[q]
        BY <2>3, <4>2
      <4> QED
        BY <3>3, <3>4, <3>5, <4>1, <4>3
    <3> QED
      BY <3>2, <3>3, <3>4, <3>5 DEF SameCode, Clash
  <2> QED
    BY <1>1, <1>3, <2>2, <2>3, <2>13, <2>14, <2>15, <2>16, <2>17, <2>18, Growth
<1> QED
  BY <1>4, <1>5

\* The reference rows at the start, and no items.
LEMMA CatalogStarts ==
    ASSUME CatalogInit
    PROVE  CatalogInv
<1>1. PICK n : n = Len(FirstRefs)
  OBVIOUS
<1>2. PICK S : S = [kind : {"company", "category", "serviceCategory", "injection"},
                    name : STRING, status : {"ACTIVE", "ARCHIVED"}]
  OBVIOUS
<1>3. FirstRefs \in Seq(S)
  BY <1>2, CatalogRows
<1>4. n \in Nat /\ FirstRefs \in [1..n -> S] /\ DOMAIN FirstRefs = 1..n
  BY <1>1, <1>3, LenProperties
<1>5. \A row \in S : row \in RefRows /\ row.kind # "none"
  BY <1>2 DEF RefRows, AnyName
<1>6. FirstRefs \in [1..n -> RefRows] /\ \A r \in 1..n : FirstRefs[r].kind # "none"
  BY <1>4, <1>5
<1>7. FirstRefs \in Seq(RefRows)
  BY <1>4, <1>6, ListIsSeq
<1>8. refs = FirstRefs /\ items = <<>> /\ history = <<>> /\ import.made = FALSE
      /\ editing = [e \in Editors |-> NotEditing]
  BY DEF CatalogInit, NoPlan
<1>9. /\ items \in Seq(KeptItems) /\ history \in Seq(Seq(PriceChanges))
      /\ Len(items) = 0 /\ Len(history) = 0 /\ 1..Len(items) = {}
  BY <1>8, EmptySeq
<1>10. CatalogTypeOK
  BY <1>1, <1>6, <1>7, <1>8, <1>9 DEF CatalogTypeOK
<1>11. Forms
  BY <1>8 DEF Forms, FormIsOfAVersion
<1>12. PlanOK
  BY <1>8 DEF PlanOK
<1>13. Ledgers /\ ItemsNameRefs /\ CodesApart
  BY <1>9 DEF Ledgers, ItemsNameRefs, CodesApart
<1>14. NamesApart
  BY <1>1, <1>4, <1>8, CatalogRows DEF NamesApart, SameName
<1> QED
  BY <1>10, <1>11, <1>12, <1>13, <1>14 DEF CatalogInv

\* Every operation keeps the invariant.
LEMMA CatalogSteps ==
    ASSUME CatalogInv, [CatalogNext]_catalogVars
    PROVE  CatalogInv'
<1>1. CASE UNCHANGED catalogVars
  BY <1>1 DEF catalogVars, CatalogInv, CatalogTypeOK, Forms, FormIsOfAVersion, PlanOK,
              Ledgers, ItemsNameRefs, NamesRefs, IsA, CodesApart, NamesApart
<1>2. CASE \E c, g \in DOMAIN refs, code \in Codes, price \in AnyPrice :
             \/ CreateProduct(c, g, code, price)
             \/ \E e \in Editors : UpdateProduct(e, c, g, code, price)
  <2>1. PICK c \in DOMAIN refs, g \in DOMAIN refs, code \in Codes, price \in AnyPrice :
           \/ CreateProduct(c, g, code, price)
           \/ \E e \in Editors : UpdateProduct(e, c, g, code, price)
    BY <1>2
  <2>2. CASE CreateProduct(c, g, code, price)
    BY <2>2, CreateKeeps
  <2>3. ASSUME NEW e \in Editors, UpdateProduct(e, c, g, code, price)
        PROVE  CatalogInv'
    BY <2>3, UpdateKeeps
  <2> QED
    BY <2>1, <2>2, <2>3
<1>3. CASE \E g \in DOMAIN refs, code \in Codes, price \in AnyPrice :
             \/ CreateService(g, code, price)
             \/ \E e \in Editors : UpdateService(e, g, code, price)
  <2>1. PICK g \in DOMAIN refs, code \in Codes, price \in AnyPrice :
           \/ CreateService(g, code, price)
           \/ \E e \in Editors : UpdateService(e, g, code, price)
    BY <1>3
  <2>2. CASE CreateService(g, code, price)
    BY <2>2, CreateKeeps
  <2>3. ASSUME NEW e \in Editors, UpdateService(e, g, code, price)
        PROVE  CatalogInv'
    BY <2>3, UpdateKeeps
  <2> QED
    BY <2>1, <2>2, <2>3
<1>4. ASSUME NEW i \in DOMAIN items,
             \/ SetProductStatus(i) \/ DeleteProduct(i)
             \/ SetServiceStatus(i) \/ DeleteService(i)
      PROVE  CatalogInv'
  <2>1. SetItemStatus(i) \/ DeleteItem(i)
    BY <1>4 DEF SetProductStatus, DeleteProduct, SetServiceStatus, DeleteService
  <2> QED
    BY <2>1, StatusKeeps, DeleteItemKeeps
<1>5. ASSUME NEW e \in Editors, NEW i \in DOMAIN items, OpenForEditing(e, i)
      PROVE  CatalogInv'
  BY <1>5, OpenKeeps
<1>6. ASSUME NEW e \in Editors, GiveUpEditing(e)
      PROVE  CatalogInv'
  BY <1>6, OpenKeeps
<1>7. ASSUME NEW r \in DOMAIN refs,
             \/ \E name \in RefNames : UpdateReference(r, name) \/ UpdateInjection(r, name)
             \/ SetReferenceStatus(r) \/ DeleteReference(r)
             \/ SetInjectionStatus(r) \/ DeleteInjection(r)
      PROVE  CatalogInv'
  <2>1. ASSUME NEW name \in RefNames, UpdateReference(r, name) \/ UpdateInjection(r, name)
        PROVE  CatalogInv'
    BY <2>1, ReferenceKeeps
  <2> QED
    BY <1>7, <2>1, ReferenceKeeps
<1>8. ASSUME NEW name \in RefNames,
             \/ \E kind \in {"company", "category", "serviceCategory"} : CreateReference(kind, name)
             \/ CreateInjection(name)
      PROVE  CatalogInv'
  <2>1. PICK kind \in {"company", "category", "serviceCategory", "injection"} :
           CreateReference(kind, name)
    BY <1>8 DEF CreateInjection
  <2> QED
    BY <2>1, CreateReferenceKeeps
<1>9. CASE StartImport \/ ApplyImport
  BY <1>9, StartImportKeeps, ApplyImportKeeps
<1>10. CASE ItemNext
  BY <1>2, <1>3, <1>4, <1>5, <1>6, <1>10 DEF ItemNext
<1>11. CASE ReferenceNext
  BY <1>7, <1>8, <1>11 DEF ReferenceNext
<1> QED
  BY <1>1, <1>9, <1>10, <1>11 DEF CatalogNext

\* The invariant holds of every behaviour.
LEMMA CatalogInvariant == CatalogSpec => []CatalogInv
<1>1. CatalogInit => CatalogInv
  BY CatalogStarts
<1>2. CatalogInv /\ [CatalogNext]_catalogVars => CatalogInv'
  BY CatalogSteps
<1> QED
  BY <1>1, <1>2, PTL DEF CatalogSpec

\* The price history of every item is a ledger that ends in its price.
THEOREM HistoryIsLedger == CatalogSpec => []PriceHistoryIsLedger
BY CatalogInvariant, CatalogProperties, PTL

\* Items name rows that exist, codes and names stay unique, also after an import
\* that planned on an older catalogue.
THEOREM CatalogStaysWhole == CatalogSpec => []CatalogHoldsTogether
BY CatalogInvariant, CatalogProperties, PTL

\* Only an update closes a form and changes the items.
LEMMA SavesAreSeen ==
    ASSUME CatalogInv, [CatalogNext]_catalogVars, NEW e \in Editors,
           editing[e] # NotEditing, editing'[e] = NotEditing, items' # items
    PROVE  items[editing[e].id] = editing[e].seen
<1>1. editing' # editing
  OBVIOUS
<1>2. ASSUME NEW r, NEW row, SetRef(r, row)
      PROVE  FALSE
  BY <1>1, <1>2 DEF SetRef
<1>3. ~ReferenceNext
  BY <1>1, <1>2 DEF ReferenceNext, CreateReference, CreateInjection, UpdateReference,
     UpdateInjection, SetReferenceStatus, SetInjectionStatus, DeleteReference, DeleteInjection
<1>4. ~StartImport /\ ~ApplyImport
  BY <1>1 DEF StartImport, ApplyImport
<1>5. ItemNext
  BY <1>1, <1>3, <1>4 DEF CatalogNext, catalogVars
<1>6. PICK d, kind, new : d \in Editors /\ Replace(d, kind, new)
  <2>1. ASSUME NEW item, Insert(item)
        PROVE  FALSE
    BY <1>1, <2>1 DEF Insert
  <2>2. ASSUME NEW i, SetItemStatus(i) \/ DeleteItem(i)
        PROVE  FALSE
    BY <1>1, <2>2 DEF SetItemStatus, DeleteItem
  <2>3. ASSUME NEW f, NEW i, OpenForEditing(f, i) \/ GiveUpEditing(f)
        PROVE  FALSE
    BY <2>3 DEF OpenForEditing, GiveUpEditing, itemVars
  <2>4. \E f \in Editors, c, g \in DOMAIN refs, code \in Codes, price \in AnyPrice :
           UpdateProduct(f, c, g, code, price) \/ UpdateService(f, g, code, price)
    BY <1>5, <2>1, <2>2, <2>3 DEF ItemNext, CreateProduct, CreateService, SetProductStatus,
       DeleteProduct, SetServiceStatus, DeleteService
  <2> QED
    BY <2>4 DEF UpdateProduct, UpdateService
<1>7. editing[d] # NotEditing /\ Current(d) /\ editing' = [editing EXCEPT ![d] = NotEditing]
  BY <1>6 DEF Replace
<1>8. e = d
  BY <1>7 DEF CatalogInv, Forms
<1> QED
  BY <1>7, <1>8, SavedIsSeen

\* What an administrator saves replaces exactly what was on the screen.
THEOREM NoUpdateIsLost == CatalogSpec => NoLostUpdate
<1>1. CatalogInv /\ [CatalogNext]_catalogVars =>
         [\A e \in Editors :
             editing[e] # NotEditing /\ editing'[e] = NotEditing /\ items' # items
                => items[editing[e].id] = editing[e].seen]_catalogVars
  BY SavesAreSeen
<1> QED
  BY <1>1, CatalogInvariant, PTL DEF CatalogSpec, NoLostUpdate
=============================================================================
