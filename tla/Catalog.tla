------------------------------ MODULE Catalog ------------------------------
(* The price catalogue (src/modules/catalog, src/modules/reference): products *)
(* and services with their price history, the reference rows they name, and  *)
(* the import of a source file. An operation is one transaction under the    *)
(* lock of its row and of the reference rows it newly names, so it is one    *)
(* action; an administrator edits the copy read before, and the import plans *)
(* on the snapshot of its transaction and inserts later. A service is an     *)
(* item without a company; brands and units behave like categories.          *)
EXTENDS Integers, Sequences, SequencesExt, FiniteSetsExt

CONSTANTS RefNames,       \* names of reference rows, as LOWER() compares them
          Codes,          \* codes of items
          Prices,         \* prices in minor units
          NoPrice,        \* price_minor NULL
          Editors,        \* administrators with an item open for editing
          ImportFile,     \* the valid rows of the source file
          FirstRefs,      \* the reference rows at the start
          MaxItems, MaxRefs, MaxRevision   \* bounds: rows ever, updates of one

ASSUME CatalogBounds ==
    /\ NoPrice \notin Prices
    /\ MaxItems \in Nat /\ MaxRefs \in Nat /\ MaxRevision \in Nat \ {0}

(* What the columns, the unique index of a name and the source file allow.   *)
ASSUME CatalogRows ==
    /\ RefNames \subseteq STRING /\ Codes \subseteq STRING
    /\ FirstRefs \in Seq([kind : {"company", "category", "serviceCategory", "injection"},
                          name : STRING, status : {"ACTIVE", "ARCHIVED"}])
    /\ \A r, s \in DOMAIN FirstRefs :
          FirstRefs[r].kind = FirstRefs[s].kind /\ FirstRefs[r].name = FirstRefs[s].name => r = s
    /\ ImportFile \in Seq([kind : {"product", "service"}, company : STRING,
                           category : STRING, code : STRING, price : Prices \cup {NoPrice}])

VARIABLES refs,      \* the reference tables, by id
          items,     \* products and services, by id
          history,   \* catalog_price_history of each item
          editing,   \* what each administrator has open
          import     \* the import's plan, once made

catalogVars == <<refs, items, history, editing, import>>
itemVars == <<items, history>>

NoRef == 0
AnyPrice == Prices \cup {NoPrice}
NotEditing == [id |-> 0]
NoPlan == [made |-> FALSE]

-----------------------------------------------------------------------------
(* Rows                                                                      *)

Reference(kind, name) == [kind |-> kind, name |-> name, status |-> "ACTIVE"]

Item(kind, company, category, code, price) ==
    [kind |-> kind, company |-> company, category |-> category, code |-> code,
     price |-> price, status |-> "ACTIVE", version |-> 1]

(* A deleted row keeps its id, and nothing else.                             *)
GoneRef == [kind |-> "none", name |-> "none", status |-> "DELETED"]
GoneItem == [kind |-> "none", company |-> NoRef, category |-> NoRef, code |-> "none",
             price |-> NoPrice, status |-> "DELETED", version |-> 0]
Kept(row) == row.status # "DELETED"
CategoryKind(kind) == IF kind = "product" THEN "category" ELSE "serviceCategory"

RefsNamed(kind, name) ==
    { r \in DOMAIN refs : Kept(refs[r]) /\ refs[r].kind = kind /\ refs[r].name = name }

(* Free for a new row, or for the row `except` to take.                      *)
RefNameFree(kind, name, except) == RefsNamed(kind, name) \subseteq {except}

CodeFree(item, except) ==
    \A i \in DOMAIN items \ {except} :
        ~ /\ Kept(items[i])
          /\ items[i].kind = item.kind /\ items[i].company = item.company
          /\ items[i].code = item.code

(* Locked for the rest of the transaction: a newly named row is ACTIVE.      *)
AssertRefActive(r, kind) ==
    r \in DOMAIN refs /\ refs[r].kind = kind /\ refs[r].status = "ACTIVE"

CountInUse(r) ==
    Cardinality({ i \in DOMAIN items : Kept(items[i]) /\ r \in {items[i].company, items[i].category} })

\* Mutant: an item that is created with a price has no history.
NoOpeningPrice(price) == <<>>

OpeningPrice(price) == IF price = NoPrice THEN <<>> ELSE <<[old |-> NoPrice, new |-> price]>>

-----------------------------------------------------------------------------
(* Products and services                                                     *)

Insert(item) ==
    /\ Len(items) < MaxItems
    /\ CodeFree(item, NoRef)
    /\ items' = Append(items, item)
    /\ history' = Append(history, OpeningPrice(item.price))
    /\ UNCHANGED <<refs, editing, import>>

CreateProduct(company, category, code, price) ==
    /\ AssertRefActive(company, "company")
    /\ AssertRefActive(category, "category")
    /\ Insert(Item("product", company, category, code, price))

CreateService(category, code, price) ==
    /\ AssertRefActive(category, "serviceCategory")
    /\ Insert(Item("service", NoRef, category, code, price))

OpenForEditing(e, i) ==
    /\ editing[e] = NotEditing
    /\ Kept(items[i])
    /\ editing' = [editing EXCEPT ![e] = [id |-> i, seen |-> items[i]]]
    /\ UNCHANGED <<refs, itemVars, import>>

GiveUpEditing(e) ==
    /\ editing[e] # NotEditing
    /\ editing' = [editing EXCEPT ![e] = NotEditing]
    /\ UNCHANGED <<refs, itemVars, import>>

Current(e) ==
    /\ Kept(items[editing[e].id])
    /\ editing[e].seen.version = items[editing[e].id].version

\* Mutant: an update keeps the version of the row.
SavedUnversioned(new, old) == [new EXCEPT !.version = old.version, !.status = old.status]

Saved(new, old) == [new EXCEPT !.version = old.version + 1, !.status = old.status]

Replace(e, kind, new) ==
    LET i == editing[e].id
        old == items[i]
    IN  /\ editing[e] # NotEditing
        /\ old.kind = kind
        /\ Current(e)
        /\ old.version < MaxRevision
        /\ new.category # old.category => AssertRefActive(new.category, CategoryKind(kind))
        /\ new.company # old.company => AssertRefActive(new.company, "company")
        /\ CodeFree(new, i)
        /\ items' = [items EXCEPT ![i] = Saved(new, old)]
        /\ history' = IF new.price = old.price THEN history
                      ELSE [history EXCEPT ![i] = Append(@, [old |-> old.price, new |-> new.price])]
        /\ editing' = [editing EXCEPT ![e] = NotEditing]
        /\ UNCHANGED <<refs, import>>

UpdateProduct(e, company, category, code, price) ==
    Replace(e, "product", Item("product", company, category, code, price))

UpdateService(e, category, code, price) ==
    Replace(e, "service", Item("service", NoRef, category, code, price))

Toggled(status) == IF status = "ACTIVE" THEN "ARCHIVED" ELSE "ACTIVE"

SetItemStatus(i) ==
    /\ Kept(items[i])
    /\ items[i].version < MaxRevision
    /\ items' = [items EXCEPT ![i] = [@ EXCEPT !.status = Toggled(items[i].status),
                                               !.version = items[i].version + 1]]
    /\ UNCHANGED <<refs, history, editing, import>>

DeleteItem(i) ==
    /\ Kept(items[i])
    /\ items' = [items EXCEPT ![i] = GoneItem]
    /\ history' = [history EXCEPT ![i] = <<>>]
    /\ UNCHANGED <<refs, editing, import>>

SetProductStatus(i) == items[i].kind = "product" /\ SetItemStatus(i)
DeleteProduct(i) == items[i].kind = "product" /\ DeleteItem(i)
SetServiceStatus(i) == items[i].kind = "service" /\ SetItemStatus(i)
DeleteService(i) == items[i].kind = "service" /\ DeleteItem(i)

-----------------------------------------------------------------------------
(* Reference rows                                                            *)

SetRef(r, row) ==
    /\ refs' = [refs EXCEPT ![r] = row]
    /\ UNCHANGED <<itemVars, editing, import>>

CreateReference(kind, name) ==
    /\ Len(refs) < MaxRefs
    /\ RefNameFree(kind, name, NoRef)
    /\ refs' = Append(refs, Reference(kind, name))
    /\ UNCHANGED <<itemVars, editing, import>>

UpdateReference(r, name) ==
    /\ Kept(refs[r])
    /\ RefNameFree(refs[r].kind, name, r)
    /\ SetRef(r, [refs[r] EXCEPT !.name = name])

SetReferenceStatus(r) ==
    /\ Kept(refs[r])
    /\ SetRef(r, [refs[r] EXCEPT !.status = Toggled(@)])

(* The foreign keys, a second guard, are left out here.                      *)
DeleteReference(r) ==
    /\ Kept(refs[r])
    /\ CountInUse(r) = 0
    /\ SetRef(r, GoneRef)

(* Injection values are reference rows that no item names.                   *)
CreateInjection(designation) == CreateReference("injection", designation)
UpdateInjection(r, designation) ==
    refs[r].kind = "injection" /\ UpdateReference(r, designation)
SetInjectionStatus(r) == refs[r].kind = "injection" /\ SetReferenceStatus(r)
DeleteInjection(r) ==
    /\ refs[r].kind = "injection" /\ Kept(refs[r])
    /\ SetRef(r, GoneRef)

-----------------------------------------------------------------------------
(* Import                                                                    *)

NamesIn(row) ==
    {<<CategoryKind(row.kind), row.category>>}
        \cup (IF row.kind = "product" THEN {<<"company", row.company>>} ELSE {})

(* The row of a name in the snapshot, or NoRef when the import creates it.   *)
Found(name) == LET rows == RefsNamed(name[1], name[2])
               IN  IF rows = {} THEN NoRef ELSE CHOOSE r \in rows : TRUE

CompanyOf(row) == IF row.kind = "product" THEN Found(<<"company", row.company>>) ELSE NoRef

(* A row of the file whose code exists is left to the manual edit.           *)
Known(row) ==
    \E i \in DOMAIN items :
        /\ Kept(items[i])
        /\ items[i].kind = row.kind /\ items[i].code = row.code
        /\ row.kind = "product" => items[i].company = CompanyOf(row)

SameCode(row, other) ==
    /\ row.kind = other.kind /\ row.code = other.code
    /\ row.kind = "product" => row.company = other.company

(* A row that repeats an earlier one of the file is left out as well.        *)
BuildPlan ==
    LET rows == { k \in DOMAIN ImportFile :
                    /\ ~Known(ImportFile[k])
                    /\ \A l \in 1..k - 1 : ~SameCode(ImportFile[l], ImportFile[k]) }
        named == UNION { NamesIn(ImportFile[k]) : k \in rows }
    IN  [made |-> TRUE, rows |-> rows, found |-> [name \in named |-> Found(name)]]

StartImport ==
    /\ ~import.made
    /\ import' = BuildPlan
    /\ UNCHANGED <<refs, itemVars, editing>>

NewNames == { name \in DOMAIN import.found : import.found[name] = NoRef }
Created == SetToSeq(NewNames)

(* The planned rows of the file, in any order.                               *)
Planned == SetToSeq(import.rows)

IdOf(name) ==
    IF import.found[name] # NoRef THEN import.found[name]
    ELSE Len(refs) + CHOOSE k \in DOMAIN Created : Created[k] = name

Imported(row) ==
    Item(row.kind,
         IF row.kind = "product" THEN IdOf(<<"company", row.company>>) ELSE NoRef,
         IdOf(<<CategoryKind(row.kind), row.category>>), row.code, row.price)

\* Mutant: only the codes are unique in the database.
InsertableByCode == \A k \in import.rows : CodeFree(Imported(ImportFile[k]), NoRef)

(* What the unique indexes and the foreign keys accept by now: none of the   *)
(* planned rows exists, and the references found are still there.            *)
Insertable ==
    /\ \A name \in NewNames : RefNameFree(name[1], name[2], NoRef)
    /\ \A name \in DOMAIN import.found \ NewNames : Kept(refs[import.found[name]])
    /\ \A k \in import.rows : CodeFree(Imported(ImportFile[k]), NoRef)

(* One statement that fails rolls the whole batch back.                      *)
ApplyImport ==
    /\ import.made
    /\ Len(items) + Len(Planned) <= MaxItems
    /\ Len(refs) + Len(Created) <= MaxRefs
    /\ import' = NoPlan
    /\ IF Insertable
       THEN /\ refs' = refs \o [k \in DOMAIN Created |-> Reference(Created[k][1], Created[k][2])]
            /\ items' = items \o [k \in DOMAIN Planned |-> Imported(ImportFile[Planned[k]])]
            /\ history' = history \o
                  [k \in DOMAIN Planned |-> OpeningPrice(ImportFile[Planned[k]].price)]
       ELSE UNCHANGED <<refs, itemVars>>
    /\ UNCHANGED editing

-----------------------------------------------------------------------------
CatalogInit ==
    /\ refs = FirstRefs
    /\ items = <<>>
    /\ history = <<>>
    /\ editing = [e \in Editors |-> NotEditing]
    /\ import = NoPlan

ItemNext ==
    \/ \E c, g \in DOMAIN refs, code \in Codes, price \in AnyPrice :
          \/ CreateProduct(c, g, code, price)
          \/ \E e \in Editors : UpdateProduct(e, c, g, code, price)
    \/ \E g \in DOMAIN refs, code \in Codes, price \in AnyPrice :
          \/ CreateService(g, code, price)
          \/ \E e \in Editors : UpdateService(e, g, code, price)
    \/ \E i \in DOMAIN items :
          \/ SetProductStatus(i) \/ DeleteProduct(i)
          \/ SetServiceStatus(i) \/ DeleteService(i)
    \/ \E e \in Editors, i \in DOMAIN items : OpenForEditing(e, i)
    \/ \E e \in Editors : GiveUpEditing(e)

ReferenceNext ==
    \/ \E kind \in {"company", "category", "serviceCategory"}, name \in RefNames :
          CreateReference(kind, name)
    \/ \E r \in DOMAIN refs, name \in RefNames :
          UpdateReference(r, name) \/ UpdateInjection(r, name)
    \/ \E r \in DOMAIN refs : SetReferenceStatus(r) \/ DeleteReference(r)
    \/ \E name \in RefNames : CreateInjection(name)
    \/ \E r \in DOMAIN refs : SetInjectionStatus(r) \/ DeleteInjection(r)

CatalogNext == ItemNext \/ ReferenceNext \/ StartImport \/ ApplyImport

CatalogSpec == CatalogInit /\ [][CatalogNext]_catalogVars

-----------------------------------------------------------------------------
(* Properties                                                                *)

(* The price history is a ledger: it starts from no price, each entry goes   *)
(* on from the one before it, and the last one is the price of the item,     *)
(* whether the price came from a form, a stale form or the import.           *)
PriceHistoryIsLedger ==
    \A i \in { j \in DOMAIN items : Kept(items[j]) } :
        LET entries == history[i] IN
        /\ items[i].price = IF entries = <<>> THEN NoPrice ELSE Last(entries).new
        /\ \A k \in DOMAIN entries :
              /\ entries[k].old = IF k = 1 THEN NoPrice ELSE entries[k - 1].new
              /\ entries[k].new # entries[k].old

(* No update is lost: what an administrator saves replaces exactly the item  *)
(* that was on the screen, though two have it open at once and it is edited, *)
(* archived or deleted in between.                                           *)
NoLostUpdate ==
    [][\A e \in Editors :
          editing[e] # NotEditing /\ editing'[e] = NotEditing /\ items' # items
              => items[editing[e].id] = editing[e].seen]_catalogVars

(* The catalogue holds together: an item names reference rows that exist and *)
(* are of the right kind, codes are unique within a company, names within a  *)
(* kind, also after an import that planned on an older catalogue.            *)
CatalogHoldsTogether ==
    /\ \A i \in { j \in DOMAIN items : Kept(items[j]) } :
          LET item == items[i] IN
          /\ Kept(refs[item.category])
          /\ refs[item.category].kind = CategoryKind(item.kind)
          /\ item.kind = "product" =>
                Kept(refs[item.company]) /\ refs[item.company].kind = "company"
          /\ CodeFree(item, i)
    /\ \A r \in { s \in DOMAIN refs : Kept(refs[s]) } :
          RefNameFree(refs[r].kind, refs[r].name, r)
=============================================================================
