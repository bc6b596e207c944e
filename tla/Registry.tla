------------------------------ MODULE Registry -----------------------------
(* Branches, customers and vehicles (branches.service.ts,                    *)
(* customers.service.ts, vehicles.service.ts). An edit locks its row, works  *)
(* out what changes against the locked copy, and writes the row and the      *)
(* audit entry with the old and new values in one transaction; the checks    *)
(* for a free name, plate or VIN are plain reads before it. Only plates and  *)
(* VINs have a unique index.                                                 *)
EXTENDS Integers, Sequences

CONSTANTS BranchNames, CustomerNames, Plates, Vins, NoVin,
          Desks,                  \* requests under way at a time
          MaxRows, MaxChanges     \* bounds: rows inserted, audit entries

ASSUME RegistryAssumption == MaxRows \in Nat /\ MaxChanges \in Nat /\ NoVin \notin Vins

VARIABLES rows,      \* branches, customers and vehicles, by id
          changes,   \* the audit entries of created and edited rows
          desks      \* what each request is doing

registryVars == <<rows, changes, desks>>

Branch(name) == [kind |-> "branch", name |-> name, owner |-> 0, vin |-> NoVin]
Customer(name) == [kind |-> "customer", name |-> name, owner |-> 0, vin |-> NoVin]
Vehicle(plate, owner, vin) == [kind |-> "vehicle", name |-> plate, owner |-> owner, vin |-> vin]

NoRow == Branch("none")

(* free; past the checks of an insert; holding the lock of a row.            *)
FreeDesk == [at |-> "free", id |-> 0, copy |-> NoRow, next |-> NoRow]

RowsOf(kind) == {i \in DOMAIN rows : rows[i].kind = kind}

RowLocked(i) == \E d \in Desks : desks[d].at = "editing" /\ desks[d].id = i

(* assertNameAvailable, assertPlateAvailable: excludeId is the row itself.   *)
NameAvailable(kind, name, excludeId) ==
    \A i \in RowsOf(kind) : rows[i].name = name => i = excludeId

VinAvailable(vin, excludeId) ==
    \A i \in RowsOf("vehicle") : rows[i].vin = vin => vin = NoVin \/ i = excludeId

\* Mutant: nothing but the checks before the write keeps VINs apart.
PlateIndex(row, excludeId) ==
    row.kind = "vehicle" => NameAvailable("vehicle", row.name, excludeId)

(* uq_vehicles_plate and uq_vehicles_vin.                                    *)
UniqueIndexes(row, excludeId) ==
    row.kind = "vehicle" =>
        NameAvailable("vehicle", row.name, excludeId) /\ VinAvailable(row.vin, excludeId)

(* The foreign key check of a vehicle waits for the lock of its new owner.   *)
OwnerFree(old, new) == new.owner # old.owner => ~RowLocked(new.owner)

Leave(d) == desks' = [desks EXCEPT ![d] = FreeDesk]

Room == Len(rows) < MaxRows /\ Len(changes) < MaxChanges

AddRow(row) ==
    /\ rows' = Append(rows, row)
    /\ changes' = Append(changes, [id |-> Len(rows) + 1, old |-> row, new |-> row])

-----------------------------------------------------------------------------
CreateCustomer(name) ==
    /\ Room
    /\ AddRow(Customer(name))
    /\ UNCHANGED desks

CheckInsert(d, row) ==
    /\ desks[d].at = "free"
    /\ desks' = [desks EXCEPT ![d] = [FreeDesk EXCEPT !.at = "inserting", !.next = row]]
    /\ UNCHANGED <<rows, changes>>

CheckBranch(d, name) == NameAvailable("branch", name, 0) /\ CheckInsert(d, Branch(name))

CheckVehicle(d, plate, owner, vin) ==
    /\ NameAvailable("vehicle", plate, 0) /\ VinAvailable(vin, 0)
    /\ CheckInsert(d, Vehicle(plate, owner, vin))

(* createBranch: nothing but the check before it keeps names apart.          *)
CreateBranch(d) ==
    LET row == desks[d].next IN
    /\ desks[d].at = "inserting" /\ row.kind = "branch"
    /\ Room /\ AddRow(row)
    /\ Leave(d)

(* createVehicle: a duplicate key rolls the insert back.                     *)
CreateVehicle(d) ==
    LET row == desks[d].next IN
    /\ desks[d].at = "inserting" /\ row.kind = "vehicle"
    /\ OwnerFree(NoRow, row)
    /\ IF UniqueIndexes(row, 0) THEN Room /\ AddRow(row) ELSE UNCHANGED <<rows, changes>>
    /\ Leave(d)

-----------------------------------------------------------------------------

LockRow(d, i, next) ==
    /\ desks[d].at = "free"
    /\ ~RowLocked(i)
    /\ desks' = [desks EXCEPT ![d] =
                    [at |-> "editing", id |-> i, copy |-> rows[i], next |-> next]]
    /\ UNCHANGED <<rows, changes>>

UpdateBranch(d, i, name) ==
    /\ NameAvailable("branch", name, i)
    /\ LockRow(d, i, [rows[i] EXCEPT !.name = name])

UpdateCustomer(d, i, name) == LockRow(d, i, [rows[i] EXCEPT !.name = name])

UpdateVehicle(d, i, next) ==
    /\ NameAvailable("vehicle", next.name, i) /\ VinAvailable(next.vin, i)
    /\ LockRow(d, i, next)

(* The columns that differ from the locked copy, and their audit entry.      *)
WriteEdit(d) ==
    LET edit == desks[d] IN
    /\ edit.at = "editing"
    /\ OwnerFree(edit.copy, edit.next)
    /\ IF edit.next # edit.copy /\ UniqueIndexes(edit.next, edit.id)
       THEN /\ Len(changes) < MaxChanges
            /\ rows' = [rows EXCEPT ![edit.id] = edit.next]
            /\ changes' = Append(changes, [id |-> edit.id, old |-> edit.copy, new |-> edit.next])
       ELSE UNCHANGED <<rows, changes>>
    /\ Leave(d)

-----------------------------------------------------------------------------
RegistryInit ==
    /\ rows = <<>> /\ changes = <<>>
    /\ desks = [d \in Desks |-> FreeDesk]

CreateAtDesk(d) ==
    \/ \E name \in BranchNames : CheckBranch(d, name)
    \/ \E plate \in Plates, owner \in RowsOf("customer"), vin \in Vins \cup {NoVin} :
          CheckVehicle(d, plate, owner, vin)
    \/ CreateBranch(d) \/ CreateVehicle(d)

EditAtDesk(d) ==
    \/ \E i \in RowsOf("branch"), name \in BranchNames : UpdateBranch(d, i, name)
    \/ \E i \in RowsOf("customer"), name \in CustomerNames : UpdateCustomer(d, i, name)
    \/ \E i \in RowsOf("vehicle"), plate \in Plates, owner \in RowsOf("customer"),
          vin \in Vins \cup {NoVin} : UpdateVehicle(d, i, Vehicle(plate, owner, vin))
    \/ WriteEdit(d)

RegistryNext ==
    \/ \E name \in CustomerNames : CreateCustomer(name)
    \/ \E d \in Desks : CreateAtDesk(d) \/ EditAtDesk(d)

RegistrySpec == RegistryInit /\ [][RegistryNext]_registryVars

-----------------------------------------------------------------------------
(* Properties                                                                *)

(* Two vehicles never share a plate or a VIN, whatever passes the checks     *)
(* between a check and its write.                                            *)
OneVehiclePerPlate ==
    \A i, j \in RowsOf("vehicle") :
        i # j => /\ rows[i].name # rows[j].name
                 /\ rows[i].vin = NoVin \/ rows[i].vin # rows[j].vin

(* The entry n of a row is its last; n is the entry of a row after m.        *)
IsLast(n) == \A l \in DOMAIN changes : changes[l].id = changes[n].id => l <= n

Follows(n, m) ==
    /\ m < n /\ changes[m].id = changes[n].id
    /\ \A l \in DOMAIN changes : changes[l].id = changes[n].id => l <= m \/ n <= l

(* The audit entries of a row are a chain from its creation to the row as it *)
(* is: the old values of an entry are the new values of the one before it.   *)
HistoryIsAChain ==
    /\ \A i \in DOMAIN rows : \E n \in DOMAIN changes : changes[n].id = i
    /\ \A n \in DOMAIN changes : IsLast(n) => changes[n].new = rows[changes[n].id]
    /\ \A m, n \in DOMAIN changes : Follows(n, m) => changes[n].old = changes[m].new

(* What the registry and its audit trail say agrees, with no two vehicles    *)
(* taken for one.                                                            *)
RegistryAgrees == OneVehiclePerPlate /\ HistoryIsAChain
=============================================================================
