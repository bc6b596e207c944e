-------------------------- MODULE MCAdministration --------------------------
(* An instance of the five administrative components for TLC. They share no  *)
(* table, so a behaviour runs one of them, chosen at the start, and the      *)
(* states of the instance are their sum instead of their product.            *)
EXTENDS Templates, RiskPolicy, Catalog, Registration, Registry, TLC

VARIABLE part

administrationVars ==
    <<part, templateVars, policyVars, catalogVars, registrationVars, registryVars>>

\* A matrix without overrides, one that leaves scores unclassified and one
\* under which a CRITICAL risk would not block.
Blunt == [V1Definition EXCEPT
             !.thresholds = <<[min |-> 6, level |-> "CRITICAL"], [min |-> 1, level |-> "HIGH"]>>,
             !.overrides = [MANUAL |-> NoLevel, STOP_REJECTED |-> NoLevel],
             !.blocking = {"HIGH", "CRITICAL"}, !.severity4 = NoLevel]
Gappy == [V1Definition EXCEPT
             !.thresholds = <<[min |-> 8, level |-> "HIGH"], [min |-> 2, level |-> "LOW"]>>]
Lax == [V1Definition EXCEPT !.blocking = {"HIGH"}]
Submitted == {Blunt, Gappy, Lax}

OneCompany == <<Reference("company", "n0"), Reference("category", "n0")>>

\* A product of a company that exists, in a category that does not; twice.
Listed == [kind |-> "product", company |-> "n0", category |-> "n1", code |-> "k1", price |-> 5]
SourceFile == <<Listed, Listed>>

\* Bound: two forms are open only in a catalogue of one item, and a form beside
\* a planned import only before the catalogue grows further.
Open == {e \in Editors : editing'[e] # NotEditing}
FewFormsAtATime ==
    /\ Cardinality(Open) > 1 => Len(items') = 1 /\ ~import'.made
    /\ Open # {} /\ import'.made => Len(items') = 1 /\ Len(refs') = Len(FirstRefs)

\* Bound: customers are renamed only before there are vehicles, in few edits.
Entered == {rows'[i] : i \in DOMAIN rows'} \cup {desks'[d].next : d \in Desks}
RenamesComeFirst ==
    "n2" \in {row.name : row \in Entered} =>
        Len(changes') <= 3 /\ \A row \in Entered : row.kind # "vehicle"

\* The two people at the desks of the registry also edit the catalogue.
Symmetry == Permutations(Desks)

AdministrationInit ==
    /\ part \in {"templates", "policy", "catalog", "registration", "registry"}
    /\ TemplateInit /\ PolicyInit /\ CatalogInit /\ RegistrationInit /\ RegistryInit

AdministrationNext ==
    /\ part' = part
    /\ \/ /\ part = "templates" /\ TemplateNext
          /\ UNCHANGED <<policyVars, catalogVars, registrationVars, registryVars>>
       \/ /\ part = "policy" /\ PolicyNext
          /\ UNCHANGED <<templateVars, catalogVars, registrationVars, registryVars>>
       \/ /\ part = "catalog" /\ CatalogNext /\ FewFormsAtATime
          /\ UNCHANGED <<templateVars, policyVars, registrationVars, registryVars>>
       \/ /\ part = "registration" /\ RegistrationNext
          /\ UNCHANGED <<templateVars, policyVars, catalogVars, registryVars>>
       \/ /\ part = "registry" /\ RegistryNext /\ RenamesComeFirst
          /\ UNCHANGED <<templateVars, policyVars, catalogVars, registrationVars>>

AdministrationSpec == AdministrationInit /\ [][AdministrationNext]_administrationVars
=============================================================================
