----------------------------- MODULE Templates -----------------------------
(* Checklist templates (templates.service.ts): numbered versions of ordered  *)
(* steps, edited as a draft, published, archived, and assigned to jobs       *)
(* (assignChecklist). Every operation is one transaction under the lock of   *)
(* the template's or the version's row, so it is one action; the name check  *)
(* of createTemplate and the reads of assignChecklist take no lock and are   *)
(* actions of their own.                                                     *)
EXTENDS Integers, FiniteSets

CONSTANTS Names,          \* template names, as LOWER() compares them
          NoName,         \* no request in flight
          Contents,       \* what an administrator writes in a step
          Admins,         \* createTemplate requests that may run at once
          ChecklistJobs,  \* jobs that may be given a checklist
          MaxTemplates, MaxVersions, MaxSteps   \* bounds: rows ever inserted

ASSUME TemplateBounds ==
    /\ MaxTemplates \in Nat /\ MaxVersions \in Nat /\ MaxSteps \in Nat
    /\ NoName \notin Names

VARIABLES templates,   \* checklist_templates
          versions,    \* checklist_template_versions
          stepsOf,     \* checklist_steps with their measurements, per version
          lastStep,    \* the last id of checklist_steps
          naming,      \* createTemplate requests past the name check
          assigning,   \* assignChecklist transactions past their reads
          assigned     \* job_checklists with the job_steps of each

templateVars == <<templates, versions, stepsOf, lastStep, naming, assigning, assigned>>
assignVars == <<assigning, assigned>>

TemplateIds == 1..MaxTemplates
VersionIds == 1..MaxVersions
StepIds == 1..MaxSteps

NoTemplate == [state |-> "unused", name |-> NoName]
NoVersion == [template |-> 0, number |-> 0, status |-> "UNUSED"]
NoWork == [version |-> 0, steps |-> {}]
StepRow(id, order, content) == [id |-> id, order |-> order, content |-> content]

-----------------------------------------------------------------------------
(* Rows                                                                      *)

Live(t) == templates[t].state = "live"
VersionsOf(t) == { v \in VersionIds : versions[v].template = t }
WithStatus(t, status) == { v \in VersionsOf(t) : versions[v].status = status }

(* Ids are given in order and never again.                                   *)
FreshTemplate(t) ==
    /\ templates[t].state = "unused"
    /\ \A u \in 1..(t - 1) : templates[u].state # "unused"

FreshVersion(v) ==
    /\ versions[v].status = "UNUSED"
    /\ \A w \in 1..(v - 1) : versions[w].status # "UNUSED"

Latest(t) ==
    CHOOSE v \in VersionsOf(t) :
        \A w \in VersionsOf(t) : versions[w].number <= versions[v].number

Rank(step, S) == Cardinality({ s \in S : s.order <= step.order })

MaxOrder(S) == IF S = {} THEN 0
               ELSE (CHOOSE s \in S : \A r \in S : r.order <= s.order).order

(* deleteStep gives the remaining steps the orders 1..N.                     *)
Renumbered(S) == { [s EXCEPT !.order = Rank(s, S)] : s \in S }

(* createVersion copies the steps in their order, under ids of their own.    *)
Copied(S) ==
    { StepRow(lastStep + Rank(s, S), s.order, s.content) : s \in S }

Ids(S) == { s.id : s \in S }

-----------------------------------------------------------------------------
(* Templates and versions                                                    *)

NameFree(n) == \A t \in TemplateIds : ~(Live(t) /\ templates[t].name = n)

CheckName(a, n) ==
    /\ naming[a] = NoName
    /\ NameFree(n)
    /\ naming' = [naming EXCEPT ![a] = n]
    /\ UNCHANGED <<templates, versions, stepsOf, lastStep, assignVars>>

(* The unique index on the name is what decides between two requests.        *)
CreateTemplate(a) ==
    /\ naming[a] # NoName
    /\ naming' = [naming EXCEPT ![a] = NoName]
    /\ \/ /\ ~NameFree(naming[a])
          /\ UNCHANGED <<templates, versions>>
       \/ /\ NameFree(naming[a])
          /\ \E t \in TemplateIds, v \in VersionIds :
                /\ FreshTemplate(t) /\ FreshVersion(v)
                /\ templates' = [templates EXCEPT
                                    ![t] = [state |-> "live", name |-> naming[a]]]
                /\ versions' = [versions EXCEPT
                                   ![v] = [template |-> t, number |-> 1, status |-> "DRAFT"]]
    /\ UNCHANGED <<stepsOf, lastStep, assignVars>>

CreateVersion(t) ==
    /\ Live(t)
    /\ WithStatus(t, "DRAFT") = {}
    /\ \E v \in VersionIds :
          LET latest == Latest(t) IN
          /\ FreshVersion(v)
          /\ lastStep + Cardinality(stepsOf[latest]) <= MaxSteps
          /\ versions' = [versions EXCEPT
                 ![v] = [template |-> t, number |-> versions[latest].number + 1,
                         status |-> "DRAFT"]]
          /\ stepsOf' = [stepsOf EXCEPT ![v] = Copied(stepsOf[latest])]
          /\ lastStep' = lastStep + Cardinality(stepsOf[latest])
    /\ UNCHANGED <<templates, naming, assignVars>>

\* Mutant: publishing does not archive the version published before.
SetStatusOnly(v, status) ==
    versions' = [versions EXCEPT ![v] = [@ EXCEPT !.status = status]]

SetStatus(v, status) ==
    versions' = [w \in VersionIds |->
        IF w = v THEN [versions[w] EXCEPT !.status = status]
        ELSE IF /\ status = "PUBLISHED"
                /\ w \in WithStatus(versions[v].template, "PUBLISHED")
        THEN [versions[w] EXCEPT !.status = "ARCHIVED"]
        ELSE versions[w]]

PublishVersion(v) ==
    /\ versions[v].status = "DRAFT"
    /\ stepsOf[v] # {}
    /\ SetStatus(v, "PUBLISHED")
    /\ UNCHANGED <<templates, stepsOf, lastStep, naming, assignVars>>

ArchiveVersion(v) ==
    /\ versions[v].status = "PUBLISHED"
    /\ SetStatus(v, "ARCHIVED")
    /\ UNCHANGED <<templates, stepsOf, lastStep, naming, assignVars>>

InUse(t) ==
    \E j \in ChecklistJobs, v \in VersionsOf(t) :
        assigned[j].version = v \/ assigned[j].steps \cap Ids(stepsOf[v]) # {}

DeleteTemplate(t) ==
    /\ Live(t)
    /\ \A v \in VersionsOf(t) : versions[v].status = "DRAFT"
    /\ ~InUse(t)
    /\ templates' = [templates EXCEPT ![t] = [state |-> "deleted", name |-> NoName]]
    /\ versions' = [v \in VersionIds |->
                       IF v \in VersionsOf(t)
                       THEN [template |-> 0, number |-> 0, status |-> "DELETED"]
                       ELSE versions[v]]
    /\ stepsOf' = [v \in VersionIds |-> IF v \in VersionsOf(t) THEN {} ELSE stepsOf[v]]
    /\ UNCHANGED <<lastStep, naming, assignVars>>

-----------------------------------------------------------------------------
(* Steps of a draft                                                          *)

\* Mutant: the status of the locked version is not looked at.
LockVersion(v) == versions[v].status \notin {"UNUSED", "DELETED"}

LockDraftVersion(v) == versions[v].status = "DRAFT"

SetSteps(v, S) ==
    /\ stepsOf' = [stepsOf EXCEPT ![v] = S]
    /\ UNCHANGED <<templates, versions, naming, assignVars>>

AddStep(v, content) ==
    /\ LockDraftVersion(v)
    /\ lastStep < MaxSteps
    /\ lastStep' = lastStep + 1
    /\ SetSteps(v, stepsOf[v] \cup
          {StepRow(lastStep + 1, MaxOrder(stepsOf[v]) + 1, content)})

UpdateStep(v, step, content) ==
    /\ LockDraftVersion(v)
    /\ SetSteps(v, (stepsOf[v] \ {step}) \cup {[step EXCEPT !.content = content]})
    /\ UNCHANGED lastStep

DeleteStep(v, step) ==
    /\ LockDraftVersion(v)
    /\ SetSteps(v, Renumbered(stepsOf[v] \ {step}))
    /\ UNCHANGED lastStep

(* Without a neighbour on that side the step stays where it is.              *)
MoveStep(v, step, neighbour) ==
    /\ LockDraftVersion(v)
    /\ neighbour.order \in {step.order - 1, step.order + 1}
    /\ SetSteps(v, (stepsOf[v] \ {step, neighbour}) \cup
          {[step EXCEPT !.order = neighbour.order],
           [neighbour EXCEPT !.order = step.order]})
    /\ UNCHANGED lastStep

-----------------------------------------------------------------------------
(* Assignment to a job, under the lock of the job's row                      *)

(* The PUBLISHED version and its steps, from one snapshot.                   *)
ReadPublished(j, v) ==
    /\ assigned[j] = NoWork /\ assigning[j] = NoWork
    /\ versions[v].status = "PUBLISHED"
    /\ stepsOf[v] # {}
    /\ assigning' = [assigning EXCEPT
                        ![j] = [version |-> v, steps |-> Ids(stepsOf[v])]]
    /\ UNCHANGED <<templates, versions, stepsOf, lastStep, naming, assigned>>

(* The foreign keys refuse rows that are gone.                               *)
InsertChecklist(j) ==
    LET now == assigning[j] IN
    /\ now # NoWork
    /\ assigning' = [assigning EXCEPT ![j] = NoWork]
    /\ assigned' = IF now.steps \subseteq Ids(stepsOf[now.version])
                   THEN [assigned EXCEPT ![j] = now] ELSE assigned
    /\ UNCHANGED <<templates, versions, stepsOf, lastStep, naming>>

-----------------------------------------------------------------------------
TemplateInit ==
    /\ templates = [t \in TemplateIds |-> NoTemplate]
    /\ versions = [v \in VersionIds |-> NoVersion]
    /\ stepsOf = [v \in VersionIds |-> {}]
    /\ lastStep = 0
    /\ naming = [a \in Admins |-> NoName]
    /\ assigning = [j \in ChecklistJobs |-> NoWork]
    /\ assigned = [j \in ChecklistJobs |-> NoWork]

EditDraft(v) ==
    \/ \E c \in Contents : AddStep(v, c)
    \/ \E s \in stepsOf[v], c \in Contents : UpdateStep(v, s, c)
    \/ \E s \in stepsOf[v] : DeleteStep(v, s)
    \/ \E s, n \in stepsOf[v] : MoveStep(v, s, n)

TemplateNext ==
    \/ \E a \in Admins, n \in Names : CheckName(a, n)
    \/ \E a \in Admins : CreateTemplate(a)
    \/ \E t \in TemplateIds : CreateVersion(t) \/ DeleteTemplate(t)
    \/ \E v \in VersionIds : PublishVersion(v) \/ ArchiveVersion(v) \/ EditDraft(v)
    \/ \E j \in ChecklistJobs, v \in VersionIds : ReadPublished(j, v)
    \/ \E j \in ChecklistJobs : InsertChecklist(j)

TemplateSpec == TemplateInit /\ [][TemplateNext]_templateVars

-----------------------------------------------------------------------------
(* Properties                                                                *)

(* "One current active version per template" and one draft: whatever is      *)
(* created, published and archived, a template has at most one version of    *)
(* each, and no two versions of it share a number.                           *)
OneActiveVersion ==
    \A t \in TemplateIds, v, w \in VersionIds :
        v # w /\ v \in VersionsOf(t) /\ w \in VersionsOf(t) =>
            /\ versions[v].number # versions[w].number
            /\ versions[v].status = versions[w].status => versions[v].status = "ARCHIVED"

(* A job's checklist is one whole version that was published: all its steps  *)
(* and no others, in an order without ties or gaps, however publishing,      *)
(* archiving and deleting fall between the reads of the assignment and its   *)
(* inserts.                                                                  *)
ChecklistIsAWholeVersion ==
    \A j \in ChecklistJobs :
        assigned[j] # NoWork =>
            /\ versions[assigned[j].version].status \in {"PUBLISHED", "ARCHIVED"}
            /\ assigned[j].steps # {}
            /\ assigned[j].steps = Ids(stepsOf[assigned[j].version])
            /\ { s.order : s \in stepsOf[assigned[j].version] }
                  = 1..Cardinality(assigned[j].steps)
=============================================================================
