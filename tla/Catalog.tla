------------------------------ MODULE Catalog ------------------------------
(***************************************************************************)
(* The companies and jobs of one user (services/company_service.py,        *)
(* services/job_service.py) and the constraints that guard them in         *)
(* PostgreSQL (models/company.py, models/job.py).                          *)
(*                                                                         *)
(* A handler reads and validates, then writes and commits; no row is       *)
(* locked in between.  A request that was refused by its check, or found   *)
(* nothing, changes nothing and is not a step.  Only columns that differ   *)
(* from what was loaded are written, so a request remembers the row it saw *)
(* and the row it wants.                                                   *)
(*                                                                         *)
(* Names are told apart by what the program does to them: the service      *)
(* looks for name.strip().casefold(), the database compares                *)
(* lower(trim(name)).  The two differ for some names.                      *)
(***************************************************************************)
EXTENDS Integers

CONSTANTS
    Companies,  \* company identifiers, never used twice
    Postings,   \* job identifiers, never used twice
    Clients,    \* requests that can be in flight at once
    Names,      \* company names, stripped
    Lower,      \* Lower[n]: lower(trim(n)) in the database
    Fold,       \* Fold[n]: n.casefold()
    MaxPay,     \* bound: the highest salary
    Nothing     \* not sent

ASSUME CatalogAssumption ==
    /\ MaxPay \in Nat
    /\ Nothing \notin Companies \cup Names
    /\ (Companies \cup Names) \cap {"new", "deleted"} = {}

VARIABLES
    user,     \* the user exists
    company,  \* company[c]: its name, or "new" or "deleted"
    job,      \* job[j]: the committed row of job j
    applied,  \* the jobs with applications
    task      \* task[w]: what request w has read and wants to write

catalogVars == <<user, company, job, applied, task>>
catalogRows == <<user, company, job, applied>>

Unpaid == -1
Pay == {Unpaid} \cup 0..MaxPay

CompanyRow == Names \cup {"new", "deleted"}

\* What clients send for a job.
Draft == [company : Companies, min : Pay, max : Pay]
Posting == [company : Companies \cup {"new", "deleted"}, min : Pay, max : Pay]
NoPosting == [company |-> "new", min |-> Unpaid, max |-> Unpaid]

Task == [op : {"none", "add", "rename", "close", "post", "edit", "remove"},
         company : Companies \cup {Nothing}, posting : Postings \cup {Nothing},
         old : Names \cup {Nothing}, name : Names \cup {Nothing},
         seen : Posting, target : Posting]
NoTask == [op |-> "none", company |-> Nothing, posting |-> Nothing, old |-> Nothing,
           name |-> Nothing, seen |-> NoPosting, target |-> NoPosting]

Listed(c) == company[c] \in Names
Open(j) == job[j].company \in Companies
HasJobs(c) == \E j \in Postings : job[j].company = c

\* validate_salary_range, the check in update and ck_jobs_salary_range.
Ordered(p) == p.min # Unpaid /\ p.max # Unpaid => p.min <= p.max

Asleep(w) == task[w].op = "none"
Asks(w, t) == task' = [task EXCEPT ![w] = t]
Answers(w) == Asks(w, NoTask)

CatalogInit ==
    /\ user = TRUE
    /\ company = [c \in Companies |-> "new"]
    /\ job = [j \in Postings |-> NoPosting]
    /\ applied = {}
    /\ task = [w \in Clients |-> NoTask]

----------------------------------------------------------------------------
(* Companies.                                                              *)

\* get_by_normalized_name.
NameTaken(n, excluded) ==
    \E c \in Companies \ excluded : Listed(c) /\ Lower[company[c]] = Fold[n]

\* uq_companies_owner_name_normalized.
NameFree(c, n) ==
    \A d \in Companies \ {c} : Listed(d) => Lower[company[d]] # Lower[n]

AddCheck(w, n) ==
    /\ Asleep(w) /\ user
    /\ ~NameTaken(n, {})
    /\ Asks(w, [NoTask EXCEPT !.op = "add", !.name = n])
    /\ UNCHANGED catalogRows

\* INSERT and commit, or the error of the index or of the user's foreign key.
AddCompany(w, c) ==
    /\ task[w].op = "add"
    /\ company[c] = "new"
    /\ company' = IF user /\ NameFree(c, task[w].name)
                  THEN [company EXCEPT ![c] = task[w].name] ELSE company
    /\ Answers(w)
    /\ UNCHANGED <<user, job, applied>>

RenameCheck(w, c, n) ==
    /\ Asleep(w) /\ user
    /\ Listed(c)
    /\ ~NameTaken(n, {c})
    /\ Asks(w, [NoTask EXCEPT !.op = "rename", !.company = c, !.old = company[c], !.name = n])
    /\ UNCHANGED catalogRows

\* The UPDATE, if the name is another one and the row is still there.
RenameCompany(w) ==
    LET t == task[w] IN
    /\ t.op = "rename"
    /\ company' = IF t.name # t.old /\ Listed(t.company) /\ NameFree(t.company, t.name)
                  THEN [company EXCEPT ![t.company] = t.name] ELSE company
    /\ Answers(w)
    /\ UNCHANGED <<user, job, applied>>

CloseCheck(w, c) ==
    /\ Asleep(w) /\ user
    /\ Listed(c) /\ ~HasJobs(c)
    /\ Asks(w, [NoTask EXCEPT !.op = "close", !.company = c])
    /\ UNCHANGED catalogRows

\* The DELETE, or the error of fk_jobs_owner_company, which restricts.
CloseCompany(w) ==
    LET c == task[w].company IN
    /\ task[w].op = "close"
    /\ company' = IF ~HasJobs(c) THEN [company EXCEPT ![c] = "deleted"] ELSE company
    /\ Answers(w)
    /\ UNCHANGED <<user, job, applied>>

----------------------------------------------------------------------------
(* Jobs.                                                                   *)

\* JobCreate has a range in order, and _require_owned_company finds the company.
PostCheck(w, p) ==
    /\ Asleep(w) /\ user
    /\ Ordered(p) /\ Listed(p.company)
    /\ Asks(w, [NoTask EXCEPT !.op = "post", !.target = p])
    /\ UNCHANGED catalogRows

\* INSERT and commit, or a foreign key's error.
PostJob(w, j) ==
    /\ task[w].op = "post"
    /\ job[j].company = "new"
    /\ job' = IF user /\ Listed(task[w].target.company)
              THEN [job EXCEPT ![j] = task[w].target] ELSE job
    /\ Answers(w)
    /\ UNCHANGED <<user, company, applied>>

\* update: JobUpdate's own range, the company if one is sent, and the range
\* together with what was read.
EditCheck(w, j, p) ==
    /\ Asleep(w) /\ user
    /\ Open(j)
    /\ p.company # job[j].company => Listed(p.company)
    /\ Ordered(p)
    /\ Asks(w, [NoTask EXCEPT !.op = "edit", !.posting = j, !.seen = job[j], !.target = p])
    /\ UNCHANGED catalogRows

\* A column is written at flush only if it was changed after it was loaded.
Flushed(present, loaded, wanted) == IF wanted = loaded THEN present ELSE wanted

Patched(present, seen, target) ==
    [company |-> IF target.company = seen.company THEN present.company ELSE target.company,
     min     |-> Flushed(present.min, seen.min, target.min),
     max     |-> Flushed(present.max, seen.max, target.max)]

\* Mutant: no check constraint on the range.
RangeAny(p) == TRUE

\* ck_jobs_salary_range.
RangeOK(p) == Ordered(p)

\* The UPDATE of the changed columns, or a constraint's error.
EditJob(w) ==
    LET t == task[w]
        p == Patched(job[t.posting], t.seen, t.target)
    IN  /\ t.op = "edit"
        /\ job' = IF Open(t.posting) /\ Listed(p.company) /\ RangeOK(p)
                  THEN [job EXCEPT ![t.posting] = p] ELSE job
        /\ Answers(w)
        /\ UNCHANGED <<user, company, applied>>

RemoveCheck(w, j) ==
    /\ Asleep(w) /\ user
    /\ Open(j) /\ j \notin applied
    /\ Asks(w, [NoTask EXCEPT !.op = "remove", !.posting = j])
    /\ UNCHANGED catalogRows

Gone == [NoPosting EXCEPT !.company = "deleted"]

\* The DELETE, or the error of the applications' foreign key.
RemoveJob(w) ==
    LET j == task[w].posting IN
    /\ task[w].op = "remove"
    /\ job' = IF j \notin applied THEN [job EXCEPT ![j] = Gone] ELSE job
    /\ Answers(w)
    /\ UNCHANGED <<user, company, applied>>

----------------------------------------------------------------------------
(* Around them.                                                            *)

\* Applications come and go: their own handlers are module Applications.
Apply(j) ==
    /\ Open(j)
    /\ applied' = applied \cup {j}
    /\ UNCHANGED <<user, company, job, task>>

Withdraw(j) ==
    /\ j \in applied
    /\ applied' = applied \ {j}
    /\ UNCHANGED <<user, company, job, task>>

\* The user is deleted and everything of theirs cascades.
DeleteOwner ==
    /\ user
    /\ user' = FALSE
    /\ company' = [c \in Companies |-> IF Listed(c) THEN "deleted" ELSE company[c]]
    /\ job' = [j \in Postings |-> IF Open(j) THEN Gone ELSE job[j]]
    /\ applied' = {}
    /\ UNCHANGED task

\* A request may fail on an error of the database.
GiveUp(w) == ~Asleep(w) /\ Answers(w) /\ UNCHANGED catalogRows

CatalogNext ==
    \/ \E w \in Clients :
          \/ \E n \in Names :
                \/ AddCheck(w, n)
                \/ \E c \in Companies : RenameCheck(w, c, n)
          \/ \E c \in Companies : AddCompany(w, c) \/ CloseCheck(w, c)
          \/ RenameCompany(w) \/ CloseCompany(w)
          \/ \E p \in Draft :
                PostCheck(w, p) \/ \E j \in Postings : EditCheck(w, j, p)
          \/ \E j \in Postings : PostJob(w, j) \/ RemoveCheck(w, j)
          \/ EditJob(w) \/ RemoveJob(w)
          \/ GiveUp(w)
    \/ \E j \in Postings : Apply(j) \/ Withdraw(j)
    \/ DeleteOwner

CatalogSpec == CatalogInit /\ [][CatalogNext]_catalogVars

----------------------------------------------------------------------------
(* Properties.                                                             *)

\* Rows and requests are well formed.
CatalogTypeOK ==
    /\ user \in BOOLEAN
    /\ company \in [Companies -> CompanyRow]
    /\ job \in [Postings -> Posting]
    /\ applied \subseteq Postings
    /\ task \in [Clients -> Task]

\* API_EXAMPLES.md: company names are unique per user, a company with jobs is not
\* deleted, nor a job with applications, and a salary range is in order, whatever
\* requests were checked against before they wrote; and nothing is left of a user
\* who is gone.
CatalogSound ==
    /\ CatalogTypeOK
    /\ \A c, d \in Companies :
          c # d /\ Listed(c) /\ Listed(d) => Lower[company[c]] # Lower[company[d]]
    /\ \A j \in Postings : Open(j) => Listed(job[j].company) /\ Ordered(job[j])
    /\ applied \subseteq {j \in Postings : Open(j)}
    /\ ~user => \A c \in Companies : ~Listed(c)

=============================================================================
