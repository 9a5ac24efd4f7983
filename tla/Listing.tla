------------------------------ MODULE Listing ------------------------------
(***************************************************************************)
(* Lists in pages: list_owned of the repositories of companies, jobs,      *)
(* applications and interviews, and a client that turns the pages while    *)
(* the rows change.  A response is made by two statements, each with a     *)
(* snapshot of its own: one counts the rows, the other one reads a page.   *)
(* There is no snapshot for the whole list.                                *)
(*                                                                         *)
(* A row is its identifier and its rank, the place of its value in the     *)
(* sort column.  A row of another owner, one that a filter leaves out and  *)
(* one that is deleted or not yet there are all the same to a list: their  *)
(* rank is Unlisted.                                                       *)
(***************************************************************************)
EXTENDS Integers, FiniteSets, Functions

CONSTANTS
    LastEntry,    \* bound: identifiers are 1..LastEntry
    LastRank,     \* bound: values of the sort column; the last one is NULL
    PageSize,     \* page_size
    ChangeBound   \* bound: changes while a client turns the pages

ASSUME ListingAssumption ==
    /\ LastEntry \in Nat /\ LastRank \in Nat /\ ChangeBound \in Nat
    /\ PageSize \in Nat \ {0}

VARIABLES
    sorting,  \* the ORDER BY of the list
    rank,     \* rank[e]: the sort column of row e, if the list has it
    walk,     \* the client: the page it is at and the last total it was told
    shown,    \* what it has been shown
    twice,    \* what it has been shown more than once
    steady,   \* what has been in the list all the time since it began
    gone,     \* what has left the list since
    come      \* what has entered the list since

listVars == <<sorting, rank, walk, shown, twice, steady, gone, come>>
changes == <<rank, steady, gone, come>>

Entries == 1..LastEntry
Unlisted == 0
Version == [entry : Entries, rank : 1..LastRank]
List == {[entry |-> e, rank |-> rank[e]] : e \in {e \in Entries : rank[e] # Unlisted}}

\* Jobs and applications: any column, then id, descending.
ByColumn == [column : {"asc", "desc"}, id : {"desc"}]

\* Companies: the newest first.
NewestFirst == [column |-> "desc", id |-> "desc"]

\* Interviews: by the time they start at.
ByStart == [column |-> "asc", id |-> "asc"]

Sortings == ByColumn \cup {NewestFirst, ByStart}

\* PostgreSQL takes NULL for the greatest value.
Before(direction, m, n) == IF direction = "asc" THEN m < n ELSE n < m

\* Mutant: nothing decides between rows of the same rank.
AheadByColumn(u, v) == Before(sorting.column, u.rank, v.rank)

\* ORDER BY: the column, and the identifier where it is the same.
Ahead(u, v) ==
    \/ Before(sorting.column, u.rank, v.rank)
    \/ u.rank = v.rank /\ Before(sorting.id, u.entry, v.entry)

\* The orders that a statement may return its rows in.
Orders(S) ==
    {s \in Bijection(1..Cardinality(S), S) :
        \A i, j \in DOMAIN s : i < j => ~Ahead(s[j], s[i])}

Page(s, n) == {s[i] : i \in {i \in DOMAIN s : (n - 1) * PageSize < i /\ i <= n * PageSize}}

Walk == [at : {"asked", "counted", "read", "over"}, page : 1..(LastEntry + 1), total : 0..LastEntry]

ListingInit ==
    /\ sorting \in Sortings
    /\ rank \in [Entries -> 0..LastRank]
    /\ walk = [at |-> "asked", page |-> 1, total |-> 0]
    /\ shown = {} /\ twice = {}
    /\ steady = List
    /\ gone = {} /\ come = {}

----------------------------------------------------------------------------
\* SELECT count(*) with the filters of the list.
CountRows ==
    /\ walk.at = "asked"
    /\ walk' = [walk EXCEPT !.at = "counted", !.total = Cardinality(List)]
    /\ UNCHANGED <<sorting, changes, shown, twice>>

\* SELECT ... ORDER BY ... OFFSET (page - 1) * page_size LIMIT page_size.
ReadPage ==
    /\ walk.at = "counted"
    /\ \E s \in Orders(List) :
          /\ shown' = shown \cup Page(s, walk.page)
          /\ twice' = twice \cup (shown \cap Page(s, walk.page))
    /\ walk' = [walk EXCEPT !.at = "read"]
    /\ UNCHANGED <<sorting, changes>>

\* The client goes on while there are more pages than it has seen.
TurnPage ==
    /\ walk.at = "read"
    /\ walk' = IF walk.page * PageSize < walk.total
               THEN [walk EXCEPT !.at = "asked", !.page = @ + 1]
               ELSE [walk EXCEPT !.at = "over"]
    /\ UNCHANGED <<sorting, changes, shown, twice>>

\* A row is inserted or deleted, or an edit moves it, in the order or in or out
\* of the list.
ChangeRow(e, r) ==
    LET old == {v \in List : v.entry = e}
        new == {v \in Version : v.entry = e /\ v.rank = r}
    IN  /\ r # rank[e]
        /\ Cardinality(gone) + Cardinality(come) < ChangeBound
        /\ walk.at # "over"
        /\ rank' = [rank EXCEPT ![e] = r]
        /\ steady' = steady \ old
        /\ gone' = gone \cup old
        /\ come' = come \cup new
        /\ UNCHANGED <<sorting, walk, shown, twice>>

ListingNext ==
    \/ CountRows \/ ReadPage \/ TurnPage
    \/ \E e \in Entries, r \in 0..LastRank : ChangeRow(e, r)

ListingSpec == ListingInit /\ [][ListingNext]_listVars

----------------------------------------------------------------------------
(* Properties.                                                             *)

\* README.md 208: sorting uses stable ID tie-breakers.  A row that is in the list
\* all the time is shown twice only if another one came in ahead of it, and is
\* never shown only if one ahead of it left, or came after the rows were counted;
\* so without changes turning the pages shows every row once.
PagesExplained ==
    \A v \in steady :
       /\ v \in twice => \E u \in come : Ahead(u, v)
       /\ walk.at = "over" /\ v \notin shown => \E u \in gone \cup come : Ahead(u, v)

=============================================================================
