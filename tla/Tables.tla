------------------------------- MODULE Tables -------------------------------
(***************************************************************************)
(* The tables of one user taken together: the companies and jobs of        *)
(* Catalog, the applications and interviews of Applications.               *)
(***************************************************************************)
EXTENDS Applications, Catalog

\* API_EXAMPLES.md on companies, jobs, applications and interviews: whatever a
\* request was checked against before it wrote, names and applications stay
\* unique, ranges in order, and nothing refers to a row that is gone.
TablesSound == CatalogSound /\ NothingOrphaned /\ OnePerJob

=============================================================================
