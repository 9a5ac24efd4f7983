---------------------- MODULE MCApplicationsAndServices ----------------------
(***************************************************************************)
(* Small instances of Applications, Catalog, Listing, DashboardCache,      *)
(* DocumentCache and RateLimit for TLC.  Applications has the jobs that it *)
(* needs, Catalog the applications; the writers of DashboardCache and the  *)
(* changes in Listing are requests like theirs, told apart only by what    *)
(* they do to a figure or an order; DocumentCache serves the sign-in, and  *)
(* RateLimit decides whether a request reaches a handler at all.  The six  *)
(* share no state and are checked one beside the other: part says which of *)
(* them moves, and the others stay in their initial states.                *)
(***************************************************************************)
EXTENDS MCApplications, Tables, Listing, DashboardCache, DocumentCache, RateLimit

VARIABLE part

CONSTANTS g1, g2, q1, q2, l1, l2

MCReaders == {g1, g2}
MCWriters == {q1, q2}
MCLoads == {l1, l2}

\* Two names that casefold() does not tell apart and lower() does.
MCNames == {"strasse", "Straße"}
MCLower == [n \in MCNames |-> IF n = "Straße" THEN "straße" ELSE "strasse"]
MCFold == [n \in MCNames |-> "strasse"]

\* Companies and processes are the same model values as applications here, and
\* the requests of Catalog and RateLimit as those of Applications: so the
\* symmetry stays that of MCApplications.
MCCompanies == MCApps
MCProcesses == MCApps

Parts == {"applications", "catalog", "lists", "dashboard", "documents", "quota"}

\* The list that stands still in the other parts.
MCPlainList == sorting = NewestFirst /\ List = {}

MCInit ==
    /\ part \in Parts
    /\ Init /\ CatalogInit /\ DashboardInit /\ DocumentsInit /\ RateInit
    /\ ListingInit
    /\ part = "lists" \/ MCPlainList
    /\ part = "quota" \/ settings = [backend |-> "redis", mode |-> "closed"]

\* Only part p moves.
Moving(p) ==
    /\ part = p /\ UNCHANGED part
    /\ p = "applications" \/ UNCHANGED vars
    /\ p = "catalog" \/ UNCHANGED catalogVars
    /\ p = "lists" \/ UNCHANGED listVars
    /\ p = "dashboard" \/ UNCHANGED dashboardVars
    /\ p = "documents" \/ UNCHANGED documentVars
    /\ p = "quota" \/ UNCHANGED rateVars

MCNext ==
    \/ Moving("applications") /\ Next
    \/ Moving("catalog") /\ CatalogNext
    \/ Moving("lists") /\ ListingNext
    \/ Moving("dashboard") /\ DashboardNext
    \/ Moving("documents") /\ DocumentsNext
    \/ Moving("quota") /\ RateNext

MCSpec == MCInit /\ [][MCNext]_<<part, vars, catalogVars, listVars, dashboardVars, documentVars, rateVars>>

=============================================================================
