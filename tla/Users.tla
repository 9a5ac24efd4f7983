------------------------------- MODULE Users --------------------------------
(***************************************************************************)
(* The users table as the sign-in methods of an account see it: its        *)
(* e-mail and whether a password may be used, with the row locks that the  *)
(* requests of Identities and AccountTokens take.                          *)
(*                                                                         *)
(* Transactions run at READ COMMITTED.  What a transaction writes is one   *)
(* step, its commit; a row it has read FOR UPDATE stays locked until then. *)
(* FOR UPDATE makes an UPDATE of the row, its deletion and the insertion   *)
(* of a row that refers to it wait.                                        *)
(***************************************************************************)
CONSTANTS
    Users,      \* accounts, each registered at most once
    Emails,     \* normalized e-mail addresses
    None        \* NULL, nobody

VARIABLES
    user,       \* user[u]: the row of account u
    userLock    \* userLock[u]: the request that holds the row FOR UPDATE

Account == [status : {"absent", "active", "disabled", "deleted"},
            email : Emails \cup {None}, verified : BOOLEAN, password : BOOLEAN]

NoAccount == [status |-> "absent", email |-> None, verified |-> FALSE, password |-> FALSE]

Active(u) == user[u].status = "active"
Exists(u) == user[u].status \in {"active", "disabled"}
Unlocked(u) == userLock[u] = None

\* The unique index on the normalized e-mail.
EmailTaken(e) == \E u \in Users : Exists(u) /\ user[u].email = e

UsersInit ==
    /\ user = [u \in Users |-> NoAccount]
    /\ userLock = [u \in Users |-> None]

\* register: a password and, perhaps, an e-mail.
Register(u, e) ==
    /\ user[u].status = "absent"
    /\ e # None => ~EmailTaken(e)
    /\ user' = [user EXCEPT ![u] = [NoAccount EXCEPT !.status = "active", !.email = e,
                                                     !.password = TRUE]]
    /\ UNCHANGED userLock

\* update_user_status.
SetStatus(u, status) ==
    /\ Exists(u)
    /\ Unlocked(u)
    /\ user' = [user EXCEPT ![u].status = status]
    /\ UNCHANGED userLock

UsersNext ==
    \E u \in Users :
       \/ \E e \in Emails \cup {None} : Register(u, e)
       \/ \E status \in {"active", "disabled"} : SetStatus(u, status)

=============================================================================
