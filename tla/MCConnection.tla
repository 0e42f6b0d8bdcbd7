---------------------------- MODULE MCConnection -----------------------------
(* Two tasks of one process, each running up to two transactions, statements or *)
(* reads on a file or an in-memory database.                                    *)
EXTENDS Connection
=============================================================================
