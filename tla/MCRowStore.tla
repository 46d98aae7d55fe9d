----------------------------- MODULE MCRowStore ------------------------------
(* Small sets of clients for model checking RowStore. *)
EXTENDS RowStore

\* The first letter of a client's name tells its method.
MethodOf == [c \in Clients |-> CASE c \in {"v1", "v2", "v3"} -> "version"
                                 [] c \in {"a1", "a2"} -> "patch"
                                 [] c \in {"p1", "p2"} -> "put"
                                 [] OTHER -> "create"]
==============================================================================
