------------------------------ MODULE Resolver ------------------------------
(***************************************************************************)
(* What netconn_gethostbyname promises its callers: a task asks for the    *)
(* address of a name, the answer is the address of that name or a failure, *)
(* it is given once, and only then does the caller go on.                  *)
(***************************************************************************)
CONSTANTS Tasks, Names,
          Failed      \* the result of a query that failed: not a name
VARIABLE query      \* query[t]: idle, asked for a name, or told a result

Idle        == [st |-> "idle"]
Asked(n)    == [st |-> "asked", name |-> n]
Told(n, r)  == [st |-> "told", name |-> n, result |-> r]

Init == query = [t \in Tasks |-> Idle]

Ask(t) == \E n \in Names : /\ query[t] = Idle
                           /\ query' = [query EXCEPT ![t] = Asked(n)]

\* The stack answers some of the calls that wait: one timer tick can end several.
Answer == \E T \in (SUBSET Tasks) \ {{}} :
            /\ \A t \in T : query[t].st = "asked"
            /\ \E r \in [T -> Names \cup {Failed}] :
                  /\ \A t \in T : r[t] \in {query[t].name, Failed}
                  /\ query' = [t \in Tasks |-> IF t \in T
                                               THEN Told(query[t].name, r[t])
                                               ELSE query[t]]

GoOn(t) == /\ query[t].st = "told"
           /\ query' = [query EXCEPT ![t] = Idle]

Next == Answer \/ \E t \in Tasks : Ask(t) \/ GoOn(t)

Spec == Init /\ [][Next]_query

=============================================================================
