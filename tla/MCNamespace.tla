---------------------------- MODULE MCNamespace ----------------------------
EXTENDS Namespace, TLC

CONSTANTS c1, c2, c3, o1, o2, o3, o4, root, a, b

\* An empty directory /a, or /a with a directory in it.
MCTrees ==
    {[i \in Object |-> IF i = o1 THEN PlaceOf(root, a)
                       ELSE IF i = o2 /\ nested THEN PlaceOf(o1, b)
                       ELSE Nowhere] : nested \in BOOLEAN}

Do(op, path) == [op |-> op, path |-> path, to |-> <<>>]
DirMove(path, to) == [op |-> "dirmove", path |-> path, to |-> to]

MCCalls == <<Do("mkdir", <<a, b>>), Do("mkdir", <<b>>), Do("put", <<a, b>>), Do("remove", <<a, b>>),
             Do("rmdir", <<a, b>>), Do("rmdir", <<a>>),
             DirMove(<<a>>, <<b>>), DirMove(<<a>>, <<b, a>>), DirMove(<<a, b>>, <<b>>)>>
MCLists == {Do("list", <<a>>), Do("list", <<>>)}

\* Any two of the calls, and a List beside them.
MCPlans == {(c1 :> MCCalls[i]) @@ (c2 :> MCCalls[j]) @@ (c3 :> l) :
              <<i, j, l>> \in {t \in (1..Len(MCCalls)) \X (1..Len(MCCalls)) \X MCLists : t[1] <= t[2]}}
=============================================================================
