----------------------------- MODULE RadixTree -----------------------------
(***************************************************************************)
(* uv::http::RadixTree, which finds the handler of a path.  The nodes of a  *)
(* tree are a sequence: node 1 is root_, child and next are indexes, and    *)
(* Null is the null pointer.  A key is a sequence of lexemes.               *)
(***************************************************************************)
EXTENDS HttpMessage

WildCard == "*"
Null == 0

Node == [isEmpty : BOOLEAN, key : Text, child : Nat, next : Nat, value : Nat]

Leaf(key, value) ==
    [isEmpty |-> FALSE, key |-> key, child |-> Null, next |-> Null, value |-> value]

Shorter(a, b) == IF Len(a) < Len(b) THEN Len(a) ELSE Len(b)

GetCommomStringLength(a, b) ==
    Max({n \in 0..Shorter(a, b) : SubSeq(a, 1, n) = SubSeq(b, 1, n)})

\* Where the recursion of setNode() ends: a node and what is left of the key.
Place[t \in Seq(Node), i \in Nat, key \in Text] ==
    LET c == GetCommomStringLength(t[i].key, key)
    IN  IF c = 0 /\ t[i].next # Null THEN Place[t, t[i].next, key]
        ELSE IF c > 0 /\ c = Len(t[i].key) /\ c < Len(key) /\ t[i].child # Null
          THEN Place[t, t[i].child, After(key, c)]
        ELSE [node |-> i, key |-> key]

SplitOrphans(t, i, c, key, value) ==  \* mutant: the lower half loses its children
    LET new == Len(t) + 1
        whole == c = Len(key)
        lower == [t[i] EXCEPT !.key = After(@, c), !.child = Null,
                              !.next = IF whole THEN Null ELSE new + 1]
        upper == [t[i] EXCEPT !.key = SubSeq(@, 1, c), !.child = new,
                              !.isEmpty = ~whole, !.value = IF whole THEN value ELSE @]
    IN  [t EXCEPT ![i] = upper] \o <<lower>>
        \o (IF whole THEN <<>> ELSE <<Leaf(After(key, c), value)>>)

\* Node i is split after c lexemes.  The lower half takes the children and the
\* value; the upper half keeps a copy of the value, marked empty unless the new
\* key ends there.
Split(t, i, c, key, value) ==
    LET new == Len(t) + 1
        whole == c = Len(key)
        lower == [t[i] EXCEPT !.key = After(@, c),
                              !.next = IF whole THEN Null ELSE new + 1]
        upper == [t[i] EXCEPT !.key = SubSeq(@, 1, c), !.child = new,
                              !.isEmpty = ~whole, !.value = IF whole THEN value ELSE @]
    IN  [t EXCEPT ![i] = upper] \o <<lower>>
        \o (IF whole THEN <<>> ELSE <<Leaf(After(key, c), value)>>)

setNode(t, key, value) ==
    LET at == Place[t, 1, key]
        i == at.node
        c == GetCommomStringLength(t[i].key, at.key)
        new == Len(t) + 1
    IN  IF c = 0
          THEN Append([t EXCEPT ![i].next = new], Leaf(at.key, value))
        ELSE IF c < Len(t[i].key) THEN Split(t, i, c, at.key, value)
        ELSE IF c = Len(at.key)
          THEN [t EXCEPT ![i].isEmpty = FALSE, ![i].value = value]
        ELSE Append([t EXCEPT ![i].child = new], Leaf(After(at.key, c), value))

set(t, key, value) ==
    IF t = <<>> THEN <<Leaf(key, value)>> ELSE setNode(t, key, value)

NotFound == [found |-> FALSE, value |-> 0]
Found(n) == [found |-> TRUE, value |-> n.value]

\* The wildcard is tried first, at every node the search comes to; a node that
\* shares a beginning with the key and then differs ends the search.
getNode[t \in Seq(Node), i \in Nat, key \in Text] ==
    LET n == t[i]
        c == GetCommomStringLength(n.key, key)
    IN  IF c = Len(n.key) - 1 /\ n.key[Len(n.key)] = WildCard THEN Found(n)
        ELSE IF c = 0
          THEN IF n.next = Null THEN NotFound ELSE getNode[t, n.next, key]
        ELSE IF c < Len(n.key) THEN NotFound
        ELSE IF c = Len(key) THEN (IF n.isEmpty THEN NotFound ELSE Found(n))
        ELSE IF n.child = Null THEN NotFound
        ELSE getNode[t, n.child, After(key, c)]

\* get() on a tree that has a root.
get(t, key) == getNode[t, 1, key]

-----------------------------------------------------------------------------
(* What a table of routes means *)

IsPattern(pattern) == pattern # <<>> /\ pattern[Len(pattern)] = WildCard

Matches(pattern, path) ==
    \/ pattern = path
    \/ /\ IsPattern(pattern)
       /\ Len(pattern) - 1 <= Len(path)
       /\ SubSeq(path, 1, Len(pattern) - 1) = SubSeq(pattern, 1, Len(pattern) - 1)

\* The last registration of a pattern, 0 if there is none.
LastOf(routes, pattern) ==
    Max({0} \cup {i \in DOMAIN routes : routes[i] = pattern})
=============================================================================
