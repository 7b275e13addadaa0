----------------------------- MODULE QueryMeaning -----------------------------
(***************************************************************************)
(* What the queries of QueryParser mean, said of their tokens, and the     *)
(* properties that compare the parser with it.                             *)
(***************************************************************************)
EXTENDS QueryParser

\* The filters that hold of some row are a set of filters without negation.
Atom(node) == [node EXCEPT !.negated = FALSE]
Atoms(term) == {Atom(term[i]) : i \in {j \in DOMAIN term : term[j].type = "filter"}}

\* Whether terms match a row of which the filters in row hold.  A node gives its
\* value for those of the terms that it has.
Valued(node, values, row) ==
    CASE node.type = "filter" -> <<(Atom(node) \in row) # node.negated>> \o values
      [] node.type = "scope" -> <<values[1] # node.negated>> \o Tail(values)
      [] OTHER ->
            LET its == SubSeq(values, 1, node.terms)
            IN  <<IF node.conjunction = "And" THEN \A i \in DOMAIN its : its[i]
                  ELSE \E i \in DOMAIN its : its[i]>>
                    \o SubSeq(values, node.terms + 1, Len(values))

\* The values of the terms that nodes are, and after them those of others.
Values(nodes, others, row) ==
    LET values[n \in 0..Len(nodes)] ==
            IF n = 0 THEN others ELSE Valued(nodes[Len(nodes) + 1 - n], values[n - 1], row)
    IN  values[Len(nodes)]

Matches(term, row) == Values(term, <<>>, row)[1]

\* The filter of three tokens
FilterOf(t) ==
    LET turned == t[3] \in Names
        op == OperatorOf(t[2])
    IN  IF turned
        THEN Filter(t[3], IF t[1] \in Numbers THEN Mirrored(op) ELSE op, t[1])
        ELSE Filter(t[1], op, t[3])

\* What tokens say of a row is found from their end: an operator has all that comes
\* after it, up to the end of its parentheses, on its right, and a "!" is about no
\* more than the filter or the parentheses after it.  A group is what is between
\* two parentheses: the tokens of its filter that was not read to its beginning,
\* what is said by the filter or the parentheses last read, and the operator after
\* that with what is on its right.
Nothing == [tokens |-> <<>>, said |-> TRUE, op |-> "And", right |-> TRUE]
Whole(g) == IF g.op = "And" THEN g.said /\ g.right ELSE g.said \/ g.right

Heard(token, groups, row) ==
    LET g == groups[1]
    IN  CASE token = ")" -> <<Nothing>> \o groups
          [] token = "(" ->
                <<[groups[2] EXCEPT !.said = Whole(g)]>> \o SubSeq(groups, 3, Len(groups))
          [] token = "!" -> <<[g EXCEPT !.said = ~@]>> \o Tail(groups)
          [] token \in ConjunctionOps ->
                <<[Nothing EXCEPT !.op = ConjunctionOf(token), !.right = Whole(g)]>>
                    \o Tail(groups)
          [] OTHER ->
                LET filter == <<token>> \o g.tokens
                IN  <<IF Len(filter) < 3 THEN [g EXCEPT !.tokens = filter]
                      ELSE [g EXCEPT !.tokens = <<>>, !.said = FilterOf(filter) \in row]>>
                        \o Tail(groups)

\* The groups after tokens have been read in front of what was read before.
Groups(tokens, before, row) ==
    LET groups[n \in 0..Len(tokens)] ==
            IF n = 0 THEN before ELSE Heard(tokens[Len(tokens) + 1 - n], groups[n - 1], row)
    IN  groups[Len(tokens)]

Says(tokens, row) == Whole(Groups(tokens, <<Nothing>>, row)[1])

FilterPart == SelectInSeq(read, LAMBDA t : t = "[")
FilterTokens == IF FilterPart = 0 THEN read ELSE SubSeq(read, 1, FilterPart - 1)
OrderTokens == IF FilterPart = 0 THEN <<>> ELSE SubSeq(read, FilterPart + 1, Len(read) - 1)

-----------------------------------------------------------------------------
(* Properties *)

HowMany(kinds) == Cardinality({i \in DOMAIN symbols : symbols[i] \in kinds})

\* Every stack has an element for each symbol that stands for one, so none is
\* popped empty; what an earlier query has left is below.
ParserTypeOK ==
    /\ result \in {"parsing", "parsed", "rejected", "aborted"}
    /\ read \in Seq(Tokens) /\ Len(read) <= MaxTokens
    /\ result = "parsing" =>
         /\ Len(m_termStack) = HowMany({"parenthesed_clause", "complex_clause", "bang_clause"})
         /\ Len(m_operatorStack) >= HowMany({"number_operator", "multi_operator", "string_operator"})
         /\ Len(m_conjunctionStack) >= HowMany({"complex_operator"})

\* The terms of a query match the rows that its tokens say, whatever scopes,
\* negations and conjunctions it has, and it is sorted by what it names; whatever
\* the parser has read before (validQueries and the TODO of tst_queryparser.cpp).
MatchesAsItSays ==
    \A row \in SUBSET Atoms(parsed) : Matches(parsed, row) = Says(FilterTokens, row)
SortsAsItSays ==
    m_orderList = [i \in 1..(Len(OrderTokens) \div 2) |->
        [ascending |-> OrderTokens[2 * i - 1] = "/", propertyName |-> OrderTokens[2 * i]]]
MeansWhatItSays == result = "parsed" => MatchesAsItSays /\ SortsAsItSays

\* A filter is only about the identifiers that the backend has told, on
\* whichever side of its operator they are (setAllowedIdentifiers()).
FiltersAreAllowed ==
    result = "parsed" /\ Allowed # {} => \A a \in Atoms(parsed) : a.property \in Allowed

\* A query that is sent to another process is there what it was here.
ArrivesAsSent == result = "parsed" => Read(Written(parsed)) = <<parsed, <<>>>>
=============================================================================
