------------------------------ MODULE QueryParser ------------------------------
(***************************************************************************)
(* QIfQueryParser: how a query becomes terms, and how terms are sent to    *)
(* another process (src/interfaceframework/queryparser/qifqueryparser.g    *)
(* with the parse() generated from it, and qifqueryterm.cpp).              *)
(*                                                                         *)
(* The tokens come one by one.  The parser shifts a token onto its stack   *)
(* of symbols, or reduces what is on top of it by a rule of the grammar,   *)
(* whose action works on the stacks of terms, operators and conjunctions.  *)
(* A parser may be given another query when it is done.                    *)
(***************************************************************************)
EXTENDS Integers, Sequences, SequencesExt, FiniteSets

CONSTANTS
    Names, Numbers, Texts,          \* tokens with a value
    Allowed,                        \* m_identifierList; empty allows all
    Operators,                      \* the operator tokens that queries use
    None,                           \* no token
    MaxTokens,                      \* bound: tokens of a query
    MaxWrong,                       \* bound: tokens of a query with an error
    MaxLeft                         \* bound: what earlier queries have left

NumberOps == {">=", ">", "<=", "<"}
MultiOps == {"=", "==", "!="}
StringOps == {"~="}
ConjunctionOps == {"&", "&&", "|", "||"}
Tokens ==
    Names \cup Numbers \cup Texts \cup Operators
        \cup {"!", "(", ")", "[", "]", "/", "\\"}

\* The symbols of the grammar, but for the tokens with a value.
Symbols ==
    NumberOps \cup MultiOps \cup StringOps \cup ConjunctionOps
        \cup {"!", "(", ")", "[", "]", "/", "\\", "end"}
        \cup {"number_operator", "multi_operator", "string_operator", "complex_operator",
              "parenthesed_clause", "complex_clause", "bang_clause",
              "order_clause", "order_term"}

\* Every token is of one kind.
ASSUME TokensAssumption ==
    /\ Names \cap (Numbers \cup Texts) = {} /\ Numbers \cap Texts = {}
    /\ Symbols \cap (Names \cup Numbers \cup Texts) = {}
    /\ None \notin Symbols \cup Names \cup Numbers \cup Texts

ASSUME ParserAssumption ==
    /\ Allowed \subseteq Names
    /\ Operators \subseteq NumberOps \cup MultiOps \cup StringOps \cup ConjunctionOps
    /\ MaxTokens \in Nat /\ MaxWrong \in Nat /\ MaxLeft \in Nat

VARIABLES
    read,                   \* the tokens of the query that were read
    lookahead,              \* yytoken
    symbols,                \* state_stack and sym_stack: tokens and nonterminals
    m_termStack, m_operatorStack, m_conjunctionStack, m_orderList,
    result,                 \* "parsing", "parsed", "rejected" or "aborted"
    parsed                  \* what parse() has returned

stacks == <<m_termStack, m_operatorStack, m_conjunctionStack>>
parserVars == <<read, lookahead, symbols, stacks, m_orderList, result, parsed>>

-----------------------------------------------------------------------------
(* Terms.  A term is the sequence of its nodes as a walk from the left meets *)
(* them: a scope comes before the term inside, and a conjunction, which      *)
(* knows how many terms it has, before these.                                *)

Filter(name, op, value) ==
    [type |-> "filter", property |-> name, operator |-> op, value |-> value,
     negated |-> FALSE]
ScopeNode == [type |-> "scope", negated |-> FALSE]
ConjunctionNode(c, n) == [type |-> "conjunction", conjunction |-> c, terms |-> n]

LeftMost(term) ==
    CHOOSE i \in DOMAIN term :
        /\ term[i].type # "conjunction"
        /\ \A j \in 1..(i - 1) : term[j].type = "conjunction"

\* negateLeftMostTerm()
Negated(term) == [term EXCEPT ![LeftMost(term)].negated = TRUE]

\* The terms that a term brings into a conjunction: those it has, if it is one of
\* the same kind, or itself.
Joins(term, c) == term[1].type = "conjunction" /\ term[1].conjunction = c
Count(term, c) == IF Joins(term, c) THEN term[1].terms ELSE 1
Parts(term, c) == IF Joins(term, c) THEN Tail(term) ELSE term

\* Mutant: the negation comes after the terms were put together.
NegatedTooLate(left, right, c, bang) ==
    LET both == <<ConjunctionNode(c, 1 + Count(right, c))>> \o left \o Parts(right, c)
    IN  IF bang THEN Negated(both) ELSE both

\* handleConjunction()
HandleConjunction(left, right, c, bang) ==
    LET r == IF bang THEN Negated(right) ELSE right
        parts == IF Joins(left, c) /\ ~Joins(r, c)
                 THEN r \o Parts(left, c) ELSE Parts(left, c) \o Parts(r, c)
    IN  <<ConjunctionNode(c, Count(left, c) + Count(r, c))>> \o parts

\* handleScope()
HandleScope(term, bang) == <<ScopeNode>> \o (IF bang THEN Negated(term) ELSE term)

\* The operators that a token stands for.  Equals is "=" and "==".
OperatorOf(token) == IF token = "==" THEN "=" ELSE token
ConjunctionOf(token) == IF token \in {"&", "&&"} THEN "And" ELSE "Or"

\* clause ::= literal number_operator IDENTIFIER; qFatal() if it is no order.
Mirrored(op) ==
    CASE op = ">=" -> "<=" [] op = ">" -> "<" [] op = "<=" -> ">=" [] op = "<" -> ">"
      [] OTHER -> None

\* operator<< for terms: the values that are written, one after the other.
Fields(node) ==
    CASE node.type = "filter" ->
            <<"filter", node.operator, node.value, node.property, node.negated>>
      [] node.type = "scope" -> <<"scope", node.negated>>
      [] OTHER -> <<"conjunction", node.conjunction, node.terms>>
Written(term) == FlattenSeq([i \in DOMAIN term |-> Fields(term[i])])

\* The node that the next values are.
NodeOf(in) ==
    CASE in[1] = "filter" ->
            [type |-> "filter", operator |-> in[2], value |-> in[3],
             property |-> in[4], negated |-> in[5]]
      [] in[1] = "scope" -> [type |-> "scope", negated |-> in[2]]
      [] OTHER -> ConjunctionNode(in[2], in[3])

\* Mutant: the number of terms is not read.
Pairs(node) ==
    CASE node.type = "filter" -> 0 [] node.type = "scope" -> 1 [] OTHER -> 2

\* How many terms follow a node: those that its own operator>> reads.
Within(node) ==
    CASE node.type = "filter" -> 0 [] node.type = "scope" -> 1 [] OTHER -> node.terms

\* operator>>: what was read, what is left to read, and how many terms are waited
\* for by the call and those it has made.
ReadNode(s) ==
    LET node == NodeOf(s.in)
    IN  [term |-> Append(s.term, node),
         in |-> SubSeq(s.in, Len(Fields(node)) + 1, Len(s.in)),
         missing |-> s.missing - 1 + Within(node)]
Read(in) ==
    LET after[n \in 0..Len(in)] ==
            IF n = 0 THEN [term |-> <<>>, in |-> in, missing |-> 1]
            ELSE LET s == after[n - 1] IN IF s.missing = 0 THEN s ELSE ReadNode(s)
        end == after[Len(in)]
    IN  <<end.term, end.in>>

-----------------------------------------------------------------------------
(* The grammar *)

\* The top of the symbols is of these kinds, the last of them on top.
Ends(kinds) ==
    /\ Len(symbols) >= Len(kinds)
    /\ \A i \in DOMAIN kinds : symbols[Len(symbols) - Len(kinds) + i] \in kinds[i]
\* sym(): the i-th of the n symbols that a rule reduces
Sym(i, n) == symbols[Len(symbols) - n + i]
TopSymbol == IF symbols = <<>> THEN None ELSE Last(symbols)
Top(stack) == Last(stack)
Reduces(n, lhs) == symbols' = Append(SubSeq(symbols, 1, Len(symbols) - n), lhs)

ForNumbers == {"number_operator", "multi_operator"}
ForStrings == {"string_operator", "multi_operator"}
ClauseForms ==
    {<<Names, ForNumbers, Numbers>>, <<Names, ForStrings, Texts>>,
     <<Texts, ForStrings, Names>>, <<Numbers, ForNumbers, Names>>}

\* What may be shifted on what is on top, once nothing can be reduced.
MayShift(t) ==
    \/ /\ TopSymbol \in {None, "(", "!", "complex_operator"}
       /\ \/ t \in Names \cup Numbers \cup Texts \cup {"("}
          \/ t = "!" /\ TopSymbol # "!"
    \/ TopSymbol \in Names /\ t \in NumberOps \cup MultiOps \cup StringOps
    \/ TopSymbol \in Numbers /\ t \in NumberOps \cup MultiOps
    \/ TopSymbol \in Texts /\ t \in StringOps \cup MultiOps
    \/ \E form \in ClauseForms : Ends(SubSeq(form, 1, 2)) /\ t \in form[3]
    \/ TopSymbol = "parenthesed_clause" /\ t \in ConjunctionOps
    \/ t = ")" /\ (Ends(<<{"("}, {"complex_clause"}>>)
                     \/ Ends(<<{"("}, {"!"}, {"complex_clause"}>>))
    \/ TopSymbol = "bang_clause" /\ t = "["
    \/ TopSymbol \in {"[", "order_clause"} /\ t \in {"/", "\\"}
    \/ TopSymbol = "order_clause" /\ t = "]"
    \/ TopSymbol \in {"/", "\\"} /\ t \in Names

\* Every operator token has become an operator on a stack.
ReduceOperator ==
    /\ TopSymbol \in NumberOps \cup MultiOps \cup StringOps
    /\ m_operatorStack' = Append(m_operatorStack, OperatorOf(TopSymbol))
    /\ Reduces(1, CASE TopSymbol \in NumberOps -> "number_operator"
                    [] TopSymbol \in MultiOps -> "multi_operator"
                    [] OTHER -> "string_operator")
    /\ UNCHANGED <<m_termStack, m_conjunctionStack, m_orderList, result>>

ReduceComplexOperator ==
    /\ TopSymbol \in ConjunctionOps
    /\ m_conjunctionStack' = Append(m_conjunctionStack, ConjunctionOf(TopSymbol))
    /\ Reduces(1, "complex_operator")
    /\ UNCHANGED <<m_termStack, m_operatorStack, m_orderList, result>>

\* Mutant: the identifier is looked for on the left only.
ChecksTheLeft(name) ==
    Allowed # {} => Sym(1, 3) \in Allowed \cup Numbers \cup Texts

\* checkIdentifier(): the terms are deleted if it fails.
CheckIdentifier(name) == Allowed # {} => name \in Allowed

ReduceClause ==
    /\ \E form \in ClauseForms : Ends(form)
    /\ LET mirrored == Sym(3, 3) \in Names
           name == IF mirrored THEN Sym(3, 3) ELSE Sym(1, 3)
           value == IF mirrored THEN Sym(1, 3) ELSE Sym(3, 3)
           op == IF value \in Numbers /\ mirrored
                 THEN Mirrored(Top(m_operatorStack)) ELSE Top(m_operatorStack)
       IN  IF ~CheckIdentifier(name)
           THEN result' = "rejected" /\ UNCHANGED <<symbols, stacks>>
           ELSE /\ m_operatorStack' = Front(m_operatorStack)
                /\ UNCHANGED m_conjunctionStack
                /\ IF op = None
                   THEN result' = "aborted" /\ UNCHANGED <<symbols, m_termStack>>
                   ELSE /\ m_termStack' = Append(m_termStack, <<Filter(name, op, value)>>)
                        /\ Reduces(3, "parenthesed_clause")
                        /\ UNCHANGED result
    /\ UNCHANGED m_orderList

ReduceScope ==
    /\ \/ Ends(<<{"("}, {"complex_clause"}, {")"}>>)
       \/ Ends(<<{"("}, {"!"}, {"complex_clause"}, {")"}>>)
    /\ LET bang == Sym(1, 3) = "!"
       IN  /\ m_termStack' = Append(Front(m_termStack), HandleScope(Top(m_termStack), bang))
           /\ Reduces(IF bang THEN 4 ELSE 3, "parenthesed_clause")
    /\ UNCHANGED <<m_operatorStack, m_conjunctionStack, m_orderList, result>>

\* complex_clause ::= parenthesed_clause, unless an operator follows
ReduceParenthesed ==
    /\ TopSymbol = "parenthesed_clause"
    /\ lookahead \notin {None} \cup ConjunctionOps
    /\ Reduces(1, "complex_clause")
    /\ UNCHANGED <<stacks, m_orderList, result>>

\* Mutant: the conjunctions around this one go with it.
NoConjunctions == <<>>

PopConjunction == Front(m_conjunctionStack)

ReduceConjunction ==
    /\ Ends(<<{"complex_operator"}, {"complex_clause"}>>)
         \/ Ends(<<{"complex_operator"}, {"!"}, {"complex_clause"}>>)
    /\ LET bang == Sym(1, 2) = "!"
           n == Len(m_termStack)
       IN  /\ m_termStack' = Append(SubSeq(m_termStack, 1, n - 2),
                  HandleConjunction(m_termStack[n - 1], m_termStack[n],
                                    Top(m_conjunctionStack), bang))
           /\ Reduces(IF bang THEN 4 ELSE 3, "complex_clause")
    /\ m_conjunctionStack' = PopConjunction
    /\ UNCHANGED <<m_operatorStack, m_orderList, result>>

ReduceBang ==
    /\ symbols \in {<<"complex_clause">>, <<"!", "complex_clause">>}
    /\ symbols' = <<"bang_clause">>
    /\ m_termStack' = IF symbols[1] = "!"
                      THEN Append(Front(m_termStack), Negated(Top(m_termStack)))
                      ELSE m_termStack
    /\ UNCHANGED <<m_operatorStack, m_conjunctionStack, m_orderList, result>>

ReduceOrder ==
    /\ Ends(<<{"/", "\\"}, Names>>)
    /\ m_orderList' = Append(m_orderList,
            [ascending |-> Sym(1, 2) = "/", propertyName |-> Sym(2, 2)])
    /\ Reduces(IF Sym(0, 2) = "order_clause" THEN 3 ELSE 2, "order_clause")
    /\ UNCHANGED <<stacks, result>>

ReduceOrderTerm ==
    /\ Ends(<<{"["}, {"order_clause"}, {"]"}>>)
    /\ Reduces(3, "order_term")
    /\ UNCHANGED <<stacks, m_orderList, result>>

Reduce ==
    /\ result = "parsing"
    /\ \/ ReduceOperator \/ ReduceComplexOperator \/ ReduceClause \/ ReduceScope
       \/ ReduceParenthesed \/ ReduceConjunction \/ ReduceBang
       \/ ReduceOrder \/ ReduceOrderTerm
    /\ UNCHANGED <<read, lookahead, parsed>>

-----------------------------------------------------------------------------
(* parse() *)

CanReduce ==
    \/ TopSymbol \in NumberOps \cup MultiOps \cup StringOps \cup ConjunctionOps \cup {")", "]"}
    \/ \E form \in ClauseForms : Ends(form)
    \/ TopSymbol = "parenthesed_clause" /\ lookahead \notin {None} \cup ConjunctionOps
    \/ TopSymbol = "complex_clause" /\ ~MayShift(")")
    \/ Ends(<<{"/", "\\"}, Names>>)

NextToken ==
    /\ result = "parsing" /\ lookahead = None
    /\ \E t \in Tokens \cup {"end"} :
          /\ t # "end" => Len(read) < MaxTokens
          /\ lookahead' = t
          /\ read' = IF t = "end" THEN read ELSE Append(read, t)
    /\ UNCHANGED <<symbols, stacks, m_orderList, result, parsed>>

Complete == symbols \in {<<"bang_clause">>, <<"bang_clause", "order_term">>}

\* A token is shifted, ends the query, or is an error.
HandleToken ==
    /\ result = "parsing" /\ lookahead # None /\ ~CanReduce
    /\ \/ /\ MayShift(lookahead)
          /\ symbols' = Append(symbols, lookahead)
          /\ lookahead' = None
          /\ UNCHANGED <<m_termStack, result, parsed>>
       \/ /\ lookahead = "end" /\ Complete
          /\ result' = "parsed"
          /\ parsed' = Top(m_termStack)
          /\ m_termStack' = Front(m_termStack)
          /\ UNCHANGED <<symbols, lookahead>>
       \/ /\ ~MayShift(lookahead) /\ ~(lookahead = "end" /\ Complete)
          /\ Len(read) <= MaxWrong
          /\ result' = "rejected"
          /\ UNCHANGED <<symbols, lookahead, m_termStack, parsed>>
    /\ UNCHANGED <<read, m_operatorStack, m_conjunctionStack, m_orderList>>

\* setQuery() and parse() again: not every stack is cleared.
ParseAgain ==
    /\ result \in {"parsed", "rejected"}
    /\ Len(m_operatorStack) + Len(m_conjunctionStack) <= MaxLeft
    /\ read' = <<>> /\ lookahead' = None /\ symbols' = <<>>
    /\ m_termStack' = <<>> /\ m_orderList' = <<>>
    /\ result' = "parsing" /\ parsed' = <<>>
    /\ UNCHANGED <<m_operatorStack, m_conjunctionStack>>

ParserInit ==
    /\ read = <<>> /\ lookahead = None /\ symbols = <<>>
    /\ m_termStack = <<>> /\ m_operatorStack = <<>> /\ m_conjunctionStack = <<>>
    /\ m_orderList = <<>>
    /\ result = "parsing" /\ parsed = <<>>

ParserNext == NextToken \/ HandleToken \/ Reduce \/ ParseAgain

ParserSpec == ParserInit /\ [][ParserNext]_parserVars
=============================================================================
