------------------------------- MODULE Parser -------------------------------
(***************************************************************************)
(* Lab2/iwish/src/parser.c and parsertokens.c: the recursive descent       *)
(* parser of the shell, as functions of the token sequence, with the heap  *)
(* nodes each call allocates and frees, and what interpretInput() does     *)
(* with the result.                                                        *)
(*                                                                         *)
(* A token is abstracted to what the parser distinguishes: "word" (letters *)
(* only), the four operators, and "bad" (anything else, for example a      *)
(* token with a digit in it).  Index Len(s)+1 is the terminating NULL.     *)
(***************************************************************************)
EXTENDS Integers, SequencesExt

CONSTANT MaxLen     \* bound: the longest sentence

ASSUME ParserAssumption == MaxLen \in Nat

Tokens == {"word", "<", ">", "|", "&", "bad"}

VARIABLES
  sentence,   \* the tokens of the line
  interpreting,         \* where interpretInput() is
  list,       \* the Simple_List: its commands and hasDaemonAmpersand
  heap        \* the number of nodes allocated and not freed

parseVars == <<sentence, interpreting, list, heap>>

Max1(s) == 1 .. Len(s) + 1
At(s, i, t) == i <= Len(s) /\ s[i] = t

\* An element of a command: a word or a redirection, and the index of the
\* word; or a node that has not been filled in.
Element(kind, i) == [kind |-> kind, word |-> i]
Unfilled == Element("unfilled", 0)

\* The nodes that can be reached from a list of commands: per command its own
\* node, per element its own node and the Redirection it points to.
ElementNodes(e) == IF e.kind \in {"<", ">"} THEN 2 ELSE 1
Total(q) ==
  LET from[k \in 1 .. Len(q) + 1] == IF k > Len(q) THEN 0 ELSE q[k] + from[k + 1]
  IN from[1]
CommandNodes(c) == 1 + Total([l \in 1 .. Len(c) |-> ElementNodes(c[l])])
Nodes(cmds) == Total([k \in 1 .. Len(cmds) |-> CommandNodes(cmds[k])])

-----------------------------------------------------------------------------
parseWord(s, i) == At(s, i, "word")

parseRedirection(s, i) ==
  (At(s, i, "<") \/ At(s, i, ">")) /\ parseWord(s, i + 1)

\* Mutant: the index is restored, the Redirection is not freed.
parseSimpleCommandElementLeaks(s, i) ==
  CASE parseWord(s, i) ->
         [ok |-> TRUE, next |-> i + 1, elem |-> Element("word", i), heap |-> 0]
    [] parseRedirection(s, i) ->
         [ok |-> TRUE, next |-> i + 2, elem |-> Element(s[i], i + 1), heap |-> 1]
    [] OTHER ->
         [ok |-> FALSE, next |-> i, elem |-> Unfilled, heap |-> IF i <= Len(s) THEN 1 ELSE 0]

\* The Redirection allocated for a token that is no word is freed again when
\* it does not start a redirection either.
parseSimpleCommandElement(s, i) ==
  CASE parseWord(s, i) ->
         [ok |-> TRUE, next |-> i + 1, elem |-> Element("word", i), heap |-> 0]
    [] parseRedirection(s, i) ->
         [ok |-> TRUE, next |-> i + 2, elem |-> Element(s[i], i + 1), heap |-> 1]
    [] OTHER ->
         [ok |-> FALSE, next |-> i, elem |-> Unfilled, heap |-> 0]

\* The node for the next element is allocated before it is known whether
\* there is one.
parseSimpleCommand(s) ==
  LET parse[i \in Max1(s)] ==
        LET e == parseSimpleCommandElement(s, i) IN
        IF ~e.ok THEN [ok |-> FALSE, next |-> i, elems |-> <<Unfilled>>, heap |-> e.heap]
        ELSE LET rest == parse[e.next] IN
             IF rest.ok
             THEN [ok |-> TRUE, next |-> rest.next, elems |-> <<e.elem>> \o rest.elems,
                   heap |-> e.heap + 1 + rest.heap]
             ELSE [ok |-> TRUE, next |-> e.next, elems |-> <<e.elem>>,
                   heap |-> e.heap + 1 + rest.heap - ElementNodes(Unfilled)]
  IN parse

\* Mutant: after a '|' without a command the index is not set back.
parsePipeLineNoBackup(s) ==
  LET parse[i \in Max1(s)] ==
        LET c == parseSimpleCommand(s)[i] IN
        IF ~parseWord(s, i) \/ ~c.ok
        THEN [ok |-> FALSE, next |-> i, cmds |-> << <<Unfilled>> >>, heap |-> 0]
        ELSE IF ~At(s, c.next, "|")
        THEN [ok |-> TRUE, next |-> c.next, cmds |-> <<c.elems>>, heap |-> c.heap]
        ELSE LET rest == parse[c.next + 1] IN
             IF rest.ok
             THEN [ok |-> TRUE, next |-> rest.next, cmds |-> <<c.elems>> \o rest.cmds,
                   heap |-> c.heap + 2 + rest.heap]
             ELSE [ok |-> TRUE, next |-> c.next + 1, cmds |-> <<c.elems>>,
                   heap |-> c.heap + 2 + rest.heap - Nodes(rest.cmds)]
  IN parse

\* parsePipeLine() and parsePipeLine2(): a command starts with a word; after a
\* '|' that no command follows, the index goes back to the '|' and the two
\* nodes made for that command are freed.
parsePipeLine(s) ==
  LET parse[i \in Max1(s)] ==
        LET c == parseSimpleCommand(s)[i] IN
        IF ~parseWord(s, i) \/ ~c.ok
        THEN [ok |-> FALSE, next |-> i, cmds |-> << <<Unfilled>> >>, heap |-> 0]
        ELSE IF ~At(s, c.next, "|")
        THEN [ok |-> TRUE, next |-> c.next, cmds |-> <<c.elems>>, heap |-> c.heap]
        ELSE LET rest == parse[c.next + 1] IN
             IF rest.ok
             THEN [ok |-> TRUE, next |-> rest.next, cmds |-> <<c.elems>> \o rest.cmds,
                   heap |-> c.heap + 2 + rest.heap]
             ELSE [ok |-> TRUE, next |-> c.next, cmds |-> <<c.elems>>,
                   heap |-> c.heap + 2 + rest.heap - Nodes(rest.cmds)]
  IN parse

-----------------------------------------------------------------------------
EmptyList == [cmds |-> << <<Unfilled>> >>, daemon |-> FALSE]

ParseInit ==
  /\ sentence \in BoundedSeq(Tokens, MaxLen)
  /\ interpreting = "makeNewSimpleList"
  /\ list = EmptyList
  /\ heap = 0

\* One Simple_List with one empty command of one empty element.
makeNewSimpleList ==
  /\ interpreting = "makeNewSimpleList"
  /\ heap' = 1 + Nodes(EmptyList.cmds)
  /\ interpreting' = "parseInput"
  /\ UNCHANGED <<sentence, list>>

\* Mutant: what follows the pipeline is not looked at.
parseInputPrefix ==
  /\ interpreting = "parseInput"
  /\ LET p == parsePipeLine(sentence)[1]
         daemon == p.ok /\ At(sentence, p.next, "&")
     IN /\ list' = [cmds |-> p.cmds, daemon |-> daemon]
        /\ heap' = heap + p.heap
        /\ interpreting' = IF p.ok THEN "valid" ELSE "invalid"
  /\ UNCHANGED sentence

parseInput ==
  /\ interpreting = "parseInput"
  /\ LET p == parsePipeLine(sentence)[1]
         daemon == p.ok /\ At(sentence, p.next, "&")
         end == IF daemon THEN p.next + 1 ELSE p.next
     IN /\ list' = [cmds |-> p.cmds, daemon |-> daemon]
        /\ heap' = heap + p.heap
        /\ interpreting' = IF p.ok /\ end = Len(sentence) + 1 THEN "valid" ELSE "invalid"
  /\ UNCHANGED sentence

\* The shell frees the list of an invalid line, the job handler that of a
\* valid one, which it has been given by fork().
freeSimpleList ==
  /\ interpreting \in {"valid", "invalid"}
  /\ heap' = heap - (1 + Nodes(list.cmds))
  /\ interpreting' = IF interpreting = "valid" THEN "handler freed" ELSE "shell freed"
  /\ UNCHANGED <<sentence, list>>

ParseNext == makeNewSimpleList \/ parseInput \/ freeSimpleList

ParseSpec == ParseInit /\ [][ParseNext]_parseVars
-----------------------------------------------------------------------------
Valid == interpreting \in {"valid", "handler freed"}
Parsed == interpreting \in {"valid", "invalid", "handler freed", "shell freed"}

\* The language of bash.txt:10-34 on one line, without parsing.  A command is a
\* word or a redirection at least, and begins with either: there is one at the
\* beginning and behind every '|'.  A redirection has a word; an '&' is last.
CommandAt(s, i) == \E t \in {"word", "<", ">"} : At(s, i, t)

Grammar(s) ==
  /\ CommandAt(s, 1)
  /\ \A i \in 1 .. Len(s) :
       /\ s[i] # "bad"
       /\ s[i] = "|" => CommandAt(s, i + 1)
       /\ s[i] \in {"<", ">"} => At(s, i + 1, "word")
       /\ s[i] = "&" => i = Len(s)

\* "a command must start with a program path" (parser.c:163).
ProgramsNamed(s) ==
  /\ At(s, 1, "word")
  /\ \A i \in 1 .. Len(s) : s[i] = "|" => At(s, i + 1, "word")

\* The parser accepts what the grammar admits and in which every command begins
\* with its program, and nothing else: no token is passed over, at the end of
\* the line or where the descent backs up.
AcceptsLanguage == Parsed => (Valid <=> Grammar(sentence) /\ ProgramsNamed(sentence))

\* The parser accepts the language that the repository says it is for, "a
\* reduced grammar" (bash.txt:1): "<simple_command> ::= <simple_command_element>"
\* and "<simple_command_element> ::= <word> | <redirection>" (bash.txt:20-24).
\* parser.c:161-165 does not let a command begin with a redirection.
AcceptsGrammar == Parsed => (Valid <=> Grammar(sentence))

\* The tokens that an element stands for.
Covers(e) == IF e.kind = "word" THEN {e.word} ELSE {e.word - 1, e.word}

\* Element e of a command lies between the indices i and j, and is the word or
\* the redirection that the sentence has there.
Fits(s, i, j, e) ==
  /\ e.kind \in {"word", "<", ">"} /\ Covers(e) \subseteq i .. j
  /\ s[e.word] = "word" /\ (e.kind # "word" => s[e.word - 1] = e.kind)

\* The elements of a command are in the order of the sentence.
InOrder(c) == \A l \in 1 .. Len(c) : \A m \in 1 .. l - 1 : \A i \in Covers(c[l]) : c[m].word < i

Bars(s, i, j) == {x \in i .. j : s[x] = "|"}

\* Nothing of a valid line is lost, invented or put into another order or into
\* another command: every element of the list is the word or redirection that
\* it stands for, the elements of a command are in order, those of the k-th
\* command come after k-1 '|', there is one command more than there are '|', and
\* only '|' and '&' belong to no element.
Faithful == Valid =>
  /\ \A k \in 1 .. Len(list.cmds) :
       /\ list.cmds[k] # << >> /\ InOrder(list.cmds[k])
       /\ \A l \in 1 .. Len(list.cmds[k]) :
            LET e == list.cmds[k][l] IN
            /\ Fits(sentence, 1, Len(sentence), e)
            /\ Cardinality(Bars(sentence, 1, e.word)) = k - 1
  /\ Len(list.cmds) = 1 + Cardinality(Bars(sentence, 1, Len(sentence)))
  /\ \A i \in 1 .. Len(sentence) : sentence[i] \notin {"|", "&"} =>
       \E k \in 1 .. Len(list.cmds) : \E l \in 1 .. Len(list.cmds[k]) :
         i \in Covers(list.cmds[k][l])
  /\ list.daemon <=> Last(sentence) = "&"

\* "if parseInput fails (i.e. returns false), the contents of the Simple_List
\* are undefined, but a call to freeSimpleList will still fully free the
\* datastructure." (parser.c:184), and the same when it succeeds.
FullyFreed == interpreting \in {"handler freed", "shell freed"} => heap = 0
-----------------------------------------------------------------------------
\* What makes these inductive: the list is what the parse functions make of the
\* sentence, and the heap has its nodes and no other.
ParserInv ==
  /\ sentence \in Seq(Tokens)
  /\ interpreting \in {"makeNewSimpleList", "parseInput"} => list = EmptyList
  /\ Parsed =>
       LET p == parsePipeLine(sentence)[1] IN
       /\ list = [cmds |-> p.cmds, daemon |-> p.ok /\ At(sentence, p.next, "&")]
       /\ Valid <=> p.ok /\ (IF list.daemon THEN p.next + 1 ELSE p.next) = Len(sentence) + 1
  /\ heap = IF interpreting \in {"parseInput", "valid", "invalid"} THEN 1 + Nodes(list.cmds) ELSE 0
=============================================================================
