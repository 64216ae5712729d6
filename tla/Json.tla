-------------------------------- MODULE Json --------------------------------
(***************************************************************************)
(* The reader of the data files (core json.h): recursive descent over the  *)
(* text into the flat node array of JsonNodes.                             *)
(*                                                                         *)
(* A text is a sequence of lexemes.  The characters inside one are left    *)
(* out, except for what makes the parser refuse it: an unclosed string, a  *)
(* fraction, an integer beyond 64 bits, junk.                              *)
(*                                                                         *)
(* The recursion of parseValue is a stack: open holds the locals of the    *)
(* calls that are inside a container, the innermost last, and want says    *)
(* where that call stands.                                                 *)
(***************************************************************************)
EXTENDS JsonNodes

CONSTANT MAX_DEPTH      \* Doc::MAX_DEPTH, 32

ASSUME JsonAssumption == MAX_DEPTH \in Nat

Lexeme(l)  == [lex |-> l, text |-> NoText, num |-> 0]
StrLex(s)  == [lex |-> "str", text |-> s, num |-> 0]
IntLex(n)  == [lex |-> "int", text |-> NoText, num |-> n]

EmptyDoc == [nodes |-> <<>>, err |-> NoText, errAt |-> 0, open |-> <<>>, want |-> "value"]

(* Doc::setError.  Every call returns at once behind it, so that the first *)
(* error is the only one; the nodes of a refused text are never looked at. *)
SetError(d, at, why) == [d EXCEPT !.err = why, !.errAt = at]

(* The lexeme at the cursor, or "end".                                     *)
At(text, i) == IF i <= Len(text) THEN text[i].lex ELSE "end"

(* parseString ran to the end of the text.                                 *)
Unclosed(text, d) == SetError(d, Len(text) + 1, "unclosed_string")

Top(d) == d.open[Len(d.open)]

(* mutant: the kid is put before its siblings.                             *)
LinkAtHead(d, self, prev, kid, key) ==
  LET keyed   == [d EXCEPT !.nodes[kid].key = key]
      counted == [keyed EXCEPT !.nodes[self].kidCount = @ + 1]
  IN  [counted EXCEPT !.nodes[self].firstKid = kid, !.nodes[kid].nextSib = d.nodes[self].firstKid]

(* The kid behind its sibling, or first in the container.                  *)
Link(d, self, prev, kid, key) ==
  LET keyed   == [d EXCEPT !.nodes[kid].key = key]
      counted == [keyed EXCEPT !.nodes[self].kidCount = @ + 1]
  IN  IF prev = 0 THEN [counted EXCEPT !.nodes[self].firstKid = kid]
                  ELSE [counted EXCEPT !.nodes[prev].nextSib = kid]

(* parseValue returns node v: to Doc::parse, or to the loop over the kids  *)
(* of a container.                                                         *)
Returned(d, v) ==
  IF d.open = <<>> THEN [d EXCEPT !.want = "nothing"]
  ELSE [Link(d, Top(d).self, Top(d).prev, v, Top(d).key)
          EXCEPT !.open[Len(d.open)].prev = v, !.want = "next"]

Grown(d, type, n, s) ==
  [d EXCEPT !.nodes = Append(@, [BlankNode EXCEPT !.type = type, !.num = n, !.text = s])]

(* A container begins; it ends.                                            *)
Opened(d, type, close) ==
  [Grown(d, type, 0, NoText) EXCEPT
     !.open = Append(@, [self |-> Len(d.nodes) + 1, prev |-> 0, close |-> close, key |-> NoText]),
     !.want = "first"]

Closed(d) ==
  Returned([d EXCEPT !.open = SubSeq(@, 1, Len(@) - 1)], Top(d).self)

(* parseNumber, and the characters no value begins with.                   *)
NotANumber(l) ==
  CASE l = "frac" -> "fraction" [] l = "huge" -> "integer_range" [] OTHER -> "number_expected"

(* parseValue up to the loop over the kids, with parseString, parseNumber  *)
(* and literal on one lexeme.                                              *)
Value(text, d, i) ==
  LET l == At(text, i)
      is(type, n, s) == Returned(Grown(d, type, n, s), Len(d.nodes) + 1)
  IN  IF Len(d.open) > MAX_DEPTH THEN SetError(d, i, "too_deep")
      ELSE CASE l = "ws"    -> d
             [] l = "end"   -> SetError(d, i, "value_expected")
             [] l = "lbrace"   -> Opened(d, "object", "rbrace")
             [] l = "lbracket" -> Opened(d, "array", "rbracket")
             [] l = "str"   -> is("string", 0, text[i].text)
             [] l = "int"   -> is("int", text[i].num, NoText)
             [] l = "true"  -> is("bool", 1, NoText)
             [] l = "false" -> is("bool", 0, NoText)
             [] l = "null"  -> is("null", 0, NoText)
             [] l = "open"  -> Unclosed(text, d)
             [] OTHER       -> SetError(d, i, NotANumber(l))

(* The top of the loop over the kids: the key of an object's kid, or the   *)
(* kid of an array.                                                        *)
Kid(text, d, i) ==
  LET l == At(text, i)
  IN  IF Top(d).close = "rbracket" THEN Value(text, d, i)
      ELSE CASE l = "str"  -> [d EXCEPT !.open[Len(d.open)].key = text[i].text, !.want = "colon"]
             [] l = "open" -> Unclosed(text, d)
             [] OTHER      -> SetError(d, i, "string_expected")

(* What the innermost call does with lexeme i.  A call of parseValue looks *)
(* at its depth before it skips white space.                               *)
ReadLexeme(text, d, i) ==
  LET l == At(text, i)
  IN  IF d.err # NoText THEN d
      ELSE IF d.want = "value" THEN Value(text, d, i)
      ELSE IF l = "ws" THEN d
      ELSE CASE d.want = "first"   -> IF l = Top(d).close THEN Closed(d) ELSE Kid(text, d, i)
             [] d.want = "kid"     -> Kid(text, d, i)
             [] d.want = "colon"   -> IF l = "colon" THEN [d EXCEPT !.want = "value"]
                                      ELSE SetError(d, i, "colon_expected")
             [] d.want = "next"    -> IF l = "comma" THEN [d EXCEPT !.want = "kid"]
                                      ELSE IF l = Top(d).close THEN Closed(d)
                                      ELSE SetError(d, i, "comma_or_end_expected")
             [] d.want = "nothing" -> IF l = "end" THEN d ELSE SetError(d, i, "trailing_text")

(* The document behind every lexeme, and behind the end of the text.       *)
Reading(text) ==
  LET doc[i \in 0 .. Len(text) + 1] == IF i = 0 THEN EmptyDoc ELSE ReadLexeme(text, doc[i - 1], i)
  IN  doc

(* Doc::parse: one value, and nothing after it.                            *)
Parse(text) == Reading(text)[Len(text) + 1]

----------------------------------------------------------------------------
(* What a text means, by its grammar alone: the set of the trees that the  *)
(* lexemes i .. j spell at a depth, at most one.  A tree is a type, a      *)
(* scalar and its members.  White space may stand around a value, a key,   *)
(* a colon and in an empty container.                                      *)
Tree(type, n, s, kids) == [type |-> type, num |-> n, text |-> s, kids |-> kids]

Blank(text, i, j) == \A p \in i .. j : text[p].lex = "ws"

ScalarTrees(l) ==
  CASE l.lex = "str"   -> {Tree("string", 0, l.text, <<>>)}
    [] l.lex = "int"   -> {Tree("int", l.num, NoText, <<>>)}
    [] l.lex = "true"  -> {Tree("bool", 1, NoText, <<>>)}
    [] l.lex = "false" -> {Tree("bool", 0, NoText, <<>>)}
    [] l.lex = "null"  -> {Tree("null", 0, NoText, <<>>)}
    [] OTHER           -> {}

(* Spans with what they are read as: a value, or the members of a          *)
(* container; f has the trees, or the sequences of members, of the shorter *)
(* ones.                                                                   *)
Spans(text) ==
  {"value", "array", "object"} \X (1 .. Len(text) + 1) \X (0 .. Len(text)) \X (0 .. MAX_DEPTH + 1)

Container(text, f, type, open, close, i, j, e) ==
  IF i < j /\ text[i].lex = open /\ text[j].lex = close
  THEN {Tree(type, 0, NoText, ms) : ms \in f[<<type, i + 1, j - 1, e + 1>>]}
         \cup (IF Blank(text, i + 1, j - 1) THEN {Tree(type, 0, NoText, <<>>)} ELSE {})
  ELSE {}

Values(text, f, i, j, e) ==
  IF i > j \/ e > MAX_DEPTH THEN {}
  ELSE (IF i = j THEN ScalarTrees(text[i]) ELSE {})
         \cup Container(text, f, "object", "lbrace", "rbrace", i, j, e)
         \cup Container(text, f, "array", "lbracket", "rbracket", i, j, e)
         \cup (IF text[i].lex = "ws" THEN f[<<"value", i + 1, j, e>>] ELSE {})
         \cup (IF text[j].lex = "ws" THEN f[<<"value", i, j - 1, e>>] ELSE {})

(* One member: a value, behind a key and a colon in an object.             *)
Heads(text, i, c) ==
  {p \in i .. c - 1 : /\ text[p].lex = "str" /\ text[c].lex = "colon"
                      /\ Blank(text, i, p - 1) /\ Blank(text, p + 1, c - 1)}

Member(text, f, type, i, j, e) ==
  IF type = "array" THEN {[key |-> NoText, tree |-> t] : t \in f[<<"value", i, j, e>>]}
  ELSE UNION {{[key |-> text[p].text, tree |-> t] : p \in Heads(text, i, c),
                                                   t \in f[<<"value", c + 1, j, e>>]} :
              c \in i .. j}

Members(text, f, type, i, j, e) ==
  {<<m>> : m \in Member(text, f, type, i, j, e)}
    \cup UNION {{Append(ms, m) : ms \in f[<<type, i, k - 1, e>>],
                                 m \in Member(text, f, type, k + 1, j, e)} :
                k \in {q \in i .. j : text[q].lex = "comma"}}

Spelled(text) ==
  LET says[x \in Spans(text)] ==
        IF x[1] = "value" THEN Values(text, says, x[2], x[3], x[4])
        ELSE Members(text, says, x[1], x[2], x[3], x[4])
  IN  says

(* The tree a loader would find by walking the nodes.                      *)
TreeAt(d, v) ==
  LET tree[u \in DOMAIN d.nodes] ==
        Tree(Type(d, u), d.nodes[u].num, d.nodes[u].text,
             [i \in 1 .. Size(d, u) |->
                [key |-> d.nodes[Elem(d, u, i)].key, tree |-> tree[Elem(d, u, i)]]])
  IN  tree[v]

(* A text is accepted exactly when it is a document of the grammar within  *)
(* the depth limit, and walking its nodes by index gives that document.    *)
ReadsExactly(text) ==
  LET d   == Parse(text)
      ref == Spelled(text)[<<"value", 1, Len(text), 0>>]
  IN  /\ d.err = NoText <=> ref # {}
      /\ d.err = NoText => TreeAt(d, 1) \in ref
=============================================================================
