------------------------------ MODULE Tokenizer -----------------------------
(***************************************************************************)
(* The tokenizer of the Luau analysis (packages/luau-analysis), which      *)
(* decides what of a script is code and what is comment or text, and so    *)
(* what the rules get to see.  A script is typed in one character at a     *)
(* time; next to it runs `lexer', the language's own rules read character  *)
(* by character, with which tokenize() must agree on every script.         *)
(***************************************************************************)
EXTENDS Naturals, Sequences, SequencesExt, FiniteSetsExt

CONSTANT Alphabets   \* bound: {[chars, length]}, the sources explored

VARIABLES
    alphabet,   \* the member of Alphabets this script is written in
    script,     \* the script; letters "a" and "z", quote "q", backslash "bs"
    lexer       \* where the language's own rules are after it

tokenizerVars == <<alphabet, script, lexer>>

CharAt(p) == IF p <= Len(script) THEN script[p] ELSE "eof"
Letters == {"a", "z"}
Undecodable == <<"undecodable">>

-----------------------------------------------------------------------------
(* decodeShortString: the text the VM would build, if every escape in it   *)
(* is one Luau defines.                                                    *)
RECURSIVE Decoded(_)
Decoded(raw) ==
    IF raw = <<>> THEN <<>>
    ELSE IF raw[1] # "bs"
    THEN LET rest == Decoded(Tail(raw))
         IN  IF rest = Undecodable THEN rest ELSE <<raw[1]>> \o rest
    ELSE IF Len(raw) = 1 \/ raw[2] \in {"-", "[", "]", "="} THEN Undecodable
    ELSE LET skipped == IF raw[2] # "z" THEN 2
                        ELSE Max({n \in 2 .. Len(raw) : \A i \in 3 .. n : raw[i] = "nl"})
             rest == Decoded(SubSeq(raw, skipped + 1, Len(raw)))
             one == CASE raw[2] = "z" -> <<>> [] raw[2] = "a" -> <<"bell">> [] OTHER -> <<raw[2]>>
         IN  IF rest = Undecodable THEN rest ELSE one \o rest

(* longBracketLevel and longBracketEnd; 0 where the code answers -1. *)
LongBracketLevel(p) ==
    {n \in 0 .. Len(script) : /\ CharAt(p) = "[" /\ CharAt(p + n + 1) = "["
                              /\ \A k \in 1 .. n : CharAt(p + k) = "="}
LongBracketEnd(from, level) ==
    LET closers == {p \in from .. Len(script) :
                      /\ CharAt(p) = "]" /\ CharAt(p + level + 1) = "]"
                      /\ \A k \in 1 .. level : CharAt(p + k) = "="}
    IN  IF closers = {} THEN 0 ELSE Min(closers) + level + 2

(* Where the quote that closes a short string is: `\z' takes the white     *)
(* space after it along, any other escape one character.                   *)
RECURSIVE ShortStringEnd(_)
ShortStringEnd(p) ==
    CASE CharAt(p) \in {"eof", "nl"} -> 0
      [] CharAt(p) = "bs" /\ CharAt(p + 1) = "z" ->
            ShortStringEnd(Max({n \in p + 2 .. Len(script) + 2 :
                                  \A i \in p + 2 .. n - 1 : CharAt(i) = "nl"}))
      [] CharAt(p) = "bs" /\ CharAt(p + 1) # "z" -> ShortStringEnd(p + 2)
      [] CharAt(p) = "q" -> p
      [] OTHER -> ShortStringEnd(p + 1)

(* lexInterpolationChunk: up to the closing backtick or an opening brace.  *)
RECURSIVE ChunkEnd(_)
ChunkEnd(p) ==
    CASE p > Len(script) -> 0
      [] CharAt(p) = "bs" -> ChunkEnd(p + 2)
      [] CharAt(p) \in {"tick", "{"} -> p
      [] OTHER -> ChunkEnd(p + 1)

LexFailure(tokens) == [tokens |-> tokens, failed |-> TRUE]
NameToken(from, to) == [kind |-> "name", from |-> from, to |-> to, value |-> <<>>]
StringToken(value) == [kind |-> "string", from |-> 1, to |-> 0, value |-> value]
Slice(from, to) == SubSeq(script, from, to)
LongValue(text) == IF text # <<>> /\ text[1] = "nl" THEN Tail(text) ELSE text

RECURSIVE Scan(_, _, _)
(* The chunk of an interpolated string that starts at p. *)
InterpolationChunk(p, tokens, interpolations) ==
    LET end == ChunkEnd(p)
        more == Append(tokens, StringToken(Decoded(Slice(p, end - 1))))
    IN  IF end = 0 THEN LexFailure(tokens)
        ELSE Scan(end + 1, more,
                  IF CharAt(end) = "tick" THEN interpolations ELSE Append(interpolations, 0))

(* One turn of the loop of tokenize(); interpolations holds, per open      *)
(* `{...}' of a backtick string, the braces open inside it.                *)
Scan(p, tokens, interpolations) ==
    LET level == LongBracketLevel(IF CharAt(p) = "-" THEN p + 2 ELSE p)
        comment == CharAt(p) = "-" /\ CharAt(p + 1) = "-"
        start == p + (IF comment THEN 2 ELSE 0) + Min(level) + 2
        end == LongBracketEnd(start, Min(level))
        inner == Len(interpolations)
    IN
    CASE p > Len(script) -> [tokens |-> tokens, failed |-> FALSE]
      [] CharAt(p) = "nl" -> Scan(p + 1, tokens, interpolations)
      [] comment /\ level = {} ->
            Scan(Min({n \in p .. Len(script) + 1 : CharAt(n) \in {"nl", "eof"}}), tokens, interpolations)
      [] (comment \/ CharAt(p) = "[") /\ level # {} ->
            IF end = 0 THEN LexFailure(tokens)
            ELSE Scan(end, IF comment THEN tokens
                           ELSE Append(tokens, StringToken(LongValue(Slice(start, end - Min(level) - 3)))),
                      interpolations)
      [] CharAt(p) = "q" ->
            LET close == ShortStringEnd(p + 1)
            IN  IF close = 0 THEN LexFailure(tokens)
                ELSE Scan(close + 1, Append(tokens, StringToken(Decoded(Slice(p + 1, close - 1)))),
                          interpolations)
      [] CharAt(p) = "tick" -> InterpolationChunk(p + 1, tokens, interpolations)
      [] CharAt(p) \in Letters ->
            LET last == Max({n \in p .. Len(script) : \A i \in p .. n : CharAt(i) \in Letters})
            IN  Scan(last + 1, Append(tokens, NameToken(p, last)), interpolations)
      [] CharAt(p) = "bs" -> LexFailure(tokens)
      [] CharAt(p) = "{" /\ inner > 0 ->
            Scan(p + 1, tokens, [interpolations EXCEPT ![inner] = @ + 1])
      [] CharAt(p) = "}" /\ inner > 0 ->
            IF interpolations[inner] = 0 THEN InterpolationChunk(p + 1, tokens, Front(interpolations))
            ELSE Scan(p + 1, tokens, [interpolations EXCEPT ![inner] = @ - 1])
      [] OTHER -> Scan(p + 1, tokens, interpolations)

Tokenize == Scan(1, <<>>, <<>>)

-----------------------------------------------------------------------------
(* Luau's rules, one character after another.  `pending' is a run of       *)
(* characters that may turn out to open a comment or a long bracket, or to *)
(* close one; `escape' is what of an escape sequence has been read.        *)
FreshLexer ==
    [mode |-> "code", pending |-> <<>>, level |-> 0, text |-> <<>>, escape |-> "no",
     delimiter |-> "", braces |-> <<>>, code |-> {}, values |-> <<>>, failed |-> FALSE]

Opens(pending) ==   \* pending is `[', some `=', and a `[' comes next
    pending # <<>> /\ pending[1] = "[" /\ \A i \in 2 .. Len(pending) : pending[i] = "="

Escaped(l, c) ==
    LET t == IF c = "a" THEN <<"bell">> ELSE <<c>>
    IN  [l EXCEPT !.escape = IF c = "z" THEN "skip" ELSE "no",
                  !.text = IF @ = Undecodable \/ c \in {"-", "[", "]", "="} THEN Undecodable
                           ELSE IF c = "z" THEN @ ELSE @ \o t]

(* Inside a quoted or a backtick string. *)
InString(l, c) ==
    CASE l.escape = "yes" -> Escaped(l, c)
      [] l.escape = "skip" /\ c = "nl" -> l
      [] c = "bs" -> [l EXCEPT !.escape = "yes"]
      [] c = l.delimiter ->
            [l EXCEPT !.mode = "code", !.escape = "no", !.values = Append(@, l.text)]
      [] c = "{" /\ l.delimiter = "tick" ->
            [l EXCEPT !.mode = "code", !.escape = "no", !.values = Append(@, l.text),
                      !.braces = Append(@, 0)]
      [] c = "nl" /\ l.delimiter = "q" /\ l.escape # "skip" -> [l EXCEPT !.failed = TRUE]
      [] OTHER -> [l EXCEPT !.escape = "no", !.text = IF @ = Undecodable THEN @ ELSE Append(@, c)]

(* Inside a long comment or string: pending counts the closer read so far. *)
InLong(l, c) ==
    LET k == Len(l.pending)
        text == Append(l.text, c)
    IN  CASE k = l.level + 1 /\ c = "]" ->
               [l EXCEPT !.mode = "code", !.pending = <<>>,
                         !.values = IF l.delimiter = "--" THEN @
                                    ELSE Append(@, LongValue(SubSeq(text, 1, Len(text) - k - 1)))]
          [] k \in 1 .. l.level /\ c = "=" -> [l EXCEPT !.pending = Append(@, c), !.text = text]
          [] OTHER -> [l EXCEPT !.pending = IF c = "]" THEN <<c>> ELSE <<>>, !.text = text]

InCode(l, c, p) ==
    LET in == Len(l.braces)
        string(d) == [l EXCEPT !.mode = "string", !.delimiter = d, !.text = <<>>, !.pending = <<>>]
    IN
    CASE l.pending = <<"-">> /\ c = "-" -> [l EXCEPT !.mode = "comment", !.pending = <<>>]
      [] Opens(l.pending) /\ c = "[" ->
            [l EXCEPT !.mode = "long", !.level = Len(l.pending) - 1, !.pending = <<>>,
                      !.text = <<>>, !.delimiter = "[["]
      [] c \in {"-", "["} -> [l EXCEPT !.pending = <<c>>]
      [] c = "=" -> [l EXCEPT !.pending = IF Opens(@) THEN Append(@, c) ELSE <<>>]
      [] c = "q" -> string("q")
      [] c = "tick" -> string("tick")
      [] c = "bs" -> [l EXCEPT !.failed = TRUE]
      [] c = "{" -> [l EXCEPT !.pending = <<>>,
                              !.braces = IF in = 0 THEN @ ELSE [@ EXCEPT ![in] = @ + 1]]
      [] c = "}" /\ in > 0 /\ l.braces[in] = 0 -> [string("tick") EXCEPT !.braces = Front(@)]
      [] c = "}" /\ in > 0 /\ l.braces[in] > 0 ->
            [l EXCEPT !.pending = <<>>, !.braces[in] = @ - 1]
      [] OTHER -> [l EXCEPT !.pending = <<>>, !.code = IF c \in Letters THEN @ \cup {p} ELSE @]

(* After `--': a long bracket right behind it makes the comment long. *)
InComment(l, c) ==
    CASE c = "nl" -> [l EXCEPT !.mode = "code", !.pending = <<>>]
      [] Opens(l.pending) /\ c = "[" ->
            [l EXCEPT !.mode = "long", !.level = Len(l.pending) - 1, !.pending = <<>>,
                      !.text = <<>>, !.delimiter = "--"]
      [] l.pending = <<>> /\ c = "[" /\ l.delimiter # "line" -> [l EXCEPT !.pending = <<c>>]
      [] Opens(l.pending) /\ c = "=" -> [l EXCEPT !.pending = Append(@, c)]
      [] OTHER -> [l EXCEPT !.pending = <<>>, !.delimiter = "line"]

LanguageReads(l, c, p) ==
    CASE l.mode = "code" -> LET next == InCode(l, c, p)
                            IN  IF next.mode = "comment" THEN [next EXCEPT !.delimiter = ""] ELSE next
      [] l.mode = "comment" -> InComment(l, c)
      [] l.mode = "long" -> InLong(l, c)
      [] l.mode = "string" -> InString(l, c)

-----------------------------------------------------------------------------
TokenizerInit ==
    /\ alphabet \in Alphabets
    /\ script = <<>>
    /\ lexer = FreshLexer

TokenizerNext ==
    /\ ~lexer.failed /\ Len(script) < alphabet.length
    /\ \E c \in alphabet.chars :
          /\ script' = Append(script, c)
          /\ lexer' = LanguageReads(lexer, c, Len(script) + 1)
    /\ UNCHANGED alphabet

(* What tokenize() made of the script is what the language makes of it. *)
ReadAsMeant(lexed) ==
    LET strings == SelectSeq(lexed.tokens, LAMBDA t : t.kind = "string") IN
    /\ lexed.failed <=> lexer.failed \/ lexer.mode \in {"string", "long"}
    /\ ~lexed.failed =>
          /\ UNION {t.from .. t.to : t \in Range(lexed.tokens)} = lexer.code
          /\ [i \in DOMAIN strings |-> strings[i].value] = lexer.values

(* tokenize() takes for code exactly what the language takes for code, and *)
(* reads each literal as the language does: nothing a rule looks for can   *)
(* hide in what only looks like a comment or a string, no text is taken    *)
(* for code, and a script is refused exactly when a literal in it does not *)
(* end.                                                                    *)
LexIsExact == ReadAsMeant(Tokenize)
=============================================================================
