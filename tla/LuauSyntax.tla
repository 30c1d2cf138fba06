----------------------------- MODULE LuauSyntax -----------------------------
(***************************************************************************)
(* What the Luau analysis reads out of a token stream without parsing it:  *)
(* the blocks and brackets (structure.ts) and the questions the rules      *)
(* share (query.ts).  A token is its text; every text the model uses is of *)
(* one kind.  Positions count from 1 and 0 stands for the code's -1.       *)
(***************************************************************************)
EXTENDS Naturals, Sequences, SequencesExt, FiniteSetsExt

CONSTANT TypeArgumentScanLimit
ASSUME ScanLimitAssumption == TypeArgumentScanLimit \in Nat \ {0}

BlockWords == {"while", "for", "do", "if", "then", "elseif", "else", "function", "repeat", "end",
               "until"}
Keywords == BlockWords \cup {"return", "and", "or", "not", "in", "local", "break", "nil", "true",
                             "false"}
Openers == {"(", "[", "{"}
Closers == {")", "]", "}"}
Operators == Openers \cup Closers \cup {"=", ",", "..", "-", "#", "==", "<", ">", ".", ":", "?", "|",
                                  "->", "...", "+="}
Strings == {"'OnServerEvent'", "'Heartbeat'"}
Numbers == {"1", "2"}
IsNameAt(t, i) == i \in DOMAIN t /\ t[i] \notin Keywords \cup Operators \cup Strings \cup Numbers

(* isOp, isKeyword, isName. *)
Is(t, i, text) == i \in DOMAIN t /\ t[i] = text
IsOne(t, i, texts) == i \in DOMAIN t /\ t[i] \in texts
IsMemberAccess(t, i) == IsOne(t, i - 1, {".", ":"})

-----------------------------------------------------------------------------
(* structure.ts *)
ExpressionPositionOps ==
    {"=", "(", "[", "{", ",", "..", "-", "#", "==", "<", "+="}
ExpressionPositionKeywords ==
    {"return", "and", "or", "not", "in", "until", "while", "elseif", "if"}
TypeArgumentOps == {",", ".", ":", "?", "|", "->", "...", "="}
TypeArgumentKeywords == {"nil", "true", "false", "function"}

(* closesTypeArguments, from position i backwards: depth angles and group  *)
(* brackets are open.                                                      *)
RECURSIVE ReachesOpeningAngle(_, _, _, _, _)
ReachesOpeningAngle(t, i, depth, group, steps) ==
    /\ i > 0 /\ steps < TypeArgumentScanLimit
    /\ LET on(d, g) == ReachesOpeningAngle(t, i - 1, d, g, steps + 1)
       IN  CASE t[i] \in Closers -> on(depth, group + 1)
             [] t[i] \in Openers -> group > 0 /\ on(depth, group - 1)
             [] group > 0 /\ t[i] \notin Openers \cup Closers -> on(depth, group)
             [] group = 0 /\ t[i] = ">" -> on(depth + 1, group)
             [] group = 0 /\ t[i] = "<" -> depth = 1 \/ on(depth - 1, group)
             [] OTHER -> /\ t[i] \in TypeArgumentOps \cup TypeArgumentKeywords \cup Strings
                               \/ IsNameAt(t, i)
                         /\ on(depth, group)
ClosesTypeArguments(t, i) == ReachesOpeningAngle(t, i - 1, 1, 0, 0)

IsIfExpression(t, i) ==
    \/ IsOne(t, i - 1, ExpressionPositionOps \cup ExpressionPositionKeywords)
    \/ Is(t, i - 1, ">") /\ ~ClosesTypeArguments(t, i - 1)

FreshScan == [blocks |-> <<>>, stack |-> <<>>, brackets |-> <<>>, bracket |-> {}, pendingLoop |-> 0,
              ifExpressions |-> <<>>, expressionBranches |-> {}, innermost |-> <<>>,
              error |-> FALSE]

TopBlock(s) == IF s.stack = <<>> THEN 0 ELSE Last(s.stack)
Refuse(s) == [s EXCEPT !.error = TRUE]
Opened(s, kind, at, loop) ==
    [s EXCEPT !.blocks = Append(@, [kind |-> kind, open |-> at, close |-> 0,
                                    parent |-> TopBlock(s), loop |-> loop]),
              !.stack = Append(@, Len(s.blocks) + 1),
              !.pendingLoop = IF kind = "do" THEN 0 ELSE @]
Closed(s, at, isRepeat) ==
    IF s.stack = <<>> \/ (s.blocks[Last(s.stack)].kind = "repeat") # isRepeat THEN Refuse(s)
    ELSE [s EXCEPT !.blocks[Last(s.stack)].close = at, !.stack = Front(@)]

(* An if-expression cannot outlive the block or the bracket it began in.   *)
Stranded(s) ==
    /\ s.ifExpressions # <<>>
    /\ \/ Last(s.ifExpressions).blockDepth > Len(s.stack)
       \/ Last(s.ifExpressions).bracketDepth > Len(s.brackets)

(* then, elseif, else: of the innermost if-expression if it waits for it.  *)
BranchWord(s, at, word) ==
    LET waiting == /\ s.ifExpressions # <<>>
                   /\ Last(s.ifExpressions) =
                        [wants |-> IF word = "then" THEN "then" ELSE "else",
                         blockDepth |-> Len(s.stack), bracketDepth |-> Len(s.brackets)]
        n == Len(s.ifExpressions)
        marked == [s EXCEPT !.expressionBranches = @ \cup {at}]
    IN  CASE ~waiting -> s
          [] waiting /\ word = "else" -> [marked EXCEPT !.ifExpressions = Front(@)]
          [] waiting /\ word # "else" ->
                [marked EXCEPT !.ifExpressions[n].wants = IF word = "then" THEN "else" ELSE "then"]

(* One turn of analyseStructure's loop. *)
ScanToken(t, before, i) ==
    LET s == [before EXCEPT !.innermost = Append(@, TopBlock(before))]
        word == t[i]
    IN
    CASE s.error -> s
      [] ~s.error /\ Stranded(s) -> Refuse(s)
      [] OTHER ->
         CASE word \in Openers -> [s EXCEPT !.brackets = Append(@, i)]
           [] word \in Closers ->
                IF s.brackets = <<>> \/ <<t[Last(s.brackets)], word>> \notin
                                           {<<"(", ")">>, <<"[", "]">>, <<"{", "}">>}
                THEN Refuse(s)
                ELSE [s EXCEPT !.brackets = Front(@), !.bracket = @ \cup {<<Last(s.brackets), i>>}]
           [] word \in {"while", "for"} -> [s EXCEPT !.pendingLoop = i]
           [] word = "do" -> Opened(s, "do", i, s.pendingLoop)
           [] word = "if" ->
                IF IsIfExpression(t, i) \/ i - 1 \in s.expressionBranches
                THEN [s EXCEPT !.ifExpressions =
                        Append(@, [wants |-> "then", blockDepth |-> Len(s.stack),
                                   bracketDepth |-> Len(s.brackets)])]
                ELSE Opened(s, "if", i, 0)
           [] word \in {"then", "elseif", "else"} -> BranchWord(s, i, word)
           [] word \in {"function", "repeat"} -> Opened(s, word, i, 0)
           [] word = "end" -> Closed(s, i, FALSE)
           [] word = "until" -> Closed(s, i, TRUE)
           [] OTHER -> s

AnalyseStructure(t) ==
    LET s == FoldLeft(LAMBDA a, i : ScanToken(t, a, i), FreshScan, [i \in DOMAIN t |-> i])
        own(i) == {b \in DOMAIN s.blocks : i \in {s.blocks[b].open, s.blocks[b].close}}
    IN  IF s.error \/ s.ifExpressions # <<>> \/ s.brackets # <<>> \/ s.stack # <<>> THEN Refuse(s)
        ELSE [s EXCEPT !.innermost = [i \in DOMAIN t |-> IF own(i) # {} THEN Max(own(i)) ELSE @[i]]]

(* blockAt, enclosingBlocks (innermost first), enclosingFunction and       *)
(* enclosingLoop; 0 where the code answers null.                           *)
BlockAt(st, i) == st.innermost[i]
RECURSIVE Outwards(_, _)
Outwards(st, b) == IF b = 0 THEN <<>> ELSE <<b>> \o Outwards(st, st.blocks[b].parent)
EnclosingBlocks(st, i) == Outwards(st, BlockAt(st, i))
FirstOf(st, i, Test(_)) ==
    LET found == SelectSeq(EnclosingBlocks(st, i), LAMBDA b : Test(st.blocks[b]))
    IN  IF found = <<>> THEN 0 ELSE Head(found)
IsLoop(block) == block.kind = "repeat" \/ block.loop # 0
EnclosingFunction(st, i) == FirstOf(st, i, LAMBDA block : block.kind = "function")
EnclosingLoop(st, i) == FirstOf(st, i, IsLoop)

-----------------------------------------------------------------------------
(* query.ts *)
MatchOf(st, i) ==
    LET pairs == {p \in st.bracket : i \in {p[1], p[2]}}
    IN  IF pairs = {} THEN 0
        ELSE LET p == CHOOSE q \in pairs : TRUE IN IF p[1] = i THEN p[2] ELSE p[1]
OpensGroup(st, i) == MatchOf(st, i) > i

(* isDeclaredName: is the name at i one that a local statement or a        *)
(* parameter list introduces?                                              *)
DeclarationListOps == {",", ":", ".", "?", "|", "->", "<", ">"}
RECURSIVE BeforeParameters(_, _)
BeforeParameters(t, j) ==
    IF j > 0 /\ (IsNameAt(t, j) \/ t[j] \in DeclarationListOps) THEN BeforeParameters(t, j - 1) ELSE j
RECURSIVE InDeclarationList(_, _, _)
InDeclarationList(t, i, sawSeparator) ==
    /\ i > 0
    /\ CASE t[i] = "local" -> TRUE
         [] t[i] = "(" -> Is(t, BeforeParameters(t, i - 1), "function")
         [] t[i] \in DeclarationListOps -> InDeclarationList(t, i - 1, TRUE)
         [] IsNameAt(t, i) -> sawSeparator /\ InDeclarationList(t, i - 1, FALSE)
         [] OTHER -> FALSE
IsDeclaredName(t, i) ==
    IsOne(t, i - 1, {"local", "function"}) \/ InDeclarationList(t, i - 1, FALSE)

IsGlobalReference(t, i, name) ==
    /\ Is(t, i, name) /\ ~IsMemberAccess(t, i) /\ ~IsDeclaredName(t, i) /\ ~Is(t, i + 1, "=")

IsCalled(t, i) == IsOne(t, i + 1, {"(", "{"} \cup Strings)

IsRecognisedYieldCall(t, i) ==
    /\ IsCalled(t, i)
    /\ \/ Is(t, i, "wait") /\ (IsMemberAccess(t, i) => Is(t, i - 2, "task"))
       \/ Is(t, i, "Wait") /\ Is(t, i - 1, ":")
       \/ Is(t, i, "yield") /\ Is(t, i - 1, ".") /\ Is(t, i - 2, "coroutine")

(* waitDefinitions: the function keyword of every Wait the script defines. *)
RECURSIVE PathStart(_, _)
PathStart(t, i) == IF i > 2 /\ IsMemberAccess(t, i) THEN PathStart(t, i - 2) ELSE i
WaitDefinitions(t) ==
    {PathStart(t, i) - 1 : i \in {j \in DOMAIN t : Is(t, j, "Wait")
                                                   /\ Is(t, PathStart(t, j) - 1, "function")}}
    \cup {i + 2 : i \in {j \in DOMAIN t : Is(t, j, "Wait") /\ Is(t, j + 1, "=")
                                          /\ Is(t, j + 2, "function")}}
BodyStart(t, st, b) ==
    LET parens == {i \in st.blocks[b].open + 1 .. st.blocks[b].close - 1 : t[i] = "("}
    IN  IF parens = {} THEN st.blocks[b].open + 1 ELSE MatchOf(st, Min(parens)) + 1
DefinesUnyieldingWait(t, st) ==
    \E at \in WaitDefinitions(t) :
       LET b == BlockAt(st, at)
       IN  \/ b = 0 \/ st.blocks[b].kind # "function" \/ st.blocks[b].open # at
           \/ \A i \in BodyStart(t, st, b) .. st.blocks[b].close - 1 : ~IsRecognisedYieldCall(t, i)
IsYieldCall(t, st, i) ==
    IsRecognisedYieldCall(t, i) /\ (t[i] = "Wait" => ~DefinesUnyieldingWait(t, st))

(* inlineHandlerBlock: the function literal passed straight to a call.     *)
InlineHandlerBlock(t, st, i) ==
    IF Is(t, i + 1, "(") /\ Is(t, i + 2, "function") THEN BlockAt(st, i + 2) ELSE 0

(* The edges of an operand. *)
EndsOperand(t, i) ==
    IsNameAt(t, i) \/ IsOne(t, i, Strings \cup Numbers \cup Closers
                                   \cup {"nil", "true", "false", "end", "..."})
StartsOperand(t, i) ==
    IsNameAt(t, i) \/ IsOne(t, i, Strings \cup Numbers
                                   \cup {"nil", "true", "false", "function", "(", "{", "..."})
BinaryOperators == {"-", "..", "==", "<", ">", "and", "or"}
PrefixOperators == {"-", "#", "not"}

(* endOfExpression, exclusive: operands and operators take turns. *)
RECURSIVE EndOfExpression(_, _, _, _)
EndOfExpression(t, st, i, wantOperand) ==
    LET on(j, want) == EndOfExpression(t, st, j, want)
        b == BlockAt(st, i)
    IN
    CASE i > Len(t) -> i
      [] i <= Len(t) /\ wantOperand ->
            CASE t[i] \in PrefixOperators -> on(i + 1, TRUE)
              [] OpensGroup(st, i) -> on(MatchOf(st, i) + 1, FALSE)
              [] t[i] = "function" -> IF b = 0 \/ st.blocks[b].open # i THEN i
                                      ELSE on(st.blocks[b].close + 1, FALSE)
              [] OTHER -> IF StartsOperand(t, i) THEN on(i + 1, FALSE) ELSE i
      [] i <= Len(t) /\ ~wantOperand ->
            CASE OpensGroup(st, i) -> on(MatchOf(st, i) + 1, FALSE)
              [] t[i] \in Strings -> on(i + 1, FALSE)
              [] t[i] \in BinaryOperators \cup {".", ":"} -> on(i + 1, TRUE)
              [] OTHER -> i

(* startOfPrefixExpression: the first token of the chain that ends at i.   *)
RECURSIVE StartOfPrefixExpression(_, _, _)
StartOfPrefixExpression(t, st, i) ==
    LET opener == MatchOf(st, i)
    IN  CASE i <= 1 -> 1
          [] i > 1 /\ opener \in 1 .. i - 1 ->
                IF EndsOperand(t, opener - 1) THEN StartOfPrefixExpression(t, st, opener - 1)
                ELSE opener
          [] i > 1 /\ opener \notin 1 .. i - 1 ->
                IF (IsNameAt(t, i) \/ t[i] \in Strings) /\ IsMemberAccess(t, i)
                THEN StartOfPrefixExpression(t, st, i - 2) ELSE i

(* startOfValue: operands right to left, each with its prefix operators;   *)
(* start is the first token of what has been read.                         *)
RECURSIVE StartOfValue(_, _, _, _)
StartOfValue(t, st, i, start) ==
    LET b == BlockAt(st, i)
        operand == CASE Is(t, i, "end") -> IF st.blocks[b].close = i THEN st.blocks[b].open ELSE 0
                     [] EndsOperand(t, i) /\ ~Is(t, i, "end") -> StartOfPrefixExpression(t, st, i)
                     [] OTHER -> 0
        first == Min({n \in 1 .. operand : \A k \in n .. operand - 1 : t[k] \in PrefixOperators})
    IN  IF i < 1 \/ operand = 0 THEN start
        ELSE IF IsOne(t, first - 1, BinaryOperators) THEN StartOfValue(t, st, first - 2, first)
        ELSE first

(* startOfTargetList: back from `=' to where two operands would touch.     *)
TargetListOps == {",", ":", ".", "?", "|", "->", "<", ">"}
RECURSIVE StartOfTargetList(_, _, _)
StartOfTargetList(t, st, start) ==
    LET i == start - 1
        opener == MatchOf(st, i)
        grouped == opener \in 1 .. i - 1
        acceptable == grouped \/ IsNameAt(t, i) \/ IsOne(t, i, Strings \cup Numbers \cup TargetListOps
                                                             \cup {"nil", "true", "false"})
    IN  IF i < 1 \/ ~acceptable \/ (EndsOperand(t, i) /\ StartsOperand(t, start)) THEN start
        ELSE StartOfTargetList(t, st, IF grouped THEN opener ELSE i)

(* splitArguments and splitTargets: the ranges between the commas of       *)
(* from .. end - 1 that no bracket in that range encloses.                 *)
SplitAtCommas(t, st, from, end) ==
    LET commas == {i \in from .. end - 1 :
                     /\ t[i] = ","
                     /\ ~\E p \in st.bracket : from <= p[1] /\ p[1] < i /\ i < p[2]}
        edges == SetToSortSeq(commas \cup {from - 1, end}, <)
        ranges == [k \in 1 .. Len(edges) - 1 |-> [start |-> edges[k] + 1, end |-> edges[k + 1]]]
    IN  IF ranges[Len(ranges)].start = end THEN Front(ranges) ELSE ranges

(* targetName: the position of the name a target binds, 0 for t[k].        *)
RECURSIVE LastField(_, _, _)
LastField(t, i, end) ==
    IF i + 1 < end /\ Is(t, i + 1, ".")
    THEN IF IsNameAt(t, i + 2) THEN LastField(t, i + 2, end) ELSE 0
    ELSE i
TargetName(t, start, end) == IF IsNameAt(t, start) THEN LastField(t, start, end) ELSE 0

ContinuesValue(t, st, i) ==
    OpensGroup(st, i) \/ IsOne(t, i, Strings \cup BinaryOperators \cup {".", ":"})

(* bindingOf: the position of the name bound to the value start .. end, 0  *)
(* if it is not one whole slot of an assignment.                           *)
RECURSIVE EqualsAndSlot(_, _, _, _)
EqualsAndSlot(t, st, i, slot) ==
    CASE Is(t, i, "=") -> [equals |-> i, slot |-> slot]
      [] Is(t, i, ",") ->
            LET previous == StartOfValue(t, st, i - 1, i)
            IN  IF previous > i - 1 THEN [equals |-> 0, slot |-> 0]
                ELSE EqualsAndSlot(t, st, previous - 1, slot + 1)
      [] OTHER -> [equals |-> 0, slot |-> 0]
BindingOf(t, st, start, end) ==
    LET found == EqualsAndSlot(t, st, start - 1, 1)
        targets == SplitAtCommas(t, st, StartOfTargetList(t, st, found.equals), found.equals)
    IN  IF ContinuesValue(t, st, end + 1) \/ found.equals = 0 \/ found.slot > Len(targets) THEN 0
        ELSE TargetName(t, targets[found.slot].start, targets[found.slot].end)
=============================================================================
