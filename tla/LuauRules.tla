------------------------------ MODULE LuauRules -----------------------------
(***************************************************************************)
(* The rules of the Luau analysis over what LuauSyntax reads.  A script is *)
(* derived from the grammar, symbol by symbol, by someone who knows what   *)
(* each symbol is: which `if' is a statement, what is dead code, whose     *)
(* `break' this is.  The rules see only the tokens.  `draft' holds that    *)
(* knowledge; when the script is finished the rules must have come to it.  *)
(***************************************************************************)
EXTENDS LuauSyntax, Tokenizer

CONSTANTS
    MaxTokens,   \* the analyser's token ceiling
    Dialects     \* bound: {[name, budget]}, the scripts explored

VARIABLES
    dialect,      \* the member of Dialects the script is written in
    derivation,   \* the symbols still to be written, and what they may cost
    draft         \* the tokens, and what their author means by them

luauVars == <<dialect, derivation, draft>>

-----------------------------------------------------------------------------
(* The rules: loops.ts. *)

(* staticTruthiness of start .. end - 1: literal or not, brackets aside.   *)
RECURSIVE StaticTruthiness(_, _, _, _)
StaticTruthiness(t, st, start, end) ==
    CASE end - start >= 2 /\ Is(t, start, "(") /\ MatchOf(st, start) = end - 1 ->
            StaticTruthiness(t, st, start + 1, end - 1)
      [] end - start = 1 /\ t[start] \in {"true"} \cup Numbers \cup Strings -> "yes"
      [] end - start = 1 /\ t[start] \in {"false", "nil"} -> "no"
      [] OTHER -> "maybe"

LoopKeyword(block) == IF block.kind = "repeat" THEN block.open ELSE block.loop

IsUnconditional(t, st, block) ==
    IF block.kind = "repeat"
    THEN LET start == block.close + 1
         IN  StaticTruthiness(t, st, start, EndOfExpression(t, st, start, TRUE)) = "no"
    ELSE StaticTruthiness(t, st, block.loop + 1, block.open) = "yes"

IsNeverEnteredLoop(t, st, block) ==
    block.kind = "do" /\ block.loop # 0
    /\ StaticTruthiness(t, st, block.loop + 1, block.open) = "no"

(* ifArms: the arms of an if block in order, each with its condition;      *)
(* branch words of an if-expression inside it start no arm.                *)
IfArms(t, st, b) ==
    LET block == st.blocks[b]
        marks == SetToSortSeq({i \in block.open + 1 .. block.close - 1 :
                                 /\ BlockAt(st, i) = b /\ i \notin st.expressionBranches
                                 /\ t[i] \in {"then", "elseif", "else"}}, <)
        bodies == SelectSeq([m \in DOMAIN marks |-> m], LAMBDA m : t[marks[m]] # "elseif")
        until(m) == IF m = Len(marks) THEN block.close ELSE marks[m + 1]
        condition(m) == IF t[marks[m]] = "else" THEN "else"
                        ELSE StaticTruthiness(t, st, (IF m = 1 THEN block.open ELSE marks[m - 1]) + 1,
                                              marks[m])
    IN  [k \in DOMAIN bodies |-> [start |-> marks[bodies[k]] + 1, end |-> until(bodies[k]),
                                  condition |-> condition(bodies[k])]]

DeadArm(arms, k) ==
    arms[k].condition = "no" \/ \E earlier \in 1 .. k - 1 : arms[earlier].condition = "yes"

(* inDeadBranch: is token i somewhere in the loop that never runs?         *)
InDeadBranchFirstArm(t, st, i, loop) ==
    LET chain == EnclosingBlocks(st, i)
        inside == {chain[k] : k \in {n \in DOMAIN chain : \A m \in 1 .. n : chain[m] # loop}}
    IN  \E b \in inside :
          \/ IsNeverEnteredLoop(t, st, st.blocks[b])
          \/ /\ st.blocks[b].kind = "if"
             /\ LET arms == IfArms(t, st, b)
                IN  \E k \in DOMAIN arms : i \in arms[k].start .. arms[k].end - 1
                                           /\ arms[k].condition = "no"
InDeadBranch(t, st, i, loop) ==
    LET chain == EnclosingBlocks(st, i)
        inside == {chain[k] : k \in {n \in DOMAIN chain : \A m \in 1 .. n : chain[m] # loop}}
    IN  \E b \in inside :
          \/ IsNeverEnteredLoop(t, st, st.blocks[b])
          \/ /\ st.blocks[b].kind = "if"
             /\ LET arms == IfArms(t, st, b)
                IN  \E k \in DOMAIN arms : i \in arms[k].start .. arms[k].end - 1 /\ DeadArm(arms, k)

(* describeLoop: can anything in its body that runs on its own thread give *)
(* the scheduler a turn or leave it?                                       *)
Escapes(t, st, b) ==
    LET block == st.blocks[b]
        own == EnclosingFunction(st, LoopKeyword(block))
    IN  \E i \in block.open + 1 .. block.close - 1 :
          /\ \/ IsYieldCall(t, st, i)
             \/ t[i] = "break" /\ EnclosingLoop(st, i) = b
             \/ t[i] = "return"
          /\ EnclosingFunction(st, i) = own
          /\ ~InDeadBranch(t, st, i, b)

WhileTrueNoYield(t, st) ==
    {LoopKeyword(st.blocks[b]) : b \in
        {c \in DOMAIN st.blocks : /\ IsLoop(st.blocks[c]) /\ IsUnconditional(t, st, st.blocks[c])
                                  /\ ~Escapes(t, st, c)}}

(* perFrameSignalNames, serverEventNames: names bound to a signal, by dot  *)
(* or bracket.                                                             *)
Quoted == [Heartbeat |-> "'Heartbeat'", OnServerEvent |-> "'OnServerEvent'"]
SignalAt(t, i, signal) ==
    \/ Is(t, i, signal) /\ Is(t, i - 1, ".")
    \/ Is(t, i - 1, Quoted[signal]) /\ Is(t, i - 2, "[") /\ Is(t, i, "]")
NamesBoundTo(t, st, signal) ==
    {t[n] : n \in {BindingOf(t, st, StartOfPrefixExpression(t, st, i), i) :
                     i \in {j \in DOMAIN t : SignalAt(t, j, signal)}} \ {0}}

(* perFrameSignalBefore, isServerEvent: is the receiver of the Connect at  *)
(* i that signal?                                                          *)
ConnectsTo(t, st, i, signal) ==
    /\ Is(t, i, "Connect") /\ Is(t, i - 1, ":")
    /\ \/ SignalAt(t, i - 2, signal)
       \/ /\ IsNameAt(t, i - 2) /\ ~IsMemberAccess(t, i - 2)
          /\ t[i - 2] \in NamesBoundTo(t, st, signal)
Handlers(t, st, signal) ==
    {InlineHandlerBlock(t, st, i) : i \in {j \in DOMAIN t : ConnectsTo(t, st, j, signal)}} \ {0}

UnboundedHeartbeat(t, st) ==
    {[at |-> LoopKeyword(st.blocks[b]), escapes |-> Escapes(t, st, b)] : b \in
        {c \in DOMAIN st.blocks :
           /\ IsLoop(st.blocks[c]) /\ t[LoopKeyword(st.blocks[c])] # "for"
           /\ \E h \in Handlers(t, st, "Heartbeat") :
                 /\ st.blocks[h].open < st.blocks[c].open /\ st.blocks[c].close < st.blocks[h].close
                 /\ EnclosingFunction(st, LoopKeyword(st.blocks[c])) = h}}

(* globals.ts: deprecatedWaitSpawn reports calls of the global. *)
DeprecatedWaitSpawn(t) ==
    {i \in DOMAIN t : IsGlobalReference(t, i, "wait") /\ Is(t, i + 1, "(")}

(* remote-validation.ts: findKeywordAfter, guardRanges, and the first use  *)
(* of each argument of a handler that no guard covers.                     *)
FindKeywordAfter(t, st, from, word) ==
    Min({i \in from .. Len(t) : /\ t[i] = word
                                /\ ~\E p \in st.bracket : from <= p[1] /\ p[1] < i /\ i < p[2]}
        \cup {Len(t) + 1})
Guarded(t, st, i) ==
    \E k \in 1 .. i - 1 :
       \/ t[k] \in {"if", "elseif"} /\ i < FindKeywordAfter(t, st, k + 1, "then")
       \/ t[k] = "while" /\ i < FindKeywordAfter(t, st, k + 1, "do")
       \/ t[k] = "until" /\ i < EndOfExpression(t, st, k + 1, TRUE)
       \/ t[k] = "typeof" /\ ~IsMemberAccess(t, k) /\ Is(t, k + 1, "(") /\ i < MatchOf(st, k + 1)

Parameters(t, st, open) ==
    LET paren == FindKeywordAfter(t, [st EXCEPT !.bracket = {}], open, "(")
        parts == SplitAtCommas(t, st, paren + 1, MatchOf(st, paren))
    IN  [k \in DOMAIN parts |-> t[parts[k].start]]
RemoteNoValidation(t, st) ==
    UNION {LET names == Parameters(t, st, st.blocks[h].open)
               uses(k) == {i \in BodyStart(t, st, h) .. st.blocks[h].close - 1 :
                             t[i] = names[k] /\ ~IsMemberAccess(t, i)}
           IN  {Min(uses(k)) : k \in {n \in 2 .. Len(names) :
                                        /\ uses(n) # {}
                                        /\ \A i \in uses(n) : ~Guarded(t, st, i)}}
           : h \in Handlers(t, st, "OnServerEvent")}

(* analyse and verdict: a script it could not read fails like one with an  *)
(* error in it.                                                            *)
Findings(t, st, heartbeats) ==
    IF WhileTrueNoYield(t, st) # {} \/ \E h \in heartbeats : ~h.escapes THEN "fail"
    ELSE IF heartbeats # {} \/ DeprecatedWaitSpawn(t) # {} \/ RemoteNoValidation(t, st) # {}
    THEN "warn" ELSE "ok"
Verdict(t, st) ==
    IF Len(t) > MaxTokens \/ st.error THEN "fail" ELSE Findings(t, st, UnboundedHeartbeat(t, st))
Analyse(t) == Verdict(t, AnalyseStructure(t))

-----------------------------------------------------------------------------
(* The language.  A symbol in capitals is replaced by one of its           *)
(* productions; the others are written, `=' marking a word of an           *)
(* if-expression, `*' a word that opens a loop's body, `!' a name that is  *)
(* a use of the global or of the argument, `?' a test of it; `+' symbols   *)
(* write nothing and tell what the condition before them is.               *)
Spelled == [x \in {"if=", "then=", "elseif=", "else=", "do*", "wait!", "a!", "a?", "Wait!",
                   "function~", "functionR", "functionW", "functionH",
                   "h!"} |->
              CASE x = "if=" -> "if" [] x = "then=" -> "then" [] x = "elseif=" -> "elseif"
                [] x = "else=" -> "else" [] x = "do*" -> "do" [] x = "wait!" -> "wait"
                [] x \in {"a!", "a?"} -> "a" [] x = "Wait!" -> "Wait" [] x = "h!" -> "h"
                [] OTHER -> "function"]
Verdicts == {"+yes", "+no", "+maybe"}
Capitals == {"BODY", "COND", "VALUE", "USES"}

Statements(d) ==
    (* What a script may contain: blocks and if-expressions. *)
    CASE d = "blocks" ->
        {<<"x", "(", ")">>,
         <<"local", "x", "=", "VALUE">>,
         <<"local", "x", ":", "x", "<", "x", ">">>,
         <<"local", "x", ":", "x", "?">>,
         <<"if", "COND", "then", "BODY", "end">>,
         <<"if", "COND", "then", "BODY", "else", "BODY", "end">>,
         <<"while", "COND", "do*", "BODY", "end">>,
         <<"for", "x", "in", "x", "do*", "+maybe", "BODY", "end">>,
         <<"repeat", "BODY", "until", "COND">>,
         <<"do", "BODY", "end">>}
      (* loops, and what may end them *)
      [] d = "loops" ->
        {<<"wait!", "(", ")">>,
         <<"o", ":", "Wait!", "(", ")">>,
         <<"functionW", "o", ":", "Wait", "(", ")", "BODY", "end">>,
         <<"x", "=", "function", "(", ")", "BODY", "end">>,
         <<"if", "COND", "then", "BODY", "else", "BODY", "end">>,
         <<"if", "true", "+yes", "then", "elseif", "x", "+maybe", "then", "BODY", "end">>,
         <<"while", "COND", "do*", "BODY", "end">>,
         <<"repeat", "BODY", "until", "COND">>}
      (* handlers that run once a frame *)
      [] d = "frames" ->
        {<<"x", ".", "Heartbeat", ":", "Connect", "(", "function~", "(", ")", "BODY", "end", ")">>,
         <<"x", "[", "'Heartbeat'", "]", ":", "Connect", "(", "function~", "(", ")", "BODY", "end",
           ")">>,
         <<"x", ".", "x", ":", "Connect", "(", "function", "(", ")", "BODY", "end", ")">>,
         <<"wait!", "(", ")">>,
         <<"while", "COND", "do*", "BODY", "end">>,
         <<"repeat", "BODY", "until", "COND">>}
      (* names: what declares one and what refers to the global *)
      [] d = "names" ->
        {<<"wait!", "(", ")">>, <<"x", "(", "x", ",", "wait!", "(", ")", ")">>,
         <<"local", "x", "=", "x", ",", "wait!", "(", ")">>,
         <<"local", "wait">>, <<"local", "x">>, <<"local", "x", ",", "wait", "=", "x">>,
         <<"local", "x", ":", "x">>, <<"local", "x", ":", "x", ",", "wait", ":", "x", "=", "x">>,
         <<"local", "x", ":", "x", "?">>, <<"local", "x", ":", "x", "<", "x", ">">>,
         <<"x", ".", "wait", "(", ")">>, <<"x", "=", "{", "wait", "=", "x", "}">>,
         <<"function", "x", "(", "x", ",", "wait", ")", "BODY", "end">>,
         <<"x", "=", "function", "(", "x", ",", "wait", ")", "BODY", "end">>}
      (* signals: handlers, what they are bound to, what they check *)
      [] d = "signals" ->
        {<<"local", "h!", "=", "x", ".", "OnServerEvent">>,
         <<"local", "h!", ":", "x", "=", "x", "[", "'OnServerEvent'", "]">>,
         <<"local", "x", ",", "h!", "=", "VALUE", ",", "x", "(", ")", ".", "OnServerEvent">>,
         <<"x", ".", "h!", "=", "x", ".", "x", ".", "OnServerEvent">>,
         <<"local", "h", "=", "x", ".", "OnServerEvent", ".", "x">>,
         <<"local", "h", ",", "x", "=", "x", ",", "x", ".", "OnServerEvent">>,
         <<"local", "h", "=", "x", "(", "x", ".", "OnServerEvent", ")">>,
         <<"x", ".", "OnServerEvent", ":", "Connect", "(",
           "functionR", "(", "x", ",", "a", ")", "USES", "end", ")">>,
         <<"h", ":", "Connect", "(", "functionH", "(", "x", ",", "a", ")", "USES", "end", ")">>,
         <<"x", ".", "h", ":", "Connect", "(", "function", "(", "x", ",", "a", ")", "USES", "end",
           ")">>}

(* What may only end a block: a break where there is a loop to leave. *)
LastStatements(d) ==
    CASE d = "blocks" -> {<<"return", "VALUE">>}
      [] d = "loops" -> {<<"return">>, <<"break">>}
      [] OTHER -> {}

Productions(d, symbol) ==
    CASE symbol = "BODY" -> {s \o <<"BODY">> : s \in Statements(d)} \cup LastStatements(d)
      [] symbol = "COND" ->
            IF d = "loops" THEN {<<"(", "true", ")", "+yes">>, <<"false", "+no">>}
            ELSE {<<"if=", "x", "then=", "true", "else=", "false", "+maybe">>}
      [] symbol = "VALUE" ->
            {<<"function", "(", ")", "BODY", "end">>, <<"x", "(", "x", ",", "x", ")">>,
             <<"-", "x", "..", "2">>}
            \cup IF d # "blocks" THEN {}
                 ELSE {<<"if=", "x", "then=", "VALUE", "else=", "VALUE">>,
                       <<"if=", "x", "then=", "x", "elseif=", "VALUE", "then=", "x", "else=", "x">>,
                       <<"x", ">", "if=", "x", "then=", "x", "else=", "x">>}
      [] symbol = "USES" ->
            {<<"x", "(", "a!", ")", "USES">>, <<"x", ".", "a", "(", ")", "USES">>,
             <<"if", "a?", "then", "USES", "end", "USES">>,
             <<"repeat", "x", "(", ")", "until", "x", "+maybe", "USES">>,
             <<"repeat", "x", "(", ")", "until", "a?", "+maybe", "USES">>,
             <<"typeof", "(", "a?", ")", "USES">>}
(* What a symbol may always be replaced by. *)
Plain(symbol) ==
    CASE symbol \in {"BODY", "USES"} -> <<>> [] symbol = "COND" -> <<"x", "+maybe">>
      [] symbol = "VALUE" -> <<"x">>

-----------------------------------------------------------------------------
(* What the author means.  A frame is a block not yet closed: `dead' while *)
(* its current arm never runs, `certain' once an earlier arm always does,  *)
(* `escapes' (and `waits', by a Wait method) once a live statement of it   *)
(* yields or leaves.                                                       *)
FreshText ==
    [tokens |-> <<>>, frames |-> <<>>, blocks |-> {}, loops |-> {}, globals |-> {}, branches |-> {},
     unyielding |-> FALSE, bound |-> FALSE, handlers |-> {}]

OpenFrame(kind, open) ==
    [kind |-> kind, open |-> open, close |-> 0, loop |-> 0, cond |-> "+maybe", dead |-> FALSE, certain |-> FALSE,
     escapes |-> FALSE, waits |-> FALSE, yields |-> FALSE, use |-> 0, tested |-> FALSE]

IsFunction(frame) == frame.kind \in {"function", "function~", "functionW", "functionR", "functionH"}
IsLoopFrame(frame) == frame.kind \in {"repeat", "loop"}

(* The loops a live statement at this place runs in, on their own thread.  *)
LoopsAround(frames) ==
    {k \in DOMAIN frames :
       /\ IsLoopFrame(frames[k])
       /\ \A j \in k + 1 .. Len(frames) : ~IsFunction(frames[j]) /\ ~frames[j].dead}
InnerLoop(frames) == {k \in LoopsAround(frames) : \A j \in k + 1 .. Len(frames) : ~IsLoopFrame(frames[j])}
OnFrames(w, ks, Change(_)) ==
    [w EXCEPT !.frames = [k \in DOMAIN @ |-> IF k \in ks THEN Change(@[k]) ELSE @[k]]]
WaitBodies(frames) == {k \in DOMAIN frames : frames[k].kind = "functionW"}
HandlerBodies(frames) == {k \in DOMAIN frames : frames[k].kind \in {"functionR", "functionH"}}

(* The innermost block ends at position close. *)
ClosesFrame(w, close) ==
    LET frame == Last(w.frames)
        outer == Front(w.frames)
        functions == {k \in DOMAIN outer : IsFunction(outer[k])}
        kind == CASE IsFunction(frame) -> "function" [] frame.kind = "loop" -> "do" [] OTHER -> frame.kind
    IN  [w EXCEPT
          !.frames = outer,
          !.blocks = @ \cup {[kind |-> kind, open |-> frame.open, close |-> close, loop |-> frame.loop]},
          !.loops = IF ~IsLoopFrame(frame) THEN @
                    ELSE @ \cup {[at |-> IF frame.kind = "loop" THEN frame.loop ELSE frame.open,
                                  forever |-> frame.cond = (IF frame.kind = "loop" THEN "+yes" ELSE "+no"),
                                  escapes |-> frame.escapes, waits |-> frame.waits,
                                  perFrame |-> functions # {} /\ outer[Max(functions)].kind = "function~"]},
          !.unyielding = @ \/ (frame.kind = "functionW" /\ ~frame.yields),
          !.handlers = IF frame.kind \in {"functionR", "functionH"} /\ frame.use # 0 /\ ~frame.tested
                       THEN @ \cup {[by |-> frame.kind, use |-> frame.use]} ELSE @]

(* One more symbol is written. *)
Writes(before, s) ==
    LET p == Len(before.tokens) + 1
        w == IF s \in Verdicts THEN before
             ELSE [before EXCEPT !.tokens = Append(@, IF s \in DOMAIN Spelled THEN Spelled[s] ELSE s)]
        n == Len(w.frames)
        top == Last(w.frames)
        push(frame) == [w EXCEPT !.frames = Append(@, frame)]
        arm(dead) == [w EXCEPT !.frames[n].dead = dead, !.frames[n].certain = @ \/ top.cond = "+yes",
                               !.frames[n].cond = "+maybe"]
        wait == OnFrames(w, WaitBodies(w.frames), LAMBDA f : [f EXCEPT !.yields = TRUE])
    IN
    CASE s \in {"while", "for"} -> push(OpenFrame("head", p))
      [] s = "do*" -> [w EXCEPT !.frames[n] = [@ EXCEPT !.kind = "loop", !.open = p, !.loop = top.open,
                                                       !.dead = top.cond = "+no"]]
      [] s \in {"do", "if", "repeat", "function", "function~", "functionW", "functionR", "functionH"} ->
            push(OpenFrame(s, p))
      [] s = "then" -> arm(top.certain \/ top.cond = "+no")
      [] s = "elseif" -> [w EXCEPT !.frames[n].dead = FALSE]
      [] s = "else" -> arm(top.certain)
      [] s = "end" -> ClosesFrame(w, p)
      [] s = "until" -> [w EXCEPT !.frames[n].close = p]
      [] s \in Verdicts -> IF top.close = 0 THEN [w EXCEPT !.frames[n].cond = s]
                           ELSE ClosesFrame([w EXCEPT !.frames[n].cond = s], top.close)
      [] s \in {"then=", "elseif=", "else="} -> [w EXCEPT !.branches = @ \cup {p}]
      [] s = "wait!" -> [OnFrames(wait, LoopsAround(w.frames), LAMBDA f : [f EXCEPT !.escapes = TRUE])
                          EXCEPT !.globals = @ \cup {p}]
      [] s = "Wait!" -> OnFrames(wait, LoopsAround(w.frames), LAMBDA f : [f EXCEPT !.waits = TRUE])
      [] s = "return" -> OnFrames(w, LoopsAround(w.frames), LAMBDA f : [f EXCEPT !.escapes = TRUE])
      [] s = "break" -> OnFrames(w, InnerLoop(w.frames), LAMBDA f : [f EXCEPT !.escapes = TRUE])
      [] s = "h!" -> [w EXCEPT !.bound = TRUE]
      [] s \in {"a!", "a?"} ->
            OnFrames(w, HandlerBodies(w.frames),
                     LAMBDA f : [f EXCEPT !.use = IF @ = 0 THEN p ELSE @, !.tested = @ \/ s = "a?"])
      [] OTHER -> w

-----------------------------------------------------------------------------
(* Writes what of the symbols needs no choice. *)
Written(w, symbols) ==
    LET choices == {k \in DOMAIN symbols : symbols[k] \in Capitals}
        now == IF choices = {} THEN Len(symbols) ELSE Min(choices) - 1
    IN  [written |-> FoldLeft(Writes, w, SubSeq(symbols, 1, now)),
         rest |-> SubSeq(symbols, now + 1, Len(symbols))]

LuauInit ==
    /\ dialect \in Dialects
    /\ derivation = [symbols |-> <<"BODY">>, budget |-> dialect.budget]
    /\ draft = FreshText

CanBreak(frames) ==
    \E k \in DOMAIN frames : IsLoopFrame(frames[k]) /\ \A j \in k + 1 .. Len(frames) : ~IsFunction(frames[j])

Replace(production, cost) ==
    LET next == Written(draft, production \o Tail(derivation.symbols))
    IN  /\ derivation.budget >= cost
        /\ production = <<"break">> => CanBreak(draft.frames)
        /\ draft' = next.written
        /\ derivation' = [symbols |-> next.rest, budget |-> derivation.budget - cost]
        /\ UNCHANGED dialect

LuauNext ==
    /\ derivation.symbols # <<>>
    /\ \/ Replace(Plain(Head(derivation.symbols)), 0)
       \/ \E p \in Productions(dialect.name, Head(derivation.symbols)) :
             Replace(p, IF Head(derivation.symbols) = "COND" THEN 0 ELSE 1)

(* What the author knows to be wrong with the script. *)
Leaves(l) == l.escapes \/ (l.waits /\ ~draft.unyielding)
Hanging == {l \in draft.loops : l.forever /\ ~Leaves(l)}
PerFrame == {l \in draft.loops : l.perFrame}
Untested == {h.use : h \in {k \in draft.handlers : k.by = "functionR" \/ draft.bound}}

(* The calls of the global that the walk of isDeclaredName takes for one   *)
(* more name of the declaration before them: the statement boundary it     *)
(* looks for is two names in a row, and the annotation ended in `?' or     *)
(* `>', which it takes for separators.                                     *)
TakenForDeclared ==
    {p \in draft.globals : p > 1 /\ draft.tokens[p - 1] \in {"?", ">"}}

(* What the rules find in the tokens t of structure st is what the author  *)
(* knows of them.                                                          *)
FoundAsMeant(t, st) ==
    /\ ~st.error
    /\ {[kind |-> b.kind, open |-> b.open, close |-> b.close, loop |-> b.loop] :
          b \in Range(st.blocks)} = draft.blocks
    /\ st.expressionBranches = draft.branches
    /\ WhileTrueNoYield(t, st) = {l.at : l \in Hanging}
    /\ UnboundedHeartbeat(t, st) = {[at |-> l.at, escapes |-> Leaves(l)] : l \in PerFrame}
    /\ DeprecatedWaitSpawn(t) = draft.globals \ TakenForDeclared
    /\ RemoteNoValidation(t, st) = Untested

(* Over a finished script the analysis finds exactly the blocks and the    *)
(* if-expressions its author wrote, and from them exactly the loops that   *)
(* hang, the handlers that hold up a frame, the calls of the deprecated    *)
(* global and the arguments of a remote that nobody tested.  Missed are    *)
(* the calls right after a declaration whose annotation ends in `?' or     *)
(* `>', and no others, although isDeclaredName means to stop at the end of *)
(* the statement.  A script too long, or one that breaks off inside a      *)
(* block, never passes.                                                    *)
RulesAreExact ==
    /\ derivation.symbols = <<>> =>
          FoundAsMeant(draft.tokens, AnalyseStructure(draft.tokens))
    /\ \/ Len(draft.tokens) > MaxTokens
       \/ \E k \in DOMAIN draft.frames : draft.frames[k].kind # "head" /\ draft.frames[k].close = 0
       => Analyse(draft.tokens) = "fail"

(* A script is read as the language reads it, and judged as its author     *)
(* would (tokenize, analyseStructure, the rules).                          *)
AnalysisIsExact == LexIsExact /\ RulesAreExact
=============================================================================
