------------------------------- MODULE Review -------------------------------
(***************************************************************************)
(* What a person is shown of a ChangeSet and what is let through without   *)
(* one: the predicates of the protocol (operation.ts), the daemon's own    *)
(* verdict and diff (server.ts), and their restatement in the plugin, which*)
(* cannot import them (Approve.luau, Diff.luau).                           *)
(*                                                                         *)
(* An operation has a property bag: a setProperty writes its one property, *)
(* a createInstance all of them, a writeScript its Source.  A value is a   *)
(* source text (named by what the analyser finds in it), a boolean, a      *)
(* reference to an instance or something else.  Paths are sequences of     *)
(* names; a source is a sequence of characters.  What stands in the place  *)
(* where an operation points decides what the panel says of it.            *)
(***************************************************************************)
EXTENDS Integers, Sequences, FiniteSets, SequencesExt

CONSTANTS
    Reviewable,     \* the operations ChangeSets are made of
    Policies,       \* the plugin's settings: autoApply, scope (<<>>: none)
    TextLines,      \* the lines of every named source text
    Standings,      \* what may stand at the paths: Nothing, Other or a text
    MaxReviewed,    \* bound: operations in a set
    MaxFindings,    \* findings the protocol carries
    PreviewLines,   \* lines of a source the plugin shows
    MaxSource       \* bound: characters of a script

VARIABLES
    reviewed,       \* the operations of the set
    shown,          \* what the panel shows of it, or NotShown
    was, becomes    \* the source a writeScript replaces, and the new one

reviewVars == <<reviewed, shown, was, becomes>>

NotShown == [offered |-> FALSE, blockers |-> {}, order |-> <<>>, printed |-> <<>>]
Nothing == "nothing"    \* ctx.resolve finds no instance
Other == "other"        \* an instance that is no script
ReportedVerdicts == {"absent", "ok", "warn", "luau fail", "policy fail"}

-----------------------------------------------------------------------------
(* The protocol's questions about an operation *)

Refs(o) == {o.bag[p].path : p \in {q \in DOMAIN o.bag : o.bag[q].t = "InstanceRef"}}

PathsOf(o) ==
    {o.path} \cup (IF o.op = "moveInstance" THEN {o.to} ELSE {})
      \cup (IF o.op \in {"setProperty", "createInstance"} THEN Refs(o) ELSE {})

CarriesLuauSource(o) ==
    \/ o.op = "writeScript"
    \/ o.op \in {"setProperty", "createInstance"} /\ "Source" \in DOMAIN o.bag

(* The text at Source, or None: only a String is readable. *)
SourceTextOf(o) ==
    IF CarriesLuauSource(o) /\ o.bag["Source"].t = "String"
    THEN {o.bag["Source"].v} ELSE {}

ActivatesExistingCode(o) ==
    o.op = "setProperty" /\ DOMAIN o.bag \cap {"Disabled", "RunContext", "Enabled"} # {}

IsDestructive(o) == o.op \in {"deleteInstance", "moveInstance"}

-----------------------------------------------------------------------------
(* The daemon's verdict and diff *)

(* The analyser on one source: its status, and how many findings. *)
Analysed(text) ==
    CASE text = "clean" -> [status |-> "ok", findings |-> 0]
      [] text = "suspect" -> [status |-> "warn", findings |-> 1]
      [] text = "unsafe" -> [status |-> "fail", findings |-> 2]

Worsen(status, next) ==
    IF next = "fail" \/ (next = "warn" /\ status = "ok") THEN next ELSE status

(* Code that is not readable text was not analysed, which is a failure. *)
OperationVerdict(o) ==
    IF ~CarriesLuauSource(o) THEN [status |-> "ok", findings |-> 0]
    ELSE IF SourceTextOf(o) = {} THEN [status |-> "fail", findings |-> 1]
    ELSE Analysed(CHOOSE t \in SourceTextOf(o) : TRUE)

(* luauVerdict: the worst of the operations'; past the cap the findings    *)
(* are cut and the last slot says so.                                      *)
LuauVerdict(ops) ==
    LET sum(v, o) == [status |-> Worsen(v.status, OperationVerdict(o).status),
                      findings |-> v.findings + OperationVerdict(o).findings]
        all == FoldLeft(sum, [status |-> "ok", findings |-> 0], ops)
    IN  [status |-> all.status,
         findings |-> IF all.findings > MaxFindings THEN MaxFindings ELSE all.findings,
         truncated |-> all.findings > MaxFindings]

(* luauAnalyserFor: the port the pipeline calls with the readable sources. *)
AnalyserPort(ops) ==
    LET readable == SelectSeq(ops, LAMBDA o : SourceTextOf(o) # {})
    IN  FoldLeft(LAMBDA s, o : Worsen(s, OperationVerdict(o).status), "ok", readable)

(* afterValueOf: readable source as text, the rest of the bag as JSON. *)
AfterValueOf(o) ==
    [after |-> CASE o.op = "writeScript" -> {"Source"}
                 [] o.op = "setProperty" -> DOMAIN o.bag
                 [] o.op = "createInstance" -> IF SourceTextOf(o) # {} THEN {"Source"} ELSE {}
                 [] OTHER -> {},
     properties |-> IF o.op = "createInstance"
                    THEN {p \in DOMAIN o.bag : p # "Source" \/ SourceTextOf(o) = {}} ELSE {}]

DaemonDiff(ops) ==
    [entries |-> [i \in DOMAIN ops |->
         [paths |-> PathsOf(ops[i]), destructive |-> IsDestructive(ops[i]),
          visible |-> AfterValueOf(ops[i])]],
     scripts |-> Cardinality({i \in DOMAIN ops : CarriesLuauSource(ops[i])})]

-----------------------------------------------------------------------------
(* The plugin's restatement *)

TouchedPaths(o) ==
    CASE o.op = "moveInstance" -> {o.path, o.to}
      [] o.op \in {"setProperty", "createInstance"} -> {o.path} \cup Refs(o)
      [] OTHER -> {o.path}

CarriesSource(o) ==
    CASE o.op = "writeScript" -> TRUE
      [] o.op \in {"setProperty", "createInstance"} -> "Source" \in DOMAIN o.bag
      [] OTHER -> FALSE

(* The one value of each property that provably stops a script. *)
Stopper == [Disabled |-> {"true"}, Enabled |-> {"false"}, RunContext |-> {}]

(* A slip the source tells of: Enabled is not in the table. *)
StartsWithoutEnabled(o) ==
    /\ o.op = "setProperty"
    /\ \E p \in DOMAIN o.bag \cap {"Disabled", "RunContext"} :
          ~(o.bag[p].t = "Bool" /\ o.bag[p].v \in Stopper[p])
StartsDormantCode(o) ==
    /\ o.op = "setProperty"
    /\ \E p \in DOMAIN o.bag \cap DOMAIN Stopper :
          ~(o.bag[p].t = "Bool" /\ o.bag[p].v \in Stopper[p])

(* Approve.evaluate: every reason why a person has to look. *)
Evaluate(ops, policy, claim) ==
    LET some(P(_)) == \E i \in DOMAIN ops : P(ops[i]) IN
    {b \in {"deletions", "source", "starts code", "off", "no verdict", "luau",
            "policy", "no scope", "outside"} :
       CASE b = "deletions" -> some(LAMBDA o : o.op = "deleteInstance")
         [] b = "source" -> some(CarriesSource)
         [] b = "starts code" -> some(StartsDormantCode)
         [] b = "off" -> ~policy.autoApply
         [] b = "no verdict" -> claim = "absent"
         [] b = "luau" -> claim = "luau fail"
         [] b = "policy" -> claim = "policy fail"
         [] b = "no scope" -> policy.autoApply /\ policy.scope = <<>>
         [] b = "outside" -> /\ policy.autoApply /\ policy.scope # <<>>
                             /\ \E i \in DOMAIN ops : \E p \in TouchedPaths(ops[i]) :
                                   ~IsPrefix(policy.scope, p)}

(* Diff.summarise: operations by kind, and those that install Luau. *)
Summarise(ops) ==
    [counts |-> [k \in {o.op : o \in ToSet(ops)} |->
                   Cardinality({i \in DOMAIN ops : ops[i].op = k})],
     scripts |-> Cardinality({i \in DOMAIN ops : CarriesSource(ops[i])})]

(* Widget.present: the destructive entries first. *)
PanelOrder(entries) ==
    LET pass(d) == SelectSeq(entries, LAMBDA e : e.destructive = d)
    IN  pass(TRUE) \o pass(FALSE)

-----------------------------------------------------------------------------
(* Diff.lines and Diff.lineDelta *)

(* A trailing newline ends the last line and starts no other. *)
SourceLines(source) ==
    LET step(ls, c) == IF c = "nl" THEN Append(ls, <<>>)
                       ELSE [ls EXCEPT ![Len(ls)] = Append(@, c)]
        all == FoldLeft(step, <<<<>>>>, source)
    IN  IF Len(all) > 1 /\ Last(all) = <<>> THEN Front(all) ELSE all

Shorter(a, b) == IF Len(a) < Len(b) THEN Len(a) ELSE Len(b)
Longest(S) == CHOOSE n \in S : \A m \in S : m <= n

CommonHead(a, b) ==
    Longest({n \in 0..Shorter(a, b) : \A i \in 1..n : a[i] = b[i]})
(* The tail does not run into the head. *)
CommonTail(a, b, head) ==
    Longest({n \in 0..(Shorter(a, b) - head) :
               \A i \in 1..n : a[Len(a) + 1 - i] = b[Len(b) + 1 - i]})

DeltaOf(a, b, head, tail) ==
    [removed |-> Len(a) - head - tail, added |-> Len(b) - head - tail,
     firstChangedLine |-> head + 1, unchanged |-> head + tail]
LinesDelta(a, b, head) == DeltaOf(a, b, head, CommonTail(a, b, head))
DeltaOfLines(a, b) == LinesDelta(a, b, CommonHead(a, b))
LineDelta(before, after) == DeltaOfLines(SourceLines(before), SourceLines(after))

(* preview: the first lines, and how many more there are. *)
FirstLines(all) ==
    IF Len(all) <= PreviewLines THEN [lines |-> all, more |-> 0]
    ELSE [lines |-> SubSeq(all, 1, PreviewLines), more |-> Len(all) - PreviewLines]

(* What the details carry of the source an operation installs.  A new      *)
(* source: how many lines it has and its first ones.  A rewrite: which     *)
(* region of the script that stands there changes, and no line of it.      *)
(* Anything but a String: only that there is a value.                      *)
NoCode == [kind |-> "none"]
Previewed(text) == [kind |-> "preview", count |-> Len(TextLines[text])] @@ FirstLines(TextLines[text])
Rewritten(old, text) == [kind |-> "delta", delta |-> DeltaOfLines(TextLines[old], TextLines[text])]
CodeDetail(o, standing) ==
    IF SourceTextOf(o) = {} THEN NoCode
    ELSE LET text == CHOOSE t \in SourceTextOf(o) : TRUE IN
         CASE o.op # "writeScript" \/ standing = Nothing -> Previewed(text)
           [] o.op = "writeScript" /\ standing = Other -> [kind |-> "unreadable"]
           [] OTHER -> Rewritten(standing, text)

(* The warning under an entry: the apply will not find what it needs. *)
Warned(o, standing) ==
    CASE o.op = "createInstance" -> standing # Nothing
      [] o.op = "writeScript" -> standing = Other
      [] o.op = "setProperty" ->
            standing = Nothing \/ (standing = Other /\ "Link" \notin DOMAIN o.bag)
      [] OTHER -> standing = Nothing

(* Diff.render: an entry per operation; the details name the properties    *)
(* written, by a description that clips long strings, and carry the code   *)
(* as CodeDetail says.                                                     *)
PluginDiff(ops, place) ==
    [entries |-> [i \in DOMAIN ops |->
         [index |-> i,
          destructive |-> ops[i].op \in {"deleteInstance", "moveInstance"},
          details |-> IF ops[i].op \in {"deleteInstance", "moveInstance"} THEN {}
                      ELSE DOMAIN ops[i].bag,
          code |-> CodeDetail(ops[i], place[ops[i].path]),
          warned |-> Warned(ops[i], place[ops[i].path])]],
     summary |-> Summarise(ops)]

Preview(source) == FirstLines(SourceLines(source))

-----------------------------------------------------------------------------
ReviewInit ==
    /\ reviewed = <<>>
    /\ shown = NotShown
    /\ was = <<>> /\ becomes = <<>>

AddOperation(o) ==
    /\ was = <<>> /\ becomes = <<>> /\ shown = NotShown
    /\ Len(reviewed) < MaxReviewed
    /\ reviewed' = Append(reviewed, o)
    /\ UNCHANGED <<shown, was, becomes>>

(* presentNext and Widget.present: the set is shown against the place as   *)
(* it stands, with the counts by kind (a script is a writeScript) and the  *)
(* buttons when somebody has to decide.                                    *)
Present(policy, claim, place) ==
    /\ reviewed # <<>> /\ shown = NotShown
    /\ shown' = LET blockers == Evaluate(reviewed, policy, claim) IN
                [offered |-> blockers # {}, blockers |-> blockers, policy |-> policy,
                 claim |-> claim, place |-> place,
                 printed |-> PluginDiff(reviewed, place).summary.counts,
                 order |-> PanelOrder(PluginDiff(reviewed, place).entries)]
    /\ UNCHANGED <<reviewed, was, becomes>>

(* A script grows in one of its two versions. *)
Edit(c) ==
    /\ reviewed = <<>>
    /\ \/ Len(was) < MaxSource /\ becomes = <<>> /\ was' = Append(was, c) /\ UNCHANGED becomes
       \/ Len(becomes) < MaxSource /\ becomes' = Append(becomes, c) /\ UNCHANGED was
    /\ UNCHANGED <<reviewed, shown>>

ReviewNext ==
    \/ \E o \in Reviewable : AddOperation(o)
    \/ \E policy \in Policies, claim \in ReportedVerdicts, place \in Standings : Present(policy, claim, place)
    \/ \E c \in {"a", "b", "nl"} : Edit(c)

-----------------------------------------------------------------------------
(* What the plugin lets through without a person is harmless by the        *)
(* protocol's own predicates, not only by their copy in the plugin: no     *)
(* deletion, no code, no script started, no path outside the scope, no     *)
(* failed verdict (Approve.evaluate against operation.ts).                 *)
AutoApplyIsHarmless ==
    (shown # NotShown /\ ~shown.offered) =>
       /\ shown.policy.autoApply /\ shown.claim \in {"ok", "warn"}
       /\ \A i \in DOMAIN reviewed :
             LET o == reviewed[i] IN
             /\ o.op # "deleteInstance"
             /\ ~CarriesLuauSource(o)
             /\ ActivatesExistingCode(o) =>
                   \E p \in DOMAIN o.bag : /\ o.bag[p].t = "Bool"
                                           /\ <<p, o.bag[p].v>> \in {<<"Disabled", "true">>,
                                                                    <<"Enabled", "false">>}
             /\ \A p \in PathsOf(o) : IsPrefix(shown.policy.scope, p)

(* d tells the lines a from the lines b. *)
Tells(d, a, b) ==
    /\ SubSeq(a, 1, d.firstChangedLine - 1) = SubSeq(b, 1, d.firstChangedLine - 1)
    /\ SubSeq(a, d.firstChangedLine + d.removed, Len(a))
          = SubSeq(b, d.firstChangedLine + d.added, Len(b))
    /\ d.removed >= 0 /\ d.added >= 0 /\ d.unchanged >= d.firstChangedLine - 1
    /\ (d.removed = 0 /\ d.added = 0) <=> a = b
    /\ (d.removed > 0 /\ d.added > 0) =>
          /\ a[d.firstChangedLine] # b[d.firstChangedLine]
          /\ a[d.firstChangedLine + d.removed - 1] # b[d.firstChangedLine + d.added - 1]

(* The entry says how much code its operation installs: a preview is the   *)
(* start of the source and announces the lines it leaves out, a rewrite    *)
(* names the exact region that changes, and what could be neither read nor *)
(* compared is warned about or has failed the daemon's verdict.            *)
CodeIsAccountedFor(o, e, standing) ==
    CarriesLuauSource(o) =>
      CASE e.code.kind = "none" -> OperationVerdict(o).status = "fail"
        [] e.code.kind = "unreadable" -> e.warned
        [] e.code.kind = "preview" ->
              \E t \in SourceTextOf(o) :
                 /\ IsPrefix(e.code.lines, TextLines[t])
                 /\ Len(e.code.lines) + e.code.more = Len(TextLines[t])
        [] e.code.kind = "delta" ->
              \E t \in SourceTextOf(o) : Tells(e.code.delta, TextLines[standing], TextLines[t])

(* Nothing in a set goes unmentioned: the panel lists every operation once,*)
(* the destructive ones first, names the properties the daemon's diff      *)
(* names, and accounts for all code, though it does not always show it.    *)
(* The count of scripts it prints knows writeScript only and may stay below*)
(* the daemon's; then the reason that names the code is on the panel       *)
(* (Widget.present, Diff.render, #diff).                                   *)
NothingIsHidden ==
    LET daemon == DaemonDiff(reviewed) IN
    shown # NotShown =>
       /\ Len(shown.order) = Len(reviewed)
       /\ {shown.order[i].index : i \in DOMAIN shown.order} = DOMAIN reviewed
       /\ \A i, j \in DOMAIN shown.order :
             shown.order[j].destructive /\ i < j => shown.order[i].destructive
       /\ \A i \in DOMAIN shown.order :
             LET e == shown.order[i]
                 d == daemon.entries[e.index]
                 o == reviewed[e.index]
             IN  /\ d.destructive = e.destructive
                 /\ ~IsDestructive(o) => d.visible.after \cup d.visible.properties = e.details
                 /\ CodeIsAccountedFor(o, e, shown.place[o.path])
       /\ Summarise(reviewed).scripts = daemon.scripts
       /\ daemon.scripts > 0 => "source" \in shown.blockers
       /\ "writeScript" \in DOMAIN shown.printed => shown.printed["writeScript"] <= daemon.scripts

(* The daemon vouches for no code that nobody read: a verdict that is not  *)
(* `fail' means each source the set installs was read and passed; a capped *)
(* list changes no verdict, and the pipeline's analyser, which sees the    *)
(* readable sources only, is never the stricter (luauVerdict,              *)
(* luauAnalyserFor).                                                       *)
NothingUnreadIsVouchedFor ==
    LET verdict == LuauVerdict(reviewed)
        texts == UNION {SourceTextOf(reviewed[i]) : i \in DOMAIN reviewed}
    IN  /\ verdict.status # "fail" =>
              \A i \in DOMAIN reviewed : CarriesLuauSource(reviewed[i]) =>
                 SourceTextOf(reviewed[i]) \cap {"clean", "suspect"} # {}
        /\ verdict.status = "ok" => texts \subseteq {"clean"}
        /\ verdict.findings <= MaxFindings
        /\ AnalyserPort(reviewed) = "fail" => verdict.status = "fail"

(* The change a reviewer is told about is the whole change: outside the    *)
(* reported region both versions read the same, and inside it neither end  *)
(* does (Diff.lineDelta).                                                  *)
DeltaIsTheChange ==
    /\ Tells(LineDelta(was, becomes), SourceLines(was), SourceLines(becomes))
    /\ Len(Preview(becomes).lines) + Preview(becomes).more = Len(SourceLines(becomes))

(* The four together: what reaches the place without a person is harmless, *)
(* and a person who lets a set through was told of every operation in it   *)
(* and of all the code, by its first lines or by the region it changes;    *)
(* the panel does not promise that the code itself could be read in full.  *)
ReviewIsHonest ==
    /\ AutoApplyIsHarmless
    /\ NothingIsHidden
    /\ NothingUnreadIsVouchedFor
    /\ DeltaIsTheChange
=============================================================================
