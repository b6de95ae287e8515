----------------------------- MODULE GrubScript -----------------------------
(***************************************************************************)
(* The interpreter of GRUB 2 configuration files: words and their          *)
(* expansion, statements, the built-in commands, Boot Loader Specification *)
(* files, and the choice of the default option.  A text is a sequence of   *)
(* atoms, " " and "=" among them; a word is a sequence of parts, text or   *)
(* variables (quoted or not); a statement is a record whose field k is its *)
(* kind.  st is the interpreter's state:                                   *)
(*   env, fns     variables and user functions,                            *)
(*   opts         the options made,                                        *)
(*   open, cur    the menu entries being executed, and which of them       *)
(*                script->opt is (beyond open: one that was dropped),      *)
(*   saved        the environment block on the disk (GrubEnv),             *)
(*   rc, depth    the latest result, the nesting of source,                *)
(*   moved        "default" was changed after the first option was made,   *)
(*   skipped      a BLS file without a kernel was seen,                    *)
(*   fault        freed statements are being executed.                     *)
(***************************************************************************)
EXTENDS Integers, Sequences, SequencesExt, TLC

CONSTANTS Statements,     \* what a file's statements are taken from
          MaxStatements,  \* bound: statements of the file
          KnownDevices,   \* uuid -> id of the devices found so far
          Files,          \* the files the tests find
          Sources,        \* the files source finds: their statements
          Unparsable,     \* the ones with a syntax error
          BlsFiles,       \* the BLS files, in the order they are read
          SavedEnv,       \* the environment block at the start
          SourceDepth     \* nesting limit of source (10 in the code)

VARIABLES st, length, done

vars == <<st, length, done>>

None == <<"(null)">>
NoRes == [dev |-> None, path |-> None, resolved |-> FALSE]
NewOption(name, id) ==
  [name |-> name, id |-> id, image |-> NoRes, initrd |-> NoRes, dtb |-> NoRes,
   args |-> <<>>, dflt |-> FALSE]

Get(s, name) == IF name \in DOMAIN s.env THEN s.env[name] ELSE None
Value(s, name) == IF name \in DOMAIN s.env THEN s.env[name] ELSE <<>>

ScriptEnvSet(s, name, value) ==
  [s EXCEPT !.env = (name :> value) @@ @,
            !.moved = @ \/ (name = <<"default">> /\ s.opts # <<>>
                            /\ Get(s, name) # value)]

---------------------------------------------------------------------------
(* Words.  A part that splits starts a new argument at each run of         *)
(* non-blanks but one its text begins with.                                *)

Glue(argv, text) == [argv EXCEPT ![Len(argv)] = @ \o text]

SplitOnto(argv, text) ==
  LET step(a, c) == IF c = " " THEN [a EXCEPT !.inside = FALSE]
                    ELSE [argv |-> IF a.inside THEN Glue(a.argv, <<c>>)
                                   ELSE Append(a.argv, <<c>>),
                          inside |-> TRUE]
  IN FoldLeft(step, [argv |-> argv, inside |-> text[1] # " "], text).argv

AppendWord(s, argv, part) ==
  LET text == IF part.t = "text" THEN part.v ELSE Value(s, part.v)
  IN IF text = <<>> THEN argv
     ELSE IF part.t = "split" THEN SplitOnto(argv, text) ELSE Glue(argv, text)

ProcessExpansions(s, words) ==
  FoldLeft(LAMBDA argv, w : FoldLeft(LAMBDA a, p : AppendWord(s, a, p),
                                     Append(argv, <<>>), w), <<>>, words)

JoinArgs(argv) ==
  IF argv = <<>> THEN <<>>
  ELSE FoldLeft(LAMBDA a, x : a \o <<" ">> \o x, argv[1], Tail(argv))

EqAt(text) == LET at == {i \in 1..Len(text) : text[i] = "="}
              IN IF at = {} THEN 0 ELSE CHOOSE i \in at : \A j \in at : i <= j

---------------------------------------------------------------------------
(* Devices, paths and resources.                                           *)

LookupDevice(text) ==
  IF text \in DOMAIN KnownDevices THEN KnownDevices[text]
  ELSE IF \E u \in DOMAIN KnownDevices : KnownDevices[u] = text THEN text ELSE None

ParseFile(text) ==
  LET close == {i \in 1..Len(text) : text[i] = ")"}
      pos   == CHOOSE i \in close : \A j \in close : i <= j
      part(a, b) == IF a > b THEN None ELSE SubSeq(text, a, b)
  IN IF text = <<>> \/ text[1] # "(" THEN [dev |-> None, path |-> text]
     ELSE IF close = {} THEN [dev |-> None, path |-> None]
     ELSE [dev |-> part(2, pos - 1), path |-> part(pos + 1, Len(text))]

CreateResource(s, text) ==
  LET file == ParseFile(text)
      root == Value(s, <<"root">>)
      name == IF file.dev = None /\ root # <<>> THEN root ELSE file.dev
      dev  == IF name = None THEN <<"self">> ELSE LookupDevice(name)
  IN IF \E i \in 1..Len(text) : text[i] = "://"
     THEN [dev |-> <<"url">>, path |-> text, resolved |-> TRUE]
     ELSE IF file.path = None THEN NoRes
     ELSE [dev |-> IF dev = None THEN name ELSE dev, path |-> file.path,
           resolved |-> dev # None]

(* A file test needs a device that is known and a path on it. *)
Exists(text) ==
  LET file == ParseFile(text)
      dev  == IF file.dev = None THEN <<"self">> ELSE LookupDevice(file.dev)
  IN dev # None /\ file.path # None /\ <<dev, file.path>> \in Files

---------------------------------------------------------------------------
(* Commands.  Each takes the state and its arguments after the name.       *)

Result(s, rc) == [s EXCEPT !.rc = rc]

BuiltinSet(s, args) ==
  IF args = <<>> \/ EqAt(args[1]) = 0 THEN Result(s, -1)
  ELSE LET e == EqAt(args[1])
       IN Result(ScriptEnvSet(s, SubSeq(args[1], 1, e - 1),
                   JoinArgs(<<SubSeq(args[1], e + 1, Len(args[1]))>> \o Tail(args))), 0)

(* linux, initrd and devicetree, inside a menu entry. *)
BuiltinLinux(s, args, field) ==
  LET res == CreateResource(s, args[1])
      set(o) == IF field = "image" THEN [o EXCEPT !.image = res, !.args = JoinArgs(Tail(args))]
                ELSE [o EXCEPT ![field] = res]
  IN IF s.cur = 0 \/ args = <<>> THEN Result(s, -1)
     ELSE IF s.cur > Len(s.open) THEN Result(s, 0)
     ELSE Result([s EXCEPT !.open[s.cur] = set(@)], 0)

(* Long options are atoms; "--set" has its value behind a "=". *)
BuiltinSearch(s, args) ==
  LET isOpt(a) == a # <<>> /\ a[1] \in {"--set", "--label", "--fs-uuid", "--file"}
      opts  == SelectSeq(args, isOpt)
      specs == SelectSeq(args, LAMBDA a : ~isOpt(a))
      sets  == SelectSeq(opts, LAMBDA a : a[1] = "--set")
      kinds == SelectSeq(opts, LAMBDA a : a[1] # "--set")
      var   == IF sets = <<>> THEN <<"root">>
               ELSE LET a == sets[Len(sets)] IN SubSeq(a, 3, Len(a))
      kind  == IF kinds = <<>> THEN "--fs-uuid" ELSE kinds[Len(kinds)][1]
      dev   == LookupDevice(specs[1])
  IN IF var = <<>> THEN Result(s, 0)
     ELSE IF specs = <<>> THEN Result(s, -1)
     ELSE IF kind # "--fs-uuid" THEN Result(s, 0)
     ELSE Result(ScriptEnvSet(s, var, IF dev = None THEN specs[1] ELSE dev), 0)

TestOp(args) ==
  IF Len(args) >= 3 /\ args[2] \in {<<"=">>, <<"==">>, <<"!=">>}
  THEN [n |-> 3, v |-> (args[1] = args[3]) # (args[2] = <<"!=">>)]
  ELSE IF Len(args) >= 2 /\ args[1] = <<"-z">> THEN [n |-> 2, v |-> args[2] = <<>>]
  ELSE IF Len(args) >= 2 /\ args[1] = <<"-n">> THEN [n |-> 2, v |-> args[2] # <<>>]
  ELSE IF Len(args) >= 2 /\ args[1] \in {<<"-s">>, <<"-f">>, <<"-e">>, <<"-d">>}
  THEN [n |-> 2, v |-> Exists(args[2])]
  ELSE [n |-> 1, v |-> args[1] # <<>>]

RECURSIVE Test(_, _, _)
Test(args, not, v) ==
  IF args = <<>> THEN v
  ELSE IF args[1] = <<"!">> THEN Test(Tail(args), TRUE, v)
  ELSE IF args[1] = <<"-a">> THEN v /\ Test(Tail(args), not, v)
  ELSE IF args[1] = <<"-o">> THEN v \/ Test(Tail(args), not, v)
  ELSE LET op == TestOp(args)
       IN Test(SubSeq(args, op.n + 1, Len(args)), FALSE, op.v # not)

BuiltinTest(s, name, args) ==
  LET n == Len(args)
      a == IF name = <<"[">> /\ n > 0 /\ args[n] = <<"]">> THEN Front(args) ELSE args
  IN Result(s, IF Test(a, FALSE, FALSE) THEN 0 ELSE 1)

LoadEnv(s) ==
  Result([FoldLeft(LAMBDA a, n : ScriptEnvSet(a, n, s.saved[n]), s,
                   SetToSeq(DOMAIN s.saved)) EXCEPT !.saved = s.saved], 0)

(* A disk that may not be written keeps its block. *)
SaveEnv(s, args) ==
  LET names == {args[i] : i \in 1..Len(args)}
  IN IF ~s.writable THEN Result(s, -1)
     ELSE Result([s EXCEPT !.saved = [n \in names |-> Value(s, n)] @@ @], 0)

---------------------------------------------------------------------------
(* Boot Loader Specification files and the default option.                 *)

Number(text) ==
  LET digits == <<"0", "1", "2", "3">>
  IN IF \E i \in 1..4 : text = <<digits[i]>>
     THEN (CHOOSE i \in 1..4 : text = <<digits[i]>>) - 1 ELSE -1

(* Mutant: the options are counted from one. *)
OptionIsDefaultFromOne(s, opt, idx) ==
  LET var == Get(s, <<"default">>)
  IN /\ var # None
     /\ IF Number(var) >= 0 THEN Number(var) = idx + 1 ELSE var \in {opt.id, opt.name}

(* Of a menuentry; idx options have been made before it. *)
OptionIsDefault(s, opt, idx) ==
  LET var == Get(s, <<"default">>)
  IN /\ var # None
     /\ IF Number(var) >= 0 THEN Number(var) = idx ELSE var \in {opt.id, opt.name}

(* Unset variables of a field add nothing; one made of them only is absent. *)
ExpandField(s, parts) ==
  LET set == SelectSeq(parts, LAMBDA p : p.t = "text" \/ Get(s, p.v) # None)
  IN IF set = <<>> THEN None
     ELSE FoldLeft(LAMBDA a, p : a \o IF p.t = "text" THEN p.v ELSE Get(s, p.v), <<>>, set)

BlsName(s, f) ==
  LET title == ExpandField(s, f.title)
      mach  == ExpandField(s, f.machine)
      vers  == ExpandField(s, f.version)
  IN IF title # None THEN title
     ELSE IF mach # None /\ vers # None THEN mach \o <<" ">> \o vers
     ELSE IF vers # None THEN vers ELSE ExpandField(s, f.linux)

BlsOptionIsDefault(s, opt, idx) ==
  LET var == Get(s, <<"default">>)
  IN var # None /\ (var \in {opt.id, opt.name} \/ Number(var) = idx)

BlsFinish(s, f, idx) ==
  LET new == [NewOption(BlsName(s, f), f.id) EXCEPT
                !.image = CreateResource(s, ExpandField(s, f.linux)),
                !.args = ExpandField(s, f.options)]
  IN IF ExpandField(s, f.linux) = None THEN [s EXCEPT !.skipped = TRUE]
     ELSE [s EXCEPT !.opts = Append(@, [new EXCEPT
                                          !.dflt = BlsOptionIsDefault(s, new, idx)])]

BlsFirst(s) == Len(s.opts)

(* The files up to the first that cannot be read. *)
Blscfg(s) ==
  LET bad == {i \in 1..Len(BlsFiles) : ~BlsFiles[i].readable}
      n   == IF bad = {} THEN Len(BlsFiles) ELSE (CHOOSE i \in bad : \A j \in bad : i <= j) - 1
      step(a, i) == BlsFinish(a, BlsFiles[i], BlsFirst(s) + i - 1)
  IN Result(FoldLeft(step, s, [i \in 1..n |-> i]),
            IF bad = {} /\ BlsFiles # <<>> THEN 0 ELSE -1)

---------------------------------------------------------------------------
(* Statements.                                                             *)

MenuId(argv) ==
  LET ids == {i \in 2..Len(argv) : argv[i] # <<>> /\ argv[i][1] = "--id"
                                   /\ (Len(argv[i]) > 2 \/ i < Len(argv))}
      i   == CHOOSE x \in ids : \A y \in ids : x <= y
  IN IF ids = {} THEN None
     ELSE IF Len(argv[i]) > 2 THEN SubSeq(argv[i], 3, Len(argv[i])) ELSE argv[i + 1]

RECURSIVE Exec(_, _)
RECURSIVE ExecAll(_, _)

StatementsExecute(s, stmts) == ExecAll(Result(s, 0), stmts)

ExecAll(s, stmts) ==
  IF stmts = <<>> \/ s.fault THEN s ELSE ExecAll(Exec(s, Head(stmts)), Tail(stmts))

Positional(s, args) ==
  LET names == <<<<"1">>, <<"2">>>>
  IN FoldLeft(LAMBDA a, i : ScriptEnvSet(a, names[i], args[i]), s,
              [i \in 1..Len(args) |-> i])

(* source: a failure to find the file returns 0, a success 1.  A file that *)
(* does not parse has the statements being executed freed.                 *)
BuiltinSource(s, args) ==
  LET file == ParseFile(args[1])
      path == file.path
  IN IF Len(args) # 1 \/ s.depth >= SourceDepth THEN Result(s, 0)
     ELSE IF file.dev # None /\ LookupDevice(file.dev) = None THEN Result(s, 0)
     ELSE IF path \in Unparsable THEN [s EXCEPT !.fault = TRUE]
     ELSE IF path \notin DOMAIN Sources THEN Result(s, 0)
     ELSE Result([StatementsExecute([s EXCEPT !.depth = @ + 1], Sources[path])
                    EXCEPT !.depth = s.depth], 1)

Command(s, name, args) ==
  CASE name = <<"set">>        -> BuiltinSet(s, args)
    [] name = <<"linux">>      -> BuiltinLinux(s, args, "image")
    [] name = <<"initrd">>     -> BuiltinLinux(s, args, "initrd")
    [] name = <<"devicetree">> -> BuiltinLinux(s, args, "dtb")
    [] name = <<"search">>     -> BuiltinSearch(s, args)
    [] name \in {<<"[">>, <<"test">>} -> BuiltinTest(s, name, args)
    [] name = <<"load_env">>   -> LoadEnv(s)
    [] name = <<"save_env">>   -> SaveEnv(s, args)
    [] name = <<"blscfg">>     -> Blscfg(s)
    [] name = <<"source">>     -> BuiltinSource(s, args)
    [] name \in {<<"true">>, <<"echo">>, <<"insmod">>} -> Result(s, 0)
    [] OTHER                   -> Result(s, 1)

ExecSimple(s, stmt) ==
  LET argv == ProcessExpansions(s, stmt.words)
      e    == EqAt(argv[1])
  IN IF e > 0
     THEN Result(ScriptEnvSet(s, SubSeq(argv[1], 1, e - 1),
                              SubSeq(argv[1], e + 1, Len(argv[1]))), 0)
     ELSE IF argv[1] \in DOMAIN s.fns
     THEN StatementsExecute(Positional(s, Tail(argv)), s.fns[argv[1]])
     ELSE Command(s, argv[1], Tail(argv))

(* The first conditional whose condition returns 0, else the else case. *)
RECURSIVE ExecIf(_, _, _)
ExecIf(s, conds, else) ==
  IF conds = <<>> THEN IF else = <<>> THEN s ELSE StatementsExecute(s, else)
  ELSE LET c == Exec(s, conds[1].cond)
       IN IF c.rc = 0 THEN StatementsExecute(c, conds[1].body)
          ELSE ExecIf(c, Tail(conds), else)

(* A menu entry's body is executed at once; without a kernel it is dropped *)
(* and stays the current option.                                           *)
ExecMenuentry(s, stmt) ==
  LET argv == ProcessExpansions(s, stmt.words)
      id   == MenuId(argv)
      n    == Len(s.open) + 1
      body == StatementsExecute([s EXCEPT !.open = Append(@, NewOption(argv[1], id)),
                                          !.cur = n], stmt.body)
      made == body.open[n]
      opt  == [made EXCEPT !.dflt = OptionIsDefault(body, made, Len(body.opts))]
      left == [body EXCEPT !.open = Front(@)]
  IN IF made.image = NoRes THEN Result(left, -1)
     ELSE Result([left EXCEPT !.opts = Append(@, opt), !.cur = 0], 0)

RECURSIVE ExecFor(_, _, _, _)
ExecFor(s, var, list, body) ==
  IF list = <<>> THEN s
  ELSE ExecFor(StatementsExecute(ScriptEnvSet(s, var, Head(list)), body),
               var, Tail(list), body)

Exec(s, stmt) ==
  CASE stmt.k = "simple"    -> ExecSimple(s, stmt)
    [] stmt.k = "block"     -> StatementsExecute(s, stmt.body)
    [] stmt.k = "if"        -> ExecIf(Result(s, 0), stmt.conds, stmt.else)
    [] stmt.k = "menuentry" -> ExecMenuentry(s, stmt)
    [] stmt.k = "function"  -> Result([s EXCEPT !.fns = (stmt.name :> stmt.body) @@ @], 0)
    [] stmt.k = "for"       -> ExecFor(Result(s, 0), stmt.var,
                                       ProcessExpansions(s, stmt.words), stmt.body)

---------------------------------------------------------------------------
(* A file, one statement after another.                                    *)

Init ==
  /\ \E w \in BOOLEAN :
       st = [env |-> (<<"feature_menuentry_id">> :> <<"y">>), fns |-> <<>>,
             opts |-> <<>>, open |-> <<>>, cur |-> 0, saved |-> SavedEnv, rc |-> 0,
             depth |-> 0, moved |-> FALSE, skipped |-> FALSE, fault |-> FALSE,
             writable |-> w]
  /\ length = 0
  /\ done = FALSE

Statement(stmt) ==
  /\ ~done /\ ~st.fault /\ length < MaxStatements
  /\ st' = Exec(st, stmt)
  /\ length' = length + 1
  /\ done' = done

SetFallbackDefault(opts) ==
  IF opts = <<>> \/ \E i \in 1..Len(opts) : opts[i].dflt THEN opts
  ELSE [opts EXCEPT ![1].dflt = TRUE]

End ==
  /\ ~done /\ ~st.fault
  /\ st' = [st EXCEPT !.opts = SetFallbackDefault(@)]
  /\ done' = TRUE
  /\ UNCHANGED length

Next == End \/ \E stmt \in Statements : Statement(stmt)

Spec == Init /\ [][Next]_vars

---------------------------------------------------------------------------
(* The options a file offers have the default that "default" names, by its *)
(* position in the whole menu, by id or by title, and the first option     *)
(* when it names none: wherever in the script the entries come from.  A    *)
(* script that changes "default" between its entries, and BLS files        *)
(* without a kernel, which are counted, are left out.                      *)
GrubDefault ==
  LET var   == Get(st, <<"default">>)
      opts  == st.opts
      named == {i \in 1..Len(opts) : \/ i - 1 = Number(var)
                                     \/ Number(var) < 0 /\ var \in {opts[i].id, opts[i].name}}
  IN done /\ opts # <<>> /\ ~st.moved /\ ~st.skipped =>
       {i \in 1..Len(opts) : opts[i].dflt} = IF var = None \/ named = {} THEN {1} ELSE named
=============================================================================
