----------------------------- MODULE PolicyFile -----------------------------
(***************************************************************************)
(* The repository policy .pr-approval-agent.yml: loadRepositoryPolicy      *)
(* fetches it from the base commit (app/policy.go), Parse reads it line by *)
(* line (policy/config.go), and whatever is wrong with it leads to the     *)
(* default policy and a warning.                                           *)
(*                                                                         *)
(* A line is what is left of it after its comment, its indentation and the *)
(* quotes of its value are taken off: its kind ("blank", "tab", "junk" for *)
(* one without a colon, "item", "pair"), its indentation, its key split at *)
(* the dots (<<>>: empty) and its value ("": empty).                       *)
(***************************************************************************)
EXTENDS Integers, Sequences, FiniteSets

CONSTANTS
  Lines,         \* the lines a file may be made of
  MaxLines,      \* bound: lines of a file
  DefaultRisky,  \* high_risk_paths of DefaultConfig
  DefaultTests   \* test_file_patterns of DefaultConfig

ASSUME LinesAssumption ==
  Lines \subseteq [kind : {"blank", "tab", "junk", "item", "pair"},
                   indent : Nat, key : Seq(STRING), value : STRING]
ASSUME DefaultsAssumption ==
  DefaultRisky \in Seq(STRING) /\ DefaultTests \in Seq(STRING)

VARIABLES
  stage,       \* "fetching", "reading", "loaded", "filtering"
  file,        \* history: the lines read so far
  cfg,         \* Parse: the configuration so far
  section,     \* Parse: key of the section, <<>>: none
  subsection,  \* Parse: key of the subsection, <<>>: none
  listKey,     \* Parse: full key of the list being read, <<>>: none
  policy,      \* the policy loadRepositoryPolicy returned
  warned       \* whether it returned a warning

policyVars == <<stage, file, cfg, section, subsection, listKey, policy, warned>>

DefaultConfig ==
  [version |-> 1, language |-> "en", provider |-> "default", model |-> "default",
   temperature |-> "none", enabled |-> FALSE, requireChangedTests |-> FALSE,
   ignoreFiles |-> <<>>, highRiskPaths |-> DefaultRisky,
   requireHumanWhen |-> <<>>, requiredChecks |-> <<>>,
   testFilePatterns |-> DefaultTests]

-----------------------------------------------------------------------------
(* Keys and values.                                                        *)

Lists == {"ignoreFiles", "highRiskPaths", "requireHumanWhen", "requiredChecks",
          "testFilePatterns"}

ListKeys == {<<"review", "ignore_files">>, <<"review", "high_risk_paths">>,
             <<"approval", "require_human_when">>,
             <<"approval", "required_checks">>,
             <<"tests", "test_file_patterns">>}

ListOf(key) ==
  CASE key = <<"review", "ignore_files">>         -> "ignoreFiles"
    [] key = <<"review", "high_risk_paths">>      -> "highRiskPaths"
    [] key = <<"approval", "require_human_when">> -> "requireHumanWhen"
    [] key = <<"approval", "required_checks">>    -> "requiredChecks"
    [] key = <<"tests", "test_file_patterns">>    -> "testFilePatterns"

Scalars == {"version", "language", "provider", "model", "temperature",
            "enabled", "requireChangedTests"}

\* The field a key assigns, "none" for a key assignScalar does not know.
ScalarOf(key) ==
  CASE key = <<"version">>                            -> "version"
    [] key = <<"review", "language">>                 -> "language"
    [] key = <<"approval", "auto_approve", "enabled">> -> "enabled"
    [] key \in {<<"tests", "require_changed_tests">>,
                <<"approval", "require_tests">>}      -> "requireChangedTests"
    [] key = <<"model", "provider">>                  -> "provider"
    [] key = <<"model", "model">>                     -> "model"
    [] key = <<"model", "temperature">>               -> "temperature"
    [] OTHER                                          -> "none"

\* strconv on the texts the lines use; "nan" is a number to ParseFloat.
Truths   == {"1", "t", "T", "TRUE", "true", "True"}
Untruths == {"0", "f", "F", "FALSE", "false", "False"}
Integer  == [text \in {"1", "+1", "2"} |-> IF text = "2" THEN 2 ELSE 1]
Number   == [text \in {"0.2", "3", "nan"} |->
               CASE text = "0.2" -> "inside" [] text = "3" -> "outside"
                 [] text = "nan" -> "nan"]

Parses(field, text) ==
  CASE field = "version"                            -> text \in DOMAIN Integer
    [] field \in {"enabled", "requireChangedTests"} -> text \in Truths \cup Untruths
    [] field = "temperature"                        -> text \in DOMAIN Number
    [] OTHER                                        -> TRUE

Parsed(field, text) ==
  CASE field = "version"                            -> Integer[text]
    [] field \in {"enabled", "requireChangedTests"} -> text \in Truths
    [] field = "temperature"                        -> Number[text]
    [] OTHER                                        -> text

AssignScalar(c, key, text) ==
  IF ScalarOf(key) = "none" THEN c
  ELSE [c EXCEPT ![ScalarOf(key)] = Parsed(ScalarOf(key), text)]

\* Mutant of AppendList: the defaults stay in front.
AppendToDefaults(c, key, text) == [c EXCEPT ![ListOf(key)] = Append(@, text)]

\* The defaults are recognised by their number.  Three of the lists have none,
\* and are appended to whatever their length.
AppendList(c, key, text) ==
  [c EXCEPT ![ListOf(key)] =
     Append(IF Len(@) = Len(DefaultConfig[ListOf(key)]) THEN <<>> ELSE @, text)]

\* A temperature that is not a number is neither below 0 nor above 2.
Valid(c) ==
  /\ c.version = 1
  /\ c.provider \in {"", "default", "openai", "openai-compatible", "deepseek",
                     "siliconflow", "ollama", "mock"}
  /\ c.temperature # "outside"

-----------------------------------------------------------------------------
(* Parse, one line at a time.                                              *)

FullKey(line) ==
  CASE line.indent = 2 -> section \o line.key
    [] line.indent = 4 -> section \o subsection \o line.key
    [] OTHER           -> line.key

BadItem(line) == listKey = <<>> \/ line.value = ""

BadPair(line) ==
  \/ line.key = <<>>
  \/ line.indent \notin {0, 2, 4}
  \/ line.indent \in {2, 4} /\ section = <<>>
  \/ line.indent = 4 /\ subsection = <<>>
  \/ line.value # "" /\ ~Parses(ScalarOf(FullKey(line)), line.value)

BadLine(line) ==
  \/ line.kind \in {"tab", "junk"}
  \/ line.kind = "item" /\ BadItem(line)
  \/ line.kind = "pair" /\ BadPair(line)

ReadBlank(line) ==
  /\ line.kind = "blank"
  /\ UNCHANGED <<cfg, section, subsection, listKey>>

ReadItem(line) ==
  /\ line.kind = "item" /\ ~BadItem(line)
  /\ cfg' = AppendList(cfg, listKey, line.value)
  /\ UNCHANGED <<section, subsection, listKey>>

\* Mutant of Subsection: a new section leaves the old subsection.
SubsectionKept(line) == IF line.indent = 2 THEN line.key ELSE subsection

Subsection(line) ==
  CASE line.indent = 0 -> <<>>
    [] line.indent = 2 -> line.key
    [] OTHER           -> subsection

OpensList(line) ==
  line.indent # 0 /\ line.value = "" /\ FullKey(line) \in ListKeys

ReadPair(line) ==
  /\ line.kind = "pair" /\ ~BadPair(line)
  /\ cfg' = IF line.value = "" THEN cfg
            ELSE AssignScalar(cfg, FullKey(line), line.value)
  /\ section' = IF line.indent = 0 THEN line.key ELSE section
  /\ subsection' = Subsection(line)
  /\ listKey' = IF OpensList(line) THEN FullKey(line) ELSE <<>>

ReadLine(line) ==
  /\ stage = "reading" /\ Len(file) < MaxLines
  /\ file' = Append(file, line)
  /\ ReadBlank(line) \/ ReadItem(line) \/ ReadPair(line)
  /\ UNCHANGED <<stage, policy, warned>>

-----------------------------------------------------------------------------
(* loadRepositoryPolicy.                                                   *)

Returns(loaded, warning) ==
  /\ stage' = "loaded" /\ policy' = loaded /\ warned' = warning
  /\ UNCHANGED <<cfg, section, subsection, listKey>>

\* Mutant of RejectFile: what was read before the error is used.
RejectFileLate == Returns(cfg, TRUE)

RejectFile == Returns(DefaultConfig, TRUE)

FileFound ==
  /\ stage = "fetching" /\ stage' = "reading"
  /\ UNCHANGED <<file, cfg, section, subsection, listKey, policy, warned>>

FileMissing ==
  /\ stage = "fetching" /\ Returns(DefaultConfig, FALSE) /\ UNCHANGED file

FetchFails ==
  /\ stage = "fetching" /\ Returns(DefaultConfig, TRUE) /\ UNCHANGED file

RejectLine(line) ==
  /\ stage = "reading" /\ Len(file) < MaxLines
  /\ BadLine(line)
  /\ file' = Append(file, line)
  /\ RejectFile

EndOfFile ==
  /\ stage = "reading"
  /\ IF Valid(cfg) THEN Returns(cfg, FALSE) ELSE RejectFile
  /\ UNCHANGED file

PolicyInit ==
  /\ stage = "fetching" /\ file = <<>>
  /\ cfg = DefaultConfig
  /\ section = <<>> /\ subsection = <<>> /\ listKey = <<>>
  /\ policy = DefaultConfig /\ warned = FALSE

LoadPolicy ==
  \/ FileFound \/ FileMissing \/ FetchFails \/ EndOfFile
  \/ \E line \in Lines : ReadLine(line) \/ RejectLine(line)

-----------------------------------------------------------------------------
(* What the lines say, read off the whole file.                            *)

Pairs == {i \in DOMAIN file : file[i].kind = "pair"}

Latest(set) == CHOOSE i \in set : \A j \in set : j <= i

KeyAt(set) == IF set = {} THEN <<>> ELSE file[Latest(set)].key

\* The section that line i stands in, and the subsection within the section.
Above(i, indent) == {j \in Pairs : j < i /\ file[j].indent = indent}
SectionOf(i)    == KeyAt(Above(i, 0))
SubsectionOf(i) ==
  KeyAt({j \in Above(i, 2) : \A k \in Above(i, 0) : k < j})

KeyOf(i) ==
  CASE file[i].indent = 0 -> file[i].key
    [] file[i].indent = 2 -> SectionOf(i) \o file[i].key
    [] OTHER              -> SectionOf(i) \o SubsectionOf(i) \o file[i].key

Assignments(field) ==
  {i \in Pairs : file[i].value # "" /\ ScalarOf(KeyOf(i)) = field}

\* The items of a list: those after its key, up to the next pair.
ItemLines(list) ==
  LET Key(i) == KeyOf(Latest({j \in Pairs : j < i})) IN
  {i \in DOMAIN file : /\ file[i].kind = "item"
                       /\ Key(i) \in ListKeys /\ ListOf(Key(i)) = list}

Nth(set, k) == CHOOSE i \in set : Cardinality({j \in set : j <= i}) = k

ItemsOf(list) ==
  [k \in 1 .. Cardinality(ItemLines(list)) |-> file[Nth(ItemLines(list), k)].value]

\* A list the file has no items for is that of the default policy.
Written(list) == IF ItemsOf(list) = <<>> THEN DefaultConfig[list] ELSE ItemsOf(list)

\* The policy in force is that of the file, or of a missing one.
Accepted == stage \notin {"fetching", "reading"} /\ ~warned

-----------------------------------------------------------------------------
(* Properties.                                                             *)

\* A setting of an accepted file is the one its last line for it gives, under
\* the sections that line stands in: auto approval is on only when enabled:
\* true stands in auto_approve of approval (README.md:275), and of the two
\* keys of RequireChangedTests the later one wins.
ScalarsAsWritten ==
  Accepted =>
    \A field \in Scalars :
      policy[field] =
        IF Assignments(field) = {} THEN DefaultConfig[field]
        ELSE Parsed(field, file[Latest(Assignments(field))].value)

\* A list no longer than the default one, or without a default, is taken as it
\* is written, whatever lines stand between its items: appendList puts the first
\* item in the place of the defaults.
ShortListsAsWritten ==
  Accepted =>
    \A list \in Lists :
      Len(ItemsOf(list)) <= Len(DefaultConfig[list]) \/ DefaultConfig[list] = <<>>
        => policy[list] = Written(list)

\* The same of a list of any length: config_test.go reads back the list it
\* wrote.
ListsAsWritten == Accepted => \A list \in Lists : policy[list] = Written(list)
=============================================================================
